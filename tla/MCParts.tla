------------------------------ MODULE MCParts ------------------------------
(***************************************************************************)
(* Five parts that share no state, one of them at work in each behaviour   *)
(* and the others at rest.                                                 *)
(***************************************************************************)
EXTENDS HttpServing, AppRelease, RecordEdits, TempRename, AppPublishing, TLC

CONSTANTS page, script, x, y, d1, d2, a1, a2, b1, bob, n1, n2, peer

R(first, last) == [first |-> first, last |-> last]

\* A page gzip shortens and a script it does not.
MCFiles == {[data |-> page, len |-> 3, text |-> TRUE, packed |-> 2],
            [data |-> script, len |-> 2, text |-> TRUE, packed |-> 4]}

MCRanges == {R(1, 1), R(1, 9), R(2, 1), R(2, Nothing),
             R(Nothing, 1), R(Nothing, 9), R(Nothing, 0)}

Dir(index, logo, icon, refs) ==
    [files |-> ("index" :> index) @@ ("logo" :> logo) @@ ("icon" :> icon),
     refs |-> refs]

\* Two files that are equal, a smaller second version, a directory without an
\* index.html and one whose page names an asset that is not there.
MCDirectories ==
    {Dir(x, y, y, {"logo"}), Dir(y, x, Nil, {"logo"}), Dir(Nil, Nil, x, {}),
     Dir(x, Nil, Nil, {"icon"})}

\* Two callers on one device of the issuer, one on another.
MCHome == (a1 :> d1) @@ (a2 :> d1) @@ (b1 :> d2)
MCOffers == {[subject |-> bob, permissions |-> {"read"}, expires |-> 2]}
MCCards == {[name |-> n1, peer |-> peer], [name |-> n2, peer |-> peer]}

-----------------------------------------------------------------------------
VARIABLE part

MCVars == <<part, httpVars, appVars, editVars, storeVars, vars>>

HttpRest == HttpInit /\ front = "edge" /\ site = [k \in Keys |-> CHOOSE f \in Files : TRUE]
EditRest == EditInit /\ list = "contacts"

MCInit ==
    /\ part \in {"http", "release", "edits", "store", "lease"}
    /\ AppInit /\ StoreInit /\ Init
    /\ IF part = "http" THEN HttpInit ELSE HttpRest
    /\ IF part = "edits" THEN EditInit ELSE EditRest

MCNext ==
    \/ part = "http" /\ HttpNext /\ UNCHANGED <<part, appVars, editVars, storeVars, vars>>
    \/ part = "release" /\ AppNext /\ UNCHANGED <<part, httpVars, editVars, storeVars, vars>>
    \/ part = "edits" /\ EditNext /\ UNCHANGED <<part, httpVars, appVars, storeVars, vars>>
    \/ part = "store" /\ StoreNext /\ UNCHANGED <<part, httpVars, appVars, editVars, vars>>
    \/ part = "lease" /\ Next /\ UNCHANGED <<part, httpVars, appVars, editVars, storeVars>>

MCSpec == MCInit /\ [][MCNext]_MCVars
=============================================================================
