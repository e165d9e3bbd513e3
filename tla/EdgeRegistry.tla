--------------------------- MODULE EdgeRegistry ----------------------------
(***************************************************************************)
(* The edge's registry: which publisher the traffic of an app is routed to. *)
(* Registrations are handled one at a time; a first registration is         *)
(* validated by fetching the app's manifest from the publisher, a           *)
(* deregistration drops the app, a heartbeat refreshes it.  The registry is *)
(* in memory.  One unit of time is ten seconds.                             *)
(*                                                                          *)
(* Every app here belongs to one identity and every request is signed by    *)
(* it: the module is about one owner's devices and their timing.            *)
(***************************************************************************)
EXTENDS Naturals, FiniteSets

CONSTANTS
    Nodes,      \* publisher devices of the identity
    Apps,       \* apps, each a manifest hash
    None,       \* "no node", "no app", ...
    TTL,        \* REGISTRY_TTL
    Skew        \* MAX_TIMESTAMP_SKEW_SECS

ASSUME EdgeAssumption ==
    /\ None \notin Nodes \cup Apps
    /\ TTL \in Nat /\ Skew \in Nat

VARIABLES
    edgeUp,     \* the edge process is running
    entry,      \* per app: the publisher and the time since it was last seen
    fetching    \* the request whose manifest is being fetched, or None

edgeVars == <<edgeUp, entry, fetching>>

NoEntry == [peer |-> None, age |-> 0]

\* Past its lifetime an entry only gets older.
Entry == [peer: Nodes \cup {None}, age: 0..(TTL + 1)]

EdgeInit == edgeUp = TRUE /\ entry = [a \in Apps |-> NoEntry] /\ fetching = None

\* Mutant: a stale entry still routes.
ResolveStale(a) == entry[a].peer

\* resolve: the publisher of an app whose registration is fresh.
Resolve(a) == IF entry[a].age <= TTL THEN entry[a].peer ELSE None

\* The edge takes the next request off its channel.
Free == edgeUp /\ fetching = None

\* A deregistration is a registration with timestamp zero.
Deregister(m) ==
    /\ Free /\ m.dereg
    /\ entry' = [entry EXCEPT ![m.app] = NoEntry]
    /\ UNCHANGED <<edgeUp, fetching>>

IsHeartbeat(m) == ~m.dereg /\ entry[m.app].peer = m.node

\* Mutant: a known publisher is acknowledged and its entry left as it is.
RefreshNothing(m) ==
    /\ Free /\ IsHeartbeat(m)
    /\ UNCHANGED edgeVars

\* From the peer already pinned: no validation, whatever the timestamp.
Refresh(m) ==
    /\ Free /\ IsHeartbeat(m)
    /\ entry' = [entry EXCEPT ![m.app].age = 0]
    /\ UNCHANGED <<edgeUp, fetching>>

IsFirst(m) == ~m.dereg /\ entry[m.app].peer # m.node

\* validate: refused at once when the timestamp is stale ...
RefuseStale(m) ==
    /\ Free /\ IsFirst(m) /\ m.age > Skew
    /\ UNCHANGED edgeVars

\* ... otherwise the manifest is fetched from the registering peer.
Fetch(m) ==
    /\ Free /\ IsFirst(m) /\ m.age <= Skew
    /\ fetching' = m
    /\ UNCHANGED <<edgeUp, entry>>

\* The manifest is the peer's to serve and names the signer: pin the app.
Pin ==
    /\ edgeUp /\ fetching # None
    /\ entry' = [entry EXCEPT ![fetching.app] = [peer |-> fetching.node, age |-> 0]]
    /\ fetching' = None
    /\ UNCHANGED edgeUp

RefuseFetch ==
    /\ edgeUp /\ fetching # None
    /\ fetching' = None
    /\ UNCHANGED <<edgeUp, entry>>

\* The registry dies with its process.
EdgeCrash ==
    /\ edgeUp /\ edgeUp' = FALSE
    /\ entry' = [a \in Apps |-> NoEntry] /\ fetching' = None

EdgeRestart == ~edgeUp /\ edgeUp' = TRUE /\ UNCHANGED <<entry, fetching>>

\* Time passes.
Older(n, bound) == IF n > bound THEN n ELSE n + 1

AgeEntries ==
    entry' = [a \in Apps |-> IF entry[a].peer = None THEN NoEntry
                             ELSE [entry[a] EXCEPT !.age = Older(@, TTL)]]
=============================================================================
