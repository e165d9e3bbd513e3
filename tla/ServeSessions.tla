--------------------------- MODULE ServeSessions ----------------------------
(***************************************************************************)
(* What a device promises of the sessions it serves apps with.  A session  *)
(* is of one device and one app from its start on.  A device has one       *)
(* session at a time; it serves until it is stopped, replaced or dies with *)
(* its device, and a session that left never serves again.                 *)
(***************************************************************************)
CONSTANTS
    Sessions,
    Nodes,      \* the devices
    Apps,
    None        \* "no session", "no device", "no app"

VARIABLES
    session,    \* per session: its phase, its device and its app
    current     \* per device: the session it serves with, or None

sessionVars == <<session, current>>

NotStarted == [phase |-> "new", node |-> None, app |-> None]

SessionInit ==
    /\ session = [s \in Sessions |-> NotStarted]
    /\ current = [n \in Nodes |-> None]

\* A new session takes the place of the one its device has.
Start(s, n, a) ==
    /\ session[s].phase = "new"
    /\ session' = [x \in Sessions |->
                     IF x = s THEN [phase |-> "serving", node |-> n, app |-> a]
                     ELSE IF x = current[n] THEN [session[x] EXCEPT !.phase = "leaving"]
                     ELSE session[x]]
    /\ current' = [current EXCEPT ![n] = s]

Leave(s, n) ==
    /\ current[n] = s /\ session[s].phase = "serving"
    /\ session' = [session EXCEPT ![s].phase = "leaving"]
    /\ current' = [current EXCEPT ![n] = None]

End(s) ==
    /\ session[s].phase = "leaving"
    /\ session' = [session EXCEPT ![s].phase = "over"]
    /\ UNCHANGED current

\* A device dies with all its sessions.
Die(n) ==
    /\ session' = [s \in Sessions |->
                     IF session[s].node = n THEN [session[s] EXCEPT !.phase = "over"]
                     ELSE session[s]]
    /\ current' = [current EXCEPT ![n] = None]

SessionNext ==
    \/ \E s \in Sessions, n \in Nodes : Leave(s, n) \/ \E a \in Apps : Start(s, n, a)
    \/ \E s \in Sessions : End(s)
    \/ \E n \in Nodes : Die(n)

SessionSpec == SessionInit /\ [][SessionNext]_sessionVars
=============================================================================
