----------------------------- MODULE MCDevice -------------------------------
(***************************************************************************)
(* Two things a device keeps, the content cache and the device list.  They *)
(* share no state: one is at work in each behaviour and the other rests,   *)
(* so each is fair only where it is at work.                               *)
(***************************************************************************)
EXTENDS ContentCache, DeviceList

VARIABLE part

MCVars == <<part, cacheVars, deviceVars>>

\* Devices that are on each other's list, and do nothing.
ListRest ==
    /\ cache = [d \in Devices |-> [number |-> 1, by |-> d, members |-> Devices, version |-> 1]]
    /\ pushed = cache /\ saves = 1
    /\ dht = {} /\ linked = {} /\ published = {} /\ edits = 0
    /\ edit = [d \in Devices |-> [t \in EditTasks |-> Resting]]

MCInit ==
    /\ part \in {"cache", "list"}
    /\ Init
    /\ IF part = "list" THEN ListInit ELSE ListRest

MCNext ==
    \/ part = "cache" /\ Next /\ UNCHANGED <<part, deviceVars>>
    \/ part = "list" /\ ListNext /\ UNCHANGED <<part, cacheVars>>

\* The fairness of CacheSpec and of DeviceSpec.
MCSpec ==
    /\ MCInit /\ [][MCNext]_MCVars
    /\ WF_cacheVars(part = "cache" /\ SweepStep) /\ WF_cacheVars(part = "cache" /\ Restart)
    /\ \A d \in Devices :
        /\ WF_deviceVars(part = "list" /\ PublishConnected(d))
        /\ WF_deviceVars(part = "list" /\ Reconcile(d))
        /\ WF_deviceVars(part = "list" /\ Connect(d))
        /\ WF_deviceVars(part = "list" /\ Sync(d))
        /\ \A t \in EditTasks : WF_deviceVars(part = "list" /\ SaveList(d, t))
=============================================================================
