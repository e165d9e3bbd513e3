---------------------------- MODULE HomeSharing ----------------------------
(***************************************************************************)
(* What the network sees of a daemon's shares.  Composes HomeLedger with    *)
(* the (owner, "entry:<name>") pointers that make a shared name resolvable  *)
(* and the DHT provider records that make an object id discoverable.        *)
(* reconcile_shared spawns one task per announce and per withdrawal; the    *)
(* tasks run in any order.  Each action is the HomeLedger action together   *)
(* with what it does to the network's side.                                 *)
(***************************************************************************)
EXTENDS HomeLedger

VARIABLES
    entryPtr,   \* what each (owner, "entry:<name>") record file names
    providing,  \* keys this node provides in the DHT, lost in a crash
    sends       \* spawned announce/unannounce tasks that have not run yet

network == <<entryPtr, providing, sends>>
vars == <<ledgerVars, network>>

Send == [kind: {"announce", "unannounce"}, id: Objects]

Added(o) == SharedIds(o.index) \ SharedIds(o.previous)

Removed(o) == SharedIds(o.previous) \ SharedIds(o.index)

SharingInit ==
    /\ Init
    /\ entryPtr = [n \in Names |-> None]
    /\ providing = {} /\ sends = {}

\* reconcile_shared: one spawned task per object whose flag changed.
SpawnSends(t) ==
    /\ Reconcile(t)
    /\ sends' = sends \cup [kind: {"announce"}, id: Added(op[t])]
                      \cup [kind: {"unannounce"}, id: Removed(op[t])]
    /\ UNCHANGED <<entryPtr, providing>>

\* publish_entry_pointer: only shares write these records, nothing erases them.
WriteEntryPointer(t) ==
    /\ PublishEntry(t)
    /\ entryPtr' = [entryPtr EXCEPT ![op[t].name] = op[t].id]
    /\ UNCHANGED <<providing, sends>>

\* evict awaits the withdrawal itself.
Unannounce(t) ==
    /\ EvictWithdraw(t)
    /\ providing' = providing \ {op[t].id}
    /\ UNCHANGED <<entryPtr, sends>>

\* announce awaits the provider command itself.
Announce(t) ==
    /\ Provide(t)
    /\ providing' = providing \cup {op[t].id}
    /\ UNCHANGED <<entryPtr, sends>>

\* A spawned task hands its command to the event loop.
RunSend(s) ==
    /\ s \in sends
    /\ sends' = sends \ {s}
    /\ providing' = IF s.kind = "announce" THEN providing \cup {s.id}
                                           ELSE providing \ {s.id}
    /\ UNCHANGED <<ledgerVars, entryPtr>>

CrashSharing ==
    /\ Crash
    /\ providing' = {} /\ sends' = {}
    /\ UNCHANGED entryPtr

\* Mutant: the reseed marks objects served but announces none.
ReopenSilent ==
    /\ Restart
    /\ UNCHANGED network

\* The reseed of open_with_config goes through reconcile_shared too.
Reopen ==
    /\ Restart
    /\ sends' = [kind: {"announce"}, id: shared']
    /\ UNCHANGED <<entryPtr, providing>>

LocalStep(t) ==
    /\ \/ LoadHome(t) \/ LoadPrevious(t) \/ WriteTmp(t) \/ Rename(t)
       \/ DeleteLoad(t) \/ EvictFile(t) \/ EvictHome(t)
    /\ UNCHANGED network

SharingStep(t) ==
    \/ LocalStep(t) \/ SpawnSends(t) \/ WriteEntryPointer(t)
    \/ Unannounce(t) \/ Announce(t)

SharingNext ==
    \/ \E id \in Objects : Store(id) /\ UNCHANGED network
    \/ \E t \in Tasks : Command(t) /\ UNCHANGED network
    \/ \E t \in Tasks : SharingStep(t)
    \/ \E s \in sends : RunSend(s)
    \/ CrashSharing \/ Reopen

\* tokio runs every task that is ready and a push to a peer ends by the
\* request timeout; the service unit (deploy/) restarts a daemon that died.
Fairness ==
    /\ \A t \in Tasks : WF_vars(SharingStep(t))
    /\ \A s \in Send : WF_vars(RunSend(s))
    /\ WF_vars(Reopen)

Spec == SharingInit /\ [][SharingNext]_vars /\ Fairness

-----------------------------------------------------------------------------
(* Properties.                                                              *)

AllQuiet == \A t \in Tasks : op[t].stage = "idle"

\* Shared entries survive a restart (open_with_config, lib.rs:247): once the
\* daemon is down with a readable ledger, every object it marks shared is
\* eventually provided again.
SharesSurviveRestart ==
    \A id \in Objects :
        (~up /\ Readable /\ id \in SharedIds(home)) ~> (id \in providing)

\* share_object_for (sharing.rs:157): the ledger is saved before the name is
\* published, so whenever an entry pointer changes, the ledger on disk shares
\* that object under that name: a crash in between leaves a name that does not
\* resolve yet, never one that resolves to something the ledger does not share.
NamePublishedAfterShare ==
    [][\A n \in Names : entryPtr'[n] # entryPtr[n] =>
            n \in home.shared /\ home.object[n] = entryPtr'[n]]_vars

\* What NamePublishedAfterShare rests on: from the edit of the loaded ledger to
\* the publication of its name, a share carries the entry it is about to name.
NamesInOrder == \A t \in Writers :
    /\ op[t].stage = "entry" => op[t].kind \in {"share", "set"} /\ op[t].flag
    /\ op[t].kind \in {"share", "set"} /\ op[t].flag =>
          /\ op[t].stage \in {"save", "write", "rename", "reconcile"} =>
                op[t].name \in op[t].index.shared /\ op[t].index.object[op[t].name] = op[t].id
          /\ op[t].stage = "entry" =>
                op[t].name \in home.shared /\ home.object[op[t].name] = op[t].id

\* Whatever the daemon provides in the DHT it serves, or a withdrawal is still
\* on its way: what docs/concepts/sharing.md:50 says unsharing does.
ProvidedIsServed ==
    up /\ AllQuiet /\ sends = {} => providing \subseteq shared

\* docs/concepts/sharing.md:51: unsharing removes the entry pointer.
UnsharedNameDoesNotResolve ==
    up /\ AllQuiet => \A n \in Names : entryPtr[n] # None => n \in home.shared
=============================================================================
