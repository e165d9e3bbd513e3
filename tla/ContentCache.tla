---------------------------- MODULE ContentCache ---------------------------
(***************************************************************************)
(* The content cache: the objects of other identities a daemon holds, the   *)
(* index that tracks them and when each was last served, and the sidecar    *)
(* file the index is saved to.  Connections fetch and delete, the network   *)
(* loop takes in pushed objects and serves held ones, the daemon's sweep    *)
(* evicts, pairing brings in the records of another identity; each crosses  *)
(* the same store and index in several steps.  Every object has size one.   *)
(***************************************************************************)
EXTENDS Naturals, FiniteSets

CONSTANTS
    Objects,
    Own,        \* objects of the identity the daemon was born with
    Inherited,  \* records pairing brings, of the identity it moves to
    Conns,      \* connections
    Loop, Sweeper, Pairer,  \* the network loop, the sweep, the pairing handler
    None,       \* "no object"
    Cap,        \* cache_cap_bytes
    MaxClock,   \* bound: seconds
    Imports,    \* bound: objects brought in
    Crashes     \* bound: crashes

ASSUME CacheAssumption ==
    /\ Own \subseteq Objects /\ Inherited \subseteq Objects \ Own
    /\ None \notin Objects
    /\ Sweeper \notin Conns \cup {Loop, Pairer}
    /\ Cap \in Nat /\ MaxClock \in Nat \ {0} /\ Imports \in Nat /\ Crashes \in Nat

VARIABLES
    up,         \* the daemon runs
    paired,     \* whose key is in memory: FALSE for the one it was born with
    keyfile,    \* ... and on disk
    disk,       \* objects in the store
    index,      \* per object, when it was last served; 0 is untracked
    sidecar,    \* the saved index
    op,         \* operations in flight, one per task
    clock,
    budget      \* bound counters: imports and crashes left

cacheVars == <<up, paired, keyfile, disk, index, sidecar, op, clock, budget>>

Tasks == Conns \cup {Loop, Sweeper, Pairer}

Stages == {"idle", "lookup", "remote", "check", "put", "mark", "save", "touch",
           "total", "pick", "delete", "untrack", "key", "next"}

Idle == [kind |-> "none", stage |-> "idle", obj |-> None, todo |-> {}, failed |-> FALSE]

Op == [kind: {"none", "fetch", "push", "serve", "sweep", "delete", "pair"},
       stage: Stages, obj: Objects \cup {None}, todo: SUBSET Objects, failed: BOOLEAN]

\* The objects of the running identity.
Mine == IF paired THEN Inherited ELSE Own

Foreign == Objects \ Mine

Tracked(ix) == {o \in Objects : ix[o] # 0}

Nothing == [o \in Objects |-> 0]

Init ==
    /\ up = TRUE /\ paired = FALSE /\ keyfile = FALSE
    /\ disk = Own /\ index = Nothing /\ sidecar = Nothing
    /\ op = [t \in Tasks |-> Idle]
    /\ clock = 1
    /\ budget = [imports |-> Imports, crashes |-> Crashes]

Begin(t, kind, stage, o) ==
    /\ up /\ op[t].stage = "idle"
    /\ op' = [op EXCEPT ![t] = [Idle EXCEPT !.kind = kind, !.stage = stage, !.obj = o]]

Goto(t, stage) == op' = [op EXCEPT ![t].stage = stage]

\* A connection remembers that its command failed, the others only go on.
Finish(t, failed) == op' = [op EXCEPT ![t] = [Idle EXCEPT !.failed = failed]]

At(t, stage) == up /\ op[t].stage = stage

-----------------------------------------------------------------------------
(* Bringing objects in: fetch_object and import, a push, pairing.           *)

BeginFetch(t, o) ==
    /\ budget.imports > 0
    /\ Begin(t, "fetch", "lookup", o)
    /\ budget' = [budget EXCEPT !.imports = @ - 1]
    /\ UNCHANGED <<up, paired, keyfile, disk, index, sidecar, clock>>

\* A peer may push what it owns; the loop handles one request at a time.
BeginPush(o) ==
    /\ budget.imports > 0
    /\ Begin(Loop, "push", "put", o)
    /\ budget' = [budget EXCEPT !.imports = @ - 1]
    /\ UNCHANGED <<up, paired, keyfile, disk, index, sidecar, clock>>

\* The store is asked first.
Lookup(t) ==
    /\ At(t, "lookup")
    /\ IF op[t].obj \in disk THEN Finish(t, FALSE) ELSE Goto(t, "remote")
    /\ UNCHANGED <<up, paired, keyfile, disk, index, sidecar, clock, budget>>

\* A peer answers with the object, or nobody has it.
Remote(t) ==
    /\ At(t, "remote")
    /\ Goto(t, "check") \/ Finish(t, FALSE)
    /\ UNCHANGED <<up, paired, keyfile, disk, index, sidecar, clock, budget>>

\* import: "Object already exists".
CheckExists(t) ==
    /\ At(t, "check")
    /\ IF op[t].obj \in disk THEN Finish(t, TRUE) ELSE Goto(t, "put")
    /\ UNCHANGED <<up, paired, keyfile, disk, index, sidecar, clock, budget>>

\* Mutant: whatever is imported is cached content.
CachedAnyway(t) == TRUE

\* Only another identity's object is cached content; the records pairing brings
\* are marked without asking, under the identity the daemon was born with.
Cached(t) == op[t].obj \in Foreign \/ op[t].kind = "pair"

\* storage.import or put_verified: the file is renamed into place.
Put(t) ==
    /\ At(t, "put")
    /\ disk' = disk \cup {op[t].obj}
    /\ IF Cached(t) THEN Goto(t, "mark") ELSE Finish(t, FALSE)
    /\ UNCHANGED <<up, paired, keyfile, index, sidecar, clock, budget>>

\* mark_cached, up to the save.
Mark(t) ==
    /\ At(t, "mark")
    /\ index' = [index EXCEPT ![op[t].obj] = clock]
    /\ Goto(t, "save")
    /\ UNCHANGED <<up, paired, keyfile, disk, sidecar, clock, budget>>

AfterSave(t) ==
    CASE op[t].kind = "sweep" -> Goto(t, "total")
      [] op[t].kind = "pair"  -> Goto(t, "next")
      [] OTHER                -> Finish(t, FALSE)

\* persist: the index is locked while it is written and renamed into place, so
\* what is saved is the index as it is when the rename happens.
Save(t) ==
    /\ At(t, "save")
    /\ sidecar' = index
    /\ AfterSave(t)
    /\ UNCHANGED <<up, paired, keyfile, disk, index, clock, budget>>

\* accept_pairing: the key file first, then the records one by one.
BeginPairing ==
    /\ Inherited # {} /\ ~keyfile
    /\ Begin(Pairer, "pair", "key", None)
    /\ UNCHANGED <<up, paired, keyfile, disk, index, sidecar, clock, budget>>

ReplaceKey ==
    /\ At(Pairer, "key")
    /\ keyfile' = TRUE
    /\ op' = [op EXCEPT ![Pairer].stage = "next", ![Pairer].todo = Inherited]
    /\ UNCHANGED <<up, paired, disk, index, sidecar, clock, budget>>

NextRecord ==
    /\ At(Pairer, "next")
    /\ \/ op[Pairer].todo = {} /\ Finish(Pairer, FALSE)
       \/ \E o \in op[Pairer].todo :
             op' = [op EXCEPT ![Pairer].stage = "put", ![Pairer].obj = o,
                              ![Pairer].todo = @ \ {o}]
    /\ UNCHANGED <<up, paired, keyfile, disk, index, sidecar, clock, budget>>

-----------------------------------------------------------------------------
(* Serving.                                                                 *)

\* get_object answers a tracked object; what else it serves is HomeLedger's.
BeginServe(o) ==
    /\ o \in disk /\ index[o] # 0
    /\ Begin(Loop, "serve", "touch", o)
    /\ UNCHANGED <<up, paired, keyfile, disk, index, sidecar, clock, budget>>

\* Mutant: the refresh enters an object that was evicted meanwhile.
TouchInserts ==
    /\ At(Loop, "touch")
    /\ index' = [index EXCEPT ![op[Loop].obj] = clock]
    /\ Finish(Loop, FALSE)
    /\ UNCHANGED <<up, paired, keyfile, disk, sidecar, clock, budget>>

\* touch_served: only an object still tracked is refreshed; nothing is saved.
Touch ==
    /\ At(Loop, "touch")
    /\ index' = [index EXCEPT ![op[Loop].obj] = IF @ = 0 THEN 0 ELSE clock]
    /\ Finish(Loop, FALSE)
    /\ UNCHANGED <<up, paired, keyfile, disk, sidecar, clock, budget>>

-----------------------------------------------------------------------------
(* Evicting: the sweep and delete_object.                                   *)

\* What the index tracks and the store holds.
Held == Tracked(index) \cap disk

\* Mutant: one object more than the cap is tolerated.
OverCapByTwo == Cardinality(Held) > Cap + 1

OverCap == Cardinality(Held) > Cap

BeginSweep ==
    /\ Begin(Sweeper, "sweep", "total", None)
    /\ UNCHANGED <<up, paired, keyfile, disk, index, sidecar, clock, budget>>

Total ==
    /\ At(Sweeper, "total")
    /\ IF OverCap THEN Goto(Sweeper, "pick") ELSE Finish(Sweeper, FALSE)
    /\ UNCHANGED <<up, paired, keyfile, disk, index, sidecar, clock, budget>>

\* The least recently served; objects served in the same second in any order.
Pick ==
    /\ At(Sweeper, "pick")
    /\ \/ Held = {} /\ Finish(Sweeper, FALSE)
       \/ \E o \in Held :
             /\ \A p \in Held : index[o] <= index[p]
             /\ op' = [op EXCEPT ![Sweeper].stage = "delete", ![Sweeper].obj = o]
    /\ UNCHANGED <<up, paired, keyfile, disk, index, sidecar, clock, budget>>

\* delete_object of an own object of the running identity.
BeginDelete(t, o) ==
    /\ o \in disk \cap Mine
    /\ Begin(t, "delete", "delete", o)
    /\ UNCHANGED <<up, paired, keyfile, disk, index, sidecar, clock, budget>>

\* evict: the file, then the index entry, then the sidecar.
DeleteFile(t) ==
    /\ At(t, "delete")
    /\ disk' = disk \ {op[t].obj}
    /\ Goto(t, "untrack")
    /\ UNCHANGED <<up, paired, keyfile, index, sidecar, clock, budget>>

Untrack(t) ==
    /\ At(t, "untrack")
    /\ index' = [index EXCEPT ![op[t].obj] = 0]
    /\ Goto(t, "save")
    /\ UNCHANGED <<up, paired, keyfile, disk, sidecar, clock, budget>>

-----------------------------------------------------------------------------
Saving == {t \in Tasks : op[t].stage = "save"}

\* Two saves share one temporary file: a crash can then leave the sidecar cut
\* short, and a corrupt sidecar loads as an empty index.
Crash ==
    /\ up /\ budget.crashes > 0
    /\ up' = FALSE /\ op' = [t \in Tasks |-> Idle]
    /\ \/ sidecar' = sidecar
       \/ Cardinality(Saving) > 1 /\ sidecar' = Nothing
    /\ budget' = [budget EXCEPT !.crashes = @ - 1]
    /\ index' = Nothing
    /\ UNCHANGED <<paired, keyfile, disk, clock>>

Restart ==
    /\ ~up /\ up' = TRUE
    /\ paired' = keyfile /\ index' = sidecar
    /\ UNCHANGED <<keyfile, disk, sidecar, op, clock, budget>>

Second ==
    /\ clock < MaxClock /\ clock' = clock + 1
    /\ UNCHANGED <<up, paired, keyfile, disk, index, sidecar, op, budget>>

TaskStep(t) ==
    \/ Lookup(t) \/ Remote(t) \/ CheckExists(t) \/ Put(t) \/ Mark(t) \/ Save(t)
    \/ DeleteFile(t) \/ Untrack(t)

SweepStep == BeginSweep \/ Total \/ Pick \/ TaskStep(Sweeper)

Next ==
    \/ \E t \in Conns, o \in Objects : BeginFetch(t, o) \/ BeginDelete(t, o)
    \/ \E o \in Objects : BeginPush(o) \/ BeginServe(o)
    \/ BeginPairing \/ ReplaceKey \/ NextRecord
    \/ \E t \in Tasks \ {Sweeper} : TaskStep(t)
    \/ Touch \/ SweepStep
    \/ Crash \/ Restart \/ Second

\* The sweep's interval ticks forever; a daemon that died is started again.
CacheSpec == Init /\ [][Next]_cacheVars /\ WF_cacheVars(SweepStep) /\ WF_cacheVars(Restart)

-----------------------------------------------------------------------------
(* Properties.                                                              *)

\* Type correctness of the store, the index and the operations.
TypeOK ==
    /\ up \in BOOLEAN /\ paired \in BOOLEAN /\ keyfile \in BOOLEAN
    /\ disk \subseteq Objects
    /\ index \in [Objects -> 0..MaxClock] /\ sidecar \in [Objects -> 0..MaxClock]
    /\ op \in [Tasks -> Op]
    /\ clock \in 1..MaxClock
    /\ budget \in [imports: 0..Imports, crashes: 0..Crashes]

\* The sweep "never touches objects owned by this node's own identity"
\* (canopee-node/src/lib.rs:130): what it has picked is another identity's.
SweepSparesOwn == op[Sweeper].stage = "delete" => op[Sweeper].obj \in Foreign

\* Until pairing replaces the identity, that does hold: what the sweep deletes
\* was not authored here, whatever was fetched, pushed, deleted or reloaded.
UnpairedSweepSparesOwn == ~paired => SweepSparesOwn

\* Between an edit of the index and its save an operation is under way: with
\* none, a restart would track exactly what is tracked now.
SidecarIsCurrent == up /\ Saving = {} => Tracked(sidecar) = Tracked(index)

\* Cached content over the cap is evicted again, whatever is fetched, pushed,
\* served or restarted meanwhile (docs/concepts/networking.md:45).
CapRestored ==
    (up /\ Cardinality(Held) > Cap) ~> (up /\ Cardinality(Held) <= Cap)

\* cache.rs:9: the index records which stored objects are fetched from another
\* peer: with nothing under way it tracks every object of another identity.
ForeignIsTracked ==
    up /\ (\A t \in Tasks : op[t].stage = "idle") => disk \cap Foreign \subseteq Tracked(index)

\* sharing.rs:215: fetch_object imports the object a peer sent and returns it.
FetchedIsReturned == \A t \in Conns : ~op[t].failed
=============================================================================
