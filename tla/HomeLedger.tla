---------------------------- MODULE HomeLedger ----------------------------
(***************************************************************************)
(* One canopee daemon and what it serves: the home index (the share ledger, *)
(* an immutable object named by the (owner, "home") pointer), the in-memory *)
(* set of objects the object exchange serves, and the daemon operations     *)
(* that have to keep the two together.  HomeSharing adds what the network   *)
(* sees of it: entry pointers and DHT provider records.                     *)
(*                                                                          *)
(* Every connection of the daemon's socket is a tokio task, and no lock     *)
(* spans an operation, so operations interleave at their awaits.  A task in *)
(* flight is a record of its stage and of what it has read; one action runs *)
(* a task from one await that matters to the next.                          *)
(***************************************************************************)
EXTENDS Naturals, FiniteSets

CONSTANTS
    Tasks,      \* connection tasks of the daemon
    Writers,    \* the tasks whose commands write the home index
    Names,      \* entry names
    Own,        \* objects signed by this node's identity
    Foreign,    \* objects of other identities, kept as a cache
    None,       \* "no object"
    Aliasing,   \* may an object be listed under several names?
    AppIndexes, \* the indexes an application may ask the daemon to save
    MaxVersion, \* bound: home index saves
    MaxCrashes  \* bound: crashes of the daemon

Objects == Own \cup Foreign

-----------------------------------------------------------------------------
(* Home indexes are values: an object id is the hash of its content.        *)

Listed(i) == {n \in Names : i.object[n] # None}

Index ==
    {i \in [object: [Names -> Objects \cup {None}], shared: SUBSET Names, version: Nat] :
        i.shared \subseteq Listed(i)}

NoHome == [object |-> [n \in Names |-> None], shared |-> {}, version |-> 0]

SharedIds(i) == {i.object[n] : n \in i.shared}

Upsert(i, n, id) == [i EXCEPT !.object[n] = id, !.shared = @ \cup {n}]

SetFlag(i, n, flag) ==
    [i EXCEPT !.shared = IF flag THEN @ \cup {n} ELSE @ \ {n}]

\* Mutant: the entry goes, its flag stays.
RemoveEntryKeepsFlag(i, n) == [i EXCEPT !.object[n] = None]

RemoveEntry(i, n) == [i EXCEPT !.object[n] = None, !.shared = @ \ {n}]

Injective(i) == \A m, n \in Listed(i) : i.object[m] = i.object[n] => m = n

ASSUME HomeAssumption ==
    /\ Writers \subseteq Tasks
    /\ None \notin Objects
    /\ Own \cap Foreign = {}
    /\ Aliasing \in BOOLEAN
    /\ \A i \in AppIndexes : i \in Index /\ (Aliasing \/ Injective(i))
    /\ MaxVersion \in Nat /\ MaxCrashes \in Nat

VARIABLES
    up,         \* the daemon process is running
    crashes,    \* bound counter
    stored,     \* blobs in the content-addressed store
    indexes,    \* home index objects in the same store
    home,       \* what the (owner, "home") record file names
    tmp,        \* the record's temporary file, shared by every publisher
    shared,     \* SharedSet: served to any peer that asks, lost in a crash
    asked,      \* history: ids announced by a user and not withdrawn since
    op          \* the operation each task has in flight

disk == <<stored, indexes, home, tmp>>
served == <<shared, asked>>
ledgerVars == <<up, crashes, disk, served, op>>

-----------------------------------------------------------------------------
\* load_home_index answers None or the index, and fails when the object the
\* record names cannot be read.
Readable == home = NoHome \/ home \in indexes

\* Once no record, temporary file or task names an index it cannot be read
\* again; the model forgets those.
Named(i) ==
    \/ i \in {home, tmp}
    \/ \E t \in Tasks : i \in {op[t].index, op[t].oldHome}

-----------------------------------------------------------------------------
(* Operations in flight.                                                    *)

Stages == {"idle", "load", "save", "write", "rename", "reconcile", "entry",
           "deload", "evict", "withdraw", "evicthome", "provide"}

Idle == [stage |-> "idle", kind |-> "none", name |-> None, id |-> None,
         flag |-> FALSE, index |-> NoHome, previous |-> NoHome, oldHome |-> NoHome]

Requests ==
    [stage: Stages, kind: {"none", "share", "set", "save", "delete", "sweep", "announce"},
     name: Names \cup {None}, id: Objects \cup {None}, flag: BOOLEAN,
     index: Index, previous: Index, oldHome: Index]

\* A task about to edit a loaded ledger knows the entry.
Op == {o \in Requests : o.stage = "load" =>
          /\ o.kind \in {"share", "set"} /\ o.name \in Names
          /\ o.kind = "share" => o.id \in Objects}

Goto(t, stage) == op' = [op EXCEPT ![t].stage = stage]

Finish(t) == op' = [op EXCEPT ![t] = Idle]

Begin(t, request) ==
    /\ up /\ op[t] = Idle
    /\ op' = [op EXCEPT ![t] = request]

\* A command that may save the home index.
BeginWriter(t, request) ==
    /\ t \in Writers
    /\ home.version < MaxVersion
    /\ Begin(t, request)

Init ==
    /\ up = TRUE /\ crashes = 0
    /\ stored = {} /\ indexes = {}
    /\ home = NoHome /\ tmp = NoHome
    /\ shared = {} /\ asked = {}
    /\ op = [t \in Tasks |-> Idle]

-----------------------------------------------------------------------------
(* The store: put, put_object_for, import and a peer's push add an object.  *)

Store(id) ==
    /\ up /\ id \notin stored
    /\ stored' = stored \cup {id}
    /\ UNCHANGED <<up, crashes, indexes, home, tmp, served, op>>

-----------------------------------------------------------------------------
(* share_object_for: the object must be readable; with recipients a sealed  *)
(* copy is stored under a new id and that copy is the one listed.           *)

BeginShare(t, n, id, sharedId) ==
    /\ id \in stored
    /\ \/ sharedId = id /\ UNCHANGED stored
       \/ /\ sharedId \in Own \ stored
          /\ stored' = stored \cup {sharedId}
    /\ Aliasing \/ \A m \in Names \ {n} : home.object[m] # sharedId
    /\ BeginWriter(t, [Idle EXCEPT !.stage = "load", !.kind = "share",
                             !.name = n, !.id = sharedId, !.flag = TRUE])
    /\ UNCHANGED <<up, crashes, indexes, home, tmp, served>>

\* set_home_entry_shared(name, flag)
BeginSet(t, n, flag) ==
    /\ BeginWriter(t, [Idle EXCEPT !.stage = "load", !.kind = "set",
                             !.name = n, !.flag = flag])
    /\ UNCHANGED <<up, crashes, disk, served>>

\* save_home_index called by an application with an index of its own making
BeginSave(t, i) ==
    /\ BeginWriter(t, [Idle EXCEPT !.stage = "save", !.kind = "save", !.index = i])
    /\ UNCHANGED <<up, crashes, disk, served>>

\* The first load of share_object_for and of set_home_entry_shared, and the
\* edit of the loaded copy.
LoadHome(t) ==
    LET o == op[t] IN
    /\ o.stage = "load"
    /\ IF Readable /\ (o.kind = "set" => home.object[o.name] # None)
       THEN op' = [op EXCEPT ![t].stage = "save",
                     ![t].id = IF o.kind = "share" THEN o.id ELSE home.object[o.name],
                     ![t].index = IF o.kind = "share"
                                  THEN Upsert(home, o.name, o.id)
                                  ELSE SetFlag(home, o.name, o.flag)]
       ELSE Finish(t)
    /\ UNCHANGED <<up, crashes, disk, served>>

\* save_home_index: load again for `previous`, number the index, store it.
LoadPrevious(t) ==
    LET i == [op[t].index EXCEPT !.version = home.version + 1] IN
    /\ op[t].stage = "save"
    /\ IF Readable
       THEN /\ indexes' = {x \in indexes : Named(x)} \cup {i}
            /\ op' = [op EXCEPT ![t].stage = "write", ![t].index = i,
                                ![t].previous = home]
       ELSE Finish(t) /\ UNCHANGED indexes
    /\ UNCHANGED <<up, crashes, stored, home, tmp, served>>

\* publish_pointer(RECORD_HOME): write the temporary file ...
WriteTmp(t) ==
    /\ op[t].stage = "write"
    /\ tmp' = op[t].index
    /\ Goto(t, "rename")
    /\ UNCHANGED <<up, crashes, stored, indexes, home, served>>

\* ... and rename it over the record: whatever the file holds by then is
\* published, and a publisher that finds it gone fails.
Rename(t) ==
    /\ op[t].stage = "rename"
    /\ IF tmp # NoHome
       THEN home' = tmp /\ tmp' = NoHome /\ Goto(t, "reconcile")
       ELSE Finish(t) /\ UNCHANGED <<home, tmp>>
    /\ UNCHANGED <<up, crashes, stored, indexes, served>>

\* Mutant: unsharing publishes the entry pointer too.
AfterReconcileAnyFlag(o) ==
    CASE o.kind = "delete" -> "evict"
      [] o.kind \in {"share", "set"} -> "entry"
      [] OTHER -> "idle"

AfterReconcile(o) ==
    CASE o.kind = "delete" -> "evict"
      [] o.kind \in {"share", "set"} /\ o.flag -> "entry"
      [] OTHER -> "idle"

\* Mutant: newly unshared objects are not withdrawn.
ReconcileAddsOnly(t) ==
    LET o == op[t] IN
    /\ o.stage = "reconcile"
    /\ shared' = shared \cup (SharedIds(o.index) \ SharedIds(o.previous))
    /\ asked' = asked \ (SharedIds(o.previous) \ SharedIds(o.index))
    /\ IF AfterReconcile(o) = "idle" THEN Finish(t) ELSE Goto(t, AfterReconcile(o))
    /\ UNCHANGED <<up, crashes, disk>>

\* reconcile_shared(previous, index)
Reconcile(t) ==
    LET o == op[t]
        added == SharedIds(o.index) \ SharedIds(o.previous)
        removed == SharedIds(o.previous) \ SharedIds(o.index)
    IN
    /\ o.stage = "reconcile"
    /\ shared' = (shared \cup added) \ removed
    /\ asked' = asked \ removed
    /\ IF AfterReconcile(o) = "idle" THEN Finish(t) ELSE Goto(t, AfterReconcile(o))
    /\ UNCHANGED <<up, crashes, disk>>

\* publish_entry_pointer(name, id)
PublishEntry(t) ==
    /\ op[t].stage = "entry"
    /\ Finish(t)
    /\ UNCHANGED <<up, crashes, disk, served>>

-----------------------------------------------------------------------------
(* delete_object and evict.                                                 *)

\* Only this identity's own blobs; the home pointer is resolved up front.
BeginDelete(t, id) ==
    /\ id \in stored \cap Own
    /\ BeginWriter(t, [Idle EXCEPT !.stage = "deload", !.kind = "delete",
                             !.id = id, !.oldHome = home])
    /\ UNCHANGED <<up, crashes, disk, served>>

\* Mutant: only shared entries are looked through.
DeleteLoadSharedOnly(t) ==
    LET names == {n \in home.shared : home.object[n] = op[t].id} IN
    /\ op[t].stage = "deload"
    /\ \/ ~Readable /\ Finish(t)
       \/ Readable /\ names = {} /\ Goto(t, "evict")
       \/ \E n \in names :
            /\ Readable
            /\ op' = [op EXCEPT ![t].stage = "save", ![t].index = RemoveEntry(home, n)]
    /\ UNCHANGED <<up, crashes, disk, served>>

\* The first entry listing the object is removed (the vector's order is not
\* modelled: any such entry may be the first).
DeleteLoad(t) ==
    LET names == {n \in Names : home.object[n] = op[t].id} IN
    /\ op[t].stage = "deload"
    /\ \/ ~Readable /\ Finish(t)
       \/ Readable /\ names = {} /\ Goto(t, "evict")
       \/ \E n \in names :
            /\ Readable
            /\ op' = [op EXCEPT ![t].stage = "save", ![t].index = RemoveEntry(home, n)]
    /\ UNCHANGED <<up, crashes, disk, served>>

\* The daemon's cache sweep evicts a foreign object.
BeginSweep(t, id) ==
    /\ id \in stored \cap Foreign
    /\ Begin(t, [Idle EXCEPT !.stage = "evict", !.kind = "sweep", !.id = id])
    /\ UNCHANGED <<up, crashes, disk, served>>

\* evict: delete the file, then withdraw; each step is an await of its own.
EvictFile(t) ==
    /\ op[t].stage = "evict"
    /\ stored' = stored \ {op[t].id}
    /\ Goto(t, "withdraw")
    /\ UNCHANGED <<up, crashes, indexes, home, tmp, served>>

EvictWithdraw(t) ==
    /\ op[t].stage = "withdraw"
    /\ shared' = shared \ {op[t].id}
    /\ asked' = asked \ {op[t].id}
    /\ IF op[t].kind = "delete" THEN Goto(t, "evicthome") ELSE Finish(t)
    /\ UNCHANGED <<up, crashes, disk>>

\* Mutant: the pointer is resolved after the save instead of before it.
EvictHomeLate(t) ==
    /\ op[t].stage = "evicthome"
    /\ indexes' = indexes \ {home}
    /\ Finish(t)
    /\ UNCHANGED <<up, crashes, stored, home, tmp, served>>

\* delete_object's last step: evict the index the pointer named at the start.
EvictHome(t) ==
    /\ op[t].stage = "evicthome"
    /\ indexes' = indexes \ {op[t].oldHome}
    /\ Finish(t)
    /\ UNCHANGED <<up, crashes, stored, home, tmp, served>>

-----------------------------------------------------------------------------
(* announce: mark the object served, then tell the event loop.              *)

BeginAnnounce(t, id) ==
    /\ Begin(t, [Idle EXCEPT !.stage = "provide", !.kind = "announce", !.id = id])
    /\ shared' = shared \cup {id}
    /\ asked' = asked \cup {id}
    /\ UNCHANGED <<up, crashes, disk>>

Provide(t) ==
    /\ op[t].stage = "provide"
    /\ Finish(t)
    /\ UNCHANGED <<up, crashes, disk, served>>

-----------------------------------------------------------------------------
(* The daemon dies at any point; open_with_config reseeds the serving set   *)
(* from the home index when it can be loaded.  Every publisher rewrites the  *)
(* temporary file before renaming it, so a leftover one is forgotten.        *)

Crash ==
    /\ up /\ crashes < MaxCrashes
    /\ up' = FALSE /\ crashes' = crashes + 1
    /\ shared' = {} /\ asked' = {}
    /\ op' = [t \in Tasks |-> Idle]
    /\ tmp' = NoHome
    /\ UNCHANGED <<stored, indexes, home>>

\* Mutant: no reseed.
RestartUnseeded ==
    /\ ~up
    /\ up' = TRUE
    /\ shared' = {}
    /\ UNCHANGED <<crashes, disk, asked, op>>

Restart ==
    LET ids == IF Readable THEN SharedIds(home) ELSE {} IN
    /\ ~up
    /\ up' = TRUE
    /\ shared' = ids
    /\ UNCHANGED <<crashes, disk, asked, op>>

-----------------------------------------------------------------------------
Step(t) ==
    \/ LoadHome(t) \/ LoadPrevious(t) \/ WriteTmp(t) \/ Rename(t)
    \/ Reconcile(t) \/ PublishEntry(t) \/ DeleteLoad(t)
    \/ EvictFile(t) \/ EvictWithdraw(t) \/ EvictHome(t) \/ Provide(t)

Command(t) ==
    \/ \E n \in Names, id \in Objects, sid \in Objects : BeginShare(t, n, id, sid)
    \/ \E n \in Names, flag \in BOOLEAN : BeginSet(t, n, flag)
    \/ \E i \in AppIndexes : BeginSave(t, i)
    \/ \E id \in Objects : BeginDelete(t, id) \/ BeginSweep(t, id) \/ BeginAnnounce(t, id)

Next ==
    \/ \E id \in Objects : Store(id)
    \/ \E t \in Tasks : Command(t) \/ Step(t)
    \/ Crash \/ Restart

LedgerSpec == Init /\ [][Next]_ledgerVars

-----------------------------------------------------------------------------
(* Properties.                                                              *)

\* Type correctness of the daemon's state (Runtime's fields and its files).
TypeOK ==
    /\ up \in BOOLEAN /\ crashes \in 0..MaxCrashes
    /\ stored \subseteq Objects /\ indexes \subseteq Index
    /\ home \in Index /\ tmp \in Index
    /\ shared \subseteq Objects /\ asked \subseteq Objects
    /\ op \in [Tasks -> Op]

WritersQuiet == \A t \in Writers : op[t].stage = "idle"

\* "Nothing is shared by default" (docs/concepts/sharing.md:3): while no
\* command is writing the home index, an object is in the serving set only if
\* the ledger marks it shared or a user announced it and it was not withdrawn
\* since.  reconcile_shared, evict and the restart reseed must all agree.
ServedWasAsked ==
    up /\ WritersQuiet => shared \subseteq SharedIds(home) \cup asked

\* The other direction: an own object the ledger marks shared is in the
\* serving set, whatever was announced, evicted, deleted or lost in a crash
\* in between, as long as the ledger itself can be read.
SharedIsServed ==
    up /\ WritersQuiet /\ Readable => SharedIds(home) \cap Own \subseteq shared

\* What lib.rs:1326 asserts: a shared entry is still served after a restart.
SharedIsServedAlways ==
    up /\ WritersQuiet => SharedIds(home) \cap Own \cap stored \subseteq shared

\* The ledger is "the source of truth of what you've stored and shared"
\* (docs/concepts/sharing.md:60): between commands, every own object it lists
\* is in the store, whatever was deleted under whichever name.
ListedIsStored ==
    up /\ WritersQuiet =>
        \A n \in Listed(home) : home.object[n] \in Own => home.object[n] \in stored

\* The ledger becomes unreadable in one step only: the last step of a
\* delete_object that found no entry to remove, which evicts the index the
\* pointer still names.  A save stores the index before it publishes the
\* pointer, so neither a crash nor another command can leave one dangling.
LedgerLostOnlyByUnlistedDelete ==
    [][Readable /\ ~Readable' =>
         \E t \in Tasks : op[t].stage = "evicthome" /\ op[t].index = NoHome]_ledgerVars
-----------------------------------------------------------------------------
(* The inductive invariant behind ServedWasAsked and SharedIsServed, for a  *)
(* daemon whose commands write the home index one at a time.                *)

Lists(i, id) == \E n \in Names : i.object[n] = id

DownIsIdle == ~up => shared = {} /\ \A t \in Tasks : op[t] = Idle

\* Which stages an operation of each kind can be in.
RolesOK == \A t \in Tasks :
    /\ op[t].stage \notin {"idle", "provide"} => op[t].kind = "sweep" \/ t \in Writers
    /\ op[t].kind = "sweep" => op[t].stage \in {"evict", "withdraw"} /\ op[t].id \in Foreign
    /\ op[t].kind = "delete" => op[t].id \in Own
    /\ op[t].stage \in {"deload", "evicthome"} => op[t].kind = "delete"
    /\ op[t].stage \in {"evict", "withdraw"} => op[t].kind \in {"sweep", "delete"}

\* The publisher's view of the pointer and of its temporary file.
PublishingOK == \A t \in Writers :
    /\ op[t].stage \in {"write", "rename"} => op[t].previous = home /\ Readable
    /\ op[t].stage = "rename" => tmp = op[t].index
    /\ op[t].stage = "reconcile" => home = op[t].index

Reconciling == \E t \in Writers : op[t].stage = "reconcile"

\* Between the publication of an index and reconcile_shared, the serving set
\* still answers to the previous index.
ServedOK ==
    /\ ~Reconciling => shared \subseteq SharedIds(home) \cup asked
    /\ \A t \in Writers : op[t].stage = "reconcile" =>
          shared \subseteq SharedIds(op[t].previous) \cup asked

CoveredOK ==
    /\ up /\ Readable /\ ~Reconciling => SharedIds(home) \cap Own \subseteq shared
    /\ \A t \in Writers : op[t].stage = "reconcile" =>
          SharedIds(op[t].previous) \cap Own \subseteq shared

\* An object is listed once, and a delete takes it out of the ledger before it
\* takes the object out of the store.
ListedOnce ==
    /\ Injective(home)
    /\ \A t \in Writers :
         /\ op[t].stage = "load" /\ op[t].kind = "share" =>
               \A m \in Names \ {op[t].name} : home.object[m] # op[t].id
         /\ op[t].stage \in {"save", "write", "rename"} => Injective(op[t].index)
         /\ op[t].stage \in {"save", "write", "rename"} /\ op[t].kind = "delete" =>
               ~Lists(op[t].index, op[t].id)
         /\ op[t].stage \in {"reconcile", "evict", "withdraw"} /\ op[t].kind = "delete" =>
               ~Lists(home, op[t].id)

\* What keeps the serving set and the ledger together.
ServingInv ==
    /\ DownIsIdle /\ RolesOK /\ PublishingOK /\ ServedOK
    /\ ~Aliasing => CoveredOK /\ ListedOnce

-----------------------------------------------------------------------------
(* What ListedIsStored and LedgerLostOnlyByUnlistedDelete rest on as well.  *)

OwnStored(i) == \A n \in Names : i.object[n] \in Own => i.object[n] \in stored

\* An application that saves an index of its own making lists in it nothing
\* this node signed: the daemon does not look.
AppsListNothingOwn ==
    \A i \in AppIndexes, n \in Names : i.object[n] \notin Own

\* Every own object of the ledger is in the store, and of every index on its
\* way to become the ledger.
StoredOK ==
    /\ OwnStored(home)
    /\ \A t \in Writers :
         /\ op[t].stage = "load" /\ op[t].kind = "share" /\ op[t].id \in Own =>
               op[t].id \in stored
         /\ op[t].stage \in {"save", "write", "rename"} => OwnStored(op[t].index)

\* An index is in the store before the pointer names it, and the index a
\* delete_object will evict is an older one, unless the delete saved none.
KeptOK == \A t \in Writers :
    /\ op[t].stage \in {"write", "rename"} =>
          op[t].index \in indexes /\ op[t].index.version > home.version
    /\ op[t].stage \in {"deload", "save", "write", "rename"} /\ op[t].kind = "delete" =>
          op[t].oldHome = home
    /\ op[t].stage = "deload" => op[t].index = NoHome
    /\ /\ op[t].stage \in {"reconcile", "evict", "withdraw", "evicthome"}
       /\ op[t].kind = "delete" /\ op[t].index # NoHome
       => op[t].index = home /\ op[t].oldHome.version < home.version

\* The whole of it: what a single writer's commands, the sweep, announcements,
\* crashes and restarts preserve together.
LedgerInv ==
    /\ ServingInv /\ KeptOK
    /\ ~Aliasing /\ AppsListNothingOwn => StoredOK
=============================================================================
