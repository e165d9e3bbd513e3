----------------------------- MODULE RecordSync -----------------------------
(***************************************************************************)
(* A user record (the profile, the contacts) on the devices of one identity. *)
(* A device saves a version as an object, signs a pointer to it and writes    *)
(* the pointer to its record file; then it pushes the pointer into the stores *)
(* of connected devices and puts it into the DHT.  Every device syncs its     *)
(* records in a fixed order, and reads them through its record file.          *)
(*                                                                          *)
(* Pointers are compared by the second they were signed in, by the signing   *)
(* device's clock.  The DHT is external: a lookup finds any pointer that was  *)
(* put, or none.  A request to a connected device for an object it serves    *)
(* succeeds, and a provider query ends.  A device runs one save, one read     *)
(* and one sync at a time.                                                   *)
(***************************************************************************)
EXTENDS Naturals, Sequences

CONSTANTS
    Devices,
    Order,          \* the records in the order a sync takes them
    Announced,      \* the records whose objects are announced, and again on opening
    MaxTime,        \* bound: seconds in which pointers are signed
    MaxSaves,       \* bound: versions saved
    MaxCrashes      \* bound: crashes

Records == {Order[n] : n \in DOMAIN Order}

ASSUME SyncAssumption ==
    /\ Order \in Seq(Records) /\ Order # <<>>
    /\ Announced \subseteq Records
    /\ MaxTime \in Nat /\ MaxSaves \in Nat /\ MaxCrashes \in Nat

\* A pointer names the object of one save.
Ids == 1..MaxSaves
NoPointer == [at |-> 0, id |-> 0]
Pointer == [at : 1..MaxTime, id : Ids]
Version == [by : Devices, rec : Records, at : 1..MaxTime]

VARIABLES
    cache,      \* the pointer in each device's record file
    pointers,   \* the pointer objects in each device's store
    held,       \* the record objects in each device's store
    served,     \* what each device serves to peers, in memory
    saving,     \* a save under way on each device
    sync,       \* the sync under way on each device
    reading,    \* a read under way on each device, and the pushed pointer it found
    up,         \* the running devices
    versions,   \* the versions saved so far; an object is known by its place
    published,  \* history: what each device last wrote as its own publication
    lapsed,     \* history: objects served before a crash that no record file
                \* of the device names, and that opening does not serve again
    crashes     \* bound counter

syncVars ==
    <<cache, pointers, held, served, saving, sync, reading, up, versions, published, lapsed, crashes>>

MaybePointer == Pointer \cup {NoPointer}
NotSaving == [stage |-> "idle", rec |-> Order[1], ptr |-> NoPointer]
NotReading == [stage |-> "idle", rec |-> Order[1], found |-> NoPointer]
NotSyncing == [stage |-> "idle", pos |-> 1, local |-> NoPointer, found |-> NoPointer]

SaveOp == {NotSaving} \cup [stage : {"write", "push"}, rec : Records, ptr : Pointer]
ReadOp == {NotReading} \cup [stage : {"found"}, rec : Records, found : MaybePointer]
SyncOp ==
    {NotSyncing}
    \cup [stage : {"scan"}, pos : DOMAIN Order, local : MaybePointer, found : {NoPointer}]
    \cup [stage : {"fetch", "store"}, pos : DOMAIN Order, local : {NoPointer}, found : Pointer]

PerRecord(x) == [d \in Devices |-> [r \in Records |-> x]]

Init ==
    /\ cache = PerRecord(NoPointer) /\ pointers = PerRecord({}) /\ published = PerRecord(NoPointer)
    /\ held = [d \in Devices |-> {}] /\ served = [d \in Devices |-> {}]
    /\ saving = [d \in Devices |-> NotSaving] /\ sync = [d \in Devices |-> NotSyncing]
    /\ reading = [d \in Devices |-> NotReading]
    /\ up = Devices /\ versions = <<>> /\ lapsed = {} /\ crashes = 0

-----------------------------------------------------------------------------
(* Reading a record.                                                        *)

\* Mutant: the scan keeps the pointer it should pass over.
Oldest(ps) == {p \in ps : \A q \in ps : p.at <= q.at}

\* The newest of a set of pointers; of two signed in one second, either.
Newest(ps) == {p \in ps : \A q \in ps : q.at <= p.at}

\* What was put into the DHT: a device keeps a copy of each pointer it puts.
InDht(r) == UNION {pointers[d][r] : d \in Devices}

\* resolve_pointer looks further only without a record file.
BeginRead(d, r) ==
    /\ d \in up /\ reading[d] = NotReading /\ cache[d][r] = NoPointer
    /\ \E p \in IF pointers[d][r] = {} THEN {NoPointer} ELSE Newest(pointers[d][r]) :
           reading' = [reading EXCEPT ![d] = [stage |-> "found", rec |-> r, found |-> p]]
    /\ UNCHANGED <<cache, pointers, held, served, saving, sync, up, versions, published, lapsed, crashes>>

\* The pushed pointer, or without one what the DHT finds, overwrites the record
\* file, whatever it holds by now, with or without the object it names.  A DHT
\* error, a timeout and no answer leave the file alone.
EndRead(d) ==
    LET s == reading[d] IN
    /\ s.stage = "found"
    /\ reading' = [reading EXCEPT ![d] = NotReading]
    /\ \/ \E p \in IF s.found = NoPointer THEN InDht(s.rec) ELSE {s.found} :
              cache' = [cache EXCEPT ![d][s.rec] = p]
       \/ s.found = NoPointer /\ UNCHANGED cache
    /\ UNCHANGED <<pointers, held, served, saving, sync, up, versions, published, lapsed, crashes>>

-----------------------------------------------------------------------------
(* Saving a record.                                                         *)

\* A save loads the current version first: with a pointer in reach it goes on
\* only if the object is in the store.
Loadable(d, r) ==
    IF cache[d][r] = NoPointer THEN pointers[d][r] = {} ELSE cache[d][r].id \in held[d]

\* The object is stored, and announced if the record is of that kind; then the
\* pointer is signed.  A device's clock does not go back.
BeginSave(d, r, at) ==
    /\ d \in up /\ saving[d] = NotSaving /\ Len(versions) < MaxSaves
    /\ Loadable(d, r) /\ at >= published[d][r].at
    /\ versions' = Append(versions, [by |-> d, rec |-> r, at |-> at])
    /\ held' = [held EXCEPT ![d] = @ \cup {Len(versions')}]
    /\ served' = IF r \in Announced THEN [served EXCEPT ![d] = @ \cup {Len(versions')}] ELSE served
    /\ saving' = [saving EXCEPT ![d] = [stage |-> "write", rec |-> r, ptr |-> [at |-> at, id |-> Len(versions')]]]
    /\ UNCHANGED <<cache, pointers, sync, reading, up, published, lapsed, crashes>>

\* publish_pointer renames the record file into place.
WriteRecord(d) ==
    LET s == saving[d] IN
    /\ s.stage = "write"
    /\ cache' = [cache EXCEPT ![d][s.rec] = s.ptr]
    /\ published' = [published EXCEPT ![d][s.rec] = s.ptr]
    /\ saving' = [saving EXCEPT ![d].stage = "push"]
    /\ UNCHANGED <<pointers, held, served, sync, reading, up, versions, lapsed, crashes>>

\* Mutant: a pushed pointer takes the place of the one before it.
PushPointerOver(d) ==
    LET s == saving[d] IN
    /\ s.stage = "push"
    /\ \E S \in SUBSET (up \ {d}) :
           pointers' = [e \in Devices |->
               IF e \in S \cup {d} THEN [pointers[e] EXCEPT ![s.rec] = {s.ptr}] ELSE pointers[e]]
    /\ saving' = [saving EXCEPT ![d] = NotSaving]
    /\ UNCHANGED <<cache, held, served, sync, reading, up, versions, published, lapsed, crashes>>

\* push_pointer_record keeps a copy of the pointer object and pushes it; any of
\* the pushes may be lost.  Then the pointer is put into the DHT.
PushPointer(d) ==
    LET s == saving[d] IN
    /\ s.stage = "push"
    /\ \E S \in SUBSET (up \ {d}) :
           pointers' = [e \in Devices |->
               IF e \in S \cup {d} THEN [pointers[e] EXCEPT ![s.rec] = @ \cup {s.ptr}] ELSE pointers[e]]
    /\ saving' = [saving EXCEPT ![d] = NotSaving]
    /\ UNCHANGED <<cache, held, served, sync, reading, up, versions, published, lapsed, crashes>>

-----------------------------------------------------------------------------
(* Syncing: sync_records, one record after the other.                       *)

Current(d) == Order[sync[d].pos]

\* sync_record has read the record file of the record at a position.
Scanning(d, n) == [stage |-> "scan", pos |-> n, local |-> cache[d][Order[n]], found |-> NoPointer]

\* The interval fires, or the user asks, with another device connected; the
\* first record file is read.
BeginSync(d) ==
    /\ d \in up /\ up # {d} /\ sync[d].stage = "idle"
    /\ sync' = [sync EXCEPT ![d] = Scanning(d, 1)]
    /\ UNCHANGED <<cache, pointers, held, served, saving, reading, up, versions, published, lapsed, crashes>>

\* The next record's file is read, or the sync ends.
Advance(d) ==
    sync' = [sync EXCEPT ![d] = IF @.pos = Len(Order) THEN NotSyncing ELSE Scanning(d, @.pos + 1)]

Newer(p, local) == p.at > local.at

\* The newest pushed pointer if it is newer than the local one, else what the
\* DHT finds if that is newer.
Scan(d) ==
    LET r == Current(d)
        pushed == {p \in Newest(pointers[d][r]) : Newer(p, sync[d].local)}
        found == IF pushed # {} THEN pushed ELSE {p \in InDht(r) : Newer(p, sync[d].local)}
    IN
    /\ sync[d].stage = "scan"
    /\ \/ \E p \in found : sync' = [sync EXCEPT ![d] = [@ EXCEPT !.stage = "fetch", !.local = NoPointer, !.found = p]]
       \/ pushed = {} /\ Advance(d)
    /\ UNCHANGED <<cache, pointers, held, served, saving, reading, up, versions, published, lapsed, crashes>>

\* The object is in the store, or a running device serves it.
Fetchable(d, id) == id \in held[d] \/ \E e \in up \ {d} : id \in served[e]

Fetch(d) ==
    LET id == sync[d].found.id IN
    /\ sync[d].stage = "fetch" /\ Fetchable(d, id)
    /\ held' = [held EXCEPT ![d] = @ \cup {id}]
    /\ sync' = [sync EXCEPT ![d].stage = "store"]
    /\ UNCHANGED <<cache, pointers, served, saving, reading, up, versions, published, lapsed, crashes>>

\* No provider: the error ends the whole sync, later records included.
FetchFails(d) ==
    /\ sync[d].stage = "fetch" /\ ~Fetchable(d, sync[d].found.id)
    /\ sync' = [sync EXCEPT ![d] = NotSyncing]
    /\ UNCHANGED <<cache, pointers, held, served, saving, reading, up, versions, published, lapsed, crashes>>

\* cache_record overwrites the record file, whatever it holds by now.
StorePointer(d) ==
    /\ sync[d].stage = "store"
    /\ cache' = [cache EXCEPT ![d][Current(d)] = sync[d].found]
    /\ Advance(d)
    /\ UNCHANGED <<pointers, held, served, saving, reading, up, versions, published, lapsed, crashes>>

-----------------------------------------------------------------------------
\* The daemon dies: what it serves and what it was doing are gone.
Crash(d) ==
    /\ d \in up /\ crashes < MaxCrashes
    /\ up' = up \ {d} /\ crashes' = crashes + 1
    /\ served' = [served EXCEPT ![d] = {}]
    /\ lapsed' = lapsed \cup (served[d] \ {cache[d][r].id : r \in Announced})
    /\ saving' = [saving EXCEPT ![d] = NotSaving]
    /\ sync' = [sync EXCEPT ![d] = NotSyncing]
    /\ reading' = [reading EXCEPT ![d] = NotReading]
    /\ UNCHANGED <<cache, pointers, held, versions, published>>

\* Mutant: nothing is shared again.
ReopenSilent(d) ==
    /\ d \notin up /\ up' = up \cup {d}
    /\ UNCHANGED <<cache, pointers, held, served, saving, sync, reading, versions, published, lapsed, crashes>>

\* reshare_public_user_records: the objects of the cached pointers.
Reopen(d) ==
    /\ d \notin up /\ up' = up \cup {d}
    /\ served' = [served EXCEPT ![d] = {cache[d][r].id : r \in Announced} \cap held[d]]
    /\ UNCHANGED <<cache, pointers, held, saving, sync, reading, versions, published, lapsed, crashes>>

SyncStep(d) == BeginSync(d) \/ Scan(d) \/ Fetch(d) \/ FetchFails(d) \/ StorePointer(d)

Next ==
    \E d \in Devices :
        \/ \E r \in Records : BeginRead(d, r) \/ \E at \in 1..MaxTime : BeginSave(d, r, at)
        \/ EndRead(d) \/ WriteRecord(d) \/ PushPointer(d) \/ SyncStep(d) \/ Crash(d) \/ Reopen(d)

\* Tasks run, the interval fires, and a dead daemon is restarted.
Fairness ==
    \A d \in Devices :
        /\ WF_syncVars(WriteRecord(d)) /\ WF_syncVars(PushPointer(d))
        /\ WF_syncVars(EndRead(d)) /\ WF_syncVars(SyncStep(d)) /\ WF_syncVars(Reopen(d))

SyncSpec == Init /\ [][Next]_syncVars /\ Fairness

-----------------------------------------------------------------------------
(* Properties.                                                              *)

\* Types and ranges; in it, that a device serves only what its store holds, also
\* what it shares again on opening (lib.rs:288).
TypeOK ==
    /\ cache \in [Devices -> [Records -> MaybePointer]]
    /\ published \in [Devices -> [Records -> MaybePointer]]
    /\ pointers \in [Devices -> [Records -> SUBSET Pointer]]
    /\ held \in [Devices -> SUBSET Ids] /\ served \in [Devices -> SUBSET Ids]
    /\ \A d \in Devices : served[d] \subseteq held[d]
    /\ saving \in [Devices -> SaveOp] /\ reading \in [Devices -> ReadOp] /\ sync \in [Devices -> SyncOp]
    /\ up \subseteq Devices /\ lapsed \subseteq Ids /\ versions \in Seq(Version) /\ Len(versions) <= MaxSaves /\ crashes \in 0..MaxCrashes

\* While a device runs, a version it published and still names is served, also
\* after a crash (lib.rs:271-289, records.rs:195); unless the crash came while a
\* sync had put another pointer in its place.
AnnouncedIsServed ==
    \A d \in up, r \in Announced :
        published[d][r] = cache[d][r] /\ cache[d][r] # NoPointer =>
            cache[d][r].id \in served[d] \cup lapsed

\* A device that is down runs nothing.
StoppedIsIdle ==
    \A d \in Devices \ up : saving[d] = NotSaving /\ reading[d] = NotReading /\ sync[d] = NotSyncing

\* An object is served before its pointer is written (records.rs:195).
WritingIsServed ==
    \A d \in Devices :
        saving[d].stage = "write" /\ saving[d].rec \in Announced => saving[d].ptr.id \in served[d]

\* What a device published it serves, or will from its record files when it is
\* opened, unless a crash came while the file held another pointer.
PublishedIsServed ==
    \A d \in Devices, r \in Announced :
        published[d][r] # NoPointer =>
            /\ published[d][r].id \in held[d]
            /\ \/ published[d][r].id \in lapsed
               \/ d \in up /\ published[d][r].id \in served[d]
               \/ d \notin up /\ \E q \in Announced : published[d][r].id = cache[d][q].id

\* The inductive invariant behind AnnouncedIsServed.
ServeInv == TypeOK /\ StoppedIsIdle /\ WritingIsServed /\ PublishedIsServed

\* The versions by their numbers, as RecordRegister knows them: those written
\* last, those the record files name, and those pushed.
OwnNumbers == [d \in Devices |-> [r \in Records |-> published[d][r].id]]
ReadNumbers == [d \in Devices |-> [r \in Records |-> cache[d][r].id]]
GivenNumbers == {p.id : p \in UNION {InDht(r) : r \in Records}}

Register == INSTANCE RecordRegister WITH
    Times <- 1..MaxTime,
    own <- OwnNumbers, current <- ReadNumbers, given <- GivenNumbers

\* Saves, reads and syncs of several records and devices cross, and a daemon dies
\* between the steps of any: what a record file names is a version of that record,
\* written by the device itself or pushed, and what is pushed was written first
\* (records.rs:18-61, sync.rs:66-150).  The steps implement RecordRegister.
RecordsAreVersions == Register!RegisterSpec

\* False: "Person-level records (profile, contacts, ...) are always shared so
\* that peers can resolve them" (docs/concepts/sharing.md:75).  save_contact_list
\* does not announce its object (records.rs:874), nor does opening.
RecordsAreServed ==
    \A d \in up, r \in Records :
        published[d][r] = cache[d][r] /\ cache[d][r] # NoPointer => cache[d][r].id \in served[d]

\* False: a sync puts only a pointer at least as new in the record file ("last-
\* writer-wins by the signed pointer's published_at", sync.rs:67).  What it
\* compares with was read before the fetch (sync.rs:95), and a version published
\* in between is undone, until a sync finds its pointer again.
SyncTakesNewer ==
    [][\A d \in Devices :
        StorePointer(d) => cache[d][Current(d)].at <= sync[d].found.at]_syncVars

\* A pointer nobody can follow: the object lapsed with a crash of its publisher.
Dangling(d, q) == q.id \in lapsed \ held[d] /\ \A e \in Devices : q.id \notin served[e]

\* A pointer pushed to a device is in its record file in the end, or one at
\* least as new: the periodic sync adopts it however saves and syncs cross.  Only
\* a pointer whose object lapsed can stop the record (sync.rs:100-118).
DeliveredIsAdopted ==
    \A d \in Devices, r \in Announced, t \in 1..MaxTime :
        (\E p \in pointers[d][r] : p.at = t) ~>
            \/ cache[d][r].at >= t
            \/ \E q \in pointers[d][r] : q.at >= t /\ Dangling(d, q)

\* False: a record whose pointer a device has can be loaded there in the end.
\* Reading adopts a pointer without its object, and the sync then finds nothing
\* newer (records.rs:120, sync.rs:104).
CachedIsLoadable ==
    \A d \in Devices, r \in Announced :
        cache[d][r].id \notin held[d] \cup {0} ~> cache[d][r].id \in held[d] \cup {0}
=============================================================================
