------------------------- MODULE RecordSync_proofs -------------------------
(***************************************************************************)
(* Theorems about RecordSync, for any devices, any records in any order, and *)
(* any number of saves and crashes: a device serves what it published, and   *)
(* what it reads of a record is a version of that record.                    *)
(***************************************************************************)
EXTENDS RecordSync, TLAPS

\* A record at a position of the order is a record, and there is a first one.
LEMMA OrderIsOfRecords ==
    /\ 1 \in DOMAIN Order /\ Order[1] \in Records
    /\ \A n \in DOMAIN Order : Order[n] \in Records
    /\ \A n \in DOMAIN Order : n # Len(Order) => n + 1 \in DOMAIN Order
BY SyncAssumption DEF Records

\* The idle tasks are tasks.
LEMMA IdleTyped == NotSaving \in SaveOp /\ NotReading \in ReadOp /\ NotSyncing \in SyncOp
BY DEF SaveOp, ReadOp, SyncOp

\* A running identity's first devices are well typed.
LEMMA InitTypeOK == Init => TypeOK
BY IdleTyped, SyncAssumption DEF Init, TypeOK, PerRecord, MaybePointer

\* What the DHT finds is a pointer, and so is the newest of a set of pointers.
LEMMA FoundAreType ==
    ASSUME TypeOK, NEW r \in Records
    PROVE  /\ InDht(r) \subseteq Pointer
           /\ \A d \in Devices : Newest(pointers[d][r]) \subseteq Pointer
BY DEF TypeOK, InDht, Newest

\* What each stage of a task says about the rest of it.
LEMMA StageTypes ==
    ASSUME TypeOK, NEW d \in Devices
    PROVE  /\ saving[d].rec \in Records /\ reading[d].rec \in Records
           /\ sync[d].pos \in DOMAIN Order /\ Current(d) \in Records
           /\ saving[d] # NotSaving => saving[d].ptr \in Pointer
           /\ reading[d].found \in MaybePointer
           /\ sync[d].local \in MaybePointer
           /\ sync[d].stage \in {"fetch", "store"} => sync[d].found \in Pointer
<1>1. saving[d] \in SaveOp /\ reading[d] \in ReadOp /\ sync[d] \in SyncOp
  BY DEF TypeOK
<1>2. saving[d].rec \in Records /\ (saving[d] # NotSaving => saving[d].ptr \in Pointer)
  BY <1>1, OrderIsOfRecords DEF SaveOp, NotSaving
<1>3. reading[d].rec \in Records /\ reading[d].found \in MaybePointer
  BY <1>1, OrderIsOfRecords DEF ReadOp, NotReading, MaybePointer
<1>4. /\ sync[d].pos \in DOMAIN Order /\ sync[d].local \in MaybePointer
      /\ sync[d].stage \in {"fetch", "store"} => sync[d].found \in Pointer
  BY <1>1, OrderIsOfRecords DEF SyncOp, NotSyncing, MaybePointer
<1> QED BY <1>2, <1>3, <1>4, OrderIsOfRecords DEF Current

\* A scan is a stage of a sync.
LEMMA ScanningTyped ==
    ASSUME TypeOK, NEW d \in Devices, NEW n \in DOMAIN Order
    PROVE  Scanning(d, n) \in SyncOp
<1>1. cache[d][Order[n]] \in MaybePointer
  BY OrderIsOfRecords DEF TypeOK
<1> QED BY <1>1 DEF Scanning, SyncOp

\* Going on to the next record keeps the type of a sync.
LEMMA AdvanceTyped ==
    ASSUME TypeOK, NEW d \in Devices, Advance(d)
    PROVE  sync' \in [Devices -> SyncOp]
<1>1. sync[d].pos \in DOMAIN Order
  BY StageTypes
<1>2. sync[d].pos # Len(Order) => Scanning(d, sync[d].pos + 1) \in SyncOp
  BY <1>1, OrderIsOfRecords, ScanningTyped
<1> QED BY <1>2, IdleTyped DEF Advance, TypeOK

\* Every step keeps the types.
LEMMA TypePreserved == TypeOK /\ [Next]_syncVars => TypeOK'
<1> SUFFICES ASSUME TypeOK, [Next]_syncVars PROVE TypeOK'
  OBVIOUS
<1> USE SyncAssumption
<1>0. CASE UNCHANGED syncVars
  BY <1>0 DEF TypeOK, syncVars
<1>1. ASSUME NEW d \in Devices, NEW r \in Records, BeginRead(d, r) PROVE TypeOK'
  <2>1. PICK p \in MaybePointer : reading' = [reading EXCEPT ![d] = [stage |-> "found", rec |-> r, found |-> p]]
    BY <1>1, FoundAreType DEF BeginRead, MaybePointer
  <2>2. reading' \in [Devices -> ReadOp]
    BY <2>1 DEF TypeOK, ReadOp
  <2> QED BY <1>1, <2>2 DEF BeginRead, TypeOK
<1>2. ASSUME NEW d \in Devices, EndRead(d) PROVE TypeOK'
  <2>1. reading[d].rec \in Records /\ reading[d].found \in MaybePointer
    BY StageTypes
  <2>2. InDht(reading[d].rec) \subseteq Pointer
    BY <2>1, FoundAreType
  <2>3. cache' \in [Devices -> [Records -> MaybePointer]]
    <3>1. \/ UNCHANGED cache
          \/ \E p \in MaybePointer : cache' = [cache EXCEPT ![d][reading[d].rec] = p]
      BY <1>2, <2>1, <2>2 DEF EndRead, MaybePointer
    <3>2. ASSUME NEW p \in MaybePointer, NEW r \in Records, cache' = [cache EXCEPT ![d][r] = p]
          PROVE  cache' \in [Devices -> [Records -> MaybePointer]]
      BY <3>2 DEF TypeOK
    <3>3. cache \in [Devices -> [Records -> MaybePointer]]
      BY DEF TypeOK
    <3> QED BY <2>1, <3>1, <3>2, <3>3
  <2>4. reading' \in [Devices -> ReadOp]
    BY <1>2, IdleTyped DEF EndRead, TypeOK
  <2> QED BY <1>2, <2>3, <2>4 DEF EndRead, TypeOK
<1>3. ASSUME NEW d \in Devices, NEW r \in Records, NEW at \in 1..MaxTime, BeginSave(d, r, at) PROVE TypeOK'
  <2>1. versions' \in Seq(Version) /\ Len(versions') \in Ids /\ Len(versions') <= MaxSaves
    BY <1>3 DEF BeginSave, TypeOK, Ids, Version
  <2>2. saving' \in [Devices -> SaveOp]
    BY <1>3, <2>1 DEF BeginSave, TypeOK, SaveOp, MaybePointer, Pointer
  <2>3. /\ held' \in [Devices -> SUBSET Ids] /\ served' \in [Devices -> SUBSET Ids]
        /\ \A e \in Devices : served'[e] \subseteq held'[e]
    BY <1>3, <2>1 DEF BeginSave, TypeOK
  <2> QED BY <1>3, <2>1, <2>2, <2>3 DEF BeginSave, TypeOK
<1>4. ASSUME NEW d \in Devices, WriteRecord(d) PROVE TypeOK'
  <2>1. /\ saving[d] \in [stage : {"write"}, rec : Records, ptr : Pointer]
        /\ saving[d].rec \in Records /\ saving[d].ptr \in MaybePointer
    BY <1>4 DEF WriteRecord, TypeOK, SaveOp, NotSaving, MaybePointer
  <2>2. /\ cache' \in [Devices -> [Records -> MaybePointer]]
        /\ published' \in [Devices -> [Records -> MaybePointer]]
    BY <1>4, <2>1 DEF WriteRecord, TypeOK
  <2>3. saving' \in [Devices -> SaveOp]
    BY <1>4, <2>1 DEF WriteRecord, TypeOK, SaveOp
  <2> QED BY <1>4, <2>2, <2>3 DEF WriteRecord, TypeOK
<1>5. ASSUME NEW d \in Devices, PushPointer(d) PROVE TypeOK'
  <2>1. saving[d].rec \in Records /\ saving[d].ptr \in Pointer
    BY <1>5, StageTypes DEF PushPointer, NotSaving
  <2>2. pointers' \in [Devices -> [Records -> SUBSET Pointer]]
    BY <1>5, <2>1 DEF PushPointer, TypeOK
  <2>3. saving' \in [Devices -> SaveOp]
    BY <1>5, IdleTyped DEF PushPointer, TypeOK
  <2> QED BY <1>5, <2>2, <2>3 DEF PushPointer, TypeOK
<1>6. ASSUME NEW d \in Devices, BeginSync(d) PROVE TypeOK'
  <2>1. sync' \in [Devices -> SyncOp]
    BY <1>6, ScanningTyped, OrderIsOfRecords DEF BeginSync, TypeOK
  <2> QED BY <1>6, <2>1 DEF BeginSync, TypeOK
<1>7. ASSUME NEW d \in Devices, Scan(d) PROVE TypeOK'
  <2>1. InDht(Current(d)) \subseteq Pointer /\ Newest(pointers[d][Current(d)]) \subseteq Pointer
    BY StageTypes, FoundAreType
  <2>2. CASE Advance(d)
    BY <1>7, <2>2, AdvanceTyped DEF Scan, TypeOK
  <2>3. ASSUME NEW p \in Pointer,
               sync' = [sync EXCEPT ![d] = [@ EXCEPT !.stage = "fetch", !.local = NoPointer, !.found = p]]
        PROVE  TypeOK'
    <3>0. sync[d] \in SyncOp /\ sync[d].stage = "scan"
      BY <1>7 DEF Scan, TypeOK
    <3>1. sync[d] \in [stage : {"scan"}, pos : DOMAIN Order, local : MaybePointer, found : {NoPointer}]
      BY <3>0 DEF SyncOp, NotSyncing
    <3>2. [sync[d] EXCEPT !.stage = "fetch", !.local = NoPointer, !.found = p] \in SyncOp
      BY <3>1, <2>3 DEF SyncOp
    <3>3. sync' \in [Devices -> SyncOp]
      BY <2>3, <3>2 DEF TypeOK
    <3> QED BY <1>7, <3>3 DEF Scan, TypeOK
  <2> QED BY <1>7, <2>1, <2>2, <2>3 DEF Scan
<1>8. ASSUME NEW d \in Devices, Fetch(d) PROVE TypeOK'
  <2>1. /\ sync[d] \in [stage : {"fetch"}, pos : DOMAIN Order, local : {NoPointer}, found : Pointer]
        /\ sync[d].found.id \in Ids
    BY <1>8 DEF Fetch, TypeOK, SyncOp, NotSyncing, Pointer
  <2>2. sync' \in [Devices -> SyncOp]
    BY <1>8, <2>1 DEF Fetch, TypeOK, SyncOp
  <2>3. held' \in [Devices -> SUBSET Ids] /\ \A e \in Devices : served[e] \subseteq held'[e]
    BY <1>8, <2>1 DEF Fetch, TypeOK
  <2> QED BY <1>8, <2>2, <2>3 DEF Fetch, TypeOK
<1>9. ASSUME NEW d \in Devices, FetchFails(d) PROVE TypeOK'
  BY <1>9, IdleTyped DEF FetchFails, TypeOK
<1>10. ASSUME NEW d \in Devices, StorePointer(d) PROVE TypeOK'
  <2>1. Current(d) \in Records /\ sync[d].found \in MaybePointer
    BY <1>10, StageTypes DEF StorePointer, MaybePointer
  <2>2. cache' \in [Devices -> [Records -> MaybePointer]]
    BY <1>10, <2>1 DEF StorePointer, TypeOK
  <2>3. sync' \in [Devices -> SyncOp]
    BY <1>10, AdvanceTyped DEF StorePointer
  <2> QED BY <1>10, <2>2, <2>3 DEF StorePointer, TypeOK
<1>11. ASSUME NEW d \in Devices, Crash(d) PROVE TypeOK'
  BY <1>11, IdleTyped DEF Crash, TypeOK
<1>12. ASSUME NEW d \in Devices, Reopen(d) PROVE TypeOK'
  BY <1>12 DEF Reopen, TypeOK
<1> QED
  BY <1>0, <1>1, <1>2, <1>3, <1>4, <1>5, <1>6, <1>7, <1>8, <1>9, <1>10, <1>11, <1>12
  DEF Next, SyncStep

\* The state of every device is well typed, whatever is saved, synced and lost.
THEOREM TypeCorrect == SyncSpec => []TypeOK
BY InitTypeOK, TypePreserved, PTL DEF SyncSpec

-----------------------------------------------------------------------------
(* What a device published it serves.                                       *)

\* At first nothing runs, and nothing is published.
LEMMA InitServeInv == Init => StoppedIsIdle /\ WritingIsServed /\ PublishedIsServed
BY SyncAssumption DEF Init, StoppedIsIdle, WritingIsServed, PublishedIsServed, PerRecord, NotSaving

\* Only a running device has a task under way.
LEMMA BusyIsUp ==
    ASSUME StoppedIsIdle, NEW d \in Devices,
           \/ saving[d].stage # "idle"
           \/ reading[d].stage # "idle"
           \/ sync[d].stage # "idle"
    PROVE  d \in up
BY DEF StoppedIsIdle, NotSaving, NotReading, NotSyncing

\* A step keeps what is published served if it leaves publications and histories
\* alone, gives up nothing, and changes the record files of running devices only.
LEMMA ServedStaysServed ==
    ASSUME PublishedIsServed, UNCHANGED <<up, published, lapsed>>,
           \A d \in Devices : held[d] \subseteq held'[d] /\ served[d] \subseteq served'[d],
           \A d \in Devices \ up : cache'[d] = cache[d]
    PROVE  PublishedIsServed'
BY DEF PublishedIsServed

\* Every step keeps the invariant: the object is served before its pointer is
\* written, and a crash either finds the pointer in the file or is recorded.
LEMMA ServeInvPreserved == ServeInv /\ [Next]_syncVars => ServeInv'
<1> SUFFICES ASSUME ServeInv, [Next]_syncVars PROVE ServeInv'
  OBVIOUS
<1> USE SyncAssumption
<1>t. TypeOK /\ TypeOK'
  BY TypePreserved DEF ServeInv
<1>i. StoppedIsIdle /\ WritingIsServed /\ PublishedIsServed
  BY DEF ServeInv
<1> SUFFICES StoppedIsIdle' /\ WritingIsServed' /\ PublishedIsServed'
  BY <1>t DEF ServeInv
<1> USE <1>t, <1>i
<1>0. CASE UNCHANGED syncVars
  BY <1>0 DEF syncVars, StoppedIsIdle, WritingIsServed, PublishedIsServed
<1>1. ASSUME NEW d \in Devices, NEW r \in Records, BeginRead(d, r)
      PROVE  StoppedIsIdle' /\ WritingIsServed' /\ PublishedIsServed'
  <2>1. StoppedIsIdle'
    BY <1>1 DEF BeginRead, StoppedIsIdle, TypeOK
  <2>2. WritingIsServed'
    BY <1>1 DEF BeginRead, WritingIsServed
  <2>3. PublishedIsServed'
    BY <1>1, ServedStaysServed DEF BeginRead
  <2> QED BY <2>1, <2>2, <2>3
<1>2. ASSUME NEW d \in Devices, EndRead(d)
      PROVE  StoppedIsIdle' /\ WritingIsServed' /\ PublishedIsServed'
  <2>0. d \in up
    BY <1>2, BusyIsUp DEF EndRead
  <2>1. StoppedIsIdle'
    BY <1>2, <2>0 DEF EndRead, StoppedIsIdle, TypeOK
  <2>2. WritingIsServed'
    BY <1>2 DEF EndRead, WritingIsServed
  <2>3. \A e \in Devices \ up : cache'[e] = cache[e]
    BY <1>2, <2>0 DEF EndRead, TypeOK
  <2>4. PublishedIsServed'
    BY <1>2, <2>3, ServedStaysServed DEF EndRead
  <2> QED BY <2>1, <2>2, <2>4
<1>3. ASSUME NEW d \in Devices, NEW r \in Records, NEW at \in 1..MaxTime, BeginSave(d, r, at)
      PROVE  StoppedIsIdle' /\ WritingIsServed' /\ PublishedIsServed'
  <2>1. StoppedIsIdle'
    BY <1>3 DEF BeginSave, StoppedIsIdle, TypeOK
  <2>2. \A e \in Devices : held[e] \subseteq held'[e] /\ served[e] \subseteq served'[e]
    BY <1>3 DEF BeginSave, TypeOK
  <2>3. ASSUME NEW e \in Devices, saving'[e].stage = "write", saving'[e].rec \in Announced
        PROVE  saving'[e].ptr.id \in served'[e]
    <3>1. CASE e = d
      BY <1>3, <2>3, <3>1 DEF BeginSave, TypeOK
    <3>2. CASE e # d
      BY <1>3, <2>2, <2>3, <3>2 DEF BeginSave, TypeOK, WritingIsServed
    <3> QED BY <3>1, <3>2
  <2>4. WritingIsServed'
    BY <2>3 DEF WritingIsServed
  <2>5. PublishedIsServed'
    BY <1>3, <2>2, ServedStaysServed DEF BeginSave
  <2> QED BY <2>1, <2>4, <2>5
<1>4. ASSUME NEW d \in Devices, WriteRecord(d)
      PROVE  StoppedIsIdle' /\ WritingIsServed' /\ PublishedIsServed'
  <2>0. d \in up
    BY <1>4, BusyIsUp DEF WriteRecord
  <2>1. StoppedIsIdle'
    BY <1>4, <2>0 DEF WriteRecord, StoppedIsIdle, TypeOK
  <2>2. WritingIsServed'
    BY <1>4 DEF WriteRecord, WritingIsServed, TypeOK
  <2>3. ASSUME NEW e \in Devices, NEW r \in Announced, published'[e][r] # NoPointer
        PROVE  /\ published'[e][r].id \in held'[e]
               /\ \/ published'[e][r].id \in lapsed'
                  \/ e \in up' /\ published'[e][r].id \in served'[e]
                  \/ e \notin up' /\ \E q \in Announced : published'[e][r].id = cache'[e][q].id
    <3>1. CASE e = d /\ r = saving[d].rec
      <4>1. published'[e][r] = saving[d].ptr
        BY <1>4, <3>1, StageTypes DEF WriteRecord, TypeOK
      <4>2. saving[d].ptr.id \in served[d]
        BY <1>4, <2>3, <3>1 DEF WriteRecord, WritingIsServed
      <4>3. served' = served /\ held' = held /\ up' = up /\ served[d] \subseteq held[d]
        BY <1>4 DEF WriteRecord, TypeOK
      <4> QED BY <2>0, <3>1, <4>1, <4>2, <4>3
    <3>2. CASE ~(e = d /\ r = saving[d].rec)
      <4>1. published'[e][r] = published[e][r]
        BY <1>4, <3>2 DEF WriteRecord, TypeOK
      <4>2. e # d => cache'[e] = cache[e]
        BY <1>4 DEF WriteRecord, TypeOK
      <4>3. UNCHANGED <<held, served, up, lapsed>>
        BY <1>4 DEF WriteRecord
      <4> QED BY <2>0, <2>3, <4>1, <4>2, <4>3 DEF PublishedIsServed
    <3> QED BY <3>1, <3>2
  <2>4. PublishedIsServed'
    BY <2>3 DEF PublishedIsServed
  <2> QED BY <2>1, <2>2, <2>4
<1>5. ASSUME NEW d \in Devices, PushPointer(d)
      PROVE  StoppedIsIdle' /\ WritingIsServed' /\ PublishedIsServed'
  <2>1. StoppedIsIdle'
    BY <1>5 DEF PushPointer, StoppedIsIdle, TypeOK
  <2>2. WritingIsServed'
    BY <1>5 DEF PushPointer, WritingIsServed, TypeOK, NotSaving
  <2>3. PublishedIsServed'
    BY <1>5, ServedStaysServed DEF PushPointer
  <2> QED BY <2>1, <2>2, <2>3
<1>6. ASSUME NEW d \in Devices, SyncStep(d)
      PROVE  StoppedIsIdle' /\ WritingIsServed' /\ PublishedIsServed'
  <2>0. d \in up
    BY <1>6, BusyIsUp DEF SyncStep, BeginSync, Scan, Fetch, FetchFails, StorePointer
  <2>1. /\ UNCHANGED <<served, saving, reading, up, published, lapsed>>
        /\ \A e \in Devices \ {d} : sync'[e] = sync[e] /\ cache'[e] = cache[e]
        /\ \A e \in Devices : held[e] \subseteq held'[e]
    <3>1. CASE BeginSync(d)
      BY <3>1 DEF BeginSync, TypeOK
    <3>2. CASE Scan(d)
      BY <3>2 DEF Scan, Advance, TypeOK
    <3>3. CASE Fetch(d)
      BY <3>3 DEF Fetch, TypeOK
    <3>4. CASE FetchFails(d)
      BY <3>4 DEF FetchFails, TypeOK
    <3>5. CASE StorePointer(d)
      BY <3>5 DEF StorePointer, Advance, TypeOK
    <3> QED BY <1>6, <3>1, <3>2, <3>3, <3>4, <3>5 DEF SyncStep
  <2>2. StoppedIsIdle'
    BY <2>0, <2>1 DEF StoppedIsIdle
  <2>3. WritingIsServed'
    BY <2>1 DEF WritingIsServed
  <2>4. PublishedIsServed'
    BY <2>0, <2>1, ServedStaysServed
  <2> QED BY <2>2, <2>3, <2>4
<1>7. ASSUME NEW d \in Devices, Crash(d)
      PROVE  StoppedIsIdle' /\ WritingIsServed' /\ PublishedIsServed'
  <2>1. StoppedIsIdle'
    BY <1>7 DEF Crash, StoppedIsIdle, TypeOK
  <2>2. WritingIsServed'
    BY <1>7 DEF Crash, WritingIsServed, TypeOK, NotSaving
  <2>3. ASSUME NEW e \in Devices, NEW r \in Announced, published'[e][r] # NoPointer
        PROVE  /\ published'[e][r].id \in held'[e]
               /\ \/ published'[e][r].id \in lapsed'
                  \/ e \in up' /\ published'[e][r].id \in served'[e]
                  \/ e \notin up' /\ \E q \in Announced : published'[e][r].id = cache'[e][q].id
    <3>1. UNCHANGED <<cache, held, published>> /\ lapsed \subseteq lapsed'
      BY <1>7 DEF Crash
    <3>2. CASE e = d
      BY <1>7, <2>3, <3>1, <3>2 DEF Crash, PublishedIsServed
    <3>3. CASE e # d
      BY <1>7, <2>3, <3>1, <3>3 DEF Crash, PublishedIsServed, TypeOK
    <3> QED BY <3>2, <3>3
  <2>4. PublishedIsServed'
    BY <2>3 DEF PublishedIsServed
  <2> QED BY <2>1, <2>2, <2>4
<1>8. ASSUME NEW d \in Devices, Reopen(d)
      PROVE  StoppedIsIdle' /\ WritingIsServed' /\ PublishedIsServed'
  <2>1. StoppedIsIdle'
    BY <1>8 DEF Reopen, StoppedIsIdle
  <2>2. WritingIsServed'
    BY <1>8 DEF Reopen, WritingIsServed, StoppedIsIdle, NotSaving, TypeOK
  <2>3. ASSUME NEW e \in Devices, NEW r \in Announced, published'[e][r] # NoPointer
        PROVE  /\ published'[e][r].id \in held'[e]
               /\ \/ published'[e][r].id \in lapsed'
                  \/ e \in up' /\ published'[e][r].id \in served'[e]
                  \/ e \notin up' /\ \E q \in Announced : published'[e][r].id = cache'[e][q].id
    <3>1. UNCHANGED <<cache, held, published, lapsed>>
      BY <1>8 DEF Reopen
    <3>2. CASE e = d
      <4>1. d \notin up /\ d \in up' /\ served'[d] = {cache[d][q].id : q \in Announced} \cap held[d]
        BY <1>8 DEF Reopen, TypeOK
      <4>2. /\ published[d][r].id \in held[d]
            /\ \/ published[d][r].id \in lapsed
               \/ \E q \in Announced : published[d][r].id = cache[d][q].id
        BY <2>3, <3>1, <3>2, <4>1 DEF PublishedIsServed
      <4>3. published[d][r].id \notin lapsed => published[d][r].id \in served'[d]
        BY <4>1, <4>2
      <4> QED BY <3>1, <3>2, <4>1, <4>2, <4>3
    <3>3. CASE e # d
      BY <1>8, <2>3, <3>1, <3>3 DEF Reopen, PublishedIsServed, TypeOK
    <3> QED BY <3>2, <3>3
  <2>4. PublishedIsServed'
    BY <2>3 DEF PublishedIsServed
  <2> QED BY <2>1, <2>2, <2>4
<1> QED BY <1>0, <1>1, <1>2, <1>3, <1>4, <1>5, <1>6, <1>7, <1>8 DEF Next

\* The inductive invariant holds of any devices, records, saves and crashes.
THEOREM ServeInvariant == SyncSpec => []ServeInv
<1>1. Init => ServeInv
  BY InitTypeOK, InitServeInv DEF ServeInv
<1> QED BY <1>1, ServeInvPreserved, PTL DEF SyncSpec

\* A running device serves every announced version it published and still names,
\* unless a crash came while a sync had put another pointer in its place.
THEOREM ServesWhatItPublished == SyncSpec => []AnnouncedIsServed
<1>1. ServeInv => AnnouncedIsServed
  BY DEF ServeInv, PublishedIsServed, AnnouncedIsServed, TypeOK
<1> QED BY <1>1, ServeInvariant, PTL

-----------------------------------------------------------------------------
(* What a record file names is a version of that record: RecordSync         *)
(* implements RecordRegister.                                               *)

\* The pointer names a version of the record, signed at that time ...
Signed(r, p) ==
    /\ p.id \in DOMAIN versions
    /\ versions[p.id].rec = r /\ versions[p.id].at = p.at

\* ... by the device.
SignedBy(d, r, p) == Signed(r, p) /\ versions[p.id].by = d

FilesSigned ==
    \A d \in Devices, r \in Records : cache[d][r] # NoPointer => Signed(r, cache[d][r])

StoresSigned == \A d \in Devices, r \in Records : \A p \in pointers[d][r] : Signed(r, p)

OwnSigned ==
    \A d \in Devices, r \in Records :
        published[d][r] # NoPointer => SignedBy(d, r, published[d][r])

\* What is about to be written is newer than what was, and what is about to be
\* pushed was written.
SaveOK(d) ==
    saving[d].stage # "idle" =>
        /\ SignedBy(d, saving[d].rec, saving[d].ptr)
        /\ saving[d].stage = "write" =>
             /\ published[d][saving[d].rec].id < saving[d].ptr.id
             /\ published[d][saving[d].rec].at <= saving[d].ptr.at
        /\ saving[d].stage = "push" => published[d][saving[d].rec] = saving[d].ptr

\* What a read or a sync has found was pushed for the record it is about.
ReadOK(d) == reading[d].found # NoPointer => reading[d].found \in InDht(reading[d].rec)

SyncOK(d) == sync[d].stage \in {"fetch", "store"} => sync[d].found \in InDht(Current(d))

TasksSigned == \A d \in Devices : SaveOK(d) /\ ReadOK(d) /\ SyncOK(d)

VersionsInv == TypeOK /\ FilesSigned /\ StoresSigned /\ OwnSigned /\ TasksSigned

LEMMA InitVersionsInv == Init => VersionsInv
<1> SUFFICES ASSUME Init PROVE VersionsInv
  OBVIOUS
<1>1. TypeOK
  BY InitTypeOK
<1>2. FilesSigned /\ StoresSigned /\ OwnSigned
  BY DEF Init, FilesSigned, StoresSigned, OwnSigned, PerRecord
<1>3. TasksSigned
  BY DEF Init, TasksSigned, SaveOK, ReadOK, SyncOK, NotSaving, NotReading, NotSyncing
<1> QED BY <1>1, <1>2, <1>3 DEF VersionsInv

\* Versions are only added, and pointers only pushed.
Kept ==
    /\ \A n \in DOMAIN versions : n \in DOMAIN versions' /\ versions'[n] = versions[n]
    /\ \A d \in Devices, r \in Records : pointers[d][r] \subseteq pointers'[d][r]

LEMMA StepKeeps == ASSUME TypeOK, [Next]_syncVars PROVE Kept
<1>1. CASE UNCHANGED <<versions, pointers>>
  BY <1>1 DEF Kept
<1>2. ASSUME NEW d \in Devices, NEW r \in Records, NEW at \in 1..MaxTime, BeginSave(d, r, at) PROVE Kept
  <2>1. versions \in Seq(Version) /\ versions' = Append(versions, [by |-> d, rec |-> r, at |-> at])
    BY <1>2 DEF BeginSave, TypeOK
  <2>2. \A n \in DOMAIN versions : n \in DOMAIN versions' /\ versions'[n] = versions[n]
    BY <2>1 DEF Version
  <2> QED BY <1>2, <2>2 DEF BeginSave, Kept
<1>3. ASSUME NEW d \in Devices, PushPointer(d) PROVE Kept
  <2>1. \A e \in Devices, r \in Records : pointers[e][r] \subseteq pointers'[e][r]
    BY <1>3 DEF PushPointer, TypeOK
  <2> QED BY <1>3, <2>1 DEF PushPointer, Kept
<1> QED
  BY <1>1, <1>2, <1>3
  DEF Next, SyncStep, syncVars, BeginRead, EndRead, WriteRecord, BeginSync, Scan, Fetch, FetchFails,
      StorePointer, Crash, Reopen

\* A pointer that was signed, or pushed, stays so.
LEMMA SignedStays ==
    ASSUME Kept, NEW r \in Records, NEW p
    PROVE  /\ Signed(r, p) => /\ p.id \in DOMAIN versions'
                              /\ versions'[p.id].rec = r /\ versions'[p.id].at = p.at
                              /\ versions'[p.id] = versions[p.id]
           /\ p \in InDht(r) => p \in UNION {pointers'[d][r] : d \in Devices}
BY DEF Kept, Signed, InDht

LEMMA FilesStay ==
    ASSUME Kept, FilesSigned,
           \A d \in Devices, r \in Records :
               cache'[d][r] = cache[d][r] \/ Signed(r, cache'[d][r])
    PROVE  FilesSigned'
BY DEF Kept, FilesSigned, Signed

LEMMA StoresStay ==
    ASSUME Kept, StoresSigned,
           \A d \in Devices, r \in Records : \A p \in pointers'[d][r] :
               p \in pointers[d][r] \/ Signed(r, p)
    PROVE  StoresSigned'
BY DEF Kept, StoresSigned, Signed

LEMMA OwnStays ==
    ASSUME Kept, OwnSigned,
           \A d \in Devices, r \in Records :
               published'[d][r] = published[d][r] \/ SignedBy(d, r, published'[d][r])
    PROVE  OwnSigned'
BY DEF Kept, OwnSigned, SignedBy, Signed

\* So does what a task at rest, or one that does not move, has at hand.
LEMMA SaveStays ==
    ASSUME TypeOK, Kept, NEW d \in Devices, SaveOK(d),
           saving'[d] = NotSaving \/ (saving'[d] = saving[d] /\ published'[d] = published[d])
    PROVE  SaveOK(d)'
<1>1. CASE saving'[d] = NotSaving
  BY <1>1 DEF SaveOK, NotSaving
<1>2. CASE saving'[d] = saving[d] /\ published'[d] = published[d]
  BY <1>2 DEF SaveOK, SignedBy, Signed, Kept
<1> QED BY <1>1, <1>2

LEMMA ReadStays ==
    ASSUME TypeOK, Kept, NEW d \in Devices, ReadOK(d), reading'[d] = NotReading \/ reading'[d] = reading[d]
    PROVE  ReadOK(d)'
<1>1. CASE reading'[d] = NotReading
  BY <1>1 DEF ReadOK, NotReading
<1>2. CASE reading'[d] = reading[d]
  BY <1>2, StageTypes DEF ReadOK, InDht, Kept
<1> QED BY <1>1, <1>2

LEMMA SyncStays ==
    ASSUME TypeOK, Kept, NEW d \in Devices, SyncOK(d),
           \/ sync'[d].stage \in {"idle", "scan"}
           \/ /\ sync[d].stage \in {"fetch", "store"}
              /\ sync'[d].pos = sync[d].pos /\ sync'[d].found = sync[d].found
           \/ sync'[d] = sync[d]
    PROVE  SyncOK(d)'
<1>1. CASE sync'[d].stage \in {"idle", "scan"}
  BY <1>1 DEF SyncOK
<1>2. ASSUME sync'[d].stage \notin {"idle", "scan"} PROVE SyncOK(d)'
  <2>1. sync'[d].pos = sync[d].pos /\ sync'[d].found = sync[d].found
    BY <1>2
  <2>2. Current(d)' = Current(d) /\ Current(d) \in Records
    BY <2>1, StageTypes DEF Current
  <2>3. InDht(Current(d)) \subseteq InDht(Current(d))'
    BY <2>2 DEF Kept, InDht
  <2>4. sync'[d].stage \in {"fetch", "store"} => sync[d].stage \in {"fetch", "store"}
    BY <1>2
  <2> QED BY <2>1, <2>3, <2>4 DEF SyncOK
<1> QED BY <1>1, <1>2

\* Advance ends in a scan or at rest.
LEMMA AdvanceStays ==
    ASSUME TypeOK, Kept, NEW d \in Devices, TasksSigned, Advance(d)
    PROVE  \A e \in Devices : SyncOK(e)'
<1>1. sync'[d].stage \in {"idle", "scan"} /\ \A e \in Devices \ {d} : sync'[e] = sync[e]
  BY DEF Advance, TypeOK, NotSyncing, Scanning
<1> QED BY <1>1, SyncStays DEF TasksSigned

LEMMA VersionsInvPreserved == VersionsInv /\ [Next]_syncVars => VersionsInv'
<1> SUFFICES ASSUME VersionsInv, [Next]_syncVars PROVE VersionsInv'
  OBVIOUS
<1>k. Kept /\ TypeOK /\ TypeOK'
  BY StepKeeps, TypePreserved DEF VersionsInv
<1>i. FilesSigned /\ StoresSigned /\ OwnSigned /\ TasksSigned
  BY DEF VersionsInv
<1> SUFFICES FilesSigned' /\ StoresSigned' /\ OwnSigned' /\ TasksSigned'
  BY <1>k DEF VersionsInv
<1> USE <1>k
<1>f. UNCHANGED cache => FilesSigned'
  BY <1>i, FilesStay
<1>p. UNCHANGED pointers => StoresSigned'
  BY <1>i, StoresStay
<1>o. UNCHANGED published => OwnSigned'
  BY <1>i, OwnStays
<1>s. \A d \in Devices : saving'[d] = saving[d] /\ published'[d] = published[d] => SaveOK(d)'
  BY <1>i, SaveStays DEF TasksSigned
<1>r. \A d \in Devices : reading'[d] = reading[d] => ReadOK(d)'
  BY <1>i, ReadStays DEF TasksSigned
<1>y. \A d \in Devices : sync'[d] = sync[d] => SyncOK(d)'
  BY <1>i, SyncStays DEF TasksSigned
<1>0. CASE UNCHANGED syncVars
  BY <1>0, <1>f, <1>p, <1>o, <1>s, <1>r, <1>y DEF syncVars, TasksSigned
<1>1. ASSUME NEW d \in Devices, NEW r \in Records, BeginRead(d, r)
      PROVE  FilesSigned' /\ StoresSigned' /\ OwnSigned' /\ TasksSigned'
  <2>1. PICK p \in {NoPointer} \cup Newest(pointers[d][r]) :
          reading' = [reading EXCEPT ![d] = [stage |-> "found", rec |-> r, found |-> p]]
    BY <1>1 DEF BeginRead
  <2>2. UNCHANGED <<cache, pointers, saving, sync, versions, published>>
    BY <1>1 DEF BeginRead
  <2>3. ASSUME NEW e \in Devices PROVE ReadOK(e)'
    <3>1. CASE e = d
      <4>1. reading'[d].found = p /\ reading'[d].rec = r
        BY <2>1 DEF TypeOK
      <4>2. p # NoPointer => p \in InDht(r)'
        BY <2>1, <2>2 DEF Newest, InDht
      <4> QED BY <3>1, <4>1, <4>2 DEF ReadOK
    <3>2. CASE e # d
      BY <1>r, <2>1, <3>2 DEF TypeOK
    <3> QED BY <3>1, <3>2
  <2> QED BY <1>f, <1>p, <1>o, <1>s, <1>y, <2>2, <2>3 DEF TasksSigned
<1>2. ASSUME NEW d \in Devices, EndRead(d)
      PROVE  FilesSigned' /\ StoresSigned' /\ OwnSigned' /\ TasksSigned'
  <2>1. /\ UNCHANGED <<pointers, saving, sync, versions, published>>
        /\ reading' = [reading EXCEPT ![d] = NotReading]
    BY <1>2 DEF EndRead
  <2>2. UNCHANGED cache => FilesSigned'
    BY <1>f
  <2>3. ASSUME NEW p \in InDht(reading[d].rec), cache' = [cache EXCEPT ![d][reading[d].rec] = p]
        PROVE  FilesSigned'
    <3>1. reading[d].rec \in Records
      BY StageTypes
    <3>2. Signed(reading[d].rec, p)
      BY <1>i, <3>1 DEF StoresSigned, InDht
    <3>3. \A e \in Devices, r \in Records :
            cache'[e][r] = cache[e][r] \/ (r = reading[d].rec /\ cache'[e][r] = p)
      BY <2>3, <3>1 DEF TypeOK
    <3> QED BY <1>i, <3>2, <3>3, FilesStay
  <2>4. FilesSigned'
    <3>1. reading[d].found # NoPointer => reading[d].found \in InDht(reading[d].rec)
      BY <1>i DEF TasksSigned, ReadOK
    <3>2. \/ UNCHANGED cache
          \/ \E p \in InDht(reading[d].rec) : cache' = [cache EXCEPT ![d][reading[d].rec] = p]
      BY <1>2, <3>1 DEF EndRead
    <3> QED BY <2>2, <2>3, <3>2
  <2>5. \A e \in Devices : ReadOK(e)'
    BY <1>i, <2>1, ReadStays DEF TasksSigned, TypeOK
  <2> QED BY <1>p, <1>o, <1>s, <1>y, <2>1, <2>4, <2>5 DEF TasksSigned
<1>3. ASSUME NEW d \in Devices, NEW r \in Records, NEW at \in 1..MaxTime, BeginSave(d, r, at)
      PROVE  FilesSigned' /\ StoresSigned' /\ OwnSigned' /\ TasksSigned'
  <2> DEFINE p == [at |-> at, id |-> Len(versions')]
  <2>1. /\ UNCHANGED <<cache, pointers, sync, reading, published>>
        /\ versions' = Append(versions, [by |-> d, rec |-> r, at |-> at])
        /\ saving' = [saving EXCEPT ![d] = [stage |-> "write", rec |-> r, ptr |-> p]]
        /\ at >= published[d][r].at
    BY <1>3 DEF BeginSave
  <2>2. /\ Len(versions') = Len(versions) + 1 /\ Len(versions) \in Nat
        /\ DOMAIN versions = 1..Len(versions)
        /\ Len(versions') \in DOMAIN versions' /\ versions'[Len(versions')] = [by |-> d, rec |-> r, at |-> at]
    BY <2>1 DEF TypeOK, Version
  <2>3. published[d][r].id < Len(versions')
    BY <1>i, <2>2 DEF OwnSigned, SignedBy, Signed, NoPointer
  <2>4. ASSUME NEW e \in Devices PROVE SaveOK(e)'
    <3>1. CASE e = d
      <4>1. /\ saving'[d].rec = r /\ saving'[d].ptr = p /\ saving'[d].stage = "write"
            /\ p.id = Len(versions') /\ p.at = at
        BY <2>1 DEF TypeOK
      <4> HIDE DEF p
      <4>2. SignedBy(d, saving[d].rec, saving[d].ptr)'
        BY <2>2, <4>1 DEF SignedBy, Signed
      <4>3. /\ published'[d][saving'[d].rec].id < saving'[d].ptr.id
            /\ published'[d][saving'[d].rec].at <= saving'[d].ptr.at
        <5>1. published[d][r].at \in Nat
          BY DEF TypeOK, MaybePointer, Pointer, NoPointer
        <5> QED BY <2>1, <2>3, <4>1, <5>1
      <4> QED BY <3>1, <4>1, <4>2, <4>3 DEF SaveOK
    <3>2. CASE e # d
      BY <1>s, <2>1, <3>2 DEF TypeOK
    <3> QED BY <3>1, <3>2
  <2> QED BY <1>f, <1>p, <1>o, <1>r, <1>y, <2>1, <2>4 DEF TasksSigned
<1>4. ASSUME NEW d \in Devices, WriteRecord(d)
      PROVE  FilesSigned' /\ StoresSigned' /\ OwnSigned' /\ TasksSigned'
  <2>1. /\ UNCHANGED <<pointers, sync, reading, versions>> /\ saving[d].stage = "write"
        /\ cache' = [cache EXCEPT ![d][saving[d].rec] = saving[d].ptr]
        /\ published' = [published EXCEPT ![d][saving[d].rec] = saving[d].ptr]
        /\ saving' = [saving EXCEPT ![d].stage = "push"]
    BY <1>4 DEF WriteRecord
  <2>2. saving[d].rec \in Records /\ SignedBy(d, saving[d].rec, saving[d].ptr)
    BY <1>i, <2>1, StageTypes DEF TasksSigned, SaveOK
  <2>3. /\ \A e \in Devices, r \in Records :
             IF e = d /\ r = saving[d].rec
             THEN cache'[e][r] = saving[d].ptr /\ published'[e][r] = saving[d].ptr
             ELSE cache'[e][r] = cache[e][r] /\ published'[e][r] = published[e][r]
        /\ \A e \in Devices \ {d} : published'[e] = published[e]
    BY <2>1, <2>2 DEF TypeOK
  <2>4. FilesSigned'
    BY <1>i, <2>2, <2>3, FilesStay DEF SignedBy
  <2>5. OwnSigned'
    BY <1>i, <2>2, <2>3, OwnStays
  <2>6. ASSUME NEW e \in Devices PROVE SaveOK(e)'
    <3>1. CASE e = d
      <4>1. /\ saving'[d].rec = saving[d].rec /\ saving'[d].ptr = saving[d].ptr
            /\ saving'[d].stage = "push"
        BY <2>1, <1>k DEF TypeOK, SaveOp, NotSaving
      <4>2. SignedBy(d, saving[d].rec, saving[d].ptr)'
        BY <2>1, <2>2, <4>1 DEF SignedBy, Signed
      <4>3. published'[d][saving'[d].rec] = saving'[d].ptr
        BY <2>2, <2>3, <4>1
      <4> QED BY <3>1, <4>1, <4>2, <4>3 DEF SaveOK
    <3>2. CASE e # d
      BY <1>s, <2>1, <2>3, <3>2 DEF TypeOK
    <3> QED BY <3>1, <3>2
  <2> QED BY <1>p, <1>r, <1>y, <2>1, <2>4, <2>5, <2>6 DEF TasksSigned
<1>5. ASSUME NEW d \in Devices, PushPointer(d)
      PROVE  FilesSigned' /\ StoresSigned' /\ OwnSigned' /\ TasksSigned'
  <2>1. /\ UNCHANGED <<cache, sync, reading, versions, published>> /\ saving[d].stage = "push"
        /\ saving' = [saving EXCEPT ![d] = NotSaving]
    BY <1>5 DEF PushPointer
  <2>2. saving[d].rec \in Records /\ Signed(saving[d].rec, saving[d].ptr)
    BY <1>i, <2>1, StageTypes DEF TasksSigned, SaveOK, SignedBy
  <2>3. \A e \in Devices, r \in Records : \A p \in pointers'[e][r] :
           p \in pointers[e][r] \/ (r = saving[d].rec /\ p = saving[d].ptr)
    BY <1>5, <2>2 DEF PushPointer, TypeOK
  <2>4. StoresSigned'
    BY <1>i, <2>2, <2>3, StoresStay
  <2>5. \A e \in Devices : SaveOK(e)'
    BY <1>i, <2>1, SaveStays DEF TasksSigned, TypeOK
  <2> QED BY <1>f, <1>o, <1>r, <1>y, <2>1, <2>4, <2>5 DEF TasksSigned
<1>6. ASSUME NEW d \in Devices, BeginSync(d)
      PROVE  FilesSigned' /\ StoresSigned' /\ OwnSigned' /\ TasksSigned'
  <2>1. /\ UNCHANGED <<cache, pointers, saving, reading, versions, published>>
        /\ sync'[d].stage = "scan" /\ \A e \in Devices \ {d} : sync'[e] = sync[e]
    BY <1>6 DEF BeginSync, TypeOK, Scanning
  <2>2. \A e \in Devices : SyncOK(e)'
    BY <1>i, <2>1, SyncStays DEF TasksSigned
  <2> QED BY <1>f, <1>p, <1>o, <1>s, <1>r, <2>1, <2>2 DEF TasksSigned
<1>7. ASSUME NEW d \in Devices, Scan(d)
      PROVE  FilesSigned' /\ StoresSigned' /\ OwnSigned' /\ TasksSigned'
  <2>1. UNCHANGED <<cache, pointers, saving, reading, versions, published>>
    BY <1>7 DEF Scan
  <2>2. \/ Advance(d)
        \/ \E p \in InDht(Current(d)) :
             sync' = [sync EXCEPT ![d] = [@ EXCEPT !.stage = "fetch", !.local = NoPointer, !.found = p]]
    BY <1>7 DEF Scan, InDht, Newest
  <2>3. ASSUME NEW p \in InDht(Current(d)),
               sync' = [sync EXCEPT ![d] = [@ EXCEPT !.stage = "fetch", !.local = NoPointer, !.found = p]]
        PROVE  \A e \in Devices : SyncOK(e)'
    <3>0. sync \in [Devices -> SyncOp] /\ sync[d].stage = "scan"
      BY <1>7 DEF TypeOK, Scan
    <3>1. sync'[d] = [sync[d] EXCEPT !.stage = "fetch", !.local = NoPointer, !.found = p]
      BY <2>3, <3>0
    <3>2. sync[d] \in [stage : {"scan"}, pos : DOMAIN Order, local : MaybePointer, found : {NoPointer}]
      BY <3>0 DEF SyncOp, NotSyncing
    <3>3. sync'[d].found = p /\ sync'[d].pos = sync[d].pos
      BY <3>1, <3>2
    <3>4. \A e \in Devices \ {d} : sync'[e] = sync[e]
      BY <2>3, <3>0
    <3>5. SyncOK(d)'
      BY <2>1, <3>3 DEF SyncOK, InDht, Current
    <3> QED BY <1>y, <3>4, <3>5
  <2>4. \A e \in Devices : SyncOK(e)'
    BY <1>i, <2>2, <2>3, AdvanceStays
  <2> QED BY <1>f, <1>p, <1>o, <1>s, <1>r, <2>1, <2>4 DEF TasksSigned
<1>8. ASSUME NEW d \in Devices, Fetch(d) \/ FetchFails(d)
      PROVE  FilesSigned' /\ StoresSigned' /\ OwnSigned' /\ TasksSigned'
  <2>1. UNCHANGED <<cache, pointers, saving, reading, versions, published>>
    BY <1>8 DEF Fetch, FetchFails
  <2>2. /\ \A e \in Devices \ {d} : sync'[e] = sync[e]
        /\ sync[d].stage = "fetch"
        /\ \/ sync'[d] = NotSyncing
           \/ sync'[d] = [sync[d] EXCEPT !.stage = "store"]
    BY <1>8 DEF Fetch, FetchFails, TypeOK
  <2>3. sync[d] \in [stage : {"fetch", "store"}, pos : DOMAIN Order, local : {NoPointer}, found : Pointer]
    BY <2>2 DEF TypeOK, SyncOp, NotSyncing
  <2>4. \/ sync'[d].stage = "idle"
        \/ sync'[d].pos = sync[d].pos /\ sync'[d].found = sync[d].found
    BY <2>2, <2>3 DEF NotSyncing
  <2>5. \A e \in Devices : SyncOK(e)'
    BY <1>i, <2>2, <2>4, SyncStays DEF TasksSigned
  <2> QED BY <1>f, <1>p, <1>o, <1>s, <1>r, <2>1, <2>5 DEF TasksSigned
<1>9. ASSUME NEW d \in Devices, StorePointer(d)
      PROVE  FilesSigned' /\ StoresSigned' /\ OwnSigned' /\ TasksSigned'
  <2>1. /\ UNCHANGED <<pointers, saving, reading, versions, published>> /\ Advance(d)
        /\ cache' = [cache EXCEPT ![d][Current(d)] = sync[d].found] /\ sync[d].stage = "store"
    BY <1>9 DEF StorePointer
  <2>2. Current(d) \in Records /\ Signed(Current(d), sync[d].found)
    BY <1>i, <2>1, StageTypes DEF TasksSigned, SyncOK, StoresSigned, InDht
  <2>3. \A e \in Devices, r \in Records :
           cache'[e][r] = cache[e][r] \/ (r = Current(d) /\ cache'[e][r] = sync[d].found)
    BY <2>1, <2>2 DEF TypeOK
  <2>4. FilesSigned'
    BY <1>i, <2>2, <2>3, FilesStay
  <2>5. \A e \in Devices : SyncOK(e)'
    BY <1>i, <2>1, AdvanceStays
  <2> QED BY <1>p, <1>o, <1>s, <1>r, <2>1, <2>4, <2>5 DEF TasksSigned
<1>10. ASSUME NEW d \in Devices, Crash(d)
      PROVE  FilesSigned' /\ StoresSigned' /\ OwnSigned' /\ TasksSigned'
  <2>1. /\ UNCHANGED <<cache, pointers, versions, published>>
        /\ saving' = [saving EXCEPT ![d] = NotSaving]
        /\ sync' = [sync EXCEPT ![d] = NotSyncing]
        /\ reading' = [reading EXCEPT ![d] = NotReading]
    BY <1>10 DEF Crash
  <2>2. \A e \in Devices : /\ saving'[e] \in {saving[e], NotSaving}
                           /\ sync'[e] = sync[e] \/ sync'[e].stage = "idle"
                           /\ reading'[e] \in {reading[e], NotReading}
    BY <2>1 DEF TypeOK, NotSyncing
  <2>3. \A e \in Devices : SaveOK(e)' /\ ReadOK(e)' /\ SyncOK(e)'
    BY <1>i, <2>1, <2>2, SaveStays, ReadStays, SyncStays DEF TasksSigned
  <2> QED BY <1>f, <1>p, <1>o, <2>1, <2>3 DEF TasksSigned
<1>11. ASSUME NEW d \in Devices, Reopen(d)
      PROVE  FilesSigned' /\ StoresSigned' /\ OwnSigned' /\ TasksSigned'
  BY <1>11, <1>f, <1>p, <1>o, <1>s, <1>r, <1>y DEF Reopen, TasksSigned
<1> QED
  BY <1>0, <1>1, <1>2, <1>3, <1>4, <1>5, <1>6, <1>7, <1>8, <1>9, <1>10, <1>11 DEF Next, SyncStep

\* Every pointer in a record file, in a store or in the hands of a task was signed
\* for the record it is found under (records.rs, sync.rs).
THEOREM VersionsInvariant == SyncSpec => []VersionsInv
BY InitVersionsInv, VersionsInvPreserved, PTL DEF SyncSpec

\* The number of a pointer tells whether there is one.
LEMMA NumberOfPointer ==
    ASSUME TypeOK
    PROVE  \A d \in Devices, r \in Records :
             /\ published[d][r].id = 0 <=> published[d][r] = NoPointer
             /\ published[d][r] \in MaybePointer /\ cache[d][r] \in MaybePointer
BY DEF TypeOK, MaybePointer, Pointer, NoPointer, Ids

LEMMA SignIsSign ==
    ASSUME VersionsInv, NEW d \in Devices, NEW r \in Records, NEW at \in 1..MaxTime, BeginSave(d, r, at)
    PROVE  Register!Sign(d, r, [by |-> d, rec |-> r, at |-> at])
<1> DEFINE v == [by |-> d, rec |-> r, at |-> at]
<1>1. /\ versions' = Append(versions, v) /\ UNCHANGED <<cache, pointers, published>>
      /\ at >= published[d][r].at
  BY DEF BeginSave
<1>2. UNCHANGED <<OwnNumbers, ReadNumbers, GivenNumbers>>
  BY <1>1 DEF OwnNumbers, ReadNumbers, GivenNumbers, InDht
<1>3. OwnNumbers[d][r] # 0 => versions[OwnNumbers[d][r]].at <= at
  <2>1. OwnNumbers[d][r] = published[d][r].id /\ published[d][r].at \in Nat
    BY NumberOfPointer DEF OwnNumbers, VersionsInv, MaybePointer, Pointer, NoPointer
  <2>2. published[d][r].id # 0 => versions[published[d][r].id].at = published[d][r].at
    BY NumberOfPointer DEF VersionsInv, OwnSigned, SignedBy, Signed
  <2> QED BY <1>1, <2>1, <2>2
<1> QED BY <1>1, <1>2, <1>3 DEF Register!Sign, Register!Follows

LEMMA WriteIsMakeOwn ==
    ASSUME VersionsInv, NEW d \in Devices, WriteRecord(d)
    PROVE  \E n \in DOMAIN versions : Register!MakeOwn(d, saving[d].rec, n)
<1> DEFINE r == saving[d].rec
           p == saving[d].ptr
           n == p.id
<1>1. /\ saving[d].stage = "write" /\ UNCHANGED <<versions, pointers>>
      /\ cache' = [cache EXCEPT ![d][r] = p] /\ published' = [published EXCEPT ![d][r] = p]
  BY DEF WriteRecord
<1>2. /\ r \in Records /\ p \in Pointer /\ SignedBy(d, r, p)
      /\ published[d][r].id < n /\ published[d][r].at <= p.at
  BY <1>1, StageTypes DEF VersionsInv, TasksSigned, SaveOK, NotSaving
<1>3. n \in DOMAIN versions /\ versions[n].by = d /\ versions[n].rec = r /\ versions[n].at = p.at
  BY <1>2 DEF SignedBy, Signed
<1>4. published[d][r].id # 0 => versions[published[d][r].id].at = published[d][r].at
  BY <1>2, NumberOfPointer DEF VersionsInv, OwnSigned, SignedBy, Signed
<1> HIDE DEF r, p
<1>5. OwnNumbers' = [OwnNumbers EXCEPT ![d][r] = n] /\ ReadNumbers' = [ReadNumbers EXCEPT ![d][r] = n]
  BY <1>1, <1>2 DEF OwnNumbers, ReadNumbers, VersionsInv, TypeOK
<1>6. OwnNumbers[d][r] = published[d][r].id /\ UNCHANGED GivenNumbers
  BY <1>1, <1>2 DEF OwnNumbers, GivenNumbers, InDht
<1>7. Register!MakeOwn(d, r, n)
  BY <1>1, <1>2, <1>3, <1>4, <1>5, <1>6 DEF Register!MakeOwn, Register!Follows
<1> QED BY <1>3, <1>7 DEF r

LEMMA PushIsGive ==
    ASSUME VersionsInv, NEW d \in Devices, PushPointer(d)
    PROVE  Register!Give(d, saving[d].rec)
<1> DEFINE r == saving[d].rec
           p == saving[d].ptr
<1>1. saving[d].stage = "push" /\ UNCHANGED <<versions, cache, published>>
  BY DEF PushPointer
<1>2. r \in Records /\ p \in Pointer /\ published[d][r] = p
  BY <1>1, StageTypes DEF VersionsInv, TasksSigned, SaveOK, NotSaving
<1>3. PICK S \in SUBSET (up \ {d}) :
        pointers' = [e \in Devices |->
            IF e \in S \cup {d} THEN [pointers[e] EXCEPT ![r] = @ \cup {p}] ELSE pointers[e]]
  BY DEF PushPointer
<1> HIDE DEF r, p
<1>4. /\ pointers'[d][r] = pointers[d][r] \cup {p}
      /\ \A e \in Devices, q \in Records :
           \/ pointers'[e][q] = pointers[e][q]
           \/ q = r /\ pointers'[e][q] = pointers[e][q] \cup {p}
  <2>1. pointers \in [Devices -> [Records -> SUBSET Pointer]]
    BY DEF VersionsInv, TypeOK
  <2>2. \A e \in Devices : \/ pointers'[e] = pointers[e]
                           \/ pointers'[e] = [pointers[e] EXCEPT ![r] = @ \cup {p}]
    BY <1>3
  <2>3. pointers'[d] = [pointers[d] EXCEPT ![r] = @ \cup {p}]
    BY <1>3
  <2>4. \A e \in Devices : LET f == [pointers[e] EXCEPT ![r] = @ \cup {p}] IN
           /\ f[r] = pointers[e][r] \cup {p}
           /\ \A q \in Records : q # r => f[q] = pointers[e][q]
    BY <1>2, <2>1
  <2> SUFFICES ASSUME NEW e \in Devices, NEW q \in Records
               PROVE  \/ pointers'[e][q] = pointers[e][q]
                      \/ q = r /\ pointers'[e][q] = pointers[e][q] \cup {p}
    BY <2>3, <2>4
  <2> QED BY <2>2, <2>4
<1>5. \A x : (\E e \in Devices, q \in Records : x \in pointers'[e][q])
             <=> x = p \/ \E e \in Devices, q \in Records : x \in pointers[e][q]
  <2> SUFFICES ASSUME NEW x
               PROVE  (\E e \in Devices, q \in Records : x \in pointers'[e][q])
                      <=> x = p \/ \E e \in Devices, q \in Records : x \in pointers[e][q]
    OBVIOUS
  <2>1. (\E e \in Devices, q \in Records : x \in pointers'[e][q])
        => x = p \/ \E e \in Devices, q \in Records : x \in pointers[e][q]
    BY <1>4
  <2>2. x = p => \E e \in Devices, q \in Records : x \in pointers'[e][q]
    BY <1>2, <1>4
  <2>3. ASSUME NEW e \in Devices, NEW q \in Records, x \in pointers[e][q]
        PROVE  x \in pointers'[e][q]
    BY <1>4, <2>3
  <2> QED BY <2>1, <2>2, <2>3
<1>6. GivenNumbers' = GivenNumbers \cup {p.id}
  <2>1. \A n : n \in GivenNumbers <=> \E x : n = x.id /\ \E e \in Devices, q \in Records : x \in pointers[e][q]
    BY DEF GivenNumbers, InDht
  <2>2. \A n : n \in GivenNumbers' <=> \E x : n = x.id /\ \E e \in Devices, q \in Records : x \in pointers'[e][q]
    BY DEF GivenNumbers, InDht
  <2>3. ASSUME NEW n \in GivenNumbers PROVE n \in GivenNumbers'
    <3>1. PICK x : n = x.id /\ \E e \in Devices, q \in Records : x \in pointers[e][q]
      BY <2>1
    <3>2. \E e \in Devices, q \in Records : x \in pointers'[e][q]
      BY <1>5, <3>1
    <3> QED BY <2>2, <3>1, <3>2
  <2>4. ASSUME NEW n \in GivenNumbers', n # p.id PROVE n \in GivenNumbers
    <3>1. PICK x : n = x.id /\ \E e \in Devices, q \in Records : x \in pointers'[e][q]
      BY <2>2, <2>4
    <3>2. \E e \in Devices, q \in Records : x \in pointers[e][q]
      BY <1>5, <2>4, <3>1
    <3> QED BY <2>1, <3>1, <3>2
  <2>5. p.id \in GivenNumbers'
    BY <1>5, <2>2
  <2> QED BY <2>3, <2>4, <2>5
<1>7. /\ OwnNumbers[d][r] = p.id /\ p.id # 0
      /\ UNCHANGED <<OwnNumbers, ReadNumbers>>
  BY <1>1, <1>2 DEF OwnNumbers, ReadNumbers, Pointer, Ids
<1> QED BY <1>1, <1>6, <1>7 DEF Register!Give, r

\* Reading or syncing takes over a pointer that was pushed.
LEMMA TakenIsAdopted ==
    ASSUME VersionsInv, NEW d \in Devices, NEW r \in Records, NEW p \in InDht(r),
           cache' = [cache EXCEPT ![d][r] = p], UNCHANGED <<versions, pointers, published>>
    PROVE  \E n \in GivenNumbers : Register!Adopt(d, r, n)
<1>1. p.id \in GivenNumbers /\ versions[p.id].rec = r
  BY DEF GivenNumbers, InDht, VersionsInv, StoresSigned, Signed
<1>2. ReadNumbers' = [ReadNumbers EXCEPT ![d][r] = p.id]
  BY DEF ReadNumbers, VersionsInv, TypeOK
<1>3. UNCHANGED <<OwnNumbers, GivenNumbers>>
  BY DEF OwnNumbers, GivenNumbers, InDht
<1> QED BY <1>1, <1>2, <1>3 DEF Register!Adopt

LEMMA StepIsRegisterStep ==
    ASSUME VersionsInv, [Next]_syncVars
    PROVE  [Register!RegisterNext]_Register!registerVars
<1>1. CASE UNCHANGED <<versions, cache, pointers, published>>
  BY <1>1 DEF Register!registerVars, OwnNumbers, ReadNumbers, GivenNumbers, InDht
<1>2. ASSUME NEW d \in Devices, NEW r \in Records, NEW at \in 1..MaxTime, BeginSave(d, r, at)
      PROVE  Register!RegisterNext
  BY <1>2, SignIsSign DEF Register!RegisterNext
<1>3. ASSUME NEW d \in Devices, WriteRecord(d) PROVE Register!RegisterNext
  <2>1. saving[d].rec \in Records
    BY StageTypes DEF VersionsInv
  <2> QED BY <1>3, <2>1, WriteIsMakeOwn DEF Register!RegisterNext
<1>4. ASSUME NEW d \in Devices, PushPointer(d) PROVE Register!RegisterNext
  <2>1. saving[d].rec \in Records
    BY StageTypes DEF VersionsInv
  <2> QED BY <1>4, <2>1, PushIsGive DEF Register!RegisterNext
<1>5. ASSUME NEW d \in Devices, EndRead(d), ~UNCHANGED cache PROVE Register!RegisterNext
  <2>1. reading[d].rec \in Records
    BY StageTypes DEF VersionsInv
  <2>2. reading[d].found # NoPointer => reading[d].found \in InDht(reading[d].rec)
    BY DEF VersionsInv, TasksSigned, ReadOK
  <2>3. \E p \in InDht(reading[d].rec) : cache' = [cache EXCEPT ![d][reading[d].rec] = p]
    BY <1>5, <2>2 DEF EndRead
  <2>4. UNCHANGED <<versions, pointers, published>>
    BY <1>5 DEF EndRead
  <2> QED BY <2>1, <2>3, <2>4, TakenIsAdopted DEF Register!RegisterNext
<1>6. ASSUME NEW d \in Devices, StorePointer(d) PROVE Register!RegisterNext
  <2>1. Current(d) \in Records /\ sync[d].found \in InDht(Current(d))
    BY <1>6, StageTypes DEF VersionsInv, TasksSigned, SyncOK, StorePointer
  <2>2. cache' = [cache EXCEPT ![d][Current(d)] = sync[d].found] /\ UNCHANGED <<versions, pointers, published>>
    BY <1>6 DEF StorePointer
  <2> QED BY <2>1, <2>2, TakenIsAdopted DEF Register!RegisterNext
<1>7. ASSUME NEW d \in Devices, EndRead(d), UNCHANGED cache PROVE UNCHANGED <<versions, cache, pointers, published>>
  BY <1>7 DEF EndRead
<1> QED
  BY <1>1, <1>2, <1>3, <1>4, <1>5, <1>6, <1>7
  DEF Next, SyncStep, syncVars, BeginRead, BeginSync, Scan, Fetch, FetchFails, Crash, Reopen

\* Saving, reading and syncing (records.rs, sync.rs), with whatever is lost and
\* whoever dies, implement RecordRegister: what a device reads of a record is a
\* version of it that the device itself wrote or that was pushed after it was.
THEOREM SyncImplementsRegister == SyncSpec => RecordsAreVersions
<1>1. Init => Register!RegisterInit
  BY DEF Init, Register!RegisterInit, PerRecord, OwnNumbers, ReadNumbers, GivenNumbers, InDht, NoPointer
<1>2. VersionsInv /\ [Next]_syncVars => [Register!RegisterNext]_Register!registerVars
  BY StepIsRegisterStep
<1> QED BY <1>1, <1>2, VersionsInvariant, PTL DEF SyncSpec, RecordsAreVersions, Register!RegisterSpec
=============================================================================
