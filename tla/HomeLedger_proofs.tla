------------------------- MODULE HomeLedger_proofs -------------------------
(***************************************************************************)
(* Theorems about HomeLedger, for any tasks, names and objects: its state   *)
(* is well typed, and a daemon whose commands write the home index one at a *)
(* time serves exactly what its ledger and its users asked for, keeps what  *)
(* the ledger lists and can read it.  HomeSharing is an implementation of   *)
(* HomeLedger, and publishes no name the ledger does not share.             *)
(***************************************************************************)
EXTENDS HomeSharing, TLAPS

-----------------------------------------------------------------------------
(* What the edits of an index return.                                       *)

\* The empty index and every edit of an index are indexes: the flags stay on
\* listed names (HomeIndex and the edits of sharing.rs and delete_object).
LEMMA IndexEdits ==
    /\ NoHome \in Index
    /\ \A i \in Index, n \in Names :
         /\ RemoveEntry(i, n) \in Index
         /\ \A id \in Objects : Upsert(i, n, id) \in Index
         /\ \A flag \in BOOLEAN : n \in Listed(i) => SetFlag(i, n, flag) \in Index
<1> USE HomeAssumption DEF Index, Listed
<1>1. NoHome \in Index
  BY DEF NoHome
<1>2. ASSUME NEW i \in Index, NEW n \in Names
      PROVE  /\ RemoveEntry(i, n) \in Index
             /\ \A id \in Objects : Upsert(i, n, id) \in Index
             /\ \A flag \in BOOLEAN : n \in Listed(i) => SetFlag(i, n, flag) \in Index
  <2>1. RemoveEntry(i, n) \in Index
    BY <1>2 DEF RemoveEntry
  <2>2. ASSUME NEW id \in Objects PROVE Upsert(i, n, id) \in Index
    BY <1>2, <2>2, ZenonT(30) DEF Upsert
  <2>3. ASSUME NEW flag \in BOOLEAN, n \in Listed(i) PROVE SetFlag(i, n, flag) \in Index
    BY <1>2, <2>3 DEF SetFlag
  <2> QED BY <2>1, <2>2, <2>3
<1> QED BY <1>1, <1>2

\* Numbering an index (save_home_index) changes nothing else of it.
LEMMA NextVersion ==
    ASSUME NEW i \in Index, NEW v \in Nat
    PROVE  /\ [i EXCEPT !.version = v] \in Index
           /\ SharedIds([i EXCEPT !.version = v]) = SharedIds(i)
           /\ \A n \in Names : [i EXCEPT !.version = v].object[n] = i.object[n]
BY DEF Index, Listed, SharedIds

\* The objects an index shares are objects: a flag never stands on a free name.
LEMMA SharedIdsAreObjects ==
    ASSUME NEW i \in Index
    PROVE  SharedIds(i) \subseteq Objects
BY DEF Index, Listed, SharedIds

-----------------------------------------------------------------------------
(* Type correctness.                                                        *)

\* A freshly opened daemon is well typed.
LEMMA InitTypeOK == Init => TypeOK
BY HomeAssumption, IndexEdits DEF Init, TypeOK, Op, Requests, Stages, Idle

\* Requests are operations, and so is Idle.
LEMMA IdleIsOp == Idle \in Op
BY IndexEdits DEF Idle, Op, Requests, Stages

\* An operation moved to its next stage is an operation.
LEMMA GotoTyped ==
    ASSUME TypeOK, NEW t \in Tasks, NEW s \in Stages \ {"load"}, Goto(t, s)
    PROVE  op' \in [Tasks -> Op]
BY DEF TypeOK, Goto, Op, Requests

\* A finished operation leaves an idle task.
LEMMA FinishTyped ==
    ASSUME TypeOK, NEW t \in Tasks, Finish(t)
    PROVE  op' \in [Tasks -> Op]
BY IdleIsOp DEF TypeOK, Finish

\* A request taken off a connection is an operation.
LEMMA BeginTyped ==
    ASSUME TypeOK, NEW t \in Tasks, NEW r \in Op, Begin(t, r)
    PROVE  op' \in [Tasks -> Op]
BY DEF TypeOK, Begin

\* Every step of the daemon keeps the types.
LEMMA TypePreserved == TypeOK /\ [Next]_ledgerVars => TypeOK'
<1> SUFFICES ASSUME TypeOK, [Next]_ledgerVars PROVE TypeOK'
  OBVIOUS
<1> USE HomeAssumption
<1>0. NoHome \in Index
  BY IndexEdits
<1>1. CASE UNCHANGED ledgerVars
  BY <1>1 DEF TypeOK, ledgerVars, disk, served
<1>2. ASSUME NEW id \in Objects, Store(id) PROVE TypeOK'
  BY <1>2 DEF TypeOK, Store, served
<1>3. ASSUME NEW t \in Tasks, Command(t) PROVE TypeOK'
  <2>1. ASSUME NEW n \in Names, NEW id \in Objects, NEW sid \in Objects,
               BeginShare(t, n, id, sid)
        PROVE  TypeOK'
    <3>1. [Idle EXCEPT !.stage = "load", !.kind = "share", !.name = n,
                       !.id = sid, !.flag = TRUE] \in Op
      BY IdleIsOp DEF Op, Requests, Stages
    <3>2. op' \in [Tasks -> Op]
      BY <2>1, <3>1, BeginTyped DEF BeginShare, BeginWriter
    <3> QED BY <2>1, <3>2 DEF BeginShare, TypeOK, served
  <2>2. ASSUME NEW n \in Names, NEW flag \in BOOLEAN, BeginSet(t, n, flag)
        PROVE  TypeOK'
    <3>1. [Idle EXCEPT !.stage = "load", !.kind = "set", !.name = n,
                       !.flag = flag] \in Op
      BY IdleIsOp DEF Op, Requests, Stages
    <3>2. op' \in [Tasks -> Op]
      BY <2>2, <3>1, BeginTyped DEF BeginSet, BeginWriter
    <3> QED BY <2>2, <3>2 DEF BeginSet, TypeOK, disk, served
  <2>3. ASSUME NEW i \in AppIndexes, BeginSave(t, i) PROVE TypeOK'
    <3>1. [Idle EXCEPT !.stage = "save", !.kind = "save", !.index = i] \in Op
      BY IdleIsOp DEF Op, Requests, Stages
    <3>2. op' \in [Tasks -> Op]
      BY <2>3, <3>1, BeginTyped DEF BeginSave, BeginWriter
    <3> QED BY <2>3, <3>2 DEF BeginSave, TypeOK, disk, served
  <2>4. ASSUME NEW id \in Objects, BeginDelete(t, id) PROVE TypeOK'
    <3>1. [Idle EXCEPT !.stage = "deload", !.kind = "delete", !.id = id,
                       !.oldHome = home] \in Op
      BY IdleIsOp DEF Op, Requests, Stages, TypeOK
    <3>2. op' \in [Tasks -> Op]
      BY <2>4, <3>1, BeginTyped DEF BeginDelete, BeginWriter
    <3> QED BY <2>4, <3>2 DEF BeginDelete, TypeOK, disk, served
  <2>5. ASSUME NEW id \in Objects, BeginSweep(t, id) PROVE TypeOK'
    <3>1. [Idle EXCEPT !.stage = "evict", !.kind = "sweep", !.id = id] \in Op
      BY IdleIsOp DEF Op, Requests, Stages
    <3>2. op' \in [Tasks -> Op]
      BY <2>5, <3>1, BeginTyped DEF BeginSweep
    <3> QED BY <2>5, <3>2 DEF BeginSweep, TypeOK, disk, served
  <2>6. ASSUME NEW id \in Objects, BeginAnnounce(t, id) PROVE TypeOK'
    <3>1. [Idle EXCEPT !.stage = "provide", !.kind = "announce", !.id = id] \in Op
      BY IdleIsOp DEF Op, Requests, Stages
    <3>2. op' \in [Tasks -> Op]
      BY <2>6, <3>1, BeginTyped DEF BeginAnnounce
    <3> QED BY <2>6, <3>2 DEF BeginAnnounce, TypeOK, disk
  <2> QED BY <1>3, <2>1, <2>2, <2>3, <2>4, <2>5, <2>6 DEF Command
<1>4. ASSUME NEW t \in Tasks, Step(t) PROVE TypeOK'
  <2>0. op[t] \in Op /\ home \in Index
    BY DEF TypeOK
  <2>1. CASE LoadHome(t)
    <3>0. /\ op[t].stage = "load" /\ op[t].kind \in {"share", "set"}
          /\ op[t].name \in Names /\ op[t].flag \in BOOLEAN
          /\ op[t].kind = "share" => op[t].id \in Objects
      BY <2>0, <2>1 DEF LoadHome, Op, Requests
    <3>1. op' \in [Tasks -> Op]
      <4>1. CASE Finish(t)
        BY <4>1, FinishTyped
      <4>2. ASSUME NEW id \in Objects \cup {None}, NEW i \in Index,
                   op' = [op EXCEPT ![t].stage = "save", ![t].id = id, ![t].index = i]
            PROVE  op' \in [Tasks -> Op]
        <5>1. [op[t] EXCEPT !.stage = "save", !.id = id, !.index = i] \in Op
          BY <2>0, <4>2 DEF Op, Requests, Stages
        <5> QED BY <4>2, <5>1 DEF TypeOK
      <4>3. CASE Readable /\ op[t].kind = "share"
        <5>1. Upsert(home, op[t].name, op[t].id) \in Index
          BY <2>0, <3>0, <4>3, IndexEdits
        <5> QED BY <2>1, <3>0, <4>2, <4>3, <5>1 DEF LoadHome
      <4>4. CASE Readable /\ op[t].kind = "set" /\ home.object[op[t].name] # None
        <5>1. op[t].name \in Listed(home)
          BY <3>0, <4>4 DEF Listed
        <5>2. SetFlag(home, op[t].name, op[t].flag) \in Index
          BY <2>0, <3>0, <5>1, IndexEdits
        <5>3. home.object[op[t].name] \in Objects \cup {None}
          BY <2>0, <3>0 DEF Index
        <5> QED BY <2>1, <3>0, <4>2, <4>4, <5>2, <5>3 DEF LoadHome
      <4> QED BY <2>1, <3>0, <4>1, <4>3, <4>4 DEF LoadHome
    <3> QED BY <2>1, <3>1 DEF LoadHome, TypeOK, disk, served
  <2>2. CASE LoadPrevious(t)
    <3> DEFINE i == [op[t].index EXCEPT !.version = home.version + 1]
    <3>1. i \in Index
      <4>1. home.version + 1 \in Nat
        BY <2>0 DEF Index
      <4>2. op[t].index \in Index
        BY <2>0 DEF Op, Requests
      <4> QED BY <4>1, <4>2, NextVersion
    <3>2. CASE Readable
      <4>1. op' = [op EXCEPT ![t].stage = "write", ![t].index = i, ![t].previous = home]
        BY <2>2, <3>2 DEF LoadPrevious
      <4> DEFINE r == [op[t] EXCEPT !.stage = "write", !.index = i, !.previous = home]
      <4>2. r \in Requests /\ r.stage = "write"
        BY <2>0, <3>1 DEF Op, Requests, Stages
      <4>3. op' \in [Tasks -> Op]
        <5>1. r \in Op
          BY <4>2 DEF Op
        <5>2. op' = [op EXCEPT ![t] = r]
          BY <4>1
        <5> HIDE DEF r
        <5> QED BY <5>1, <5>2 DEF TypeOK
      <4> QED BY <2>2, <3>1, <3>2, <4>3 DEF LoadPrevious, TypeOK, served
    <3>3. CASE ~Readable
      BY <2>2, <3>3, FinishTyped DEF LoadPrevious, TypeOK, served
    <3> QED BY <3>2, <3>3
  <2>3. CASE WriteTmp(t)
    BY <2>0, <2>3, GotoTyped DEF WriteTmp, TypeOK, Op, Requests, Stages, served
  <2>4. CASE Rename(t)
    <3>1. op' \in [Tasks -> Op]
      BY <2>4, GotoTyped, FinishTyped DEF Rename, Stages
    <3> QED BY <1>0, <2>4, <3>1 DEF Rename, TypeOK, served
  <2>5. CASE Reconcile(t)
    <3>1. AfterReconcile(op[t]) \in Stages \ {"load"}
      BY DEF AfterReconcile, Stages
    <3>2. op' \in [Tasks -> Op]
      BY <2>5, <3>1, GotoTyped, FinishTyped DEF Reconcile
    <3>3. SharedIds(op[t].index) \subseteq Objects
      BY <2>0, SharedIdsAreObjects DEF Op, Requests
    <3> QED BY <2>5, <3>2, <3>3 DEF Reconcile, TypeOK, disk
  <2>6. CASE PublishEntry(t)
    BY <2>6, FinishTyped DEF PublishEntry, TypeOK, disk, served
  <2>7. CASE DeleteLoad(t)
    <3>1. op' \in [Tasks -> Op]
      <4>1. CASE Finish(t)
        BY <4>1, FinishTyped
      <4>2. CASE Goto(t, "evict")
        BY <4>2, GotoTyped DEF Stages
      <4>3. ASSUME NEW n \in Names,
                   op' = [op EXCEPT ![t].stage = "save", ![t].index = RemoveEntry(home, n)]
            PROVE  op' \in [Tasks -> Op]
        <5>1. RemoveEntry(home, n) \in Index
          BY <2>0, IndexEdits
        <5> DEFINE r == [op[t] EXCEPT !.stage = "save", !.index = RemoveEntry(home, n)]
        <5>2. r \in Requests /\ r.stage = "save"
          BY <2>0, <5>1 DEF Op, Requests, Stages
        <5>3. r \in Op
          BY <5>2 DEF Op
        <5>4. op' = [op EXCEPT ![t] = r]
          BY <4>3
        <5> HIDE DEF r
        <5> QED BY <5>3, <5>4 DEF TypeOK
      <4> QED BY <2>7, <4>1, <4>2, <4>3 DEF DeleteLoad
    <3> QED BY <2>7, <3>1 DEF DeleteLoad, TypeOK, disk, served
  <2>8. CASE EvictFile(t)
    BY <2>8, GotoTyped DEF EvictFile, TypeOK, Stages, served
  <2>9. CASE EvictWithdraw(t)
    <3>1. op' \in [Tasks -> Op]
      BY <2>9, GotoTyped, FinishTyped DEF EvictWithdraw, Stages
    <3> QED BY <2>9, <3>1 DEF EvictWithdraw, TypeOK, disk
  <2>10. CASE EvictHome(t)
    BY <2>10, FinishTyped DEF EvictHome, TypeOK, served
  <2>11. CASE Provide(t)
    BY <2>11, FinishTyped DEF Provide, TypeOK, disk, served
  <2> QED BY <1>4, <2>1, <2>2, <2>3, <2>4, <2>5, <2>6, <2>7, <2>8, <2>9, <2>10,
             <2>11 DEF Step
<1>5. CASE Crash
  <2>1. op' \in [Tasks -> Op]
    BY <1>5, IdleIsOp DEF Crash
  <2>2. crashes' \in 0..MaxCrashes
    BY <1>5 DEF Crash, TypeOK
  <2> QED BY <1>0, <1>5, <2>1, <2>2 DEF Crash, TypeOK
<1>6. CASE Restart
  BY <1>6, SharedIdsAreObjects DEF Restart, TypeOK, disk
<1> QED BY <1>1, <1>2, <1>3, <1>4, <1>5, <1>6 DEF Next

\* The daemon's state is well typed in every reachable state (Runtime's fields,
\* the record file and the operations in flight).
THEOREM TypeCorrect == LedgerSpec => []TypeOK
BY InitTypeOK, TypePreserved, PTL DEF LedgerSpec

-----------------------------------------------------------------------------
(* A daemon whose commands write the home index one at a time.              *)

OneWriter == \A t, u \in Writers : t = u

\* What moving an operation on, finishing it and starting one do to `op`.
LEMMA GotoMoves ==
    ASSUME TypeOK, NEW t \in Tasks, NEW s, Goto(t, s)
    PROVE  /\ op'[t].stage = s /\ op'[t].kind = op[t].kind /\ op'[t].id = op[t].id
           /\ op'[t].index = op[t].index /\ op'[t].previous = op[t].previous
           /\ op'[t].name = op[t].name /\ op'[t].oldHome = op[t].oldHome
           /\ op'[t].flag = op[t].flag
           /\ \A u \in Tasks \ {t} : op'[u] = op[u]
<1>1. op[t] \in Op /\ op' = [op EXCEPT ![t] = [op[t] EXCEPT !.stage = s]]
  BY DEF TypeOK, Goto
<1> QED BY <1>1 DEF TypeOK, Op, Requests

\* A finished operation leaves its task idle and the others alone.
LEMMA FinishMoves ==
    ASSUME TypeOK, NEW t \in Tasks, Finish(t)
    PROVE  op'[t] = Idle /\ \A u \in Tasks \ {t} : op'[u] = op[u]
BY DEF TypeOK, Finish

\* A request is taken up by an idle task of a running daemon.
LEMMA BeginMoves ==
    ASSUME TypeOK, NEW t \in Tasks, NEW r, Begin(t, r)
    PROVE  up /\ op[t] = Idle /\ op'[t] = r /\ \A u \in Tasks \ {t} : op'[u] = op[u]
BY DEF TypeOK, Begin

\* The operation of an idle task plays no role.
LEMMA IdleRole == Idle.stage = "idle" /\ Idle.kind = "none"
BY DEF Idle

\* An index that is written has one entry per object if it had before.
LEMMA EditsKeepInjective ==
    ASSUME NEW i \in Index, Injective(i), NEW n \in Names
    PROVE  /\ Injective(RemoveEntry(i, n))
           /\ \A flag \in BOOLEAN : Injective(SetFlag(i, n, flag))
           /\ \A id \in Objects :
                (\A m \in Names \ {n} : i.object[m] # id) => Injective(Upsert(i, n, id))
<1> USE HomeAssumption
<1>1. Injective(RemoveEntry(i, n))
  BY DEF Index, Listed, Injective, RemoveEntry
<1>2. ASSUME NEW flag \in BOOLEAN PROVE Injective(SetFlag(i, n, flag))
  BY <1>2 DEF Index, Listed, Injective, SetFlag
<1>3. ASSUME NEW id \in Objects, \A m \in Names \ {n} : i.object[m] # id
      PROVE  Injective(Upsert(i, n, id))
  BY <1>3 DEF Index, Listed, Injective, Upsert
<1> QED BY <1>1, <1>2, <1>3

\* delete_object takes the object out of a ledger that lists it once.
LEMMA RemovalUnlists ==
    ASSUME NEW i \in Index, Injective(i), NEW n \in Names, i.object[n] \in Objects
    PROVE  ~Lists(RemoveEntry(i, n), i.object[n])
BY HomeAssumption DEF Index, Listed, Injective, RemoveEntry, Lists

\* An object no entry lists is not shared.
LEMMA UnlistedIsUnshared ==
    ASSUME NEW i \in Index, NEW id, ~Lists(i, id)
    PROVE  id \notin SharedIds(i)
BY DEF Index, Listed, Lists, SharedIds

\* At the start nothing runs, nothing is listed and nothing is served.
LEMMA InitServingInv == Init => ServingInv
BY HomeAssumption, IdleRole DEF Init, ServingInv, DownIsIdle, RolesOK, PublishingOK,
   ServedOK, CoveredOK, ListedOnce, Injective, Listed, NoHome, Reconciling, Readable,
   SharedIds

-----------------------------------------------------------------------------
(* One lemma per group of actions that disturb the same conjuncts.          *)

\* A request is taken up: the ledger, its files and the serving set stay.
LEMMA BeginKeepsServing ==
    ASSUME TypeOK, ServingInv, NEW t \in Tasks, up,
           UNCHANGED <<up, indexes, home, tmp, served>>,
           NEW r \in Op, Begin(t, r),
           \/ r.stage = "load" /\ t \in Writers /\ r.kind = "set"
           \/ /\ r.stage = "load" /\ t \in Writers /\ r.kind = "share"
              /\ Aliasing \/ \A m \in Names \ {r.name} : home.object[m] # r.id
           \/ /\ r.stage = "save" /\ t \in Writers /\ r.kind = "save"
              /\ Aliasing \/ Injective(r.index)
           \/ r.stage = "deload" /\ t \in Writers /\ r.kind = "delete" /\ r.id \in Own
           \/ r.stage = "evict" /\ r.kind = "sweep" /\ r.id \in Foreign
    PROVE  ServingInv'
<1> USE HomeAssumption, BeginMoves, IdleRole
<1>1. DownIsIdle'
  BY DEF DownIsIdle, served
<1>2. RolesOK'
  BY DEF ServingInv, RolesOK
<1>3. Readable' = Readable /\ Reconciling' = Reconciling
  BY DEF Readable, Reconciling
<1>4. PublishingOK'
  BY <1>3 DEF ServingInv, PublishingOK
<1>5. ServedOK'
  BY <1>3 DEF ServingInv, ServedOK, served
<1>6. ASSUME ~Aliasing PROVE CoveredOK'
  BY <1>3, <1>6 DEF ServingInv, CoveredOK, served
<1>7. ASSUME ~Aliasing PROVE ListedOnce'
  BY <1>7 DEF ServingInv, ListedOnce
<1> QED BY <1>1, <1>2, <1>4, <1>5, <1>6, <1>7 DEF ServingInv

\* Announcing an object adds it to the serving set and to what was asked for.
LEMMA AnnounceKeepsServing ==
    ASSUME TypeOK, ServingInv, NEW t \in Tasks, NEW id \in Objects, BeginAnnounce(t, id)
    PROVE  ServingInv'
<1> USE HomeAssumption, IdleRole
<1> DEFINE r == [Idle EXCEPT !.stage = "provide", !.kind = "announce", !.id = id]
<1>0. /\ up /\ op[t] = Idle /\ op'[t] = r
      /\ \A u \in Tasks \ {t} : op'[u] = op[u]
      /\ r.stage = "provide" /\ r.kind = "announce"
  BY BeginMoves DEF BeginAnnounce, Idle
<1> HIDE DEF r
<1>1. DownIsIdle'
  BY <1>0 DEF DownIsIdle, BeginAnnounce
<1>2. RolesOK'
  BY <1>0 DEF ServingInv, RolesOK
<1>3. Readable' = Readable /\ Reconciling' = Reconciling
  BY <1>0 DEF Readable, Reconciling, BeginAnnounce, disk
<1>4. PublishingOK'
  BY <1>0, <1>3 DEF ServingInv, PublishingOK, BeginAnnounce, disk
<1>5. ServedOK'
  BY <1>0, <1>3 DEF ServingInv, ServedOK, BeginAnnounce, disk
<1>6. ASSUME ~Aliasing PROVE CoveredOK'
  BY <1>0, <1>3, <1>6 DEF ServingInv, CoveredOK, BeginAnnounce, disk
<1>7. ASSUME ~Aliasing PROVE ListedOnce'
  BY <1>0, <1>7 DEF ServingInv, ListedOnce, BeginAnnounce, disk
<1> QED BY <1>1, <1>2, <1>4, <1>5, <1>6, <1>7 DEF ServingInv

\* An operation ends, or moves to a stage that promises nothing new, without
\* touching the ledger or the serving set.
LEMMA QuietStepKeepsServing ==
    ASSUME TypeOK, ServingInv, NEW t \in Tasks, op[t] # Idle,
           UNCHANGED <<up, home, tmp, served>>, Readable' => Readable,
           \A u \in Tasks \ {t} : op'[u] = op[u],
           op[t].stage # "reconcile",
           \A u \in Writers \ {t} : op[u].stage \notin {"write", "rename"} \/ Readable',
           \/ op'[t] = Idle
           \/ /\ op[t].stage = "evict" /\ op'[t].stage = "withdraw"
              /\ op'[t].kind = op[t].kind /\ op'[t].id = op[t].id
    PROVE  ServingInv'
<1> USE HomeAssumption, IdleRole
<1>1. DownIsIdle'
  BY DEF ServingInv, DownIsIdle, served
<1>2. RolesOK'
  BY DEF ServingInv, RolesOK
<1>3. Reconciling' = Reconciling
  BY DEF Reconciling
<1>4. PublishingOK'
  BY <1>3 DEF ServingInv, PublishingOK
<1>5. ServedOK'
  BY <1>3 DEF ServingInv, ServedOK, served
<1>6. ASSUME ~Aliasing PROVE CoveredOK'
  BY <1>3, <1>6 DEF ServingInv, CoveredOK, served
<1>7. ASSUME ~Aliasing PROVE ListedOnce'
  BY <1>7 DEF ServingInv, ListedOnce
<1> QED BY <1>1, <1>2, <1>4, <1>5, <1>6, <1>7 DEF ServingInv

\* The one writer moves on before its index is published: it loads or edits
\* the ledger, stores the index or writes the record's temporary file.
WriterMoves(t) ==
    /\ UNCHANGED up /\ UNCHANGED home /\ UNCHANGED served /\ Readable' = Readable
    /\ \A u \in Tasks \ {t} : op'[u] = op[u]
    /\ op[t] # Idle /\ op[t].kind # "sweep" /\ op[t].stage # "reconcile"
    /\ op'[t].kind = op[t].kind
    /\ op'[t].kind = "delete" => op'[t].id = op[t].id
    /\ op'[t].stage \in {"save", "write", "rename", "evict"}
    /\ op'[t].stage = "evict" => op[t].kind = "delete"
    /\ op'[t].stage \in {"write", "rename"} => op'[t].previous = home /\ Readable
    /\ op'[t].stage = "rename" => tmp' = op'[t].index
    /\ ~Aliasing =>
          /\ op'[t].stage = "evict" => ~Lists(home, op[t].id)
          /\ op'[t].stage # "evict" => Injective(op'[t].index)
          /\ op'[t].stage # "evict" /\ op[t].kind = "delete" =>
                ~Lists(op'[t].index, op[t].id)

\* The ledger, the files and the serving set stay; the writer's promises hold.
LEMMA WriterStepKeepsServing ==
    ASSUME TypeOK, ServingInv, OneWriter, NEW t \in Writers, WriterMoves(t)
    PROVE  ServingInv'
<1> USE HomeAssumption
<1>0. t \in Tasks /\ \A u \in Writers : u = t
  BY DEF OneWriter
<1>1. DownIsIdle'
  BY <1>0 DEF WriterMoves, ServingInv, DownIsIdle, served
<1>2. RolesOK'
  BY <1>0 DEF WriterMoves, ServingInv, RolesOK
<1>3. ~Reconciling /\ ~Reconciling'
  BY <1>0 DEF WriterMoves, Reconciling
<1>4. PublishingOK'
  BY <1>0 DEF WriterMoves, PublishingOK
<1>5. ServedOK'
  BY <1>0, <1>3 DEF WriterMoves, ServingInv, ServedOK, served
<1>6. ASSUME ~Aliasing PROVE CoveredOK'
  BY <1>0, <1>3, <1>6 DEF WriterMoves, ServingInv, CoveredOK, served
<1>7. ASSUME ~Aliasing PROVE ListedOnce'
  BY <1>0, <1>7 DEF WriterMoves, ServingInv, ListedOnce
<1> QED BY <1>1, <1>2, <1>4, <1>5, <1>6, <1>7 DEF ServingInv

\* set_home_entry_shared and share_object_for edit a loaded ledger.
LEMMA LoadHomeKeepsServing ==
    ASSUME TypeOK, ServingInv, OneWriter, NEW t \in Tasks, LoadHome(t)
    PROVE  ServingInv'
<1> USE HomeAssumption
<1>0. /\ op[t] \in Op /\ op[t] # Idle /\ op[t].stage = "load" /\ home \in Index
      /\ op[t].name \in Names /\ op[t].kind \in {"share", "set"}
      /\ op[t].kind = "share" => op[t].id \in Objects
      /\ op[t].flag \in BOOLEAN /\ t \in Writers
  BY IdleRole DEF LoadHome, TypeOK, Op, Requests, ServingInv, RolesOK
<1>1. CASE Finish(t)
  <2>1. Readable' = Readable
    BY DEF LoadHome, disk, Readable
  <2> QED BY <1>0, <1>1, <2>1, FinishMoves, QuietStepKeepsServing
          DEF LoadHome, disk, ServingInv, PublishingOK
<1>2. CASE ~Finish(t)
  <2> DEFINE i == IF op[t].kind = "share" THEN Upsert(home, op[t].name, op[t].id)
                  ELSE SetFlag(home, op[t].name, op[t].flag)
  <2>1. /\ op'[t].stage = "save" /\ op'[t].kind = op[t].kind /\ op'[t].index = i
        /\ \A u \in Tasks \ {t} : op'[u] = op[u]
    BY <1>0, <1>2 DEF LoadHome, TypeOK, Op, Requests
  <2>2. ASSUME ~Aliasing PROVE Injective(i)
    <3>1. Injective(home)
      BY <2>2 DEF ServingInv, ListedOnce
    <3>2. op[t].kind = "share" => \A m \in Names \ {op[t].name} : home.object[m] # op[t].id
      BY <1>0, <2>2 DEF ServingInv, ListedOnce
    <3> QED BY <1>0, <3>1, <3>2, EditsKeepInjective
  <2>3. Readable' = Readable
    BY DEF LoadHome, disk, Readable
  <2> HIDE DEF i
  <2>4. UNCHANGED up /\ UNCHANGED home /\ UNCHANGED served
    BY DEF LoadHome, disk
  <2>5. WriterMoves(t)
    BY <1>0, <2>1, <2>2, <2>3, <2>4 DEF WriterMoves
  <2> QED BY <1>0, <2>5, WriterStepKeepsServing
<1> QED BY <1>1, <1>2

\* save_home_index stores the next index; the current one stays readable.
LEMMA LoadPreviousKeepsServing ==
    ASSUME TypeOK, ServingInv, OneWriter, NEW t \in Tasks, LoadPrevious(t)
    PROVE  ServingInv'
<1> USE HomeAssumption
<1>0. /\ op[t] \in Op /\ op[t].index \in Index /\ op[t] # Idle
      /\ op[t].stage = "save" /\ op[t].kind # "sweep"
      /\ home \in Index /\ t \in Writers
  BY IdleRole DEF LoadPrevious, TypeOK, Op, Requests, ServingInv, RolesOK
<1> DEFINE i == [op[t].index EXCEPT !.version = home.version + 1]
<1>1. home.version + 1 \in Nat /\ i \in Index
  <2>1. home.version + 1 \in Nat
    BY <1>0 DEF Index
  <2> QED BY <1>0, <2>1, NextVersion
<1>2. Readable' = Readable
  BY DEF LoadPrevious, Readable, Named, served
<1>3. CASE ~Readable
  BY <1>0, <1>2, <1>3, FinishMoves, QuietStepKeepsServing
     DEF LoadPrevious, ServingInv, PublishingOK
<1>4. CASE Readable
  <2>1. /\ op'[t].stage = "write" /\ op'[t].kind = op[t].kind /\ op'[t].id = op[t].id
        /\ op'[t].index = i /\ op'[t].previous = home
        /\ \A u \in Tasks \ {t} : op'[u] = op[u]
    BY <1>0, <1>4 DEF LoadPrevious, TypeOK, Op, Requests
  <2>2. ASSUME ~Aliasing
        PROVE  /\ Injective(i)
               /\ op[t].kind = "delete" => ~Lists(i, op[t].id)
    <3>1. /\ Injective(op[t].index)
          /\ op[t].kind = "delete" => ~Lists(op[t].index, op[t].id)
      BY <1>0, <2>2 DEF ServingInv, ListedOnce
    <3>2. \A n \in Names : i.object[n] = op[t].index.object[n]
      BY <1>0, <1>1, NextVersion
    <3> QED BY <3>1, <3>2 DEF Injective, Listed, Lists
  <2> HIDE DEF i
  <2>3. UNCHANGED up /\ UNCHANGED home /\ UNCHANGED served
    BY DEF LoadPrevious
  <2>4. WriterMoves(t)
    BY <1>0, <1>2, <1>4, <2>1, <2>2, <2>3 DEF WriterMoves
  <2> QED BY <1>0, <2>4, WriterStepKeepsServing
<1> QED BY <1>3, <1>4

\* publish_pointer fills the record's temporary file.
LEMMA WriteTmpKeepsServing ==
    ASSUME TypeOK, ServingInv, OneWriter, NEW t \in Tasks, WriteTmp(t)
    PROVE  ServingInv'
<1> USE HomeAssumption
<1>0. /\ op[t] # Idle /\ op[t].stage = "write" /\ op[t].kind # "sweep" /\ t \in Writers
  BY IdleRole DEF WriteTmp, ServingInv, RolesOK
<1>1. Readable' = Readable
  BY DEF WriteTmp, Readable
<1>2. /\ op'[t].stage = "rename" /\ op'[t].kind = op[t].kind /\ op'[t].id = op[t].id
      /\ op'[t].index = op[t].index /\ op'[t].previous = op[t].previous
      /\ \A u \in Tasks \ {t} : op'[u] = op[u]
  BY GotoMoves DEF WriteTmp
<1>3. op[t].previous = home /\ Readable
  BY <1>0 DEF ServingInv, PublishingOK
<1>4. ~Aliasing => /\ Injective(op[t].index)
                   /\ op[t].kind = "delete" => ~Lists(op[t].index, op[t].id)
  BY <1>0 DEF ServingInv, ListedOnce
<1>5. UNCHANGED up /\ UNCHANGED home /\ UNCHANGED served /\ tmp' = op[t].index
  BY DEF WriteTmp
<1>6. WriterMoves(t)
  BY <1>0, <1>1, <1>2, <1>3, <1>4, <1>5 DEF WriterMoves
<1> QED BY <1>0, <1>6, WriterStepKeepsServing

\* The rename publishes the writer's own index: the serving set now answers to
\* the previous one, until reconcile_shared runs.
LEMMA RenameKeepsServing ==
    ASSUME TypeOK, ServingInv, OneWriter, NEW t \in Tasks, Rename(t)
    PROVE  ServingInv'
<1> USE HomeAssumption
<1>0. /\ op[t] # Idle /\ op[t].stage = "rename" /\ op[t].kind # "sweep" /\ t \in Writers
      /\ \A u \in Writers : u = t
      /\ op[t].previous = home /\ Readable /\ tmp = op[t].index
      /\ UNCHANGED up /\ UNCHANGED indexes /\ UNCHANGED served
  BY IdleRole DEF Rename, ServingInv, RolesOK, PublishingOK, OneWriter
<1>1. up
  BY <1>0 DEF ServingInv, DownIsIdle
<1>2. CASE Finish(t)
  <2>1. UNCHANGED home /\ UNCHANGED tmp
    BY <1>0, <1>2, GotoMoves, FinishMoves, IdleRole DEF Rename
  <2>2. Readable' = Readable
    BY <1>0, <2>1 DEF Readable
  <2> QED BY <1>0, <1>2, <2>1, <2>2, FinishMoves, QuietStepKeepsServing
<1>3. CASE ~Finish(t)
  <2>0. /\ home' = tmp /\ op'[t].stage = "reconcile" /\ op'[t].kind = op[t].kind
        /\ op'[t].id = op[t].id /\ op'[t].index = op[t].index
        /\ op'[t].previous = op[t].previous
        /\ \A u \in Tasks \ {t} : op'[u] = op[u]
    BY <1>3, GotoMoves DEF Rename
  <2>1. DownIsIdle'
    BY <1>0, <1>1 DEF DownIsIdle
  <2>2. RolesOK'
    BY <1>0, <2>0 DEF ServingInv, RolesOK
  <2>3. Reconciling' /\ ~Reconciling
    BY <1>0, <2>0 DEF Reconciling
  <2>4. PublishingOK'
    BY <1>0, <2>0 DEF PublishingOK
  <2>5. ServedOK'
    BY <1>0, <2>0, <2>3 DEF ServingInv, ServedOK, served
  <2>6. ASSUME ~Aliasing PROVE CoveredOK'
    BY <1>0, <1>1, <2>0, <2>3, <2>6 DEF ServingInv, CoveredOK, served
  <2>7. ASSUME ~Aliasing PROVE ListedOnce'
    BY <1>0, <2>0, <2>7 DEF ServingInv, ListedOnce
  <2> QED BY <2>1, <2>2, <2>4, <2>5, <2>6, <2>7 DEF ServingInv
<1> QED BY <1>2, <1>3

\* reconcile_shared brings the serving set from the previous index to the
\* published one.
LEMMA ReconcileKeepsServing ==
    ASSUME TypeOK, ServingInv, OneWriter, NEW t \in Tasks, Reconcile(t)
    PROVE  ServingInv'
<1> USE HomeAssumption
<1> DEFINE new == SharedIds(op[t].index)
           old == SharedIds(op[t].previous)
<1>0. /\ op[t] # Idle /\ op[t].stage = "reconcile" /\ op[t].kind # "sweep" /\ t \in Writers
      /\ \A u \in Writers : u = t
      /\ home = op[t].index
      /\ UNCHANGED up /\ UNCHANGED home /\ UNCHANGED tmp /\ UNCHANGED indexes
  BY IdleRole DEF Reconcile, disk, ServingInv, RolesOK, PublishingOK, OneWriter
<1>1. up
  BY <1>0 DEF ServingInv, DownIsIdle
<1>2. shared' = (shared \cup (new \ old)) \ (old \ new) /\ asked' = asked \ (old \ new)
  BY DEF Reconcile
<1>3. /\ \A u \in Tasks \ {t} : op'[u] = op[u]
      /\ \/ op'[t] = Idle
         \/ /\ op'[t].stage \in {"entry", "evict"}
            /\ op'[t].stage = "evict" => op[t].kind = "delete"
            /\ op'[t].kind = op[t].kind /\ op'[t].id = op[t].id
  <2>1. CASE Finish(t)
    BY <2>1, FinishMoves
  <2>2. CASE AfterReconcile(op[t]) # "idle" /\ Goto(t, AfterReconcile(op[t]))
    <3>1. /\ AfterReconcile(op[t]) \in {"entry", "evict"}
          /\ AfterReconcile(op[t]) = "evict" => op[t].kind = "delete"
      BY <2>2 DEF AfterReconcile
    <3> QED BY <2>2, <3>1, GotoMoves
  <2> QED BY <2>1, <2>2 DEF Reconcile
<1>4. DownIsIdle'
  BY <1>0, <1>1 DEF DownIsIdle
<1>5. RolesOK'
  BY <1>0, <1>3, IdleRole DEF ServingInv, RolesOK
<1>6. ~Reconciling' /\ Reconciling
  BY <1>0, <1>3, IdleRole DEF Reconciling
<1>7. PublishingOK'
  BY <1>0, <1>3, IdleRole DEF PublishingOK
<1>8. ServedOK'
  <2>1. shared \subseteq old \cup asked
    BY <1>0 DEF ServingInv, ServedOK
  <2>2. shared' \subseteq new \cup asked'
    BY <1>2, <2>1
  <2> QED BY <1>0, <1>6, <2>2 DEF ServedOK, Reconciling
<1>9. ASSUME ~Aliasing PROVE CoveredOK'
  <2>1. old \cap Own \subseteq shared
    BY <1>0, <1>9 DEF ServingInv, CoveredOK
  <2>2. new \cap Own \subseteq shared'
    BY <1>2, <2>1
  <2> QED BY <1>0, <1>6, <2>2 DEF CoveredOK, Reconciling
<1>10. ASSUME ~Aliasing PROVE ListedOnce'
  BY <1>0, <1>3, <1>10, IdleRole DEF ServingInv, ListedOnce
<1> QED BY <1>4, <1>5, <1>7, <1>8, <1>9, <1>10 DEF ServingInv

\* delete_object looks the object up and removes it from the ledger.
LEMMA DeleteLoadKeepsServing ==
    ASSUME TypeOK, ServingInv, OneWriter, NEW t \in Tasks, DeleteLoad(t)
    PROVE  ServingInv'
<1> USE HomeAssumption
<1>0. /\ op[t] # Idle /\ op[t].stage = "deload" /\ op[t].kind = "delete" /\ t \in Writers
      /\ op[t].id \in Own /\ home \in Index /\ op[t] \in Op
      /\ UNCHANGED up /\ UNCHANGED home /\ UNCHANGED tmp /\ UNCHANGED served
  BY IdleRole DEF DeleteLoad, disk, ServingInv, RolesOK, TypeOK
<1>1. Readable' = Readable
  BY DEF DeleteLoad, disk, Readable
<1>2. CASE Finish(t)
  BY <1>0, <1>1, <1>2, FinishMoves, QuietStepKeepsServing
     DEF ServingInv, PublishingOK
<1>3. CASE {n \in Names : home.object[n] = op[t].id} = {} /\ Goto(t, "evict")
  <2>1. ~Lists(home, op[t].id)
    BY <1>3 DEF Lists
  <2>2. WriterMoves(t)
    BY <1>0, <1>1, <1>3, <2>1, GotoMoves DEF WriterMoves
  <2> QED BY <1>0, <2>2, WriterStepKeepsServing
<1>4. ASSUME NEW n \in Names, home.object[n] = op[t].id,
             op' = [op EXCEPT ![t].stage = "save", ![t].index = RemoveEntry(home, n)]
      PROVE  ServingInv'
  <2>1. /\ op'[t].stage = "save" /\ op'[t].kind = op[t].kind /\ op'[t].id = op[t].id
        /\ op'[t].index = RemoveEntry(home, n)
        /\ \A u \in Tasks \ {t} : op'[u] = op[u]
    BY <1>0, <1>4 DEF TypeOK, Op, Requests
  <2>2. ASSUME ~Aliasing
        PROVE  /\ Injective(RemoveEntry(home, n))
               /\ ~Lists(RemoveEntry(home, n), op[t].id)
    <3>1. Injective(home)
      BY <2>2 DEF ServingInv, ListedOnce
    <3>2. home.object[n] \in Objects
      BY <1>0, <1>4 DEF Objects
    <3>3. ~Lists(RemoveEntry(home, n), home.object[n])
      BY <1>0, <3>1, <3>2, RemovalUnlists
    <3> QED BY <1>0, <1>4, <3>1, <3>3, EditsKeepInjective
  <2>3. WriterMoves(t)
    BY <1>0, <1>1, <2>1, <2>2 DEF WriterMoves
  <2> QED BY <1>0, <2>3, WriterStepKeepsServing
<1> QED BY <1>2, <1>3, <1>4 DEF DeleteLoad

\* Withdrawing an evicted object: a sweep only ever evicts other identities'
\* objects, and a deleted object has left the ledger by then.
LEMMA WithdrawKeepsServing ==
    ASSUME TypeOK, ServingInv, OneWriter, NEW t \in Tasks, EvictWithdraw(t)
    PROVE  ServingInv'
<1> USE HomeAssumption
<1>0. /\ op[t] # Idle /\ op[t].stage = "withdraw" /\ op[t].kind \in {"sweep", "delete"}
      /\ home \in Index
      /\ op[t].kind = "sweep" => op[t].id \notin Own
      /\ op[t].kind = "delete" => t \in Writers /\ \A u \in Writers : u = t
      /\ UNCHANGED up /\ UNCHANGED home /\ UNCHANGED tmp /\ UNCHANGED indexes
      /\ shared' = shared \ {op[t].id} /\ asked' = asked \ {op[t].id}
  BY IdleRole DEF EvictWithdraw, disk, ServingInv, RolesOK, OneWriter, TypeOK
<1>1. /\ \A u \in Tasks \ {t} : op'[u] = op[u]
      /\ op'[t] = Idle \/ ( /\ op[t].kind = "delete" /\ op'[t].kind = op[t].kind
                            /\ op'[t].stage = "evicthome" /\ op'[t].id = op[t].id )
  BY FinishMoves, GotoMoves DEF EvictWithdraw
<1>2. DownIsIdle'
  BY <1>0, <1>1 DEF ServingInv, DownIsIdle
<1>3. RolesOK'
  BY <1>0, <1>1, IdleRole DEF ServingInv, RolesOK
<1>4. Readable' = Readable /\ Reconciling' = Reconciling
  BY <1>0, <1>1, IdleRole DEF Readable, Reconciling
<1>5. PublishingOK'
  BY <1>0, <1>1, <1>4, IdleRole DEF ServingInv, PublishingOK
<1>6. ServedOK'
  BY <1>0, <1>1, <1>4, IdleRole DEF ServingInv, ServedOK
<1>7. ASSUME ~Aliasing PROVE CoveredOK'
  <2>1. CASE op[t].kind = "sweep"
    BY <1>0, <1>1, <1>4, <1>7, <2>1, IdleRole DEF ServingInv, CoveredOK
  <2>2. CASE op[t].kind = "delete"
    <3>1. ~Lists(home, op[t].id)
      BY <1>0, <1>7, <2>2 DEF ServingInv, ListedOnce
    <3>2. op[t].id \notin SharedIds(home)
      BY <1>0, <3>1, UnlistedIsUnshared
    <3> QED BY <1>0, <1>1, <1>4, <1>7, <2>2, <3>2, IdleRole DEF ServingInv, CoveredOK
  <2> QED BY <1>0, <2>1, <2>2
<1>8. ASSUME ~Aliasing PROVE ListedOnce'
  BY <1>0, <1>1, <1>8, IdleRole DEF ServingInv, ListedOnce
<1> QED BY <1>2, <1>3, <1>5, <1>6, <1>7, <1>8 DEF ServingInv

\* The last steps of an operation leave the serving set alone.
LEMMA LastStepsKeepServing ==
    ASSUME TypeOK, ServingInv, OneWriter, NEW t \in Tasks,
           PublishEntry(t) \/ EvictFile(t) \/ EvictHome(t) \/ Provide(t)
    PROVE  ServingInv'
<1> USE HomeAssumption
<1>1. CASE PublishEntry(t) \/ Provide(t)
  <2>1. /\ op[t] # Idle /\ op[t].stage # "reconcile" /\ Finish(t) /\ Readable' = Readable
        /\ UNCHANGED up /\ UNCHANGED home /\ UNCHANGED tmp /\ UNCHANGED served
    BY <1>1, IdleRole DEF PublishEntry, Provide, disk, Readable
  <2> QED BY <2>1, FinishMoves, QuietStepKeepsServing DEF ServingInv, PublishingOK
<1>2. CASE EvictFile(t)
  <2>1. /\ op[t] # Idle /\ op[t].stage = "evict" /\ Goto(t, "withdraw")
        /\ Readable' = Readable
        /\ UNCHANGED up /\ UNCHANGED home /\ UNCHANGED tmp /\ UNCHANGED served
    BY <1>2, IdleRole DEF EvictFile, Readable
  <2> QED BY <2>1, GotoMoves, QuietStepKeepsServing DEF ServingInv, PublishingOK
<1>3. CASE EvictHome(t)
  <2>1. /\ op[t] # Idle /\ op[t].stage = "evicthome" /\ Finish(t)
        /\ Readable' => Readable
        /\ UNCHANGED up /\ UNCHANGED home /\ UNCHANGED tmp /\ UNCHANGED served
    BY <1>3, IdleRole DEF EvictHome, Readable
  <2>2. \A u \in Writers : u = t
    BY <2>1 DEF ServingInv, RolesOK, OneWriter
  <2> QED BY <2>1, <2>2, FinishMoves, QuietStepKeepsServing
<1> QED BY <1>1, <1>2, <1>3

\* A crash empties the serving set and every task; the reseed of
\* open_with_config serves what the ledger shares.
LEMMA RestartKeepsServing ==
    ASSUME TypeOK, ServingInv, Crash \/ Restart
    PROVE  ServingInv'
<1> USE HomeAssumption, IdleRole
<1>1. CASE Crash
  <2>1. \A t \in Tasks : op'[t] = Idle
    BY <1>1 DEF Crash
  <2>2. ~up' /\ shared' = {} /\ UNCHANGED home
    BY <1>1 DEF Crash
  <2> QED BY <2>1, <2>2 DEF ServingInv, DownIsIdle, RolesOK, PublishingOK, ServedOK,
                             CoveredOK, ListedOnce, Reconciling
<1>2. CASE Restart
  <2>1. \A t \in Tasks : op'[t] = Idle
    BY <1>2 DEF Restart, ServingInv, DownIsIdle
  <2>2. /\ up' /\ UNCHANGED home /\ UNCHANGED asked /\ Readable' = Readable
        /\ Readable => shared' = SharedIds(home)
        /\ ~Readable => shared' = {}
    BY <1>2 DEF Restart, disk, Readable
  <2> QED BY <2>1, <2>2 DEF ServingInv, DownIsIdle, RolesOK, PublishingOK, ServedOK,
                             CoveredOK, ListedOnce, Reconciling
<1> QED BY <1>1, <1>2

-----------------------------------------------------------------------------
(* The theorems.                                                            *)

\* Every step of the daemon preserves the invariant.
LEMMA ServingPreserved ==
    ASSUME OneWriter, TypeOK, ServingInv, [Next]_ledgerVars
    PROVE  ServingInv'
<1> USE HomeAssumption
<1>1. CASE UNCHANGED ledgerVars
  BY <1>1 DEF ledgerVars, disk, served, ServingInv, DownIsIdle, RolesOK, PublishingOK,
              ServedOK, CoveredOK, ListedOnce, Reconciling, Readable
<1>2. ASSUME NEW id \in Objects, Store(id) PROVE ServingInv'
  BY <1>2 DEF Store, served, ServingInv, DownIsIdle, RolesOK, PublishingOK,
              ServedOK, CoveredOK, ListedOnce, Reconciling, Readable
<1>3. ASSUME NEW t \in Tasks, Command(t) PROVE ServingInv'
  <2>1. ASSUME NEW n \in Names, NEW id \in Objects, NEW sid \in Objects,
               BeginShare(t, n, id, sid)
        PROVE  ServingInv'
    <3> DEFINE r == [Idle EXCEPT !.stage = "load", !.kind = "share", !.name = n,
                                 !.id = sid, !.flag = TRUE]
    <3>1. /\ r \in Op /\ r.stage = "load" /\ r.kind = "share" /\ r.name = n /\ r.id = sid
      BY IdleIsOp DEF Op, Requests, Stages
    <3>2. /\ Begin(t, r) /\ t \in Writers /\ up
          /\ UNCHANGED <<up, indexes, home, tmp, served>>
          /\ Aliasing \/ \A m \in Names \ {n} : home.object[m] # sid
      BY <2>1 DEF BeginShare, BeginWriter, Begin
    <3> HIDE DEF r
    <3> QED BY <3>1, <3>2, BeginKeepsServing
  <2>2. ASSUME NEW n \in Names, NEW flag \in BOOLEAN, BeginSet(t, n, flag)
        PROVE  ServingInv'
    <3> DEFINE r == [Idle EXCEPT !.stage = "load", !.kind = "set", !.name = n,
                                 !.flag = flag]
    <3>1. r \in Op /\ r.stage = "load" /\ r.kind = "set"
      BY IdleIsOp DEF Op, Requests, Stages
    <3>2. /\ Begin(t, r) /\ t \in Writers /\ up
          /\ UNCHANGED <<up, indexes, home, tmp, served>>
      BY <2>2 DEF BeginSet, BeginWriter, Begin, disk
    <3> HIDE DEF r
    <3> QED BY <3>1, <3>2, BeginKeepsServing
  <2>3. ASSUME NEW i \in AppIndexes, BeginSave(t, i) PROVE ServingInv'
    <3> DEFINE r == [Idle EXCEPT !.stage = "save", !.kind = "save", !.index = i]
    <3>1. /\ r \in Op /\ r.stage = "save" /\ r.kind = "save"
          /\ Aliasing \/ Injective(r.index)
      BY IdleIsOp DEF Op, Requests, Stages
    <3>2. /\ Begin(t, r) /\ t \in Writers /\ up
          /\ UNCHANGED <<up, indexes, home, tmp, served>>
      BY <2>3 DEF BeginSave, BeginWriter, Begin, disk
    <3> HIDE DEF r
    <3> QED BY <3>1, <3>2, BeginKeepsServing
  <2>4. ASSUME NEW id \in Objects, BeginDelete(t, id) PROVE ServingInv'
    <3> DEFINE r == [Idle EXCEPT !.stage = "deload", !.kind = "delete", !.id = id,
                                 !.oldHome = home]
    <3>0. id \in Own
      BY <2>4 DEF BeginDelete
    <3>1. r \in Op /\ r.stage = "deload" /\ r.kind = "delete" /\ r.id = id
      BY IdleIsOp DEF Op, Requests, Stages, TypeOK
    <3>2. /\ Begin(t, r) /\ t \in Writers /\ up
          /\ UNCHANGED <<up, indexes, home, tmp, served>>
      BY <2>4 DEF BeginDelete, BeginWriter, Begin, disk
    <3> HIDE DEF r
    <3> QED BY <3>0, <3>1, <3>2, BeginKeepsServing
  <2>5. ASSUME NEW id \in Objects, BeginSweep(t, id) PROVE ServingInv'
    <3> DEFINE r == [Idle EXCEPT !.stage = "evict", !.kind = "sweep", !.id = id]
    <3>0. id \in Foreign
      BY <2>5 DEF BeginSweep
    <3>1. r \in Op /\ r.stage = "evict" /\ r.kind = "sweep" /\ r.id = id
      BY IdleIsOp DEF Op, Requests, Stages
    <3>2. /\ Begin(t, r) /\ up
          /\ UNCHANGED <<up, indexes, home, tmp, served>>
      BY <2>5 DEF BeginSweep, Begin, disk
    <3> HIDE DEF r
    <3> QED BY <3>0, <3>1, <3>2, BeginKeepsServing
  <2> QED BY <1>3, <2>1, <2>2, <2>3, <2>4, <2>5, AnnounceKeepsServing DEF Command
<1>4. ASSUME NEW t \in Tasks, Step(t) PROVE ServingInv'
  BY <1>4, LoadHomeKeepsServing, LoadPreviousKeepsServing, WriteTmpKeepsServing, RenameKeepsServing,
     ReconcileKeepsServing, DeleteLoadKeepsServing, WithdrawKeepsServing, LastStepsKeepServing DEF Step
<1> QED BY <1>1, <1>2, <1>3, <1>4, RestartKeepsServing DEF Next

-----------------------------------------------------------------------------
(* What the ledger lists is in the store, and what names it can be read.    *)

\* At the start the ledger is empty.
LEMMA InitKeeping == Init => KeptOK /\ StoredOK
BY HomeAssumption, IdleRole DEF Init, KeptOK, StoredOK, OwnStored, NoHome, Objects

\* An operation that is not at a stage KeptOK and StoredOK speak of.
Aside(o) ==
    \/ o.stage \in {"idle", "provide", "entry"}
    \/ o.stage = "load" /\ o.kind = "set"
    \/ o.stage \in {"evict", "withdraw"} /\ o.kind = "sweep"

\* A step of an operation that neither writes the ledger nor deletes an own
\* object leaves both promises alone.
LEMMA AsideKeeps ==
    ASSUME UNCHANGED home, indexes \subseteq indexes', stored \cap Own \subseteq stored',
           \A u \in Writers : op'[u] = op[u] \/ Aside(op'[u])
    PROVE  (KeptOK => KeptOK') /\ (StoredOK => StoredOK')
<1>1. KeptOK => KeptOK'
  BY DEF KeptOK, Aside
<1>2. StoredOK => StoredOK'
  <2>1. \A i : OwnStored(i) => OwnStored(i)'
    BY DEF OwnStored
  <2>2. OwnStored(home) => OwnStored(home)'
    BY DEF OwnStored
  <2>3. SUFFICES ASSUME StoredOK, NEW u \in Writers
                 PROVE  /\ op'[u].stage = "load" /\ op'[u].kind = "share" /\ op'[u].id \in Own =>
                              op'[u].id \in stored'
                        /\ op'[u].stage \in {"save", "write", "rename"} =>
                              OwnStored(op[u].index)'
    BY <2>2 DEF StoredOK
  <2>4. CASE op'[u] = op[u]
    BY <2>3, <2>4 DEF StoredOK, OwnStored
  <2>5. CASE Aside(op'[u])
    BY <2>5 DEF Aside
  <2> QED BY <2>4, <2>5
<1> QED BY <1>1, <1>2

\* The editing commands never put an unstored own object into an index.
LEMMA EditsKeepStored ==
    ASSUME NEW i \in Index, OwnStored(i), NEW n \in Names
    PROVE  /\ OwnStored(RemoveEntry(i, n))
           /\ \A flag \in BOOLEAN : OwnStored(SetFlag(i, n, flag))
           /\ \A id : (id \in Own => id \in stored) => OwnStored(Upsert(i, n, id))
BY HomeAssumption DEF Index, OwnStored, RemoveEntry, SetFlag, Upsert, Objects

\* Commands taken up and announcements.
LEMMA CommandKeeps ==
    ASSUME TypeOK, ServingInv, OneWriter, NEW t \in Tasks, Command(t)
    PROVE  /\ KeptOK => KeptOK'
           /\ AppsListNothingOwn /\ StoredOK => StoredOK'
<1> USE HomeAssumption
<1>1. ASSUME NEW n \in Names, NEW id \in Objects, NEW sid \in Objects,
             BeginShare(t, n, id, sid)
      PROVE  (KeptOK => KeptOK') /\ (StoredOK => StoredOK')
  <2> DEFINE r == [Idle EXCEPT !.stage = "load", !.kind = "share", !.name = n,
                               !.id = sid, !.flag = TRUE]
  <2>1. r.stage = "load" /\ r.kind = "share" /\ r.id = sid
    BY DEF Idle
  <2>2. /\ op'[t] = r /\ \A u \in Tasks \ {t} : op'[u] = op[u]
        /\ t \in Writers /\ \A u \in Writers : u = t
        /\ UNCHANGED home /\ UNCHANGED indexes
        /\ stored \subseteq stored' /\ sid \in stored'
    BY <1>1, BeginMoves DEF BeginShare, BeginWriter, OneWriter
  <2> HIDE DEF r
  <2> QED BY <2>1, <2>2 DEF KeptOK, StoredOK, OwnStored
<1>2. ASSUME NEW n \in Names, NEW flag \in BOOLEAN, BeginSet(t, n, flag)
      PROVE  (KeptOK => KeptOK') /\ (StoredOK => StoredOK')
  <2> DEFINE r == [Idle EXCEPT !.stage = "load", !.kind = "set", !.name = n,
                               !.flag = flag]
  <2>1. Aside(r)
    BY DEF Idle, Aside
  <2>2. Begin(t, r) /\ UNCHANGED <<stored, indexes, home>>
    BY <1>2 DEF BeginSet, BeginWriter, disk
  <2> HIDE DEF r
  <2> QED BY <2>1, <2>2, BeginMoves, AsideKeeps
<1>3. ASSUME NEW i \in AppIndexes, BeginSave(t, i)
      PROVE  (KeptOK => KeptOK') /\ (AppsListNothingOwn /\ StoredOK => StoredOK')
  <2> DEFINE r == [Idle EXCEPT !.stage = "save", !.kind = "save", !.index = i]
  <2>1. r.stage = "save" /\ r.kind = "save" /\ r.index = i
    BY DEF Idle
  <2>2. /\ op'[t] = r /\ \A u \in Tasks \ {t} : op'[u] = op[u]
        /\ t \in Writers /\ \A u \in Writers : u = t
        /\ UNCHANGED home /\ UNCHANGED indexes /\ UNCHANGED stored
    BY <1>3, BeginMoves DEF BeginSave, BeginWriter, OneWriter, disk
  <2> HIDE DEF r
  <2> QED BY <2>1, <2>2 DEF KeptOK, StoredOK, OwnStored, AppsListNothingOwn
<1>4. ASSUME NEW id \in Objects, BeginDelete(t, id)
      PROVE  (KeptOK => KeptOK') /\ (StoredOK => StoredOK')
  <2> DEFINE r == [Idle EXCEPT !.stage = "deload", !.kind = "delete", !.id = id,
                               !.oldHome = home]
  <2>1. /\ r.stage = "deload" /\ r.kind = "delete" /\ r.oldHome = home
        /\ r.index = NoHome
    BY DEF Idle
  <2>2. /\ op'[t] = r /\ \A u \in Tasks \ {t} : op'[u] = op[u]
        /\ t \in Writers /\ \A u \in Writers : u = t
        /\ UNCHANGED home /\ UNCHANGED indexes /\ UNCHANGED stored
    BY <1>4, BeginMoves DEF BeginDelete, BeginWriter, OneWriter, disk
  <2> HIDE DEF r
  <2> QED BY <2>1, <2>2 DEF KeptOK, StoredOK, OwnStored
<1>5. ASSUME NEW id \in Objects, BeginSweep(t, id)
      PROVE  (KeptOK => KeptOK') /\ (StoredOK => StoredOK')
  <2> DEFINE r == [Idle EXCEPT !.stage = "evict", !.kind = "sweep", !.id = id]
  <2>1. Aside(r)
    BY DEF Idle, Aside
  <2>2. Begin(t, r) /\ UNCHANGED <<stored, indexes, home>>
    BY <1>5 DEF BeginSweep, disk
  <2> HIDE DEF r
  <2> QED BY <2>1, <2>2, BeginMoves, AsideKeeps
<1>6. ASSUME NEW id \in Objects, BeginAnnounce(t, id)
      PROVE  (KeptOK => KeptOK') /\ (StoredOK => StoredOK')
  <2> DEFINE r == [Idle EXCEPT !.stage = "provide", !.kind = "announce", !.id = id]
  <2>1. Aside(r)
    BY DEF Idle, Aside
  <2>2. Begin(t, r) /\ UNCHANGED <<stored, indexes, home>>
    BY <1>6 DEF BeginAnnounce, disk
  <2> HIDE DEF r
  <2> QED BY <2>1, <2>2, BeginMoves, AsideKeeps
<1> QED BY <1>1, <1>2, <1>3, <1>4, <1>5, <1>6 DEF Command

\* The writer's steps up to the publication of its index.
LEMMA WriterKeeps ==
    ASSUME TypeOK, ServingInv, OneWriter, NEW t \in Tasks,
           LoadHome(t) \/ LoadPrevious(t) \/ WriteTmp(t) \/ Rename(t)
    PROVE  (KeptOK => KeptOK') /\ (StoredOK => StoredOK')
<1> USE HomeAssumption
<1>0. /\ t \in Writers /\ \A u \in Writers : u = t
      /\ op[t] \in Op /\ op[t].index \in Index /\ op[t].oldHome \in Index
      /\ home \in Index /\ home.version \in Nat
  <2>1. t \in Writers
    BY DEF LoadHome, LoadPrevious, WriteTmp, Rename, ServingInv, RolesOK
  <2>2. op[t] \in Op /\ home \in Index
    BY DEF TypeOK
  <2> QED BY <2>1, <2>2 DEF OneWriter, Op, Requests, Index
<1>1. ASSUME Finish(t), UNCHANGED <<stored, home>>, indexes \subseteq indexes'
      PROVE  (KeptOK => KeptOK') /\ (StoredOK => StoredOK')
  BY <1>1, FinishMoves, IdleRole, AsideKeeps DEF Aside
<1>2. CASE LoadHome(t)
  <2>0. /\ op[t].stage = "load" /\ op[t].name \in Names /\ op[t].kind \in {"share", "set"}
        /\ op[t].flag \in BOOLEAN /\ UNCHANGED <<stored, indexes, home>>
    BY <1>0, <1>2 DEF LoadHome, Op, Requests, disk
  <2>1. CASE ~Finish(t)
    <3> DEFINE i == IF op[t].kind = "share" THEN Upsert(home, op[t].name, op[t].id)
                    ELSE SetFlag(home, op[t].name, op[t].flag)
    <3>1. op'[t].stage = "save" /\ op'[t].kind = op[t].kind /\ op'[t].index = i
      BY <1>0, <1>2, <2>0, <2>1 DEF LoadHome, TypeOK, Op, Requests
    <3>2. StoredOK => OwnStored(i)
      BY <1>0, <2>0, EditsKeepStored DEF StoredOK
    <3> HIDE DEF i
    <3> QED BY <1>0, <2>0, <3>1, <3>2 DEF KeptOK, StoredOK, OwnStored
  <2> QED BY <1>1, <2>0, <2>1
<1>3. CASE LoadPrevious(t)
  <2> DEFINE i == [op[t].index EXCEPT !.version = home.version + 1]
  <2>0. op[t].stage = "save" /\ UNCHANGED <<stored, home>>
    BY <1>3 DEF LoadPrevious
  <2>1. CASE Readable
    <3>1. /\ op'[t].stage = "write" /\ op'[t].kind = op[t].kind /\ op'[t].index = i
          /\ op'[t].oldHome = op[t].oldHome /\ i \in indexes'
      BY <1>0, <1>3, <2>1 DEF LoadPrevious, TypeOK, Op, Requests
    <3>2. i.version = home.version + 1 /\ \A n \in Names : i.object[n] = op[t].index.object[n]
      BY <1>0 DEF Index
    <3> HIDE DEF i
    <3>3. KeptOK => KeptOK'
      BY <1>0, <2>0, <3>1, <3>2 DEF KeptOK
    <3>4. StoredOK => StoredOK'
      BY <1>0, <2>0, <3>1, <3>2 DEF StoredOK, OwnStored
    <3> QED BY <3>3, <3>4
  <2>2. CASE ~Readable
    BY <1>1, <1>3, <2>2 DEF LoadPrevious
  <2> QED BY <2>1, <2>2
<1>4. CASE WriteTmp(t)
  <2>1. /\ op[t].stage = "write" /\ op'[t].stage = "rename" /\ op'[t].kind = op[t].kind
        /\ op'[t].index = op[t].index /\ op'[t].oldHome = op[t].oldHome
        /\ UNCHANGED <<stored, indexes, home>>
    BY <1>4, GotoMoves DEF WriteTmp
  <2> QED BY <1>0, <2>1 DEF KeptOK, StoredOK, OwnStored
<1>5. CASE Rename(t)
  <2>0. op[t].stage = "rename" /\ tmp = op[t].index /\ UNCHANGED <<stored, indexes>>
    BY <1>0, <1>5 DEF Rename, ServingInv, PublishingOK
  <2>1. CASE tmp # NoHome
    <3>1. /\ op'[t].stage = "reconcile" /\ op'[t].kind = op[t].kind
          /\ op'[t].index = op[t].index /\ op'[t].oldHome = op[t].oldHome
          /\ home' = op[t].index
      BY <1>5, <2>0, <2>1, GotoMoves DEF Rename
    <3>2. KeptOK => KeptOK'
      BY <1>0, <2>0, <3>1 DEF KeptOK
    <3>3. StoredOK => StoredOK'
      BY <1>0, <2>0, <3>1 DEF StoredOK, OwnStored
    <3> QED BY <3>2, <3>3
  <2>2. CASE tmp = NoHome
    BY <1>1, <1>5, <2>0, <2>2 DEF Rename
  <2> QED BY <2>1, <2>2
<1> QED BY <1>2, <1>3, <1>4, <1>5

\* The steps after it, of every kind of operation.
LEMMA LastStepsKeep ==
    ASSUME TypeOK, ServingInv, OneWriter, NEW t \in Tasks,
           \/ Reconcile(t) \/ PublishEntry(t) \/ DeleteLoad(t) \/ EvictFile(t)
           \/ EvictWithdraw(t) \/ EvictHome(t) \/ Provide(t)
    PROVE  /\ KeptOK => KeptOK'
           /\ ~Aliasing /\ StoredOK => StoredOK'
<1> USE HomeAssumption
<1>1. ASSUME Finish(t), UNCHANGED <<stored, home>>, indexes \subseteq indexes'
      PROVE  (KeptOK => KeptOK') /\ (StoredOK => StoredOK')
  BY <1>1, FinishMoves, IdleRole, AsideKeeps DEF Aside
<1>2. CASE Reconcile(t)
  <2>0. /\ t \in Writers /\ \A u \in Writers : u = t
        /\ op[t].stage = "reconcile" /\ UNCHANGED <<stored, indexes, home>>
    BY <1>2 DEF Reconcile, disk, ServingInv, RolesOK, OneWriter
  <2>1. CASE AfterReconcile(op[t]) # "idle" /\ Goto(t, AfterReconcile(op[t]))
    <3>1. /\ op'[t].stage \in {"entry", "evict"} /\ op'[t].kind = op[t].kind
          /\ op'[t].index = op[t].index /\ op'[t].oldHome = op[t].oldHome
      BY <2>1, GotoMoves DEF AfterReconcile
    <3> QED BY <2>0, <3>1 DEF KeptOK, StoredOK, OwnStored
  <2> QED BY <1>1, <1>2, <2>0, <2>1 DEF Reconcile
<1>3. CASE PublishEntry(t) \/ Provide(t)
  BY <1>1, <1>3 DEF PublishEntry, Provide, disk
<1>4. CASE DeleteLoad(t)
  <2>0. /\ t \in Writers /\ \A u \in Writers : u = t /\ home \in Index
        /\ op[t].stage = "deload" /\ UNCHANGED <<stored, indexes, home>>
    BY <1>4 DEF DeleteLoad, disk, ServingInv, RolesOK, OneWriter, TypeOK
  <2>1. CASE Goto(t, "evict")
    <3>1. /\ op'[t].stage = "evict" /\ op'[t].index = op[t].index
      BY <2>1, GotoMoves
    <3> QED BY <2>0, <3>1 DEF KeptOK, StoredOK, OwnStored
  <2>2. ASSUME NEW n \in Names,
               op' = [op EXCEPT ![t].stage = "save", ![t].index = RemoveEntry(home, n)]
        PROVE  (KeptOK => KeptOK') /\ (StoredOK => StoredOK')
    <3>1. /\ op'[t].stage = "save" /\ op'[t].kind = op[t].kind
          /\ op'[t].index = RemoveEntry(home, n) /\ op'[t].oldHome = op[t].oldHome
      BY <2>0, <2>2 DEF TypeOK, Op, Requests
    <3>2. StoredOK => OwnStored(RemoveEntry(home, n))
      BY <2>0, EditsKeepStored DEF StoredOK
    <3>3. KeptOK => KeptOK'
      BY <2>0, <3>1 DEF KeptOK
    <3>4. StoredOK => StoredOK'
      BY <2>0, <3>1, <3>2 DEF StoredOK, OwnStored
    <3> QED BY <3>3, <3>4
  <2> QED BY <1>1, <1>4, <2>0, <2>1, <2>2 DEF DeleteLoad
<1>5. CASE EvictFile(t)
  <2>0. /\ op[t].stage = "evict" /\ op'[t].stage = "withdraw" /\ op'[t].kind = op[t].kind
        /\ op'[t].index = op[t].index /\ op'[t].oldHome = op[t].oldHome
        /\ \A u \in Tasks \ {t} : op'[u] = op[u]
        /\ op[t].kind \in {"sweep", "delete"}
        /\ UNCHANGED home /\ UNCHANGED indexes /\ stored' = stored \ {op[t].id}
    BY <1>5, GotoMoves DEF EvictFile, ServingInv, RolesOK
  <2>1. CASE op[t].kind = "sweep"
    <3>1. op[t].id \in Foreign
      BY <2>1 DEF ServingInv, RolesOK
    <3> QED BY <2>0, <2>1, <3>1, AsideKeeps DEF Aside
  <2>2. CASE op[t].kind = "delete"
    <3>1. t \in Writers /\ \A u \in Writers : u = t
      BY <2>0, <2>2 DEF ServingInv, RolesOK, OneWriter
    <3>2. KeptOK => KeptOK'
      BY <2>0, <2>2, <3>1 DEF KeptOK
    <3>3. ASSUME ~Aliasing, StoredOK PROVE StoredOK'
      <4>1. ~Lists(home, op[t].id)
        BY <2>0, <2>2, <3>1, <3>3 DEF ServingInv, ListedOnce
      <4> QED BY <2>0, <3>1, <3>3, <4>1 DEF Lists, StoredOK, OwnStored
    <3> QED BY <3>2, <3>3
  <2> QED BY <2>0, <2>1, <2>2
<1>6. CASE EvictWithdraw(t)
  <2>0. op[t].stage = "withdraw" /\ UNCHANGED <<stored, indexes, home>>
    BY <1>6 DEF EvictWithdraw, disk
  <2>1. CASE Goto(t, "evicthome") /\ op[t].kind = "delete"
    <3>1. /\ op'[t].stage = "evicthome" /\ op'[t].kind = op[t].kind
          /\ op'[t].index = op[t].index /\ op'[t].oldHome = op[t].oldHome
      BY <2>1, GotoMoves
    <3>2. t \in Writers /\ \A u \in Writers : u = t
      BY <2>0, <2>1 DEF ServingInv, RolesOK, OneWriter
    <3> QED BY <2>0, <2>1, <3>1, <3>2 DEF KeptOK, StoredOK, OwnStored
  <2> QED BY <1>1, <1>6, <2>0, <2>1 DEF EvictWithdraw
<1>7. CASE EvictHome(t)
  <2>1. /\ op'[t] = Idle /\ t \in Writers /\ \A u \in Writers : u = t
        /\ UNCHANGED <<stored, home>>
    BY <1>7, FinishMoves DEF EvictHome, ServingInv, RolesOK, OneWriter
  <2> QED BY <2>1, IdleRole DEF KeptOK, StoredOK, OwnStored
<1> QED BY <1>2, <1>3, <1>4, <1>5, <1>6, <1>7

\* Every step of the daemon preserves the two promises.
LEMMA KeepingPreserved ==
    ASSUME OneWriter, TypeOK, ServingInv, [Next]_ledgerVars
    PROVE  /\ KeptOK => KeptOK'
           /\ ~Aliasing /\ AppsListNothingOwn /\ StoredOK => StoredOK'
<1>1. CASE UNCHANGED ledgerVars
  BY <1>1, AsideKeeps DEF ledgerVars, disk
<1>2. ASSUME NEW id \in Objects, Store(id)
      PROVE  (KeptOK => KeptOK') /\ (StoredOK => StoredOK')
  BY <1>2, AsideKeeps DEF Store
<1>3. CASE Crash \/ Restart
  <2>1. \A u \in Writers : op'[u] = Idle \/ op'[u] = op[u]
    BY <1>3, HomeAssumption DEF Crash, Restart
  <2>2. UNCHANGED <<stored, indexes, home>>
    BY <1>3 DEF Crash, Restart, disk
  <2> QED BY <2>1, <2>2, AsideKeeps, IdleRole DEF Aside
<1> QED BY <1>1, <1>2, <1>3, CommandKeeps, WriterKeeps, LastStepsKeep DEF Next, Step

\* What a daemon with one writer at a time preserves, whatever its readers,
\* sweeps, announcements, crashes and restarts do in between.
THEOREM LedgerInvariant ==
    ASSUME OneWriter
    PROVE  LedgerSpec => []LedgerInv
<1>1. Init => TypeOK /\ LedgerInv
  BY InitTypeOK, InitServingInv, InitKeeping DEF LedgerInv
<1>2. TypeOK /\ LedgerInv /\ [Next]_ledgerVars => (TypeOK /\ LedgerInv)'
  <2> SUFFICES ASSUME TypeOK, LedgerInv, [Next]_ledgerVars PROVE TypeOK' /\ LedgerInv'
    OBVIOUS
  <2>1. TypeOK' /\ ServingInv'
    BY TypePreserved, ServingPreserved DEF LedgerInv
  <2> QED BY <2>1, KeepingPreserved DEF LedgerInv
<1> QED BY <1>1, <1>2, PTL DEF LedgerSpec

\* No command in flight means none between its rename and its reconcile.
LEMMA QuietIsNotReconciling == WritersQuiet => ~Reconciling
BY DEF WritersQuiet, Reconciling

\* "Nothing is shared by default": with one writer at a time, what is served
\* while no command runs is what the ledger shares or a user announced.
THEOREM ServesOnlyWhatWasAsked ==
    ASSUME OneWriter
    PROVE  LedgerSpec => []ServedWasAsked
<1>1. LedgerInv => ServedWasAsked
  BY QuietIsNotReconciling DEF LedgerInv, ServingInv, ServedOK, ServedWasAsked
<1>2. LedgerSpec => []LedgerInv
  BY LedgerInvariant
<1> QED BY <1>1, <1>2, PTL

\* With one writer at a time and no object under two names, every own object
\* the ledger shares is served while no command runs.
THEOREM ServesWhatIsShared ==
    ASSUME OneWriter, ~Aliasing
    PROVE  LedgerSpec => []SharedIsServed
<1>1. LedgerInv => SharedIsServed
  BY QuietIsNotReconciling DEF LedgerInv, ServingInv, CoveredOK, SharedIsServed
<1>2. LedgerSpec => []LedgerInv
  BY LedgerInvariant
<1> QED BY <1>1, <1>2, PTL

\* "The source of truth of what you've stored and shared": with one writer at a
\* time, no object under two names and no application that saves a ledger of
\* its own objects, every own object the ledger lists is in the store, after
\* deletions, evictions, crashes and restarts in any order.
THEOREM ListsOnlyWhatIsStored ==
    ASSUME OneWriter, ~Aliasing, AppsListNothingOwn
    PROVE  LedgerSpec => []ListedIsStored
<1>1. LedgerInv => ListedIsStored
  BY DEF LedgerInv, StoredOK, OwnStored, ListedIsStored, Listed
<1>2. LedgerSpec => []LedgerInv
  BY LedgerInvariant
<1> QED BY <1>1, <1>2, PTL

\* Only the last step of a delete_object that found nothing to unlist makes the
\* ledger unreadable: a save stores an index before it publishes it, and the
\* index a delete evicts is an older one than the pointer names.
THEOREM LedgerStaysReadable ==
    ASSUME OneWriter
    PROVE  LedgerSpec => LedgerLostOnlyByUnlistedDelete
<1> DEFINE Lost == Readable /\ ~Readable' =>
                     \E t \in Tasks : op[t].stage = "evicthome" /\ op[t].index = NoHome
<1>1. TypeOK /\ LedgerInv /\ [Next]_ledgerVars => [Lost]_ledgerVars
  <2> SUFFICES ASSUME TypeOK, ServingInv, KeptOK, Next, Readable, ~Readable' PROVE Lost
    BY DEF LedgerInv
  <2> USE HomeAssumption
  <2>1. PICK t \in Tasks : LoadPrevious(t) \/ Rename(t) \/ EvictHome(t)
    BY DEF Next, Command, Step, Store, BeginShare, BeginSet, BeginSave, BeginDelete,
           BeginSweep, BeginAnnounce, LoadHome, WriteTmp, Reconcile, PublishEntry,
           DeleteLoad, EvictFile, EvictWithdraw, Provide, Crash, Restart, disk, Readable
  <2>2. ~LoadPrevious(t)
    BY DEF LoadPrevious, Readable, Named
  <2>3. ~Rename(t)
    BY DEF Rename, Readable, ServingInv, RolesOK, PublishingOK, KeptOK
  <2>4. CASE EvictHome(t)
    <3>1. /\ t \in Writers /\ op[t].stage = "evicthome" /\ op[t].kind = "delete"
          /\ UNCHANGED home /\ indexes' = indexes \ {op[t].oldHome}
      BY <2>4 DEF EvictHome, ServingInv, RolesOK
    <3>2. op[t].oldHome = home
      BY <3>1 DEF Readable
    <3>3. home.version \in Nat
      BY DEF TypeOK, Index
    <3>4. op[t].index = NoHome
      BY <3>1, <3>2, <3>3 DEF KeptOK
    <3> QED BY <3>1, <3>4
  <2> QED BY <2>1, <2>2, <2>3, <2>4
<1>2. LedgerSpec => []LedgerInv
  BY LedgerInvariant
<1> QED BY <1>1, <1>2, TypeCorrect, PTL DEF LedgerSpec, LedgerLostOnlyByUnlistedDelete

-----------------------------------------------------------------------------
(* HomeSharing: names on the network.                                       *)

\* An operation that carries no entry it is about to name.
Nameless(o) ==
    /\ o.stage # "entry"
    /\ o.stage \in {"idle", "load", "provide"} \/ o.kind \notin {"share", "set"}

\* Steps that publish no index keep the entries other operations carry.
LEMMA NamelessKeeps ==
    ASSUME NamesInOrder, UNCHANGED home,
           \A u \in Writers : op'[u] = op[u] \/ Nameless(op'[u])
    PROVE  NamesInOrder'
BY DEF NamesInOrder, Nameless

\* What the edits of a share put into the index they return.
LEMMA EditsName ==
    ASSUME NEW i \in Index, NEW n \in Names
    PROVE  /\ \A id \in Objects :
                n \in Upsert(i, n, id).shared /\ Upsert(i, n, id).object[n] = id
           /\ n \in SetFlag(i, n, TRUE).shared
           /\ SetFlag(i, n, TRUE).object[n] = i.object[n]
BY DEF Index, Upsert, SetFlag

\* The commands start nameless.
LEMMA CommandsAreNameless ==
    ASSUME TypeOK, NamesInOrder, NEW t \in Tasks, Command(t)
    PROVE  NamesInOrder'
<1>1. ASSUME NEW r, Begin(t, r), Nameless(r), UNCHANGED home PROVE NamesInOrder'
  BY <1>1, BeginMoves, NamelessKeeps, HomeAssumption
<1>2. ASSUME NEW n \in Names, NEW id \in Objects, NEW sid \in Objects, BeginShare(t, n, id, sid)
      PROVE  NamesInOrder'
  <2> DEFINE r == [Idle EXCEPT !.stage = "load", !.kind = "share", !.name = n,
                               !.id = sid, !.flag = TRUE]
  <2>1. Begin(t, r) /\ UNCHANGED home /\ r.stage = "load"
    BY <1>2 DEF BeginShare, BeginWriter, Idle
  <2> HIDE DEF r
  <2> QED BY <1>1, <2>1 DEF Nameless
<1>3. ASSUME NEW n \in Names, NEW flag \in BOOLEAN, BeginSet(t, n, flag) PROVE NamesInOrder'
  <2> DEFINE r == [Idle EXCEPT !.stage = "load", !.kind = "set", !.name = n, !.flag = flag]
  <2>1. Begin(t, r) /\ UNCHANGED home /\ r.stage = "load"
    BY <1>3 DEF BeginSet, BeginWriter, Idle, disk
  <2> HIDE DEF r
  <2> QED BY <1>1, <2>1 DEF Nameless
<1>4. ASSUME NEW i \in AppIndexes, BeginSave(t, i) PROVE NamesInOrder'
  <2> DEFINE r == [Idle EXCEPT !.stage = "save", !.kind = "save", !.index = i]
  <2>1. Begin(t, r) /\ UNCHANGED home /\ r.stage = "save" /\ r.kind = "save"
    BY <1>4 DEF BeginSave, BeginWriter, Idle, disk
  <2> HIDE DEF r
  <2> QED BY <1>1, <2>1 DEF Nameless
<1>5. ASSUME NEW id \in Objects, BeginDelete(t, id) PROVE NamesInOrder'
  <2> DEFINE r == [Idle EXCEPT !.stage = "deload", !.kind = "delete", !.id = id, !.oldHome = home]
  <2>1. Begin(t, r) /\ UNCHANGED home /\ r.stage = "deload" /\ r.kind = "delete"
    BY <1>5 DEF BeginDelete, BeginWriter, Idle, disk
  <2> HIDE DEF r
  <2> QED BY <1>1, <2>1 DEF Nameless
<1>6. ASSUME NEW id \in Objects, BeginSweep(t, id) PROVE NamesInOrder'
  <2> DEFINE r == [Idle EXCEPT !.stage = "evict", !.kind = "sweep", !.id = id]
  <2>1. Begin(t, r) /\ UNCHANGED home /\ r.stage = "evict" /\ r.kind = "sweep"
    BY <1>6 DEF BeginSweep, Idle, disk
  <2> HIDE DEF r
  <2> QED BY <1>1, <2>1 DEF Nameless
<1>7. ASSUME NEW id \in Objects, BeginAnnounce(t, id) PROVE NamesInOrder'
  <2> DEFINE r == [Idle EXCEPT !.stage = "provide", !.kind = "announce", !.id = id]
  <2>1. Begin(t, r) /\ UNCHANGED home /\ r.stage = "provide"
    BY <1>7 DEF BeginAnnounce, Idle, disk
  <2> HIDE DEF r
  <2> QED BY <1>1, <2>1 DEF Nameless
<1> QED BY <1>2, <1>3, <1>4, <1>5, <1>6, <1>7 DEF Command

\* From load to entry, a share keeps the entry it edited in, and the one writer
\* finds it in the ledger it published.
LEMMA StepsKeepNames ==
    ASSUME OneWriter, TypeOK, ServingInv, NamesInOrder, NEW t \in Tasks, Step(t)
    PROVE  NamesInOrder'
<1> USE HomeAssumption
<1>0. op[t] \in Op /\ home \in Index
  BY DEF TypeOK
<1>1. ASSUME Finish(t), UNCHANGED home PROVE NamesInOrder'
  BY <1>1, FinishMoves, IdleRole, NamelessKeeps DEF Nameless
<1>2. CASE LoadHome(t)
  <2>0. /\ op[t].stage = "load" /\ op[t].name \in Names /\ op[t].kind \in {"share", "set"}
        /\ op[t].kind = "share" => op[t].id \in Objects
        /\ op[t].flag \in BOOLEAN /\ UNCHANGED home
    BY <1>0, <1>2 DEF LoadHome, Op, Requests, disk
  <2>1. CASE ~Finish(t)
    <3> DEFINE i == IF op[t].kind = "share" THEN Upsert(home, op[t].name, op[t].id)
                    ELSE SetFlag(home, op[t].name, op[t].flag)
               id == IF op[t].kind = "share" THEN op[t].id ELSE home.object[op[t].name]
    <3>1. /\ op'[t].stage = "save" /\ op'[t].index = i /\ op'[t].id = id
          /\ op'[t].name = op[t].name /\ op'[t].flag = op[t].flag
          /\ \A u \in Tasks \ {t} : op'[u] = op[u]
      BY <1>0, <1>2, <2>0, <2>1 DEF LoadHome, TypeOK, Op, Requests
    <3>2. op[t].flag => op[t].name \in i.shared /\ i.object[op[t].name] = id
      <4>1. CASE op[t].kind = "share"
        <5>1. i = Upsert(home, op[t].name, op[t].id) /\ id = op[t].id
          BY <4>1
        <5> HIDE DEF i, id
        <5> QED BY <1>0, <2>0, <4>1, <5>1, EditsName, ZenonT(60)
      <4>2. CASE op[t].kind # "share" /\ op[t].flag
        <5>1. i = SetFlag(home, op[t].name, TRUE) /\ id = home.object[op[t].name]
          BY <2>0, <4>2
        <5> HIDE DEF i, id
        <5> QED BY <1>0, <2>0, <5>1, EditsName
      <4> QED BY <4>1, <4>2
    <3> HIDE DEF i, id
    <3> QED BY <2>0, <3>1, <3>2 DEF NamesInOrder
  <2> QED BY <1>1, <2>0, <2>1
<1>3. CASE LoadPrevious(t)
  <2> DEFINE i == [op[t].index EXCEPT !.version = home.version + 1]
  <2>0. op[t].stage = "save" /\ UNCHANGED home /\ op[t].index \in Index
    BY <1>0, <1>3 DEF LoadPrevious, Op, Requests
  <2>1. CASE Readable
    <3>1. /\ op'[t].stage = "write" /\ op'[t].kind = op[t].kind /\ op'[t].index = i
          /\ op'[t].name = op[t].name /\ op'[t].flag = op[t].flag /\ op'[t].id = op[t].id
          /\ \A u \in Tasks \ {t} : op'[u] = op[u]
      BY <1>0, <1>3, <2>1 DEF LoadPrevious, TypeOK, Op, Requests
    <3>2. i.shared = op[t].index.shared /\ i.object = op[t].index.object
      BY <2>0 DEF Index
    <3> HIDE DEF i
    <3> QED BY <2>0, <3>1, <3>2 DEF NamesInOrder
  <2>2. CASE ~Readable
    BY <1>1, <1>3, <2>0, <2>2 DEF LoadPrevious
  <2> QED BY <2>1, <2>2
<1>4. CASE WriteTmp(t)
  <2>1. op[t].stage = "write" /\ UNCHANGED home /\ Goto(t, "rename")
    BY <1>4 DEF WriteTmp
  <2> QED BY <2>1, GotoMoves DEF NamesInOrder
<1>5. CASE Rename(t)
  <2>0. op[t].stage = "rename" /\ t \in Writers /\ \A u \in Writers : u = t
    BY <1>5 DEF Rename, ServingInv, RolesOK, OneWriter
  <2>1. CASE tmp # NoHome
    <3>1. Goto(t, "reconcile")
      BY <1>5, <2>1 DEF Rename
    <3> QED BY <2>0, <3>1, GotoMoves DEF NamesInOrder
  <2>2. CASE tmp = NoHome
    BY <1>1, <1>5, <2>2 DEF Rename
  <2> QED BY <2>1, <2>2
<1>6. CASE Reconcile(t)
  <2>0. /\ op[t].stage = "reconcile" /\ UNCHANGED home
        /\ t \in Writers /\ \A u \in Writers : u = t
    BY <1>6 DEF Reconcile, disk, ServingInv, RolesOK, OneWriter
  <2>1. home = op[t].index
    BY <2>0 DEF ServingInv, PublishingOK
  <2>2. CASE AfterReconcile(op[t]) = "entry" /\ Goto(t, "entry")
    <3>1. op[t].kind \in {"share", "set"} /\ op[t].flag
      BY <2>2 DEF AfterReconcile
    <3> QED BY <2>0, <2>1, <2>2, <3>1, GotoMoves DEF NamesInOrder
  <2>3. CASE AfterReconcile(op[t]) = "evict" /\ Goto(t, "evict")
    <3>1. op[t].kind = "delete"
      BY <2>3 DEF AfterReconcile
    <3> QED BY <2>0, <2>3, <3>1, GotoMoves, NamelessKeeps DEF Nameless
  <2> QED BY <1>1, <1>6, <2>0, <2>2, <2>3 DEF Reconcile, AfterReconcile
<1>7. CASE DeleteLoad(t)
  <2>0. op[t].kind = "delete" /\ UNCHANGED home
    BY <1>7 DEF DeleteLoad, disk, ServingInv, RolesOK
  <2>1. CASE Goto(t, "evict")
    BY <2>0, <2>1, GotoMoves, NamelessKeeps DEF Nameless
  <2>2. ASSUME NEW n \in Names,
               op' = [op EXCEPT ![t].stage = "save", ![t].index = RemoveEntry(home, n)]
        PROVE  NamesInOrder'
    <3>1. /\ op'[t].stage = "save" /\ op'[t].kind = op[t].kind
          /\ \A u \in Tasks \ {t} : op'[u] = op[u]
      BY <1>0, <2>2 DEF TypeOK, Op, Requests
    <3> QED BY <2>0, <3>1, NamelessKeeps DEF Nameless
  <2> QED BY <1>1, <1>7, <2>0, <2>1, <2>2 DEF DeleteLoad
<1>8. CASE EvictFile(t)
  <2>1. op[t].kind \in {"sweep", "delete"} /\ UNCHANGED home /\ Goto(t, "withdraw")
    BY <1>8 DEF EvictFile, ServingInv, RolesOK
  <2> QED BY <2>1, GotoMoves, NamelessKeeps DEF Nameless
<1>9. CASE EvictWithdraw(t)
  <2>0. UNCHANGED home
    BY <1>9 DEF EvictWithdraw, disk
  <2>1. CASE Goto(t, "evicthome") /\ op[t].kind = "delete"
    BY <2>0, <2>1, GotoMoves, NamelessKeeps DEF Nameless
  <2> QED BY <1>1, <1>9, <2>0, <2>1 DEF EvictWithdraw
<1>10. CASE PublishEntry(t) \/ EvictHome(t) \/ Provide(t)
  BY <1>1, <1>10 DEF PublishEntry, EvictHome, Provide, disk
<1> QED BY <1>2, <1>3, <1>4, <1>5, <1>6, <1>7, <1>8, <1>9, <1>10 DEF Step

\* Every step of the daemon.
LEMMA NamesPreserved ==
    ASSUME OneWriter, TypeOK, ServingInv, NamesInOrder, [Next]_ledgerVars
    PROVE  NamesInOrder'
<1>1. CASE UNCHANGED ledgerVars
  BY <1>1 DEF ledgerVars, disk, NamesInOrder
<1>2. ASSUME NEW id \in Objects, Store(id) PROVE NamesInOrder'
  BY <1>2 DEF Store, NamesInOrder
<1>3. CASE Crash \/ Restart
  <2>1. \A u \in Writers : op'[u] = Idle \/ op'[u] = op[u]
    BY <1>3, HomeAssumption DEF Crash, Restart
  <2> QED BY <1>3, <2>1, NamelessKeeps, IdleRole DEF Crash, Restart, disk, Nameless
<1> QED BY <1>1, <1>2, <1>3, CommandsAreNameless, StepsKeepNames DEF Next

\* HomeSharing adds the network's side to the daemon's own steps and changes
\* none of them: whatever holds of HomeLedger holds of it.
THEOREM SharingImplementsLedger == Spec => LedgerSpec
<1>1. SharingInit => Init
  BY DEF SharingInit
<1>2. [SharingNext]_vars => [Next]_ledgerVars
  BY DEF SharingNext, SharingStep, LocalStep, SpawnSends, WriteEntryPointer, Unannounce,
         Announce, RunSend, CrashSharing, Reopen, Next, Step, vars
<1> QED BY <1>1, <1>2, PTL DEF Spec, LedgerSpec

\* An entry pointer that changes names an object the ledger on disk shares under
\* that name at that moment (share_object_for saves the home index before it
\* calls publish_entry_pointer), with one writer at a time.
THEOREM NamesFollowTheLedger ==
    ASSUME OneWriter
    PROVE  Spec => NamePublishedAfterShare
<1> DEFINE Follows == \A n \in Names : entryPtr'[n] # entryPtr[n] =>
                         n \in home.shared /\ home.object[n] = entryPtr'[n]
<1>1. Init => NamesInOrder
  BY HomeAssumption DEF Init, NamesInOrder, Idle
<1>2. TypeOK /\ ServingInv /\ NamesInOrder /\ [Next]_ledgerVars => NamesInOrder'
  BY NamesPreserved
<1>3. LedgerInv => ServingInv
  BY DEF LedgerInv
<1>4. TypeOK /\ ServingInv /\ NamesInOrder /\ [SharingNext]_vars => [Follows]_vars
  <2> SUFFICES ASSUME ServingInv, NamesInOrder, SharingNext, NEW n \in Names,
                      entryPtr'[n] # entryPtr[n]
               PROVE  n \in home.shared /\ home.object[n] = entryPtr'[n]
    OBVIOUS
  <2>1. PICK t \in Tasks : WriteEntryPointer(t)
    BY DEF SharingNext, SharingStep, LocalStep, SpawnSends, Unannounce, Announce, RunSend,
           CrashSharing, Reopen, network
  <2>2. op[t].stage = "entry" /\ entryPtr' = [entryPtr EXCEPT ![op[t].name] = op[t].id]
    BY <2>1 DEF WriteEntryPointer, PublishEntry
  <2>3. n = op[t].name /\ entryPtr'[n] = op[t].id
    BY <2>2
  <2>4. t \in Writers
    BY <2>2 DEF ServingInv, RolesOK
  <2> QED BY <2>2, <2>3, <2>4 DEF NamesInOrder
<1>5. LedgerSpec => []LedgerInv
  BY LedgerInvariant
<1> QED BY <1>1, <1>2, <1>3, <1>4, <1>5, TypeCorrect, SharingImplementsLedger, PTL
        DEF Spec, LedgerSpec, NamePublishedAfterShare
=============================================================================
