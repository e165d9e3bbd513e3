------------------------- MODULE DeviceData_proofs -------------------------
(***************************************************************************)
(* What a device keeps besides its records.                                *)
(*                                                                         *)
(* The content cache: its index, its sidecar and the sweep, for any        *)
(* objects, connections and bounds.                                        *)
(*                                                                         *)
(* The device list (DeviceList): for any finite set of devices, each save  *)
(* has one list, the newest is in force somewhere, and no device goes back *)
(* to an older one.                                                        *)
(***************************************************************************)
EXTENDS ContentCache, DeviceList, FiniteSetTheorems, TLAPS

ObjectStages == {"lookup", "remote", "check", "put", "mark", "touch", "delete", "untrack"}

PairStages == {"key", "next", "put", "mark", "save"}

\* What an operation in flight has at hand.
TaskOK(r) ==
    /\ r.stage \in ObjectStages => r.obj \in Objects
    /\ r.todo \subseteq Inherited
    /\ r.kind = "pair" => /\ r.stage \in PairStages
                          /\ r.stage = "put" => r.obj \in Inherited

CacheTyped == TypeOK /\ \A t \in Tasks : TaskOK(op[t])

\* While the daemon has the identity it was born with, none of its objects is
\* tracked, saved as tracked, about to be marked or about to be swept.
OwnUntouched ==
    /\ \A o \in Own : index[o] = 0 /\ sidecar[o] = 0
    /\ \A t \in Tasks : op[t].stage = "mark" => op[t].obj \notin Own
    /\ op[Sweeper].stage = "delete" => op[Sweeper].obj \notin Own

CacheInv ==
    /\ CacheTyped
    /\ paired => keyfile
    /\ ~paired => OwnUntouched

-----------------------------------------------------------------------------
(* One task moves.                                                          *)

LEMMA IdleOK == Idle \in Op /\ TaskOK(Idle) /\ Idle.stage = "idle"
BY DEF Idle, Op, Stages, TaskOK, ObjectStages

LEMMA TaskTyped ==
    ASSUME CacheTyped, NEW t \in Tasks
    PROVE  op[t] \in Op /\ TaskOK(op[t])
BY DEF CacheTyped, TypeOK

LEMMA OneTask ==
    ASSUME CacheTyped, NEW t \in Tasks, NEW r \in Op, TaskOK(r),
           op' = [op EXCEPT ![t] = r]
    PROVE  /\ op' \in [Tasks -> Op] /\ \A u \in Tasks : TaskOK(op'[u])
           /\ op'[t] = r /\ \A u \in Tasks \ {t} : op'[u] = op[u]
<1>1. op \in [Tasks -> Op]
  BY DEF CacheTyped, TypeOK
<1>2. op'[t] = r /\ (\A u \in Tasks \ {t} : op'[u] = op[u]) /\ op' \in [Tasks -> Op]
  BY <1>1
<1>3. \A u \in Tasks : TaskOK(op'[u])
  BY <1>2 DEF CacheTyped
<1> QED BY <1>2, <1>3

\* The operation of a task after each of the steps.
AtStage(r, stage) == [r EXCEPT !.stage = stage]
Begun(kind, stage, o) == [Idle EXCEPT !.kind = kind, !.stage = stage, !.obj = o]
Finished(failed) == [Idle EXCEPT !.failed = failed]

LEMMA FinishedOK ==
    ASSUME NEW failed \in BOOLEAN
    PROVE  /\ Finished(failed) \in Op /\ TaskOK(Finished(failed))
           /\ Finished(failed).stage = "idle"
BY DEF Finished, Idle, Op, Stages, TaskOK, ObjectStages

LEMMA BegunOK ==
    ASSUME NEW kind \in {"fetch", "push", "serve", "sweep", "delete", "pair"},
           NEW stage \in Stages, NEW o \in Objects \cup {None},
           stage \in ObjectStages => o \in Objects,
           kind = "pair" => stage = "key"
    PROVE  /\ Begun(kind, stage, o) \in Op /\ TaskOK(Begun(kind, stage, o))
           /\ Begun(kind, stage, o).stage = stage /\ Begun(kind, stage, o).obj = o
BY DEF Begun, Idle, Op, Stages, TaskOK, ObjectStages, PairStages

\* A task goes on with the same object.
LEMMA AtStageOK ==
    ASSUME NEW r \in Op, TaskOK(r), NEW stage \in Stages,
           stage \in ObjectStages => r.obj \in Objects,
           r.kind = "pair" => stage \in PairStages \ {"put"}
    PROVE  /\ AtStage(r, stage) \in Op /\ TaskOK(AtStage(r, stage))
           /\ AtStage(r, stage).stage = stage /\ AtStage(r, stage).obj = r.obj
<1>1. /\ AtStage(r, stage).stage = stage /\ AtStage(r, stage).obj = r.obj
      /\ AtStage(r, stage).todo = r.todo /\ AtStage(r, stage).kind = r.kind
      /\ AtStage(r, stage) \in Op
  BY DEF AtStage, Op
<1> QED BY <1>1 DEF TaskOK

-----------------------------------------------------------------------------
(* What each step does.                                                     *)

\* Task t goes on to r.  Only Put leads to a mark and only what is cached
\* content; a sweep deletes what it tracks; the index gains only what is
\* marked, and whatever else changes in it is followed by a save.
Moved(t, r) ==
    /\ r \in Op /\ TaskOK(r) /\ op' = [op EXCEPT ![t] = r]
    /\ up' = up /\ paired' = paired
    /\ r.stage = "mark" => Cached(t) /\ op[t].stage = "put" /\ r.obj = op[t].obj
    /\ (r.stage = "delete" /\ t = Sweeper) => r.obj \in Held
    /\ \A o \in Objects : index'[o] # 0 =>
          index[o] # 0 \/ (op[t].stage = "mark" /\ o = op[t].obj)
    /\ sidecar' = IF op[t].stage = "save" THEN index ELSE sidecar
    /\ op[t].stage = "save" => index' = index
    /\ r.stage = "save" \/ \A o \in Objects : index'[o] = 0 <=> index[o] = 0

\* A step that leaves the index and the sidecar alone.
LEMMA QuietMove ==
    ASSUME NEW t \in Tasks, NEW r \in Op, TaskOK(r), op' = [op EXCEPT ![t] = r],
           UNCHANGED <<up, paired, index, sidecar>>, op[t].stage # "save",
           r.stage = "mark" => Cached(t) /\ op[t].stage = "put" /\ r.obj = op[t].obj,
           (r.stage = "delete" /\ t = Sweeper) => r.obj \in Held
    PROVE  Moved(t, r)
BY DEF Moved

LEMMA LookupMoves ==
    ASSUME CacheTyped, NEW t \in Tasks, Lookup(t) \/ Remote(t) \/ CheckExists(t)
    PROVE  \E r \in Op : Moved(t, r)
<1>1. op[t] \in Op /\ TaskOK(op[t]) /\ op[t].stage \in {"lookup", "remote", "check"}
  BY TaskTyped DEF Lookup, Remote, CheckExists, At
<1>2. op[t].obj \in Objects /\ op[t].kind # "pair"
  BY <1>1 DEF TaskOK, ObjectStages, PairStages
<1>3. /\ UNCHANGED <<up, paired, index, sidecar>>
      /\ \/ \E f \in BOOLEAN : op' = [op EXCEPT ![t] = Finished(f)]
         \/ \E st \in {"remote", "check", "put"} : op' = [op EXCEPT ![t] = AtStage(op[t], st)]
  BY DEF Lookup, Remote, CheckExists, Finish, Finished, Goto, AtStage
<1>4. CASE \E f \in BOOLEAN : op' = [op EXCEPT ![t] = Finished(f)]
  <2>1. PICK f \in BOOLEAN : op' = [op EXCEPT ![t] = Finished(f)]
    BY <1>4
  <2>2. Finished(f) \in Op /\ TaskOK(Finished(f)) /\ Finished(f).stage = "idle"
    BY FinishedOK
  <2> QED BY <1>1, <1>3, <2>1, <2>2, QuietMove
<1>5. CASE \E st \in {"remote", "check", "put"} : op' = [op EXCEPT ![t] = AtStage(op[t], st)]
  <2>1. PICK st \in {"remote", "check", "put"} : op' = [op EXCEPT ![t] = AtStage(op[t], st)]
    BY <1>5
  <2>2. /\ AtStage(op[t], st) \in Op /\ TaskOK(AtStage(op[t], st))
        /\ AtStage(op[t], st).stage = st
    BY <1>1, <1>2, AtStageOK DEF Stages
  <2> QED BY <1>1, <1>3, <2>1, <2>2, QuietMove
<1> QED BY <1>3, <1>4, <1>5

LEMMA PutMoves ==
    ASSUME CacheTyped, NEW t \in Tasks, Put(t)
    PROVE  \E r \in Op : Moved(t, r)
<1>1. op[t] \in Op /\ TaskOK(op[t]) /\ op[t].stage = "put"
  BY TaskTyped DEF Put, At
<1>2. op[t].obj \in Objects
  BY <1>1 DEF TaskOK, ObjectStages
<1>3. UNCHANGED <<up, paired, index, sidecar>>
  BY DEF Put
<1>4. CASE Cached(t)
  <2>1. op' = [op EXCEPT ![t] = AtStage(op[t], "mark")]
    BY <1>4 DEF Put, Goto, AtStage
  <2>2. /\ AtStage(op[t], "mark") \in Op /\ TaskOK(AtStage(op[t], "mark"))
        /\ AtStage(op[t], "mark").stage = "mark" /\ AtStage(op[t], "mark").obj = op[t].obj
    BY <1>1, <1>2, AtStageOK DEF Stages, PairStages
  <2> QED BY <1>1, <1>3, <1>4, <2>1, <2>2, QuietMove
<1>5. CASE ~Cached(t)
  <2>1. op' = [op EXCEPT ![t] = Finished(FALSE)]
    BY <1>5 DEF Put, Finish, Finished
  <2> QED BY <1>1, <1>3, <2>1, FinishedOK, QuietMove
<1> QED BY <1>4, <1>5

LEMMA MarkMoves ==
    ASSUME CacheTyped, NEW t \in Tasks, Mark(t) \/ Untrack(t)
    PROVE  \E r \in Op : Moved(t, r)
<1>1. op[t] \in Op /\ TaskOK(op[t]) /\ op[t].stage \in {"mark", "untrack"}
  BY TaskTyped DEF Mark, Untrack, At
<1>2. op' = [op EXCEPT ![t] = AtStage(op[t], "save")]
  BY DEF Mark, Untrack, Goto, AtStage
<1>3. op[t].obj \in Objects
  BY <1>1 DEF TaskOK, ObjectStages
<1>4. /\ AtStage(op[t], "save") \in Op /\ TaskOK(AtStage(op[t], "save"))
      /\ AtStage(op[t], "save").stage = "save"
  BY <1>1, AtStageOK DEF Stages, ObjectStages, PairStages
<1>5. UNCHANGED <<up, paired, sidecar>>
  BY DEF Mark, Untrack
<1>6. \A o \in Objects : index'[o] # 0 =>
          index[o] # 0 \/ (op[t].stage = "mark" /\ o = op[t].obj)
  <2>1. index \in [Objects -> 0 .. MaxClock]
    BY DEF CacheTyped, TypeOK
  <2> QED BY <1>1, <2>1 DEF Mark, Untrack, At
<1> QED BY <1>1, <1>2, <1>4, <1>5, <1>6 DEF Moved

LEMMA SaveMoves ==
    ASSUME CacheTyped, NEW t \in Tasks, Save(t)
    PROVE  \E r \in Op : Moved(t, r)
<1>1. op[t] \in Op /\ TaskOK(op[t]) /\ op[t].stage = "save"
  BY TaskTyped DEF Save, At
<1>2. UNCHANGED <<up, paired, index>> /\ sidecar' = index
  BY DEF Save
<1>3. ASSUME NEW r \in Op, TaskOK(r), op' = [op EXCEPT ![t] = r],
             r.stage \notin {"mark", "delete"}
      PROVE  Moved(t, r)
  BY <1>1, <1>2, <1>3 DEF Moved
<1>4. CASE op[t].kind = "sweep"
  <2>1. op' = [op EXCEPT ![t] = AtStage(op[t], "total")]
    BY <1>4 DEF Save, AfterSave, Goto, AtStage
  <2>2. /\ AtStage(op[t], "total") \in Op /\ TaskOK(AtStage(op[t], "total"))
        /\ AtStage(op[t], "total").stage = "total"
    BY <1>1, <1>4, AtStageOK DEF Stages, ObjectStages
  <2> QED BY <1>3, <2>1, <2>2
<1>5. CASE op[t].kind = "pair"
  <2>1. op' = [op EXCEPT ![t] = AtStage(op[t], "next")]
    BY <1>5 DEF Save, AfterSave, Goto, AtStage
  <2>2. "next" \in Stages /\ "next" \notin ObjectStages /\ "next" \in PairStages \ {"put"}
    BY DEF Stages, ObjectStages, PairStages
  <2>3. /\ AtStage(op[t], "next") \in Op /\ TaskOK(AtStage(op[t], "next"))
        /\ AtStage(op[t], "next").stage = "next"
    BY <1>1, <2>2, AtStageOK
  <2> QED BY <1>3, <2>1, <2>3
<1>6. CASE op[t].kind \notin {"sweep", "pair"}
  <2>1. op' = [op EXCEPT ![t] = Finished(FALSE)]
    BY <1>6 DEF Save, AfterSave, Finish, Finished
  <2> QED BY <1>3, <2>1, FinishedOK
<1> QED BY <1>4, <1>5, <1>6

LEMMA DeleteMoves ==
    ASSUME CacheTyped, NEW t \in Tasks, DeleteFile(t)
    PROVE  \E r \in Op : Moved(t, r)
<1>1. op[t] \in Op /\ TaskOK(op[t]) /\ op[t].stage = "delete"
  BY TaskTyped DEF DeleteFile, At
<1>2. op[t].obj \in Objects /\ op[t].kind # "pair"
  BY <1>1 DEF TaskOK, ObjectStages, PairStages
<1>3. op' = [op EXCEPT ![t] = AtStage(op[t], "untrack")]
  BY DEF DeleteFile, Goto, AtStage
<1>4. /\ AtStage(op[t], "untrack") \in Op /\ TaskOK(AtStage(op[t], "untrack"))
      /\ AtStage(op[t], "untrack").stage = "untrack"
  BY <1>1, <1>2, AtStageOK DEF Stages
<1> QED BY <1>1, <1>3, <1>4, QuietMove DEF DeleteFile

\* A task that was idle starts; only connections start a deletion.
LEMMA BeginMoves ==
    ASSUME CacheTyped, NEW t \in Tasks,
           NEW kind \in {"fetch", "push", "serve", "sweep", "delete", "pair"},
           NEW stage \in {"lookup", "put", "touch", "total", "delete", "key"},
           NEW o \in Objects \cup {None},
           stage \in ObjectStages => o \in Objects,
           kind = "pair" => stage = "key", stage = "delete" => t # Sweeper,
           Begin(t, kind, stage, o), UNCHANGED <<up, paired, index, sidecar>>
    PROVE  \E r \in Op : Moved(t, r)
<1>1. op[t].stage = "idle" /\ op' = [op EXCEPT ![t] = Begun(kind, stage, o)]
  BY DEF Begin, Begun
<1>2. /\ Begun(kind, stage, o) \in Op /\ TaskOK(Begun(kind, stage, o))
      /\ Begun(kind, stage, o).stage = stage
  BY BegunOK DEF Stages
<1> QED BY <1>1, <1>2, QuietMove

LEMMA TouchMoves ==
    ASSUME CacheTyped, Touch
    PROVE  \E r \in Op : Moved(Loop, r)
<1>1. Loop \in Tasks
  BY DEF Tasks
<1>2. op[Loop] \in Op /\ TaskOK(op[Loop]) /\ op[Loop].stage = "touch"
  BY <1>1, TaskTyped DEF Touch, At
<1>3. op' = [op EXCEPT ![Loop] = Finished(FALSE)] /\ UNCHANGED <<up, paired, sidecar>>
  BY DEF Touch, Finish, Finished
<1>4. \A o \in Objects : index'[o] = 0 <=> index[o] = 0
  <2>1. index \in [Objects -> 0 .. MaxClock] /\ clock \in 1 .. MaxClock
    BY DEF CacheTyped, TypeOK
  <2>2. index' = [index EXCEPT ![op[Loop].obj] =
                    IF index[op[Loop].obj] = 0 THEN 0 ELSE clock]
    BY DEF Touch
  <2> QED BY <2>1, <2>2, CacheAssumption
<1>5. Finished(FALSE) \in Op /\ TaskOK(Finished(FALSE)) /\ Finished(FALSE).stage = "idle"
  BY FinishedOK
<1> QED BY <1>2, <1>3, <1>4, <1>5 DEF Moved

\* The sweep picks what it tracks.
LEMMA SweepMoves ==
    ASSUME CacheTyped, Total \/ Pick
    PROVE  \E r \in Op : Moved(Sweeper, r)
<1>1. Sweeper \in Tasks
  BY DEF Tasks
<1>2. /\ op[Sweeper] \in Op /\ TaskOK(op[Sweeper])
      /\ op[Sweeper].stage \in {"total", "pick"} /\ op[Sweeper].kind # "pair"
  BY <1>1, TaskTyped DEF Total, Pick, At, TaskOK, PairStages
<1>3. UNCHANGED <<up, paired, index, sidecar>>
  BY DEF Total, Pick
<1>4. \/ op' = [op EXCEPT ![Sweeper] = Finished(FALSE)]
      \/ op' = [op EXCEPT ![Sweeper] = AtStage(op[Sweeper], "pick")]
      \/ \E o \in Held :
            op' = [op EXCEPT ![Sweeper].stage = "delete", ![Sweeper].obj = o]
  BY DEF Total, Pick, Finish, Finished, Goto, AtStage
<1>5. CASE op' = [op EXCEPT ![Sweeper] = Finished(FALSE)]
  BY <1>1, <1>2, <1>3, <1>5, FinishedOK, QuietMove
<1>6. CASE op' = [op EXCEPT ![Sweeper] = AtStage(op[Sweeper], "pick")]
  <2>1. /\ AtStage(op[Sweeper], "pick") \in Op /\ TaskOK(AtStage(op[Sweeper], "pick"))
        /\ AtStage(op[Sweeper], "pick").stage = "pick"
    BY <1>2, AtStageOK DEF Stages, ObjectStages
  <2> QED BY <1>1, <1>2, <1>3, <1>6, <2>1, QuietMove
<1>7. ASSUME NEW o \in Held,
             op' = [op EXCEPT ![Sweeper].stage = "delete", ![Sweeper].obj = o]
      PROVE  \E r \in Op : Moved(Sweeper, r)
  <2> DEFINE r == [op[Sweeper] EXCEPT !.stage = "delete", !.obj = o]
  <2>1. op' = [op EXCEPT ![Sweeper] = r]
    BY <1>1, <1>7 DEF CacheTyped, TypeOK
  <2>2. o \in Objects
    BY DEF Held, Tracked
  <2>3. r \in Op /\ r.stage = "delete" /\ r.obj = o /\ r.kind = op[Sweeper].kind
        /\ r.todo = op[Sweeper].todo
    BY <1>2, <2>2 DEF Op, Stages
  <2>4. TaskOK(r)
    BY <1>2, <2>2, <2>3 DEF TaskOK
  <2> HIDE DEF r
  <2> QED BY <1>1, <1>2, <1>3, <1>7, <2>1, <2>3, <2>4, QuietMove
<1> QED BY <1>4, <1>5, <1>6, <1>7

\* Pairing takes the inherited records one by one.
LEMMA PairMoves ==
    ASSUME CacheTyped, ReplaceKey \/ NextRecord
    PROVE  \E r \in Op : Moved(Pairer, r)
<1>1. Pairer \in Tasks
  BY DEF Tasks
<1>2. /\ op[Pairer] \in Op /\ TaskOK(op[Pairer])
      /\ op[Pairer].stage \in {"key", "next"}
  BY <1>1, TaskTyped DEF ReplaceKey, NextRecord, At
<1>3. UNCHANGED <<up, paired, index, sidecar>>
  BY DEF ReplaceKey, NextRecord
<1>4. \/ op' = [op EXCEPT ![Pairer] = Finished(FALSE)]
      \/ op' = [op EXCEPT ![Pairer].stage = "next", ![Pairer].todo = Inherited]
      \/ \E o \in op[Pairer].todo :
            op' = [op EXCEPT ![Pairer].stage = "put", ![Pairer].obj = o,
                             ![Pairer].todo = @ \ {o}]
  BY DEF ReplaceKey, NextRecord, Finish, Finished
<1>5. CASE op' = [op EXCEPT ![Pairer] = Finished(FALSE)]
  BY <1>1, <1>2, <1>3, <1>5, FinishedOK, QuietMove
<1>6. CASE op' = [op EXCEPT ![Pairer].stage = "next", ![Pairer].todo = Inherited]
  <2> DEFINE r == [op[Pairer] EXCEPT !.stage = "next", !.todo = Inherited]
  <2>1. op' = [op EXCEPT ![Pairer] = r]
    BY <1>1, <1>6 DEF CacheTyped, TypeOK
  <2>2. r \in Op /\ r.stage = "next" /\ r.todo = Inherited
    BY <1>2, CacheAssumption DEF Op, Stages
  <2>3. TaskOK(r)
    BY <2>2 DEF TaskOK, ObjectStages, PairStages
  <2> HIDE DEF r
  <2> QED BY <1>1, <1>2, <1>3, <2>1, <2>2, <2>3, QuietMove
<1>7. ASSUME NEW o \in op[Pairer].todo,
             op' = [op EXCEPT ![Pairer].stage = "put", ![Pairer].obj = o,
                              ![Pairer].todo = @ \ {o}]
      PROVE  \E r \in Op : Moved(Pairer, r)
  <2> DEFINE left == op[Pairer].todo \ {o}
             r == [op[Pairer] EXCEPT !.stage = "put", !.obj = o, !.todo = left]
  <2>1. op' = [op EXCEPT ![Pairer] = r]
    BY <1>1, <1>7 DEF CacheTyped, TypeOK
  <2>2. o \in Inherited /\ o \in Objects /\ left \subseteq Inherited
        /\ left \subseteq Objects
    BY <1>2, CacheAssumption DEF TaskOK
  <2>3. r \in Op /\ r.stage = "put" /\ r.obj = o /\ r.todo = left
    BY <1>2, <2>2 DEF Op, Stages
  <2>4. TaskOK(r)
    BY <2>2, <2>3 DEF TaskOK, ObjectStages, PairStages
  <2> HIDE DEF r
  <2> QED BY <1>1, <1>2, <1>3, <2>1, <2>3, <2>4, QuietMove
<1> QED BY <1>4, <1>5, <1>6, <1>7

LEMMA StartMoves ==
    ASSUME CacheTyped
    PROVE  /\ \A t \in Conns, o \in Objects : BeginFetch(t, o) \/ BeginDelete(t, o)
                 => \E r \in Op : Moved(t, r)
           /\ \A o \in Objects : BeginPush(o) \/ BeginServe(o)
                 => \E r \in Op : Moved(Loop, r)
           /\ BeginPairing => \E r \in Op : Moved(Pairer, r)
           /\ BeginSweep => \E r \in Op : Moved(Sweeper, r)
<1> USE DEF ObjectStages
<1>1. Conns \subseteq Tasks /\ Loop \in Tasks /\ Pairer \in Tasks /\ Sweeper \in Tasks
      /\ Sweeper \notin Conns
  BY CacheAssumption DEF Tasks
<1>2. ASSUME NEW t \in Conns, NEW o \in Objects, BeginFetch(t, o)
      PROVE  \E r \in Op : Moved(t, r)
  BY <1>1, <1>2, BeginMoves DEF BeginFetch
<1>3. ASSUME NEW t \in Conns, NEW o \in Objects, BeginDelete(t, o)
      PROVE  \E r \in Op : Moved(t, r)
  BY <1>1, <1>3, BeginMoves DEF BeginDelete
<1>4. ASSUME NEW o \in Objects, BeginPush(o) PROVE \E r \in Op : Moved(Loop, r)
  BY <1>1, <1>4, BeginMoves DEF BeginPush
<1>5. ASSUME NEW o \in Objects, BeginServe(o) PROVE \E r \in Op : Moved(Loop, r)
  BY <1>1, <1>5, BeginMoves DEF BeginServe
<1>6. ASSUME BeginPairing PROVE \E r \in Op : Moved(Pairer, r)
  BY <1>1, <1>6, BeginMoves DEF BeginPairing
<1>7. ASSUME BeginSweep PROVE \E r \in Op : Moved(Sweeper, r)
  BY <1>1, <1>7, BeginMoves DEF BeginSweep
<1> QED BY <1>2, <1>3, <1>4, <1>5, <1>6, <1>7

\* Every step is a task's, or a crash, a restart, or a second that passes.
LEMMA StepMoves ==
    ASSUME CacheTyped, [Next]_cacheVars
    PROVE  \/ \E t \in Tasks, r \in Op : Moved(t, r)
           \/ Crash \/ Restart \/ Second \/ UNCHANGED cacheVars
<1>1. Conns \subseteq Tasks /\ Loop \in Tasks /\ Pairer \in Tasks /\ Sweeper \in Tasks
  BY DEF Tasks
<1>2. ASSUME NEW t \in Tasks, TaskStep(t) PROVE \E r \in Op : Moved(t, r)
  BY <1>2, LookupMoves, PutMoves, MarkMoves, SaveMoves, DeleteMoves DEF TaskStep
<1> QED BY <1>1, <1>2, StartMoves, TouchMoves, SweepMoves, PairMoves DEF Next, SweepStep

-----------------------------------------------------------------------------
(* Types.                                                                   *)

LEMMA InitTyped == Init => CacheTyped
<1> SUFFICES ASSUME Init PROVE CacheTyped
  OBVIOUS
<1>1. op \in [Tasks -> Op] /\ \A t \in Tasks : TaskOK(op[t])
  BY IdleOK DEF Init
<1>2. /\ index \in [Objects -> 0 .. MaxClock] /\ sidecar \in [Objects -> 0 .. MaxClock]
      /\ clock \in 1 .. MaxClock
  BY CacheAssumption DEF Init, Nothing
<1>3. budget \in [imports: 0 .. Imports, crashes: 0 .. Crashes] /\ disk \subseteq Objects
  BY CacheAssumption DEF Init
<1> QED BY <1>1, <1>2, <1>3 DEF Init, CacheTyped, TypeOK

\* The store, the index and the counters keep their types.
LEMMA DataTyped ==
    ASSUME CacheTyped, [Next]_cacheVars
    PROVE  /\ up' \in BOOLEAN /\ paired' \in BOOLEAN /\ keyfile' \in BOOLEAN
           /\ disk' \subseteq Objects
           /\ index' \in [Objects -> 0 .. MaxClock]
           /\ sidecar' \in [Objects -> 0 .. MaxClock]
           /\ clock' \in 1 .. MaxClock
           /\ budget' \in [imports: 0 .. Imports, crashes: 0 .. Crashes]
<1>1. /\ Nothing \in [Objects -> 0 .. MaxClock]
      /\ clock \in 0 .. MaxClock /\ 0 \in 0 .. MaxClock
  BY CacheAssumption DEF Nothing, CacheTyped, TypeOK
<1>2. ASSUME NEW t \in Tasks, TaskStep(t)
      PROVE  /\ disk' \subseteq Objects
             /\ index' \in [Objects -> 0 .. MaxClock]
             /\ sidecar' \in [Objects -> 0 .. MaxClock]
             /\ UNCHANGED <<up, paired, keyfile, clock, budget>>
  <2>1. CASE Lookup(t) \/ Remote(t) \/ CheckExists(t)
    BY <2>1 DEF Lookup, Remote, CheckExists, CacheTyped, TypeOK
  <2>2. CASE Put(t)
    <3>1. op[t].obj \in Objects
      BY <2>2 DEF Put, At, TaskOK, ObjectStages, CacheTyped, TypeOK
    <3> QED BY <2>2, <3>1 DEF Put, CacheTyped, TypeOK
  <2>3. CASE Mark(t)
    BY <1>1, <2>3 DEF Mark, CacheTyped, TypeOK
  <2>4. CASE Save(t)
    BY <2>4 DEF Save, CacheTyped, TypeOK
  <2>5. CASE DeleteFile(t)
    BY <2>5 DEF DeleteFile, CacheTyped, TypeOK
  <2>6. CASE Untrack(t)
    BY <1>1, <2>6 DEF Untrack, CacheTyped, TypeOK
  <2> QED BY <1>2, <2>1, <2>2, <2>3, <2>4, <2>5, <2>6 DEF TaskStep
<1>3. ASSUME \/ \E t \in Conns, o \in Objects : BeginFetch(t, o) \/ BeginDelete(t, o)
             \/ \E o \in Objects : BeginPush(o) \/ BeginServe(o)
             \/ BeginPairing \/ NextRecord \/ BeginSweep \/ Total \/ Pick
      PROVE  /\ UNCHANGED <<up, paired, keyfile, disk, index, sidecar, clock>>
             /\ budget' \in [imports: 0 .. Imports, crashes: 0 .. Crashes]
  <2>0. budget.imports > 0 =>
            [budget EXCEPT !.imports = @ - 1] \in [imports: 0 .. Imports, crashes: 0 .. Crashes]
    BY CacheAssumption DEF CacheTyped, TypeOK
  <2>1. CASE \E t \in Conns, o \in Objects : BeginFetch(t, o) \/ BeginDelete(t, o)
    BY <2>0, <2>1 DEF BeginFetch, BeginDelete, CacheTyped, TypeOK
  <2>2. CASE \E o \in Objects : BeginPush(o) \/ BeginServe(o)
    BY <2>0, <2>2 DEF BeginPush, BeginServe, CacheTyped, TypeOK
  <2>3. CASE BeginPairing \/ NextRecord \/ BeginSweep \/ Total \/ Pick
    BY <2>3 DEF BeginPairing, NextRecord, BeginSweep, Total, Pick, CacheTyped, TypeOK
  <2> QED BY <1>3, <2>1, <2>2, <2>3
<1>4. CASE ReplaceKey
  BY <1>4 DEF ReplaceKey, CacheTyped, TypeOK
<1>5. CASE Touch
  <2>1. index' = [index EXCEPT ![op[Loop].obj] =
                    IF index[op[Loop].obj] = 0 THEN 0 ELSE clock]
    BY <1>5 DEF Touch, CacheTyped, TypeOK
  <2>2. index' \in [Objects -> 0 .. MaxClock]
    BY <1>1, <2>1 DEF CacheTyped, TypeOK
  <2> QED BY <1>5, <2>2 DEF Touch, CacheTyped, TypeOK
<1>6. CASE Crash
  <2>1. budget.crashes > 0 =>
            [budget EXCEPT !.crashes = @ - 1] \in [imports: 0 .. Imports, crashes: 0 .. Crashes]
    BY CacheAssumption DEF CacheTyped, TypeOK
  <2>2. sidecar' = sidecar \/ sidecar' = Nothing
    BY <1>6 DEF Crash
  <2> QED BY <1>1, <1>6, <2>1, <2>2 DEF Crash, CacheTyped, TypeOK
<1>7. CASE Restart
  BY <1>7 DEF Restart, CacheTyped, TypeOK
<1>8. CASE Second
  BY <1>8, CacheAssumption DEF Second, CacheTyped, TypeOK
<1>9. CASE UNCHANGED cacheVars
  BY <1>9 DEF cacheVars, CacheTyped, TypeOK
<1>10. Sweeper \in Tasks
  BY DEF Tasks
<1>11. /\ up \in BOOLEAN /\ paired \in BOOLEAN /\ keyfile \in BOOLEAN
       /\ disk \subseteq Objects /\ clock \in 1 .. MaxClock
       /\ index \in [Objects -> 0 .. MaxClock] /\ sidecar \in [Objects -> 0 .. MaxClock]
       /\ budget \in [imports: 0 .. Imports, crashes: 0 .. Crashes]
  BY DEF CacheTyped, TypeOK
<1>12. CASE TaskStep(Sweeper) \/ \E t \in Tasks \ {Sweeper} : TaskStep(t)
  BY <1>2, <1>10, <1>11, <1>12
<1>13. CASE \/ \E t \in Conns, o \in Objects : BeginFetch(t, o) \/ BeginDelete(t, o)
            \/ \E o \in Objects : BeginPush(o) \/ BeginServe(o)
            \/ BeginPairing \/ NextRecord \/ BeginSweep \/ Total \/ Pick
  BY <1>3, <1>11, <1>13
<1> QED BY <1>4, <1>5, <1>6, <1>7, <1>8, <1>9, <1>12, <1>13 DEF Next, SweepStep

LEMMA TypePreserved == CacheTyped /\ [Next]_cacheVars => CacheTyped'
<1> SUFFICES ASSUME CacheTyped, [Next]_cacheVars PROVE CacheTyped'
  OBVIOUS
<1>1. op' \in [Tasks -> Op] /\ \A t \in Tasks : TaskOK(op'[t])
  <2>1. CASE \E t \in Tasks, r \in Op : Moved(t, r)
    BY <2>1, OneTask DEF Moved
  <2>2. CASE Crash
    BY <2>2, IdleOK DEF Crash
  <2>3. CASE Restart \/ Second \/ UNCHANGED cacheVars
    BY <2>3 DEF Restart, Second, cacheVars, CacheTyped, TypeOK
  <2> QED BY <2>1, <2>2, <2>3, StepMoves
<1> QED BY <1>1, DataTyped DEF CacheTyped, TypeOK, TaskOK

\* The store, the index, the sidecar and the operations are well typed.
THEOREM TypeCorrect == CacheSpec => []TypeOK
<1>1. CacheTyped => TypeOK
  BY DEF CacheTyped
<1> QED BY <1>1, InitTyped, TypePreserved, PTL DEF CacheSpec

-----------------------------------------------------------------------------
(* The sidecar.                                                             *)

SidecarInv == CacheTyped /\ SidecarIsCurrent

LEMMA SidecarPreserved == SidecarInv /\ [Next]_cacheVars => SidecarInv'
<1> SUFFICES ASSUME SidecarInv, [Next]_cacheVars PROVE SidecarInv'
  OBVIOUS
<1>0. CacheTyped /\ CacheTyped'
  BY TypePreserved DEF SidecarInv
<1>1. ASSUME NEW t \in Tasks, NEW r \in Op, Moved(t, r), up', Saving' = {}
      PROVE  Tracked(sidecar)' = Tracked(index)'
  <2>1. op'[t] = r /\ \A u \in Tasks \ {t} : op'[u] = op[u]
    BY <1>0, <1>1, OneTask DEF Moved
  <2>2. r.stage # "save"
    BY <1>1, <2>1 DEF Saving
  <2>3. CASE op[t].stage = "save"
    BY <1>1, <2>3 DEF Moved, Tracked
  <2>4. CASE op[t].stage # "save"
    <3>1. Saving = {} /\ up
      BY <1>1, <2>1, <2>4 DEF Saving, Moved
    <3>2. Tracked(sidecar) = Tracked(index)
      BY <3>1 DEF SidecarInv, SidecarIsCurrent
    <3>3. sidecar' = sidecar /\ \A o \in Objects : index'[o] = 0 <=> index[o] = 0
      BY <1>1, <2>2, <2>4 DEF Moved
    <3> QED BY <3>2, <3>3 DEF Tracked
  <2> QED BY <2>3, <2>4
<1>2. CASE Crash
  BY <1>0, <1>2 DEF Crash, SidecarInv, SidecarIsCurrent
<1>3. CASE Restart
  BY <1>0, <1>3 DEF Restart, SidecarInv, SidecarIsCurrent, Tracked
<1>4. CASE Second \/ UNCHANGED cacheVars
  BY <1>0, <1>4 DEF Second, cacheVars, SidecarInv, SidecarIsCurrent, Tracked, Saving
<1> QED BY <1>0, <1>1, <1>2, <1>3, <1>4, StepMoves DEF SidecarInv, SidecarIsCurrent

\* With no save under way, a restart tracks what is tracked now.
THEOREM SidecarSettles == CacheSpec => []SidecarIsCurrent
<1>1. Init => SidecarInv
  BY InitTyped DEF SidecarInv, SidecarIsCurrent, Init, Tracked
<1>2. SidecarInv => SidecarIsCurrent
  BY DEF SidecarInv
<1> QED BY <1>1, <1>2, SidecarPreserved, PTL DEF CacheSpec

-----------------------------------------------------------------------------
(* The sweep.                                                               *)

LEMMA CacheInvInit == Init => CacheInv
<1> SUFFICES ASSUME Init PROVE CacheInv
  OBVIOUS
<1>1. \A t \in Tasks : op[t].stage = "idle"
  BY IdleOK DEF Init
<1>2. \A o \in Own : index[o] = 0 /\ sidecar[o] = 0
  BY CacheAssumption DEF Init, Nothing
<1> QED BY <1>1, <1>2, InitTyped DEF Init, CacheInv, OwnUntouched, Tasks

LEMMA OwnStaysUntouched ==
    ASSUME CacheInv, CacheTyped', ~paired,
           NEW t \in Tasks, NEW r \in Op, Moved(t, r)
    PROVE  OwnUntouched'
<1>1. /\ CacheTyped /\ OwnUntouched /\ Own \subseteq Objects
      /\ Mine = Own /\ Inherited \cap Own = {} /\ Sweeper \in Tasks
  BY CacheAssumption DEF CacheInv, Mine, Tasks
<1>2. op'[t] = r /\ \A u \in Tasks \ {t} : op'[u] = op[u]
  BY <1>1, OneTask DEF Moved
<1>3. \A o \in Own : index'[o] = 0 /\ sidecar'[o] = 0
  BY <1>1 DEF Moved, OwnUntouched
<1>4. ASSUME r.stage = "mark" PROVE r.obj \notin Own
  <2>1. op[t].stage = "put" /\ r.obj = op[t].obj /\ Cached(t) /\ TaskOK(op[t])
    BY <1>1, <1>4, TaskTyped DEF Moved
  <2> QED BY <1>1, <2>1 DEF Cached, Foreign, TaskOK
<1>5. ASSUME r.stage = "delete", t = Sweeper PROVE r.obj \notin Own
  BY <1>1, <1>5 DEF Moved, Held, Tracked, OwnUntouched
<1> QED BY <1>1, <1>2, <1>3, <1>4, <1>5 DEF OwnUntouched

LEMMA CacheInvPreserved == CacheInv /\ [Next]_cacheVars => CacheInv'
<1> SUFFICES ASSUME CacheInv, [Next]_cacheVars PROVE CacheInv'
  OBVIOUS
<1>0. CacheTyped /\ CacheTyped'
  BY TypePreserved DEF CacheInv
<1>1. paired' => keyfile'
  BY <1>0 DEF CacheInv, CacheTyped, TypeOK, Next, SweepStep, TaskStep, BeginFetch,
     BeginDelete, BeginPush, BeginServe, BeginPairing, ReplaceKey, NextRecord, Lookup,
     Remote, CheckExists, Put, Mark, Save, DeleteFile, Untrack, Touch, BeginSweep,
     Total, Pick, Crash, Restart, Second, cacheVars
<1>2. ASSUME ~paired' PROVE OwnUntouched'
  <2>1. ~paired
    <3>1. CASE Restart
      BY <1>2, <3>1 DEF Restart, CacheInv
    <3>2. CASE ~Restart
      BY <1>0, <1>2, <3>2, StepMoves DEF Moved, Crash, Second, cacheVars
    <3> QED BY <3>1, <3>2
  <2>2. OwnUntouched
    BY <2>1 DEF CacheInv
  <2>3. CASE \E t \in Tasks, r \in Op : Moved(t, r)
    BY <1>0, <2>1, <2>3, OwnStaysUntouched
  <2>4. CASE Crash
    <3>1. \A t \in Tasks : op'[t].stage = "idle"
      BY <2>4, IdleOK DEF Crash
    <3>2. \A o \in Own : index'[o] = 0 /\ sidecar'[o] = 0
      BY <2>2, <2>4, CacheAssumption DEF Crash, Nothing, OwnUntouched
    <3> QED BY <3>1, <3>2 DEF OwnUntouched, Tasks
  <2>5. CASE Restart \/ Second \/ UNCHANGED cacheVars
    BY <2>2, <2>5 DEF Restart, Second, cacheVars, OwnUntouched
  <2> QED BY <1>0, <2>3, <2>4, <2>5, StepMoves
<1> QED BY <1>0, <1>1, <1>2 DEF CacheInv

\* Until pairing replaces the identity, the sweep deletes nothing of its own.
THEOREM SweepIsSafe == CacheSpec => []UnpairedSweepSparesOwn
<1>1. CacheInv => UnpairedSweepSparesOwn
  <2> SUFFICES ASSUME CacheInv, ~paired, op[Sweeper].stage = "delete"
               PROVE  op[Sweeper].obj \in Foreign
    BY DEF UnpairedSweepSparesOwn, SweepSparesOwn
  <2>1. Sweeper \in Tasks /\ op[Sweeper].obj \notin Own
    BY DEF CacheInv, OwnUntouched, Tasks
  <2>2. op[Sweeper].obj \in Objects
    BY <2>1, TaskTyped DEF CacheInv, TaskOK, ObjectStages
  <2> QED BY <2>1, <2>2 DEF Foreign, Mine
<1> QED BY <1>1, CacheInvInit, CacheInvPreserved, PTL DEF CacheSpec

-----------------------------------------------------------------------------
(* The device list, for any finite set of devices that run, any names of    *)
(* others and any bounds.                                                   *)

\* The lists in use: in a record file, in a device's store, or in the DHT.
HeldLists == {cache[d] : d \in Devices} \cup {pushed[d] : d \in Devices} \cup dht

Lists == [number : Nat, by : Devices, members : SUBSET Names, version : Nat]

Edits == [busy : BOOLEAN, members : SUBSET Names, without : SUBSET Names]

ListsTyped ==
    /\ cache \in [Devices -> Lists] /\ pushed \in [Devices -> Lists]
    /\ dht = {} \/ \E l \in Lists : dht = {l}
    /\ saves \in Nat /\ edits \in 0..MaxEdits
    /\ published \subseteq linked /\ linked \subseteq Devices
    /\ edit \in [Devices -> [EditTasks -> Edits]]

\* A list was saved, and its version counts at most the saves before it.
ListsSaved == \A l \in HeldLists : l.number \in 1..saves /\ l.version \in 1..l.number

\* One save, one list: the number that orders the pointers names the list.
OneListPerSave == \A l, k \in HeldLists : l.number = k.number => l = k

\* The newest list is in force on some device, whatever syncs and whatever is put
\* into the DHT meanwhile: what a device falls back to is never older than that.
NewestIsKept == \E d \in Devices : cache[d].number = saves

\* A registration, or a reconciliation, is about to save a list with its device on
\* it, and remove_device refuses the device it runs on.
EditsNameTheirDevice ==
    \A d \in Devices, t \in EditTasks :
        /\ d \notin edit[d][t].without
        /\ t # "user" /\ edit[d][t].busy => d \in edit[d][t].members

ListsInv == ListsTyped /\ ListsSaved /\ OneListPerSave /\ NewestIsKept /\ EditsNameTheirDevice

\* The steps change what is held in few ways.
LEMMA HeldTyped == ASSUME ListsTyped PROVE HeldLists \subseteq Lists
BY DEF ListsTyped, HeldLists

LEMMA ListsTypedImpliesTypeOK == ListsTyped /\ ListsSaved => ListTypeOK
<1> SUFFICES ASSUME ListsTyped, ListsSaved PROVE ListTypeOK
  OBVIOUS
<1>1. \A l \in HeldLists : l.by \in Devices /\ l.members \subseteq Names
  BY HeldTyped DEF Lists
<1>2. Cardinality(dht) <= 1
  <2>1. CASE dht = {}
    BY <2>1, FS_EmptySet
  <2>2. CASE \E l \in Lists : dht = {l}
    BY <2>2, FS_Singleton
  <2> QED BY <2>1, <2>2 DEF ListsTyped
<1> QED BY <1>1, <1>2 DEF ListsTyped, ListsSaved, ListTypeOK, HeldLists, Edits

LEMMA ListsInvInit == ListInit => ListsInv
<1> SUFFICES ASSUME ListInit PROVE ListsInv
  OBVIOUS
<1> DEFINE N == Cardinality(Devices)
<1>1. N \in Nat /\ N # 0
  BY DeviceAssumption, FS_CardinalityType, FS_EmptySet
<1>2. PICK order \in Bijection(Devices, 1..N) :
        cache = [d \in Devices |-> [number |-> order[d], by |-> d, members |-> {d}, version |-> 1]]
  BY DEF ListInit
<1>3. /\ pushed = cache /\ saves = N /\ dht = {} /\ linked = {} /\ published = {} /\ edits = 0
      /\ edit = [d \in Devices |-> [t \in EditTasks |-> Resting]]
  BY DEF ListInit
<1> HIDE DEF N
<1>4. /\ \A d \in Devices : order[d] \in 1..N
      /\ \A d, e \in Devices : order[d] = order[e] => d = e
      /\ \E d \in Devices : order[d] = N
  BY <1>1, <1>2 DEF Bijection, Injection, Surjection, IsInjective
<1>5. HeldLists = {cache[d] : d \in Devices}
  BY <1>3 DEF HeldLists
<1>6. \A d \in Devices : /\ cache[d] \in Lists /\ cache[d].number = order[d]
                         /\ cache[d].by = d /\ cache[d].version = 1
  BY <1>1, <1>2, <1>4 DEF Lists, Names
<1>7. ListsTyped
  <2>1. cache \in [Devices -> Lists]
    BY <1>2, <1>6
  <2>2. Resting \in Edits
    BY DEF Resting, Edits
  <2> QED BY <1>1, <1>3, <2>1, <2>2, DeviceAssumption DEF ListsTyped
<1>8. ListsSaved
  BY <1>1, <1>3, <1>4, <1>5, <1>6 DEF ListsSaved
<1>9. OneListPerSave
  BY <1>4, <1>5, <1>6 DEF OneListPerSave
<1>10. NewestIsKept
  BY <1>3, <1>4, <1>6 DEF NewestIsKept
<1>11. EditsNameTheirDevice
  BY <1>3 DEF EditsNameTheirDevice, Resting
<1> QED BY <1>7, <1>8, <1>9, <1>10, <1>11 DEF ListsInv

\* What a device offers and merges are lists and devices it knows of.
LEMMA MergedTyped ==
    ASSUME ListsTyped, NEW d \in Devices
    PROVE  Merged(d) \subseteq SUBSET Names
<1>1. \A found \in {{}, dht} : \A l \in Freshest(d, found) : l.members \subseteq Names
  <2> SUFFICES ASSUME NEW found \in {{}, dht}, NEW l \in Freshest(d, found) PROVE l.members \subseteq Names
    OBVIOUS
  <2>1. l \in {cache[d], pushed[d]} \cup found
    BY DEF Freshest, Offered
  <2>2. l \in Lists
    BY <2>1 DEF ListsTyped
  <2> QED BY <2>2 DEF Lists
<1>2. cache[d].members \subseteq Names
  BY DEF ListsTyped, Lists
<1> QED BY <1>1, <1>2 DEF Merged, Union, Local

\* Beginning an edit only notes what is to be saved.
LEMMA EditBegun ==
    ASSUME ListsInv, NEW d \in Devices, NEW t \in EditTasks,
           NEW added \in SUBSET Names, NEW removed \in SUBSET Names, d \notin removed,
           t = "user" \/ d \in added, BeginEdit(d, t, added, removed)
    PROVE  /\ edit' \in [Devices -> [EditTasks -> Edits]] /\ EditsNameTheirDevice'
           /\ UNCHANGED <<saves, cache, pushed, linked>>
<1>1. PICK members \in Merged(d) :
        edit' = [edit EXCEPT ![d][t] = [busy |-> TRUE, members |-> (members \cup added) \ removed,
                                        without |-> removed]]
  BY DEF BeginEdit
<1> DEFINE e == [busy |-> TRUE, members |-> (members \cup added) \ removed, without |-> removed]
<1>2. e \in Edits
  BY MergedTyped DEF ListsInv, Edits
<1>3. /\ d \notin e.without
      /\ t # "user" => d \in e.members
      /\ edit' = [edit EXCEPT ![d][t] = e]
  BY <1>1
<1> HIDE DEF e
<1>4. /\ edit' \in [Devices -> [EditTasks -> Edits]]
      /\ \A x \in Devices, u \in EditTasks :
            edit'[x][u] = IF x = d /\ u = t THEN e ELSE edit[x][u]
  <2> DEFINE row == [edit[d] EXCEPT ![t] = e]
  <2>1. edit \in [Devices -> [EditTasks -> Edits]]
    BY DEF ListsInv, ListsTyped
  <2>2. edit' = [edit EXCEPT ![d] = row]
    BY <1>3
  <2>3. row \in [EditTasks -> Edits] /\ \A u \in EditTasks : row[u] = IF u = t THEN e ELSE edit[d][u]
    BY <1>2, <2>1
  <2> HIDE DEF row
  <2>4. edit' \in [Devices -> [EditTasks -> Edits]]
    BY <2>1, <2>2, <2>3
  <2>5. edit'[d] = row /\ \A x \in Devices \ {d} : edit'[x] = edit[x]
    BY <2>1, <2>2
  <2> QED BY <2>3, <2>4, <2>5
<1>5. EditsNameTheirDevice'
  <2> SUFFICES ASSUME NEW x \in Devices, NEW u \in EditTasks
               PROVE  /\ x \notin edit'[x][u].without
                      /\ u # "user" /\ edit'[x][u].busy => x \in edit'[x][u].members
    BY DEF EditsNameTheirDevice
  <2>1. CASE x = d /\ u = t
    <3>1. edit'[x][u] = e
      BY <1>4, <2>1
    <3> QED BY <1>3, <2>1, <3>1
  <2>2. CASE ~(x = d /\ u = t)
    <3>1. edit'[x][u] = edit[x][u]
      BY <1>4, <2>2
    <3> QED BY <3>1 DEF ListsInv, EditsNameTheirDevice
  <2> QED BY <2>1, <2>2
<1>6. UNCHANGED <<saves, cache, pushed, linked>>
  BY DEF BeginEdit
<1> QED BY <1>4, <1>5, <1>6

\* Lists that were held before are as they were.
LEMMA FewerLists ==
    ASSUME ListsInv, HeldLists' \subseteq HeldLists, UNCHANGED saves
    PROVE  ListsSaved' /\ OneListPerSave'
BY DEF ListsInv, ListsSaved, OneListPerSave

LEMMA SavePreserves == ASSUME ListsInv, NEW d \in Devices, NEW t \in EditTasks, SaveList(d, t) PROVE ListsInv'
<1> DEFINE list == [number |-> saves + 1, by |-> d, members |-> edit[d][t].members, version |-> NextVersion(d)]
           receivers == IF d \in linked THEN linked ELSE {d}
<1>1. /\ saves' = saves + 1 /\ cache' = [cache EXCEPT ![d] = list]
      /\ pushed' = [x \in Devices |-> IF x \in receivers THEN list ELSE pushed[x]]
      /\ dht' = (IF d \in linked THEN {list} ELSE dht)
      /\ edit' = [edit EXCEPT ![d][t] = Resting]
      /\ UNCHANGED <<linked, published, edits>>
  BY DEF SaveList
<1>2. /\ cache[d] \in HeldLists /\ cache[d].number \in 1..saves /\ cache[d].version \in 1..cache[d].number
      /\ saves \in Nat /\ cache[d].number \in Nat /\ edit[d][t] \in Edits
  BY DEF ListsInv, ListsTyped, ListsSaved, HeldLists, Lists
<1>3. list \in Lists /\ list.number = saves + 1 /\ list.version \in 1..(saves + 1)
  BY <1>2 DEF Lists, Edits, NextVersion
<1> HIDE DEF list
<1>4. /\ cache' \in [Devices -> Lists] /\ cache'[d] = list
      /\ \A x \in Devices : x # d => cache'[x] = cache[x]
  BY <1>1, <1>3 DEF ListsInv, ListsTyped
<1>5. /\ pushed' \in [Devices -> Lists]
      /\ \A x \in Devices : pushed'[x] \in {list, pushed[x]}
  BY <1>1, <1>3 DEF ListsInv, ListsTyped
<1>6. dht' \subseteq dht \cup {list} /\ (dht' = {} \/ \E l \in Lists : dht' = {l})
  BY <1>1, <1>3 DEF ListsInv, ListsTyped
<1>7. HeldLists' \subseteq HeldLists \cup {list}
  BY <1>4, <1>5, <1>6 DEF HeldLists
<1>8. \A l \in HeldLists : l.number \in 1..saves /\ l.version \in 1..l.number
  BY DEF ListsInv, ListsSaved
<1>9. ListsSaved'
  BY <1>1, <1>2, <1>3, <1>7, <1>8 DEF ListsSaved
<1>10. OneListPerSave'
  BY <1>2, <1>3, <1>7, <1>8 DEF ListsInv, OneListPerSave
<1>11. NewestIsKept'
  BY <1>1, <1>3, <1>4 DEF NewestIsKept
<1>12. /\ edit' \in [Devices -> [EditTasks -> Edits]]
       /\ \A x \in Devices, u \in EditTasks : edit'[x][u] \in {edit[x][u], Resting}
  <2>1. Resting \in Edits
    BY DEF Resting, Edits
  <2> QED BY <1>1, <2>1 DEF ListsInv, ListsTyped
<1>13. EditsNameTheirDevice'
  <2>1. ~Resting.busy /\ Resting.without = {}
    BY DEF Resting
  <2> QED BY <1>12, <2>1 DEF ListsInv, EditsNameTheirDevice
<1>14. ListsTyped'
  BY <1>1, <1>2, <1>4, <1>5, <1>6, <1>12 DEF ListsInv, ListsTyped
<1> QED BY <1>9, <1>10, <1>11, <1>13, <1>14 DEF ListsInv

LEMMA SyncPreserves == ASSUME ListsInv, NEW d \in Devices, Sync(d) PROVE ListsInv'
<1>1. PICK l \in {pushed[d]} \cup dht : l.number > cache[d].number /\ cache' = [cache EXCEPT ![d] = l]
  BY DEF Sync, Offered
<1>2. UNCHANGED <<saves, pushed, dht, linked, published, edit, edits>>
  BY DEF Sync
<1>3. l \in HeldLists /\ l \in Lists
  BY <1>1, HeldTyped DEF ListsInv, HeldLists
<1>4. /\ cache' \in [Devices -> Lists] /\ cache'[d] = l
      /\ \A x \in Devices : x # d => cache'[x] = cache[x]
  BY <1>1, <1>3 DEF ListsInv, ListsTyped
<1>5. HeldLists' \subseteq HeldLists
  BY <1>2, <1>3, <1>4 DEF HeldLists
<1>6. NewestIsKept'
  <2>1. PICK e \in Devices : cache[e].number = saves
    BY DEF ListsInv, NewestIsKept
  <2>2. l.number \in 1..saves /\ saves \in Nat
    BY <1>3 DEF ListsInv, ListsSaved, ListsTyped
  <2>3. e # d
    BY <1>1, <2>1, <2>2
  <2> QED BY <1>2, <1>4, <2>1, <2>3 DEF NewestIsKept
<1>7. ListsTyped' /\ EditsNameTheirDevice'
  BY <1>2, <1>4 DEF ListsInv, ListsTyped, EditsNameTheirDevice
<1> QED BY <1>2, <1>5, <1>6, <1>7, FewerLists DEF ListsInv

\* An edit that began, with what else the step did to the DHT and the counters.
LEMMA BegunPreserves ==
    ASSUME ListsInv, NEW d \in Devices, NEW t \in EditTasks,
           NEW added \in SUBSET Names, NEW removed \in SUBSET Names, d \notin removed,
           t = "user" \/ d \in added, BeginEdit(d, t, added, removed),
           dht' \in {dht, {cache[d]}}, edits' \in 0..MaxEdits,
           published' \subseteq linked
    PROVE  ListsInv'
<1>1. /\ edit' \in [Devices -> [EditTasks -> Edits]] /\ EditsNameTheirDevice'
      /\ UNCHANGED <<saves, cache, pushed, linked>>
  BY EditBegun
<1>2. cache[d] \in Lists
  BY DEF ListsInv, ListsTyped
<1>3. HeldLists' \subseteq HeldLists
  BY <1>1 DEF HeldLists
<1>4. ListsTyped' /\ NewestIsKept'
  BY <1>1, <1>2 DEF ListsInv, ListsTyped, NewestIsKept
<1> QED BY <1>1, <1>3, <1>4, FewerLists DEF ListsInv

LEMMA ListsInvPreserved == ListsInv /\ [ListNext]_deviceVars => ListsInv'
<1> SUFFICES ASSUME ListsInv, [ListNext]_deviceVars PROVE ListsInv'
  OBVIOUS
<1>0. /\ edits \in 0..MaxEdits /\ MaxEdits \in Nat /\ published \subseteq linked
      /\ Devices \subseteq Names
  BY DeviceAssumption DEF ListsInv, ListsTyped, Names
<1>1. ASSUME NEW d \in Devices, PublishConnected(d) PROVE ListsInv'
  <2>1. /\ d \in linked /\ dht' = {cache[d]} /\ published' = published \cup {d}
        /\ BeginEdit(d, "startup", {d}, {}) /\ UNCHANGED edits
    BY <1>1 DEF PublishConnected
  <2> QED BY <1>0, <2>1, BegunPreserves DEF EditTasks
<1>2. ASSUME NEW d \in Devices, Register(d) PROVE ListsInv'
  <2>1. /\ BeginEdit(d, "startup", {d}, {}) /\ edits < MaxEdits /\ edits' = edits + 1
        /\ UNCHANGED <<dht, published>>
    BY <1>2 DEF Register
  <2> QED BY <1>0, <2>1, BegunPreserves DEF EditTasks
<1>3. ASSUME NEW d \in Devices, Reconcile(d) PROVE ListsInv'
  <2>1. BeginEdit(d, "sync", {d}, {}) /\ UNCHANGED <<dht, published, edits>>
    BY <1>3 DEF Reconcile
  <2> QED BY <1>0, <2>1, BegunPreserves DEF EditTasks
<1>4. ASSUME NEW d \in Devices, NEW who \in Names, Command(d, who) PROVE ListsInv'
  <2>1. /\ edits < MaxEdits /\ edits' = edits + 1 /\ UNCHANGED <<dht, published>>
        /\ \/ BeginEdit(d, "user", {who}, {})
           \/ who # d /\ BeginEdit(d, "user", {}, {who})
    BY <1>4 DEF Command
  <2> QED BY <1>0, <2>1, BegunPreserves DEF EditTasks
<1>5. ASSUME NEW d \in Devices, Connect(d) PROVE ListsInv'
  <2>1. linked' = linked \cup {d} /\ UNCHANGED <<saves, cache, pushed, dht, published, edit, edits>>
    BY <1>5 DEF Connect
  <2>2. HeldLists' = HeldLists
    BY <2>1 DEF HeldLists
  <2>3. ListsTyped' /\ NewestIsKept' /\ EditsNameTheirDevice'
    BY <2>1 DEF ListsInv, ListsTyped, NewestIsKept, EditsNameTheirDevice
  <2> QED BY <2>1, <2>2, <2>3, FewerLists DEF ListsInv
<1>6. CASE UNCHANGED deviceVars
  BY <1>6 DEF deviceVars, ListsInv, ListsTyped, ListsSaved, OneListPerSave, NewestIsKept,
              EditsNameTheirDevice, HeldLists
<1> QED BY <1>1, <1>2, <1>3, <1>4, <1>5, <1>6, SavePreserves, SyncPreserves DEF ListNext

\* In every behaviour the lists are typed, a version counts at most the saves before
\* its list, a number names one list, the newest save is in force somewhere, and
\* an edit keeps its own device: save_device_list, sync_record and the edits of
\* records.rs together.
THEOREM DeviceListsInvariant == DeviceSpec => []ListsInv
BY ListsInvInit, ListsInvPreserved, PTL DEF DeviceSpec

\* The device list's variables keep the types and ranges the model gives them.
THEOREM DeviceListsTyped == DeviceSpec => []ListTypeOK
<1>1. ListsInv => ListTypeOK
  BY ListsTypedImpliesTypeOK DEF ListsInv
<1> QED BY <1>1, DeviceListsInvariant, PTL

\* Whatever a device saves, syncs or puts into the DHT, some device reads its lists
\* from the newest save.
THEOREM NewestListIsKept == DeviceSpec => []NewestIsKept
BY DeviceListsInvariant, PTL DEF ListsInv

\* sync_record takes newer lists and save_device_list makes the newest: a device
\* never goes back to an older list than it had.
NeverOlder == [][\A d \in Devices : cache'[d].number >= cache[d].number]_deviceVars

THEOREM ListsMoveForward == DeviceSpec => NeverOlder
<1>1. ListsInv /\ [ListNext]_deviceVars => [\A d \in Devices : cache'[d].number >= cache[d].number]_deviceVars
  <2> SUFFICES ASSUME ListsInv, ListNext, NEW x \in Devices PROVE cache'[x].number >= cache[x].number
    BY DEF ListsInv
  <2>1. \A d \in Devices : /\ cache[d] \in HeldLists /\ cache[d] \in Lists
                           /\ cache[d].number \in 1..saves /\ cache[d].number \in Nat
    BY DEF ListsInv, ListsTyped, ListsSaved, HeldLists, Lists
  <2>2. ASSUME NEW d \in Devices, NEW t \in EditTasks, SaveList(d, t)
        PROVE  cache'[x].number >= cache[x].number
    <3> DEFINE list == [number |-> saves + 1, by |-> d, members |-> edit[d][t].members, version |-> NextVersion(d)]
    <3>1. cache' = [cache EXCEPT ![d] = list] /\ list.number = saves + 1
      BY <2>2 DEF SaveList
    <3> HIDE DEF list
    <3> QED BY <2>1, <3>1 DEF ListsInv, ListsTyped
  <2>3. ASSUME NEW d \in Devices, Sync(d) PROVE cache'[x].number >= cache[x].number
    <3>1. PICK l \in {pushed[d]} \cup dht : l.number > cache[d].number /\ cache' = [cache EXCEPT ![d] = l]
      BY <2>3 DEF Sync, Offered
    <3>2. l.number \in Nat
      BY HeldTyped DEF ListsInv, HeldLists, Lists
    <3> QED BY <2>1, <3>1, <3>2 DEF ListsInv, ListsTyped
  <2>4. CASE UNCHANGED cache
    BY <2>1, <2>4
  <2> QED BY <2>2, <2>3, <2>4
          DEF ListNext, PublishConnected, Register, Reconcile, Connect, Command, BeginEdit
<1> QED BY <1>1, DeviceListsInvariant, PTL DEF DeviceSpec, NeverOlder
=============================================================================
