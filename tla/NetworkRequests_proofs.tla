----------------------- MODULE NetworkRequests_proofs -----------------------
(***************************************************************************)
(* The tables of the network loop and the verdicts of a push, for any calls *)
(* and peers, capacity of the channel and changes of the peer table.        *)
(***************************************************************************)
EXTENDS NetworkRequests, SequenceTheorems, TLAPS

Queued(k) == \E j \in 1 .. Len(queue) : queue[j] = k

\* The loop has done nothing for the call yet.
Fresh(k) ==
    /\ push[k] = NoPush
    /\ \A p \in Targets : /\ flight[<<k, p>>] = "none"
                          /\ <<k, p>> \notin pending /\ <<k, p>> \notin held

Queries == {"put", "lookup", "providers"}

\* What the loop holds for a call is under way, whichever it is.
TablesOK(k) ==
    /\ \A p \in Targets : <<k, p>> \in pending =>
          flight[<<k, p>>] # "none" \/ call[k].kind = "providers"
    /\ flight[<<k, None>>] # "none" \/ <<k, None>> \in pending => call[k].kind \in Queries

\* The verdicts of a push, and what is still to come: a verdict that a peer
\* stored the bundle is true, and each target's comes once.
PushOK(k) ==
    /\ push[k].stored \subseteq push[k].targets
    /\ push[k].refused \subseteq push[k].targets
    /\ \A p \in push[k].stored : <<k, p>> \in held
    /\ call[k].to # None => push[k].targets \subseteq {call[k].to}
    /\ \A p \in Peers : flight[<<k, p>>] = "ok" => <<k, p>> \in held
    /\ \A p \in Peers : <<k, p>> \in pending =>
          p \in push[k].targets \ (push[k].stored \cup push[k].refused)

ResultOK(k) ==
    /\ call[k].result = "ok" =>
          \/ <<k, call[k].to>> \in held
          \/ call[k].to = None /\ (push[k].targets = {}
                                   \/ \E p \in push[k].targets : <<k, p>> \in held)
    /\ call[k].result = "failed" => push[k].refused = push[k].targets

CallOK(k) ==
    /\ call[k].kind = "get" => call[k].to # None
    /\ call[k].stage \in {"unused", "send"} =>
          ~Queued(k) /\ Fresh(k) /\ call[k].result = "none"
    /\ Queued(k) => Fresh(k) /\ call[k].kind \in Kinds
    /\ Queued(k) /\ call[k].kind = "push" => call[k].result = "none"
    /\ TablesOK(k)
    /\ call[k].kind = "push" => PushOK(k) /\ ResultOK(k)

\* No command is in the channel twice.
QueuedOnce ==
    \A i, j \in 1 .. Len(queue) : queue[i] = queue[j] => i = j

NetInv == TypeOK /\ QueuedOnce /\ \A k \in Calls : CallOK(k)

-----------------------------------------------------------------------------
(* The channel.                                                             *)

LEMMA Taken ==
    ASSUME TypeOK, QueuedOnce, NEW k \in Calls, Take(k)
    PROVE  /\ Queued(k) /\ ~Queued(k)' /\ QueuedOnce'
           /\ \A m \in Calls : Queued(m)' => Queued(m)
           /\ queue' \in Seq(Calls) /\ Len(queue') <= QueueCap
<1>1. /\ queue \in Seq(Calls) /\ queue # <<>> /\ Head(queue) = k /\ queue' = Tail(queue)
      /\ Len(queue) \in Nat /\ Len(queue) <= QueueCap
  BY LenProperties DEF TypeOK, Take
<1>2. /\ Len(queue) > 0 /\ Len(queue') = Len(queue) - 1 /\ queue' \in Seq(Calls)
      /\ queue[1] = k
      /\ \A j \in 1 .. Len(queue') : queue'[j] = queue[j + 1]
  BY <1>1, HeadTailProperties, EmptySeq
<1>3. 1 \in 1 .. Len(queue) /\ \A j \in 1 .. Len(queue') : j + 1 \in 1 .. Len(queue)
  BY <1>1, <1>2
<1>4. Queued(k)
  BY <1>2, <1>3 DEF Queued
<1>5. ~Queued(k)'
  <2> SUFFICES ASSUME NEW j \in 1 .. Len(queue'), queue'[j] = k PROVE FALSE
    BY DEF Queued
  <2>1. queue[j + 1] = queue[1]
    BY <1>2
  <2>2. j + 1 = 1
    BY <1>3, <2>1 DEF QueuedOnce
  <2> QED BY <1>1, <1>2, <2>2
<1>6. QueuedOnce'
  <2> SUFFICES ASSUME NEW i \in 1 .. Len(queue'), NEW j \in 1 .. Len(queue'),
                      queue'[i] = queue'[j]
               PROVE  i = j
    BY DEF QueuedOnce
  <2>1. i + 1 = j + 1
    BY <1>2, <1>3 DEF QueuedOnce
  <2> QED BY <1>1, <1>2, <2>1
<1>7. ASSUME NEW m \in Calls, Queued(m)' PROVE Queued(m)
  BY <1>2, <1>3, <1>7 DEF Queued
<1>8. Len(queue') <= QueueCap
  BY <1>1, <1>2, NetworkAssumption
<1> QED BY <1>2, <1>4, <1>5, <1>6, <1>7, <1>8

LEMMA Entered ==
    ASSUME TypeOK, QueuedOnce, NEW k \in Calls, ~Queued(k),
           Len(queue) < QueueCap, queue' = Append(queue, k)
    PROVE  /\ QueuedOnce' /\ Queued(k)'
           /\ \A m \in Calls \ {k} : Queued(m)' => Queued(m)
           /\ queue' \in Seq(Calls) /\ Len(queue') <= QueueCap
<1>1. /\ queue \in Seq(Calls) /\ Len(queue) \in Nat
      /\ Len(queue') = Len(queue) + 1 /\ queue' \in Seq(Calls)
      /\ queue'[Len(queue) + 1] = k
      /\ \A j \in 1 .. Len(queue) : queue'[j] = queue[j]
  BY AppendProperties, LenProperties DEF TypeOK
<1>2. \A j \in 1 .. Len(queue') : j \in 1 .. Len(queue) \/ j = Len(queue) + 1
  BY <1>1
<1>3. QueuedOnce'
  <2> SUFFICES ASSUME NEW i \in 1 .. Len(queue'), NEW j \in 1 .. Len(queue'),
                      queue'[i] = queue'[j]
               PROVE  i = j
    BY DEF QueuedOnce
  <2>1. \A n \in 1 .. Len(queue) : queue[n] # k
    BY DEF Queued
  <2> QED BY <1>1, <1>2, <2>1 DEF QueuedOnce
<1>4. \A m \in Calls \ {k} : Queued(m)' => Queued(m)
  BY <1>1, <1>2 DEF Queued
<1>5. Queued(k)'
  BY <1>1 DEF Queued
<1>6. Len(queue') <= QueueCap
  BY <1>1, NetworkAssumption
<1> QED BY <1>1, <1>3, <1>4, <1>5, <1>6

\* Nothing has happened to call m.
Untouched(m) ==
    /\ call'[m] = call[m] /\ push'[m] = push[m]
    /\ Queued(m)' => Queued(m)
    /\ \A p \in Targets : /\ flight'[<<m, p>>] = flight[<<m, p>>]
                          /\ <<m, p>> \in pending' <=> <<m, p>> \in pending
                          /\ <<m, p>> \in held' <=> <<m, p>> \in held

LEMMA UntouchedOK ==
    ASSUME TypeOK, NEW m \in Calls, CallOK(m), Untouched(m)
    PROVE  CallOK(m)'
<1>1. Peers \subseteq Targets /\ None \in Targets /\ push[m].targets \subseteq Peers
      /\ push[m].stored \subseteq Peers
  BY DEF Targets, TypeOK
<1>2. Fresh(m) => Fresh(m)'
  BY DEF Fresh, Untouched
<1>3. TablesOK(m)'
  BY <1>1 DEF TablesOK, CallOK, Untouched
<1>4. ASSUME call[m].kind = "push" PROVE PushOK(m)'
  BY <1>1, <1>4 DEF PushOK, CallOK, Untouched
<1>5. call[m].to \in Targets
  BY DEF TypeOK, CallType, Unused, Targets
<1>6. ASSUME call[m].kind = "push" PROVE ResultOK(m)'
  BY <1>1, <1>5, <1>6 DEF ResultOK, CallOK, Untouched
<1> QED BY <1>2, <1>3, <1>4, <1>6 DEF CallOK, Untouched

-----------------------------------------------------------------------------
(* Types.                                                                   *)

CallsTyped == call \in [Calls -> CallType \cup {Unused}]

LEMMA StartedCall ==
    ASSUME TypeOK, NEW k \in Calls, call[k].stage # "unused"
    PROVE  call[k] \in CallType
BY DEF TypeOK, Unused

\* A call goes on to another stage.
LEMMA CallMoves ==
    ASSUME TypeOK, NEW k \in Calls, call[k] \in CallType,
           NEW stage \in {"wait", "done"}, NEW result \in {"none", "ok", "failed"},
           \/ call' = [call EXCEPT ![k].stage = stage] /\ result = call[k].result
           \/ call' = [call EXCEPT ![k].stage = stage, ![k].result = result]
    PROVE  /\ CallsTyped' /\ \A m \in Calls \ {k} : call'[m] = call[m]
           /\ call'[k].kind = call[k].kind /\ call'[k].to = call[k].to
           /\ call'[k].stage = stage /\ call'[k].result = result
<1> DEFINE r == [kind |-> call[k].kind, to |-> call[k].to, stage |-> stage, result |-> result]
<1>1. r \in CallType
  BY DEF CallType
<1>2. call \in [Calls -> CallType \cup {Unused}]
  BY DEF TypeOK
<1>3. call' = [call EXCEPT ![k] = r]
  BY <1>2 DEF CallType
<1> QED BY <1>1, <1>2, <1>3 DEF CallsTyped

\* Only a call that waits is answered.
LEMMA ReplyMoves ==
    ASSUME TypeOK, NEW k \in Calls, NEW result \in {"ok", "failed"}, Reply(k, result)
    PROVE  /\ CallsTyped' /\ \A m \in Calls \ {k} : call'[m] = call[m]
           /\ call'[k].kind = call[k].kind /\ call'[k].to = call[k].to
           /\ \/ call'[k] = call[k]
              \/ /\ call[k].stage = "wait" /\ call'[k].stage = "done"
                 /\ call'[k].result = result
<1>1. CASE call[k].stage = "wait"
  BY <1>1, StartedCall, CallMoves DEF Reply
<1>2. CASE call[k].stage # "wait"
  BY <1>2 DEF Reply, TypeOK, CallsTyped
<1> QED BY <1>1, <1>2

LEMMA EnqueueMoves ==
    ASSUME TypeOK, NEW k \in Calls, Enqueue(k)
    PROVE  /\ CallsTyped' /\ \A m \in Calls \ {k} : call'[m] = call[m]
           /\ call'[k].kind = call[k].kind /\ call'[k].to = call[k].to
           /\ call'[k].stage \in {"wait", "done"} /\ call'[k].result = call[k].result
           /\ call[k].kind \in Kinds
<1>1. call[k] \in CallType
  BY StartedCall DEF Enqueue
<1>2. call[k].result \in {"none", "ok", "failed"} /\ call[k].kind \in Kinds
  BY <1>1 DEF CallType
<1> QED BY <1>1, <1>2, CallMoves DEF Enqueue

LEMMA GiveUpMoves ==
    ASSUME TypeOK, NEW k \in Calls, GiveUp(k)
    PROVE  /\ CallsTyped' /\ \A m \in Calls \ {k} : call'[m] = call[m]
           /\ call'[k].kind = call[k].kind /\ call'[k].to = call[k].to
           /\ call'[k].stage = "done"
<1>1. call[k] \in CallType
  BY StartedCall DEF GiveUp
<1> QED BY <1>1, CallMoves DEF GiveUp

PushesTyped ==
    push \in [Calls -> [targets : SUBSET Peers, stored : SUBSET Peers,
                         refused : SUBSET Peers]]

\* A verdict is added to those of the replication.
LEMMA ResolveMoves ==
    ASSUME TypeOK, NEW i \in Ids, i[1] \in Calls, i[2] \in Peers,
           NEW result \in {"ok", "failed"}, Resolve(i, result), call[i[1]].kind = "push"
    PROVE  /\ PushesTyped' /\ call' = call
           /\ \A m \in Calls \ {i[1]} : push'[m] = push[m]
           /\ push'[i[1]].targets = push[i[1]].targets
           /\ push'[i[1]].stored = IF result = "ok" THEN push[i[1]].stored \cup {i[2]}
                                   ELSE push[i[1]].stored
           /\ push'[i[1]].refused = IF result = "ok" THEN push[i[1]].refused
                                    ELSE push[i[1]].refused \cup {i[2]}
<1>1. PushesTyped
  BY DEF TypeOK, PushesTyped
<1>2. PICK k \in Calls, p \in Peers : k = i[1] /\ p = i[2]
  OBVIOUS
<1>3. call' = call /\ push' = IF result = "ok" THEN [push EXCEPT ![k].stored = @ \cup {p}]
                             ELSE [push EXCEPT ![k].refused = @ \cup {p}]
  BY <1>2 DEF Resolve
<1>4. CASE result = "ok"
  <2>1. push' = [push EXCEPT ![k] = [push[k] EXCEPT !.stored = push[k].stored \cup {p}]]
    BY <1>1, <1>3, <1>4 DEF PushesTyped
  <2> QED BY <1>1, <1>2, <1>3, <1>4, <2>1 DEF PushesTyped
<1>5. CASE result = "failed"
  <2>1. push' = [push EXCEPT ![k] = [push[k] EXCEPT !.refused = push[k].refused \cup {p}]]
    BY <1>1, <1>3, <1>5 DEF PushesTyped
  <2> QED BY <1>1, <1>2, <1>3, <1>5, <2>1 DEF PushesTyped
<1> QED BY <1>4, <1>5

Flights == {"none", "sent", "ok", "failed"}

LEMMA TypePreserved == NetInv /\ [Next]_netVars => TypeOK'
<1> SUFFICES ASSUME NetInv, [Next]_netVars PROVE TypeOK'
  OBVIOUS
<1>0. /\ TypeOK /\ QueuedOnce /\ CallsTyped
      /\ queue \in Seq(Calls) /\ Len(queue) <= QueueCap
      /\ pending \subseteq Ids /\ held \subseteq Ids /\ flight \in [Ids -> Flights]
      /\ push \in [Calls -> [targets : SUBSET Peers, stored : SUBSET Peers, refused : SUBSET Peers]]
      /\ peers \subseteq Peers /\ conns \in [Peers -> 0..MaxConns] /\ changes \in 0..Changes
  BY DEF NetInv, TypeOK, CallsTyped, Flights
<1> DEFINE Push == [targets : SUBSET Peers, stored : SUBSET Peers, refused : SUBSET Peers]
<1>a. ASSUME CallsTyped', queue' \in Seq(Calls), Len(queue') <= QueueCap,
             pending' \subseteq Ids, held' \subseteq Ids, flight' \in [Ids -> Flights],
             push' \in [Calls -> Push],
             UNCHANGED <<peers, conns, changes>>
      PROVE  TypeOK'
  BY <1>0, <1>a DEF TypeOK, CallsTyped, Flights
<1>1. ASSUME NEW k \in Calls, NEW kind \in Kinds, NEW to \in Targets, Call(k, kind, to)
      PROVE  TypeOK'
  <2>1. [kind |-> kind, to |-> to, stage |-> "send", result |-> "none"] \in CallType
    BY DEF CallType
  <2>2. CallsTyped'
    BY <1>0, <1>1, <2>1 DEF Call, CallsTyped
  <2> QED BY <1>0, <1>1, <1>a, <2>2 DEF Call
<1>2. ASSUME NEW k \in Calls, Enqueue(k) PROVE TypeOK'
  <2>1. ~Queued(k)
    BY <1>2 DEF NetInv, CallOK, Enqueue
  <2>2. queue' \in Seq(Calls) /\ Len(queue') <= QueueCap
    BY <1>0, <1>2, <2>1, Entered DEF Enqueue
  <2>3. CallsTyped'
    BY <1>0, <1>2, EnqueueMoves
  <2> QED BY <1>0, <1>2, <1>a, <2>2, <2>3 DEF Enqueue
<1>3. ASSUME NEW k \in Calls, GiveUp(k) PROVE TypeOK'
  BY <1>0, <1>3, <1>a, GiveUpMoves DEF GiveUp
<1>4. ASSUME NEW ids \in SUBSET Ids, Start(ids)
      PROVE  pending' \subseteq Ids /\ flight' \in [Ids -> Flights]
  BY <1>0, <1>4 DEF Start, Flights
<1>5. ASSUME NEW k \in Calls, HandleCommand(k) PROVE TypeOK'
  <2>1. queue' \in Seq(Calls) /\ Len(queue') <= QueueCap
    BY <1>0, <1>5, Taken DEF HandleCommand, HandleSend, HandleRefused, HandleAsk, HandlePush
  <2>2. CASE HandleSend(k)
    <3>1. call[k].to \in Targets
      BY <1>0 DEF CallsTyped, CallType, Unused, Targets
    <3>2. {<<k, call[k].to>>} \in SUBSET Ids
      BY <3>1 DEF Ids
    <3>3. pending' \subseteq Ids /\ flight' \in [Ids -> Flights]
      BY <2>2, <3>2, <1>4 DEF HandleSend
    <3>4. UNCHANGED <<call, push, held, peers, conns, changes>>
      BY <2>2 DEF HandleSend
    <3> QED BY <1>0, <1>a, <2>1, <3>3, <3>4 DEF CallsTyped
  <2>3. CASE HandleRefused(k) \/ HandleAsk(k)
    <3>1. CallsTyped'
      BY <1>0, <2>3, ReplyMoves DEF HandleRefused, HandleAsk
    <3> QED BY <1>0, <1>a, <2>1, <2>3, <3>1 DEF HandleRefused, HandleAsk
  <2>4. CASE HandlePush(k)
    <3> DEFINE targets == PushTargets(k)
    <3>1. targets \subseteq Peers
      BY <1>0 DEF PushTargets
    <3>2. CASE targets = {}
      <4>1. CallsTyped'
        BY <1>0, <2>4, <3>2, ReplyMoves DEF HandlePush
      <4> QED BY <1>0, <1>a, <2>1, <2>4, <3>2, <4>1 DEF HandlePush
    <3>3. CASE targets # {}
      <4>1. ({k} \X targets) \in SUBSET Ids
        BY <3>1 DEF Ids, Targets
      <4>2. pending' \subseteq Ids /\ flight' \in [Ids -> Flights]
        BY <2>4, <3>3, <4>1, <1>4 DEF HandlePush
      <4>3. push' = [push EXCEPT ![k].targets = targets]
        BY <2>4, <3>3 DEF HandlePush
      <4>4. push' \in [Calls -> Push]
        BY <1>0, <3>1, <4>3
      <4>5. UNCHANGED <<call, held, peers, conns, changes>>
        BY <2>4, <3>3 DEF HandlePush
      <4> QED BY <1>0, <1>a, <2>1, <4>2, <4>4, <4>5 DEF CallsTyped
    <3> QED BY <3>2, <3>3
  <2> QED BY <1>5, <2>2, <2>3, <2>4 DEF HandleCommand
<1>6. ASSUME NEW k \in Calls, Conclude(k) PROVE TypeOK'
  BY <1>0, <1>6, <1>a, ReplyMoves DEF Conclude, Verdict
<1>7. ASSUME NEW k \in Calls, QueryStep(k) PROVE TypeOK'
  <2>1. CallsTyped'
    BY <1>0, <1>7, ReplyMoves
       DEF QueryStep, QueryProgresses, QueryEnds, QueryFails, CallsTyped
  <2>2. pending' \subseteq Ids /\ flight' \in [Ids -> Flights]
    BY <1>0, <1>7 DEF QueryStep, QueryProgresses, QueryEnds, QueryFails, Flights
  <2> QED BY <1>0, <1>7, <1>a, <2>1, <2>2
          DEF QueryStep, QueryProgresses, QueryEnds, QueryFails
<1>8. ASSUME NEW i \in Ids, RequestStep(i) PROVE TypeOK'
  <2>0. PICK result \in {"ok", "failed"} : RequestEnds(i, result)
    BY <1>8 DEF RequestStep
  <2>1. i[1] \in Calls /\ i[2] \in Peers
    BY <2>0 DEF Ids, Targets, RequestEnds
  <2>2. CallsTyped'
    BY <1>0, <2>0, <2>1, ReplyMoves DEF RequestEnds, Resolve, CallsTyped
  <2>3. push' \in [Calls -> Push]
    <3>1. CASE call[i[1]].kind = "push"
      BY <1>0, <2>0, <2>1, <3>1, ResolveMoves DEF RequestEnds, PushesTyped
    <3>2. CASE call[i[1]].kind # "push"
      BY <1>0, <2>0, <3>2 DEF RequestEnds, Resolve
    <3> QED BY <3>1, <3>2
  <2>4. pending' \subseteq Ids /\ flight' \in [Ids -> Flights]
    BY <1>0, <2>0 DEF RequestEnds, Flights
  <2> QED BY <1>0, <1>a, <2>0, <2>2, <2>3, <2>4 DEF RequestEnds
<1>9. ASSUME NEW i \in Ids, NEW a \in {"ok", "failed"}, PeerHandles(i, a) PROVE TypeOK'
  <2>1. held' \subseteq Ids /\ flight' \in [Ids -> Flights]
    BY <1>0, <1>9 DEF PeerHandles, Flights
  <2> QED BY <1>0, <1>9, <1>a, <2>1 DEF PeerHandles, CallsTyped
<1>10. ASSUME NEW p \in Peers, Connected(p) \/ Identified(p) \/ Disconnected(p)
       PROVE  TypeOK'
  <2>1. UNCHANGED <<call, queue, pending, flight, push, held>> /\ peers' \subseteq Peers
    BY <1>0, <1>10 DEF Connected, Identified, Disconnected
  <2>2. conns' \in [Peers -> 0..MaxConns] /\ changes' \in 0..Changes
    BY <1>0, <1>10, NetworkAssumption DEF Connected, Identified, Disconnected
  <2> QED BY <1>0, <2>1, <2>2 DEF TypeOK
<1>11. CASE UNCHANGED netVars
  BY <1>0, <1>11 DEF netVars, TypeOK
<1> QED BY <1>1, <1>2, <1>3, <1>5, <1>6, <1>7, <1>8, <1>9, <1>10, <1>11 DEF Next

-----------------------------------------------------------------------------
(* What a step does to the call it is about.                                *)

LEMMA TargetsSplit == Peers \subseteq Targets /\ None \in Targets /\ None \notin Peers
BY NetworkAssumption DEF Targets

\* A call the loop has done nothing for holds nothing.
LEMMA FreshHoldsNothing ==
    ASSUME NEW k \in Calls, Fresh(k)'
    PROVE  /\ TablesOK(k)' /\ PushOK(k)'
           /\ call'[k].result = "none" => ResultOK(k)'
BY TargetsSplit DEF Fresh, TablesOK, PushOK, ResultOK, NoPush

\* A call the loop has begun with is not in the channel any more.
LEMMA BegunOK ==
    ASSUME NEW k \in Calls, CallOK(k), ~Fresh(k), Queued(k)' => Queued(k),
           call'[k].kind = call[k].kind, call'[k].to = call[k].to,
           call'[k].stage \in {call[k].stage, "done"}, TablesOK(k)',
           call[k].kind = "push" => PushOK(k)' /\ ResultOK(k)'
    PROVE  CallOK(k)'
BY DEF CallOK

LEMMA CallKeeps ==
    ASSUME NetInv, NEW k \in Calls, NEW kind \in Kinds, NEW to \in Targets,
           Call(k, kind, to)
    PROVE  CallOK(k)' /\ \A m \in Calls \ {k} : Untouched(m)
<1>1. TypeOK /\ CallOK(k)
  BY DEF NetInv
<1>2. call'[k] = [kind |-> kind, to |-> to, stage |-> "send", result |-> "none"]
      /\ \A m \in Calls \ {k} : call'[m] = call[m]
  BY <1>1 DEF Call, TypeOK
<1>3. UNCHANGED <<queue, pending, flight, push, held>>
  BY DEF Call
<1>4. ~Queued(k) /\ Fresh(k)
  BY <1>1 DEF Call, Unused, CallOK
<1>5. ~Queued(k)' /\ Fresh(k)'
  BY <1>3, <1>4 DEF Queued, Fresh
<1>6. CallOK(k)'
  BY <1>2, <1>5, FreshHoldsNothing DEF Call, CallOK
<1> QED BY <1>2, <1>3, <1>6 DEF Untouched, Queued

LEMMA EnqueueKeeps ==
    ASSUME NetInv, NEW k \in Calls, Enqueue(k)
    PROVE  QueuedOnce' /\ CallOK(k)' /\ \A m \in Calls \ {k} : Untouched(m)
<1>1. TypeOK /\ QueuedOnce /\ CallOK(k)
  BY DEF NetInv
<1>2. ~Queued(k) /\ Fresh(k) /\ call[k].result = "none"
  BY <1>1 DEF Enqueue, CallOK
<1>3. QueuedOnce' /\ \A m \in Calls \ {k} : Queued(m)' => Queued(m)
  BY <1>1, <1>2, Entered DEF Enqueue
<1>4. UNCHANGED <<pending, flight, push, held>>
  BY DEF Enqueue
<1>5. Fresh(k)'
  BY <1>2, <1>4 DEF Fresh
<1>6. CallOK(k)'
  BY <1>1, <1>2, <1>5, EnqueueMoves, FreshHoldsNothing DEF CallOK
<1>7. \A m \in Calls \ {k} : call'[m] = call[m]
  BY <1>1, EnqueueMoves
<1> QED BY <1>3, <1>4, <1>6, <1>7 DEF Untouched

LEMMA GiveUpKeeps ==
    ASSUME NetInv, NEW k \in Calls, GiveUp(k)
    PROVE  CallOK(k)' /\ \A m \in Calls \ {k} : Untouched(m)
<1>1. TypeOK /\ CallOK(k)
  BY DEF NetInv
<1>2. UNCHANGED <<queue, pending, flight, push, held>> /\ call[k].kind # "push"
  BY DEF GiveUp
<1>3. /\ (Queued(k)' => Queued(k)) /\ (Fresh(k) => Fresh(k)')
      /\ \A m \in Calls : Queued(m)' => Queued(m)
  BY <1>2 DEF Queued, Fresh
<1>4. TablesOK(k)'
  BY <1>1, <1>2, GiveUpMoves DEF TablesOK, CallOK
<1>5. CallOK(k)'
  BY <1>1, <1>2, <1>3, <1>4, GiveUpMoves DEF CallOK
<1>6. \A m \in Calls \ {k} : call'[m] = call[m]
  BY <1>1, GiveUpMoves
<1> QED BY <1>2, <1>3, <1>5, <1>6 DEF Untouched

\* The loop takes a command: nothing has been done for it.
LEMMA TakeFinds ==
    ASSUME NetInv, NEW k \in Calls, Take(k)
    PROVE  /\ QueuedOnce' /\ ~Queued(k)' /\ Fresh(k)
           /\ \A m \in Calls : Queued(m)' => Queued(m)
           /\ call[k].kind \in Kinds /\ call[k].stage \notin {"unused", "send"}
           /\ call[k].kind = "push" => call[k].result = "none"
           /\ call[k].kind = "get" => call[k].to # None
BY Taken DEF NetInv, CallOK

LEMMA HandleSendKeeps ==
    ASSUME NetInv, NEW k \in Calls, HandleSend(k)
    PROVE  QueuedOnce' /\ CallOK(k)' /\ \A m \in Calls \ {k} : Untouched(m)
<1>1. TypeOK /\ call[k].to \in Targets /\ Take(k)
      /\ UNCHANGED <<call, push, held>>
  BY DEF NetInv, TypeOK, CallType, Unused, Targets, HandleSend
<1> DEFINE i == <<k, call[k].to>>
<1>2. /\ i \in Ids /\ pending' = pending \cup {i}
      /\ flight' = [j \in Ids |-> IF j \in {i} THEN "sent" ELSE flight[j]]
  BY <1>1 DEF HandleSend, Start, Ids
<1>3. \A p \in Targets :
          /\ flight'[<<k, p>>] = IF p = call[k].to THEN "sent" ELSE flight[<<k, p>>]
          /\ <<k, p>> \in pending' <=> (p = call[k].to \/ <<k, p>> \in pending)
  BY <1>1, <1>2 DEF Ids
<1>4. \A m \in Calls \ {k}, p \in Targets :
          flight'[<<m, p>>] = flight[<<m, p>>] /\ (<<m, p>> \in pending' <=> <<m, p>> \in pending)
  BY <1>1, <1>2 DEF Ids
<1>5. TablesOK(k)'
  <2>1. Fresh(k) /\ call'[k] = call[k]
    BY <1>1, TakeFinds
  <2>2. call[k].to = None => call[k].kind \in Queries
    BY <1>1, TakeFinds DEF HandleSend, Queries
  <2> QED BY <1>1, <1>3, <2>1, <2>2, TargetsSplit DEF TablesOK, Fresh
<1>6. CallOK(k)'
  BY <1>1, <1>5, TakeFinds DEF HandleSend, CallOK
<1> QED BY <1>1, <1>4, <1>6, TakeFinds DEF Untouched

LEMMA HandleAskKeeps ==
    ASSUME NetInv, NEW k \in Calls, HandleAsk(k) \/ HandleRefused(k)
    PROVE  QueuedOnce' /\ CallOK(k)' /\ \A m \in Calls \ {k} : Untouched(m)
<1>1. TypeOK /\ Take(k) /\ UNCHANGED <<pending, flight, push, held>>
      /\ call[k].kind \notin {"push", "get"}
      /\ \E result \in {"ok", "failed"} : Reply(k, result)
  BY DEF NetInv, HandleAsk, HandleRefused
<1>2. Fresh(k)'
  BY <1>1, TakeFinds DEF Fresh
<1>3. /\ call'[k].kind = call[k].kind /\ call'[k].stage \notin {"unused", "send"}
      /\ \A m \in Calls \ {k} : call'[m] = call[m]
  BY <1>1, ReplyMoves, TakeFinds
<1>4. CallOK(k)'
  BY <1>1, <1>2, <1>3, FreshHoldsNothing, TakeFinds DEF CallOK
<1> QED BY <1>1, <1>3, <1>4, TakeFinds DEF Untouched

LEMMA HandlePushKeeps ==
    ASSUME NetInv, NEW k \in Calls, HandlePush(k)
    PROVE  QueuedOnce' /\ CallOK(k)' /\ \A m \in Calls \ {k} : Untouched(m)
<1> DEFINE targets == PushTargets(k)
<1>1. /\ TypeOK /\ Take(k) /\ call[k].kind = "push" /\ held' = held
      /\ targets \subseteq Peers /\ (call[k].to # None => targets \subseteq {call[k].to})
  BY DEF NetInv, TypeOK, HandlePush, PushTargets
<1>2. CASE targets = {}
  <2>1. UNCHANGED <<pending, flight, push>>
        /\ Reply(k, IF call[k].to = None THEN "ok" ELSE "failed")
    BY <1>2 DEF HandlePush
  <2>2. /\ call'[k].kind = call[k].kind /\ call'[k].to = call[k].to
        /\ call'[k].stage \notin {"unused", "send"}
        /\ call'[k].result \in {"none", IF call[k].to = None THEN "ok" ELSE "failed"}
        /\ \A m \in Calls \ {k} : call'[m] = call[m]
    BY <1>1, <2>1, ReplyMoves, TakeFinds
  <2>3. Fresh(k)'
    BY <1>1, <2>1, TakeFinds DEF Fresh
  <2>4. ResultOK(k)'
    BY <2>2, <2>3 DEF ResultOK, Fresh, NoPush
  <2>5. CallOK(k)'
    BY <1>1, <2>2, <2>3, <2>4, FreshHoldsNothing, TakeFinds DEF CallOK
  <2> QED BY <1>1, <2>1, <2>2, <2>5, TakeFinds DEF Untouched
<1>3. CASE targets # {}
  <2>1. /\ call' = call /\ push' = [push EXCEPT ![k].targets = targets]
        /\ pending' = pending \cup ({k} \X targets)
        /\ flight' = [j \in Ids |-> IF j \in {k} \X targets THEN "sent" ELSE flight[j]]
    BY <1>3 DEF HandlePush, Start
  <2>2. \A m \in Calls, p \in Targets :
            /\ flight'[<<m, p>>] = IF m = k /\ p \in targets THEN "sent" ELSE flight[<<m, p>>]
            /\ <<m, p>> \in pending' <=> ((m = k /\ p \in targets) \/ <<m, p>> \in pending)
    BY <2>1 DEF Ids
  <2>3. Fresh(k) /\ call[k].result = "none"
    BY <1>1, TakeFinds
  <2>4. /\ push'[k].targets = targets /\ push'[k].stored = {} /\ push'[k].refused = {}
        /\ \A m \in Calls \ {k} : push'[m] = push[m]
    BY <1>1, <2>1, <2>3 DEF TypeOK, Fresh, NoPush
  <2>5. TablesOK(k)'
    BY <1>1, <2>1, <2>2, <2>3, TargetsSplit DEF TablesOK, Fresh
  <2>6. PushOK(k)'
    BY <1>1, <2>1, <2>2, <2>3, <2>4, TargetsSplit DEF PushOK, Fresh
  <2>7. ResultOK(k)'
    BY <2>1, <2>3 DEF ResultOK
  <2>8. CallOK(k)'
    BY <1>1, <2>1, <2>5, <2>6, <2>7, TakeFinds DEF CallOK
  <2> QED BY <1>1, <2>1, <2>2, <2>4, <2>8, TakeFinds DEF Untouched
<1> QED BY <1>2, <1>3

\* The verdict of a replication is what its targets' verdicts come to.
LEMMA ConcludeKeeps ==
    ASSUME NetInv, NEW k \in Calls, Conclude(k)
    PROVE  CallOK(k)' /\ \A m \in Calls \ {k} : Untouched(m)
<1>1. /\ TypeOK /\ CallOK(k) /\ Verdict(k) \in {"ok", "failed"} /\ Reply(k, Verdict(k))
      /\ push[k].targets # {} /\ push[k].targets = push[k].stored \cup push[k].refused
      /\ UNCHANGED <<queue, pending, flight, push, held>>
  BY DEF NetInv, Conclude, Verdict
<1>2. /\ call'[k].kind = call[k].kind /\ call'[k].to = call[k].to
      /\ call'[k].stage \in {call[k].stage, "done"}
      /\ (call'[k] = call[k] \/ call'[k].result = Verdict(k))
      /\ \A m \in Calls \ {k} : call'[m] = call[m]
  BY <1>1, ReplyMoves
<1>3. ~Fresh(k)
  BY <1>1 DEF Fresh, NoPush
<1>4. TablesOK(k)' /\ (PushOK(k) => PushOK(k)')
  BY <1>1, <1>2 DEF CallOK, TablesOK, PushOK
<1>5. ASSUME call[k].kind = "push" PROVE ResultOK(k)'
  <2>1. PushOK(k) /\ ResultOK(k)
    BY <1>1, <1>5 DEF CallOK
  <2>2. CASE call'[k] = call[k]
    BY <1>1, <2>1, <2>2 DEF ResultOK
  <2>3. CASE call'[k].result = Verdict(k)
    <3>1. CASE Verdict(k) = "failed"
      <4>1. push[k].stored = {}
        BY <3>1 DEF Verdict
      <4> QED BY <1>1, <2>3, <3>1, <4>1 DEF ResultOK
    <3>2. CASE Verdict(k) = "ok"
      <4>1. PICK p \in push[k].stored : TRUE
        BY <1>1, <3>2 DEF Verdict
      <4>2. p \in push[k].targets /\ <<k, p>> \in held /\ (call[k].to # None => p = call[k].to)
        BY <2>1 DEF PushOK
      <4> QED BY <1>1, <1>2, <2>3, <3>2, <4>2 DEF ResultOK
    <3> QED BY <1>1, <3>1, <3>2
  <2> QED BY <1>2, <2>2, <2>3
<1>6. \A m \in Calls : Queued(m)' => Queued(m)
  BY <1>1 DEF Queued
<1>7. CallOK(k)'
  BY <1>1, <1>2, <1>3, <1>4, <1>5, <1>6, BegunOK DEF CallOK
<1> QED BY <1>1, <1>2, <1>6, <1>7 DEF Untouched

\* A report on a query is about a call that waits for one.
LEMMA QueryKeeps ==
    ASSUME NetInv, NEW k \in Calls, QueryStep(k)
    PROVE  CallOK(k)' /\ \A m \in Calls \ {k} : Untouched(m)
<1> DEFINE i == <<k, None>>
<1>1. /\ TypeOK /\ CallOK(k) /\ i \in Ids /\ flight[i] # "none" /\ pending \subseteq Ids
      /\ UNCHANGED <<queue, push, held>>
  BY TargetsSplit DEF NetInv, TypeOK, Ids, QueryStep, QueryProgresses, QueryEnds, QueryFails
<1>2. call[k].kind \in Queries /\ call[k].kind # "push" /\ ~Fresh(k)
  BY <1>1, TargetsSplit DEF CallOK, TablesOK, Queries, Fresh
<1>3. /\ flight' \in {flight, [flight EXCEPT ![i] = "none"]}
      /\ pending' \in {pending, pending \ {i}}
      /\ (flight' # flight /\ i \in pending') => call[k].kind = "providers"
  BY <1>2 DEF QueryStep, QueryProgresses, QueryEnds, QueryFails, FailureMatched, Queries
<1>4. call' = call \/ \E result \in {"ok", "failed"} : Reply(k, result)
  BY DEF QueryStep, QueryProgresses, QueryEnds, QueryFails
<1>5. /\ call'[k].kind = call[k].kind /\ call'[k].to = call[k].to
      /\ call'[k].stage \in {call[k].stage, "done"}
      /\ \A m \in Calls \ {k} : call'[m] = call[m]
  BY <1>1, <1>4, ReplyMoves
<1>6. \A m \in Calls, p \in Targets : <<m, p>> # i =>
          /\ flight'[<<m, p>>] = flight[<<m, p>>]
          /\ <<m, p>> \in pending' <=> <<m, p>> \in pending
  BY <1>1, <1>3 DEF TypeOK, Ids
<1>7. TablesOK(k)'
  <2>1. ASSUME NEW p \in Targets, <<k, p>> \in pending'
        PROVE  flight'[<<k, p>>] # "none" \/ call'[k].kind = "providers"
    <3>1. CASE p = None
      BY <1>1, <1>3, <1>5, <2>1, <3>1
    <3>2. CASE p # None
      BY <1>1, <1>5, <1>6, <2>1, <3>2 DEF CallOK, TablesOK
    <3> QED BY <3>1, <3>2
  <2> QED BY <1>2, <1>5, <2>1 DEF TablesOK
<1>8. \A m \in Calls : Queued(m)' => Queued(m)
  BY <1>1 DEF Queued
<1>9. CallOK(k)'
  BY <1>1, <1>2, <1>5, <1>7, <1>8, BegunOK
<1> QED BY <1>1, <1>5, <1>6, <1>8, <1>9 DEF Untouched

\* A peer's answer, and what it stored.
LEMMA PeerKeeps ==
    ASSUME NetInv, NEW i \in Ids, NEW a \in {"ok", "failed"}, PeerHandles(i, a)
    PROVE  \E k \in Calls : CallOK(k)' /\ \A m \in Calls \ {k} : Untouched(m)
<1>1. PICK k \in Calls, q \in Peers : i = <<k, q>>
  BY DEF Ids, Targets, PeerHandles
<1>2. /\ TypeOK /\ CallOK(k) /\ flight[i] = "sent" /\ q \in Targets
      /\ UNCHANGED <<call, queue, pending, push>>
      /\ flight' = [flight EXCEPT ![i] = a]
      /\ held' = IF a = "ok" /\ call[k].kind = "push" THEN held \cup {i} ELSE held
  BY <1>1, TargetsSplit DEF NetInv, PeerHandles
<1>3. \A m \in Calls, p \in Targets : <<m, p>> # i =>
          /\ flight'[<<m, p>>] = flight[<<m, p>>]
          /\ <<m, p>> \in held' <=> <<m, p>> \in held
  BY <1>2 DEF TypeOK, Ids
<1>4. flight'[i] = a
  BY <1>2 DEF TypeOK
<1>5. ~Fresh(k)
  BY <1>1, <1>2 DEF Fresh
<1>6. TablesOK(k)'
  <2>1. <<k, None>> # i
    BY <1>1, TargetsSplit
  <2> QED BY <1>1, <1>2, <1>3, <1>4, <2>1, TargetsSplit DEF CallOK, TablesOK
<1>7. ASSUME call[k].kind = "push" PROVE PushOK(k)' /\ ResultOK(k)'
  <2>1. PushOK(k) /\ ResultOK(k) /\ held \subseteq held'
    BY <1>2, <1>7 DEF CallOK
  <2>2. \A p \in Peers : flight'[<<k, p>>] = "ok" => <<k, p>> \in held'
    BY <1>1, <1>2, <1>3, <1>4, <1>7, <2>1, TargetsSplit DEF PushOK
  <2>3. PushOK(k)'
    BY <1>2, <2>1, <2>2 DEF PushOK
  <2> QED BY <1>2, <2>1, <2>3 DEF ResultOK
<1>8. \A m \in Calls : Queued(m)' => Queued(m)
  BY <1>2 DEF Queued
<1>9. CallOK(k)'
  BY <1>2, <1>5, <1>6, <1>7, <1>8, BegunOK
<1>10. \A m \in Calls \ {k} : Untouched(m)
  BY <1>1, <1>2, <1>3, <1>8 DEF Untouched
<1> QED BY <1>9, <1>10

\* A request that ends was in the table, and its target's verdict is the first.
LEMMA RequestKeeps ==
    ASSUME NetInv, NEW i \in Ids, RequestStep(i)
    PROVE  \E k \in Calls : CallOK(k)' /\ \A m \in Calls \ {k} : Untouched(m)
<1>1. PICK result \in {"ok", "failed"} : RequestEnds(i, result)
  BY DEF RequestStep
<1>2. PICK k \in Calls, q \in Peers : i = <<k, q>>
  BY <1>1 DEF Ids, Targets, RequestEnds
<1>3. /\ TypeOK /\ CallOK(k) /\ i \in pending /\ q \in Targets
      /\ (result = "ok" => flight[i] = "ok")
      /\ UNCHANGED <<queue, held>> /\ Resolve(i, result)
      /\ flight' = [flight EXCEPT ![i] = "none"] /\ pending' = pending \ {i}
      /\ i[1] = k /\ i[2] = q
  BY <1>1, <1>2, TargetsSplit DEF NetInv, RequestEnds
<1>4. \A m \in Calls, p \in Targets : <<m, p>> # i =>
          /\ flight'[<<m, p>>] = flight[<<m, p>>]
          /\ <<m, p>> \in pending' <=> <<m, p>> \in pending
  BY <1>3 DEF TypeOK, Ids
<1>5. flight'[i] = "none" /\ i \notin pending'
  BY <1>3 DEF TypeOK
<1>6. ~Fresh(k)
  BY <1>2, <1>3 DEF Fresh
<1>7. \A m \in Calls : Queued(m)' => Queued(m)
  BY <1>3 DEF Queued
<1>8. CASE call[k].kind = "push"
  <2>1. /\ call' = call /\ \A m \in Calls \ {k} : push'[m] = push[m]
        /\ push'[k].targets = push[k].targets
        /\ push'[k].stored = IF result = "ok" THEN push[k].stored \cup {q} ELSE push[k].stored
        /\ push'[k].refused = IF result = "ok" THEN push[k].refused ELSE push[k].refused \cup {q}
    BY <1>3, <1>8, ResolveMoves
  <2>2. PushOK(k) /\ ResultOK(k)
    BY <1>3, <1>8 DEF CallOK
  <2>3. q \in push[k].targets \ (push[k].stored \cup push[k].refused)
    BY <1>2, <1>3, <2>2 DEF PushOK
  <2>4. result = "ok" => <<k, q>> \in held
    BY <1>2, <1>3, <2>2 DEF PushOK
  <2>5. ASSUME NEW p \in Peers, <<k, p>> \in pending'
        PROVE  p \in push'[k].targets \ (push'[k].stored \cup push'[k].refused)
    <3>1. p # q /\ <<k, p>> \in pending
      BY <1>2, <1>3, <1>5, <2>5
    <3> QED BY <2>1, <2>2, <3>1 DEF PushOK
  <2>6. \A p \in Peers : flight'[<<k, p>>] = "ok" => <<k, p>> \in held
    BY <1>2, <1>4, <1>5, <2>2, TargetsSplit DEF PushOK
  <2>7. PushOK(k)'
    BY <1>3, <2>1, <2>2, <2>3, <2>4, <2>5, <2>6 DEF PushOK
  <2>8. ResultOK(k)'
    BY <1>3, <2>1, <2>2, <2>3 DEF ResultOK
  <2>9. TablesOK(k)'
    BY <1>2, <1>3, <1>4, <1>5, <2>1, TargetsSplit DEF CallOK, TablesOK
  <2>10. CallOK(k)'
    BY <1>3, <1>6, <1>7, <2>1, <2>7, <2>8, <2>9, BegunOK
  <2>11. \A m \in Calls \ {k} : Untouched(m)
    BY <1>2, <1>3, <1>4, <1>7, <2>1 DEF Untouched
  <2> QED BY <2>10, <2>11
<1>9. CASE call[k].kind # "push"
  <2>1. Reply(k, result) /\ push' = push
    BY <1>3, <1>9 DEF Resolve
  <2>2. /\ call'[k].kind = call[k].kind /\ call'[k].to = call[k].to
        /\ call'[k].stage \in {call[k].stage, "done"}
        /\ \A m \in Calls \ {k} : call'[m] = call[m]
    BY <1>3, <2>1, ReplyMoves
  <2>3. TablesOK(k)'
    BY <1>2, <1>3, <1>4, <1>5, <2>2, TargetsSplit DEF CallOK, TablesOK
  <2>4. CallOK(k)'
    BY <1>3, <1>6, <1>7, <1>9, <2>2, <2>3, BegunOK
  <2>5. \A m \in Calls \ {k} : Untouched(m)
    BY <1>2, <1>3, <1>4, <1>7, <2>1, <2>2 DEF Untouched
  <2> QED BY <2>4, <2>5
<1> QED BY <1>8, <1>9

-----------------------------------------------------------------------------
(* The invariant.                                                           *)

LEMMA NetInvInit == Init => NetInv
<1> SUFFICES ASSUME Init PROVE NetInv
  OBVIOUS
<1>1. queue \in Seq(Calls) /\ Len(queue) = 0
  BY EmptySeq DEF Init
<1>2. TypeOK
  BY <1>1, NetworkAssumption DEF Init, TypeOK, NoPush
<1>3. QueuedOnce /\ \A k \in Calls : ~Queued(k)
  BY <1>1 DEF QueuedOnce, Queued
<1>4. ASSUME NEW k \in Calls PROVE CallOK(k)
  <2>1. Fresh(k) /\ call[k] = Unused
    BY DEF Init, Fresh, Ids
  <2>2. TablesOK(k)
    BY <2>1, TargetsSplit DEF Fresh, TablesOK
  <2> QED BY <1>3, <2>1, <2>2 DEF CallOK, Unused
<1> QED BY <1>2, <1>3, <1>4 DEF NetInv

LEMMA OneCall ==
    ASSUME NetInv, TypeOK', QueuedOnce', NEW k \in Calls, CallOK(k)',
           \A m \in Calls \ {k} : Untouched(m)
    PROVE  NetInv'
BY UntouchedOK DEF NetInv

LEMMA NetInvPreserved == NetInv /\ [Next]_netVars => NetInv'
<1> SUFFICES ASSUME NetInv, [Next]_netVars PROVE NetInv'
  OBVIOUS
<1>1. TypeOK'
  BY TypePreserved
<1>2. UNCHANGED queue => QueuedOnce'
  BY DEF NetInv, QueuedOnce
<1>3. ASSUME NEW k \in Calls, NEW kind \in Kinds, NEW to \in Targets, Call(k, kind, to)
      PROVE  NetInv'
  BY <1>1, <1>2, <1>3, CallKeeps, OneCall DEF Call
<1>4. ASSUME NEW k \in Calls, Enqueue(k) \/ HandleCommand(k) PROVE NetInv'
  BY <1>1, <1>4, EnqueueKeeps, HandleSendKeeps, HandleAskKeeps, HandlePushKeeps, OneCall
     DEF HandleCommand
<1>5. ASSUME NEW k \in Calls, GiveUp(k) PROVE NetInv'
  BY <1>1, <1>2, <1>5, GiveUpKeeps, OneCall DEF GiveUp
<1>6. ASSUME NEW k \in Calls, Conclude(k) PROVE NetInv'
  BY <1>1, <1>2, <1>6, ConcludeKeeps, OneCall DEF Conclude
<1>7. ASSUME NEW k \in Calls, QueryStep(k) PROVE NetInv'
  BY <1>1, <1>2, <1>7, QueryKeeps, OneCall
     DEF QueryStep, QueryProgresses, QueryEnds, QueryFails
<1>8. ASSUME NEW i \in Ids, RequestStep(i) PROVE NetInv'
  BY <1>1, <1>2, <1>8, RequestKeeps, OneCall DEF RequestStep, RequestEnds
<1>9. ASSUME NEW i \in Ids, NEW a \in {"ok", "failed"}, PeerHandles(i, a) PROVE NetInv'
  BY <1>1, <1>2, <1>9, PeerKeeps, OneCall DEF PeerHandles
<1>10. ASSUME \/ \E p \in Peers : Connected(p) \/ Identified(p) \/ Disconnected(p)
              \/ UNCHANGED netVars
       PROVE  NetInv'
  <2>1. UNCHANGED <<call, queue, pending, flight, push, held>>
    BY <1>10 DEF Connected, Identified, Disconnected, netVars
  <2>2. \A m \in Calls : Untouched(m)
    BY <2>1 DEF Untouched, Queued
  <2>3. \A m \in Calls : CallOK(m)'
    BY <2>2, UntouchedOK DEF NetInv
  <2> QED BY <1>1, <1>2, <2>1, <2>3 DEF NetInv
<1> QED BY <1>3, <1>4, <1>5, <1>6, <1>7, <1>8, <1>9, <1>10 DEF Next

\* No reply stays behind in a table, and the answer of a push is what the peers
\* did.
THEOREM NetInvariant == NetworkSpec => []NetInv
BY NetInvInit, NetInvPreserved, PTL DEF NetworkSpec

\* Calls, the channel, the tables and the verdicts are well typed.
THEOREM TypeCorrect == NetworkSpec => []TypeOK
<1>1. NetInv => TypeOK
  BY DEF NetInv
<1> QED BY <1>1, NetInvariant, PTL

\* The tables hold no reply of a request or record query that is over.
THEOREM TablesDrain == NetworkSpec => []NothingLeaks
<1>1. NetInv => NothingLeaks
  <2> SUFFICES ASSUME NetInv, NEW i \in pending
               PROVE  flight[i] # "none" \/ call[i[1]].kind = "providers"
    BY DEF NothingLeaks
  <2>1. PICK k \in Calls, p \in Targets : i = <<k, p>>
    BY DEF NetInv, TypeOK, Ids
  <2> QED BY <2>1 DEF NetInv, CallOK, TablesOK
<1> QED BY <1>1, NetInvariant, PTL

\* A push succeeds only if a target stored the bundle.
THEOREM SuccessIsStored == NetworkSpec => []OkMeansStored
<1>1. NetInv => OkMeansStored
  BY DEF NetInv, CallOK, ResultOK, OkMeansStored
<1> QED BY <1>1, NetInvariant, PTL

\* A push with targets fails only if every target failed.
THEOREM FailureIsUnanimous == NetworkSpec => []FailedMeansEveryTargetFailed
<1>1. NetInv => FailedMeansEveryTargetFailed
  BY DEF NetInv, CallOK, ResultOK, FailedMeansEveryTargetFailed
<1> QED BY <1>1, NetInvariant, PTL
=============================================================================
