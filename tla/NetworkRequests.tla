-------------------------- MODULE NetworkRequests --------------------------
(***************************************************************************)
(* The network event loop and its callers: commands reach the loop through  *)
(* a bounded channel, each with a one-shot reply; the loop keeps the reply  *)
(* in a table until the swarm reports how the request or the DHT query went. *)
(* A push to several peers is collected by a task of its own.  The loop also *)
(* keeps the table of peers that pushes go to.                              *)
(*                                                                          *)
(* libp2p is external: a request ends with one response or one failure, a   *)
(* query reports progress and ends, within their timeouts; the swarm's      *)
(* state moves only when the loop polls it.                                 *)
(***************************************************************************)
EXTENDS Naturals, Sequences, FiniteSets

CONSTANTS
    Calls,      \* calls of NetworkManager's methods, each made once
    Peers,
    None,       \* "no peer"
    QueueCap,   \* capacity of the command channel
    MaxConns,   \* bound: connections open to one peer
    Changes     \* bound: connections opened and closed

ASSUME NetworkAssumption ==
    /\ None \notin Peers
    /\ QueueCap \in Nat \ {0} /\ MaxConns \in Nat \ {0} /\ Changes \in Nat

VARIABLES
    call,       \* the calls and their answers
    queue,      \* commands the loop has not taken yet
    pending,    \* the loop's pending_* tables: requests and queries it must answer
    flight,     \* requests and queries libp2p has not finished, with their state
    push,       \* the verdicts a replication's task has collected
    peers,      \* the loop's peer table
    conns,      \* connections open per peer
    held,       \* history: which peer stored the bundle of which call
    changes     \* bound counter

netVars == <<call, queue, pending, flight, push, peers, conns, held, changes>>

\* get: get_object, send_pairing, send_serve_registration, send_serve_request.
\* push: replicate_object.  ask: what the loop answers at once.  tell: what has
\* no reply.  put: put_record.  lookup: get_record.  providers: find_providers.
Kinds == {"get", "push", "ask", "tell", "put", "lookup", "providers"}

Targets == Peers \cup {None}

\* A request is known by its call and its peer, a query by its call.
Ids == Calls \X Targets

Unused == [kind |-> "none", to |-> None, stage |-> "unused", result |-> "none"]

NoPush == [targets |-> {}, stored |-> {}, refused |-> {}]

Init ==
    /\ call = [k \in Calls |-> Unused]
    /\ queue = <<>> /\ pending = {} /\ flight = [i \in Ids |-> "none"]
    /\ push = [k \in Calls |-> NoPush]
    /\ peers = {} /\ conns = [p \in Peers |-> 0]
    /\ held = {} /\ changes = 0

-----------------------------------------------------------------------------
(* The callers.                                                             *)

Call(k, kind, to) ==
    /\ call[k] = Unused
    /\ kind = "get" => to # None
    /\ kind \notin {"get", "push"} => to = None
    /\ call' = [call EXCEPT ![k] = [kind |-> kind, to |-> to, stage |-> "send", result |-> "none"]]
    /\ UNCHANGED <<queue, pending, flight, push, peers, conns, held, changes>>

\* commands.send waits for room; without a reply to await the call is over.
Enqueue(k) ==
    /\ call[k].stage = "send" /\ Len(queue) < QueueCap
    /\ queue' = Append(queue, k)
    /\ call' = [call EXCEPT ![k].stage = IF call[k].kind = "tell" THEN "done" ELSE "wait"]
    /\ UNCHANGED <<pending, flight, push, peers, conns, held, changes>>

\* Lookups, and requests an edge forwards, are given some seconds; the caller
\* then goes on without the answer.
GiveUp(k) ==
    /\ call[k].kind \in {"get", "lookup"} /\ call[k].stage \in {"send", "wait"}
    /\ call' = [call EXCEPT ![k].stage = "done", ![k].result = "failed"]
    /\ UNCHANGED <<queue, pending, flight, push, peers, conns, held, changes>>

\* A reply to a caller that gave up is dropped.
Reply(k, result) ==
    call' = IF call[k].stage = "wait"
            THEN [call EXCEPT ![k].stage = "done", ![k].result = result] ELSE call

-----------------------------------------------------------------------------
(* handle_command.                                                          *)

Take(k) == queue # <<>> /\ Head(queue) = k /\ queue' = Tail(queue)

\* Requests and queries the loop starts, and their entries in the tables.
Start(ids) ==
    /\ pending' = pending \cup ids
    /\ flight' = [i \in Ids |-> IF i \in ids THEN "sent" ELSE flight[i]]

HandleSend(k) ==
    /\ Take(k) /\ call[k].kind \in {"get", "put", "lookup", "providers"}
    /\ Start({<<k, call[k].to>>})
    /\ UNCHANGED <<call, push, peers, conns, held, changes>>

\* kad.put_record may refuse the record at once.
HandleRefused(k) ==
    /\ Take(k) /\ call[k].kind = "put"
    /\ Reply(k, "failed")
    /\ UNCHANGED <<pending, flight, push, peers, conns, held, changes>>

HandleAsk(k) ==
    /\ Take(k) /\ call[k].kind \in {"ask", "tell"}
    /\ Reply(k, "ok")
    /\ UNCHANGED <<pending, flight, push, peers, conns, held, changes>>

\* The named peer if it is in the table, or every peer in it.
PushTargets(k) ==
    IF call[k].to = None THEN peers ELSE {call[k].to} \cap peers

HandlePush(k) ==
    LET targets == PushTargets(k) IN
    /\ Take(k) /\ call[k].kind = "push"
    /\ IF targets = {}
       THEN /\ Reply(k, IF call[k].to = None THEN "ok" ELSE "failed")
            /\ UNCHANGED <<pending, flight, push>>
       ELSE /\ Start({k} \X targets)
            /\ push' = [push EXCEPT ![k].targets = targets]
            /\ UNCHANGED call
    /\ UNCHANGED <<peers, conns, held, changes>>

HandleCommand(k) == HandleSend(k) \/ HandleRefused(k) \/ HandleAsk(k) \/ HandlePush(k)

-----------------------------------------------------------------------------
(* Requests to peers.                                                       *)

\* The peer handles the request; a Store it accepts puts the object in its store.
PeerHandles(i, answer) ==
    /\ flight[i] = "sent" /\ i[2] # None
    /\ flight' = [flight EXCEPT ![i] = answer]
    /\ held' = IF answer = "ok" /\ call[i[1]].kind = "push" THEN held \cup {i} ELSE held
    /\ UNCHANGED <<call, queue, pending, push, peers, conns, changes>>

\* Mutant: the first peer to answer decides for all of them.
ResolveFirst(i, result) ==
    /\ push' = push
    /\ Reply(i[1], result)

\* What the loop answers through the table: the caller, or the replication's task.
Resolve(i, result) ==
    LET k == i[1] IN
    IF call[k].kind = "push"
    THEN /\ push' = IF result = "ok" THEN [push EXCEPT ![k].stored = @ \cup {i[2]}]
                    ELSE [push EXCEPT ![k].refused = @ \cup {i[2]}]
         /\ UNCHANGED call
    ELSE Reply(k, result) /\ UNCHANGED push

\* Mutant: the table is read without removing the entry.
RequestEndsKept(i, result) ==
    /\ i[2] # None /\ i \in pending
    /\ \/ flight[i] = result
       \/ flight[i] # "none" /\ result = "failed"
    /\ flight' = [flight EXCEPT ![i] = "none"]
    /\ Resolve(i, result)
    /\ UNCHANGED <<pending, queue, peers, conns, held, changes>>

\* request_response reports a response, or a failure: the peer is unreachable,
\* its response was lost, or it took too long.
RequestEnds(i, result) ==
    /\ i[2] # None /\ i \in pending
    /\ \/ flight[i] = result
       \/ flight[i] # "none" /\ result = "failed"
    /\ flight' = [flight EXCEPT ![i] = "none"]
    /\ pending' = pending \ {i}
    /\ Resolve(i, result)
    /\ UNCHANGED <<queue, peers, conns, held, changes>>

\* Mutant: a verdict is given whatever was collected.
VerdictAlwaysOk(k) == "ok"

\* One peer that stored the bundle is enough for a broadcast; a named peer is
\* the only target.
Verdict(k) == IF push[k].stored = {} /\ push[k].refused # {} THEN "failed" ELSE "ok"

\* The task of a replication answers once every target has.
Conclude(k) ==
    /\ push[k].targets # {} /\ call[k].stage = "wait"
    /\ push[k].targets = push[k].stored \cup push[k].refused
    /\ Reply(k, Verdict(k))
    /\ UNCHANGED <<queue, pending, flight, push, peers, conns, held, changes>>

-----------------------------------------------------------------------------
(* DHT queries: the first progress report is the answer.                    *)

QueryProgresses(k) ==
    LET i == <<k, None>> IN
    /\ flight[i] # "none" /\ i \in pending /\ call[k].kind \in {"lookup", "providers"}
    /\ pending' = pending \ {i}
    /\ Reply(k, "ok")
    /\ UNCHANGED <<queue, flight, push, peers, conns, held, changes>>

\* The last report of a query that did not fail answers it, if nothing has.
QueryEnds(k) ==
    LET i == <<k, None>> IN
    /\ flight[i] # "none"
    /\ flight' = [flight EXCEPT ![i] = "none"]
    /\ pending' = pending \ {i}
    /\ IF i \in pending THEN Reply(k, "ok") ELSE UNCHANGED call
    /\ UNCHANGED <<queue, push, peers, conns, held, changes>>

\* Mutant: a record query that failed is not looked at either.
FailureUnmatched(k) == FALSE

\* The loop matches the failure of a record query, not that of a provider query.
FailureMatched(k) == call[k].kind \in {"put", "lookup"}

\* Kademlia gave the query up.
QueryFails(k) ==
    LET i == <<k, None>> IN
    /\ flight[i] # "none"
    /\ flight' = [flight EXCEPT ![i] = "none"]
    /\ IF FailureMatched(k) /\ i \in pending
       THEN pending' = pending \ {i} /\ Reply(k, "failed")
       ELSE UNCHANGED <<pending, call>>
    /\ UNCHANGED <<queue, push, peers, conns, held, changes>>

-----------------------------------------------------------------------------
(* The peer table.                                                          *)

Connected(p) ==
    /\ conns[p] < MaxConns /\ changes < Changes
    /\ conns' = [conns EXCEPT ![p] = @ + 1]
    /\ peers' = peers \cup {p}
    /\ changes' = changes + 1
    /\ UNCHANGED <<call, queue, pending, flight, push, held>>

\* An identify message of a connected peer.
Identified(p) ==
    /\ conns[p] > 0
    /\ peers' = peers \cup {p}
    /\ UNCHANGED <<call, queue, pending, flight, push, conns, held, changes>>

\* Whichever connection closed, the peer leaves the table.
Disconnected(p) ==
    /\ conns[p] > 0 /\ changes < Changes
    /\ conns' = [conns EXCEPT ![p] = @ - 1]
    /\ peers' = peers \ {p}
    /\ changes' = changes + 1
    /\ UNCHANGED <<call, queue, pending, flight, push, held>>

-----------------------------------------------------------------------------
RequestStep(i) == \E r \in {"ok", "failed"} : RequestEnds(i, r)

QueryStep(k) == QueryProgresses(k) \/ QueryEnds(k) \/ QueryFails(k)

Next ==
    \/ \E k \in Calls, kind \in Kinds, to \in Targets : Call(k, kind, to)
    \/ \E k \in Calls : Enqueue(k) \/ GiveUp(k) \/ HandleCommand(k) \/ Conclude(k) \/ QueryStep(k)
    \/ \E i \in Ids : RequestStep(i) \/ \E a \in {"ok", "failed"} : PeerHandles(i, a)
    \/ \E p \in Peers : Connected(p) \/ Identified(p) \/ Disconnected(p)

\* tokio runs the callers, the loop and the tasks it spawned; libp2p ends every
\* request and every query by its timeout.
Fairness ==
    /\ \A k \in Calls : WF_netVars(Enqueue(k)) /\ WF_netVars(Conclude(k))
    /\ \A k \in Calls : WF_netVars(HandleCommand(k)) /\ WF_netVars(QueryStep(k))
    /\ \A i \in Ids : WF_netVars(RequestStep(i))

NetworkSpec == Init /\ [][Next]_netVars /\ Fairness

-----------------------------------------------------------------------------
(* Properties.                                                              *)

CallType ==
    [kind : Kinds, to : Targets, stage : {"unused", "send", "wait", "done"},
     result : {"none", "ok", "failed"}]

\* Types, with the queue within the channel's capacity and verdicts only from
\* the targets of a push (manager.rs:413, event_loop.rs:310-345).
TypeOK ==
    /\ call \in [Calls -> CallType \cup {Unused}]
    /\ queue \in Seq(Calls) /\ Len(queue) <= QueueCap
    /\ pending \subseteq Ids /\ held \subseteq Ids
    /\ flight \in [Ids -> {"none", "sent", "ok", "failed"}]
    /\ push \in [Calls -> [targets : SUBSET Peers, stored : SUBSET Peers, refused : SUBSET Peers]]
    /\ peers \subseteq Peers
    /\ conns \in [Peers -> 0..MaxConns]
    /\ changes \in 0..Changes

\* A table of the loop holds no reply for a request or a record query that
\* libp2p is done with: nothing would ever take it out (event_loop.rs:632-760).
NothingLeaks ==
    \A i \in pending : flight[i] # "none" \/ call[i[1]].kind = "providers"

\* replicate_object returns Ok for a named peer only if that peer stored the
\* bundle, and for a broadcast only if a target stored it or none was listed
\* (manager.rs:605-610).
OkMeansStored ==
    \A k \in Calls : call[k].kind = "push" /\ call[k].result = "ok" =>
        \/ <<k, call[k].to>> \in held
        \/ call[k].to = None /\ (push[k].targets = {} \/ \E p \in push[k].targets : <<k, p>> \in held)

\* A push that had targets fails only when every one of them has failed
\* (manager.rs:608-609), however many verdicts came before the last.
FailedMeansEveryTargetFailed ==
    \A k \in Calls : call[k].kind = "push" /\ call[k].result = "failed" =>
        push[k].refused = push[k].targets

\* What a method awaits comes: a reply for what the loop answers at once, the
\* verdicts of a push, the answer or the failure of a request or record query
\* (manager.rs:486-715), however full the channel is and whoever gave up.
EveryCallReturns ==
    \A k \in Calls :
        call[k].kind # "providers" /\ call[k].stage \in {"send", "wait"} ~> call[k].stage = "done"

\* False: "the caller's .await returns a RecvError rather than hanging forever"
\* (canopee-network/README.md:150).  A provider query that fails reports an
\* event nothing matches, and its reply stays in the table (event_loop.rs:632).
ProvidersReturn ==
    \A k \in Calls : call[k].stage = "wait" ~> call[k].stage = "done"

\* False: pushes go to "every currently connected peer" (event_loop.rs:284).
\* When one of two connections closes the peer leaves the table (line 528).
ConnectedAreListed == \A p \in Peers : conns[p] > 0 => p \in peers
=============================================================================
