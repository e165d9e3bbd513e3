--------------------------- MODULE AppPublishing ---------------------------
(***************************************************************************)
(* Publishing an app through an edge: the serve sessions of the publisher   *)
(* devices (serve.rs), composed with the edge's registry.  A session is a   *)
(* handler task that answers forwarded requests from the app's pinned files *)
(* and a heartbeat task that registers again and again; both live until the *)
(* last handle of the session is dropped.  A device's daemon runs start and *)
(* stop commands from several connections.  Requests to the edge are lost,  *)
(* late or answered after their sender gave up.                             *)
(***************************************************************************)
EXTENDS EdgeRegistry

CONSTANTS
    Sessions,   \* session identities, each used once
    Calls,      \* daemon connections running start and stop commands
    Interval,   \* REGISTER_INTERVAL
    RpcTimeout, \* request_response's timeout
    StopWait,   \* how long terminate awaits the session's two tasks
    Tolerated,  \* heartbeats in a row that may be missed
    Losses,     \* bound: requests and replies lost, refused by a failed fetch, or late
    Crashes     \* bound: process crashes

ASSUME PublishingAssumption ==
    /\ None \notin Sessions \cup Calls
    /\ Sessions \cap Calls = {}
    /\ Interval \in Nat \ {0} /\ RpcTimeout \in Nat \ {0} /\ StopWait \in Nat \ {0}
    /\ Tolerated \in Nat /\ Losses \in Nat /\ Crashes \in Nat

VARIABLES
    sess,       \* the sessions
    slot,       \* per device: the session Runtime.serve holds
    call,       \* commands in flight
    rpc,        \* requests on their way to the edge, and the replies back
    budget      \* bound counters: losses and crashes left

vars == <<edgeVars, sess, slot, call, rpc, budget>>

NoSession == [node |-> None, app |-> None, held |-> FALSE, running |-> FALSE,
              handler |-> FALSE, beat |-> "none", wait |-> 0, missed |-> 0]

NoCall == [stage |-> "idle", then |-> "idle", node |-> None, app |-> None,
           session |-> None, wait |-> 0]

Senders == Sessions \cup Calls

\* `src` is None once the sender has given up on the request.
Request(src, n, a, dereg) ==
    [src |-> src, node |-> n, app |-> a, dereg |-> dereg, age |-> 0, reply |-> "none"]

MaxAge == IF Skew > RpcTimeout THEN Skew ELSE RpcTimeout

Requests ==
    [src: Senders \cup {None}, node: Nodes, app: Apps, dereg: BOOLEAN,
     age: 0..(MaxAge + 1), reply: {"none", "ok", "refused"}]

Init ==
    /\ EdgeInit
    /\ sess = [s \in Sessions |-> NoSession]
    /\ slot = [n \in Nodes |-> None]
    /\ call = [c \in Calls |-> NoCall]
    /\ rpc = {}
    /\ budget = [losses |-> Losses, crashes |-> Crashes]

Post(m) == rpc' = rpc \cup {m}

-----------------------------------------------------------------------------
(* start_serve_session and stop_serve_session.                              *)

\* Session identities are not spent beyond what the starts in flight need.
Unused == {s \in Sessions : sess[s].node = None}
Starting == {c \in Calls : call[c].app # None}

BeginStart(c, n, a) ==
    /\ call[c] = NoCall
    /\ Cardinality(Starting) < Cardinality(Unused)
    /\ call' = [call EXCEPT ![c] =
                  [NoCall EXCEPT !.stage = IF slot[n] # None THEN "take" ELSE "load",
                                 !.then = "load", !.node = n, !.app = a]]
    /\ UNCHANGED <<edgeVars, sess, slot, rpc, budget>>

BeginStop(c, n) ==
    /\ call[c] = NoCall /\ slot[n] # None
    /\ call' = [call EXCEPT ![c] = [NoCall EXCEPT !.stage = "take", !.node = n]]
    /\ UNCHANGED <<edgeVars, sess, slot, rpc, budget>>

\* stop_serve_session, or the stop of the previous session in a start, is over.
Stopped(c) ==
    call' = [call EXCEPT ![c] =
               IF call[c].then = "idle" THEN NoCall
               ELSE [call[c] EXCEPT !.stage = call[c].then, !.session = None, !.wait = 0]]

\* Mutant: the slot keeps the session it gave out.
TakeCopy(c) ==
    LET n == call[c].node  s == slot[n] IN
    /\ call[c].stage = "take"
    /\ IF s = None THEN Stopped(c) /\ UNCHANGED <<slot, rpc>>
       ELSE /\ call' = [call EXCEPT ![c].stage = "dereg", ![c].session = s]
            /\ Post(Request(c, n, sess[s].app, TRUE))
            /\ UNCHANGED slot
    /\ UNCHANGED <<edgeVars, sess, budget>>

\* Take the session out of its slot and send the signed deregistration.
Take(c) ==
    LET n == call[c].node  s == slot[n] IN
    /\ call[c].stage = "take"
    /\ IF s = None THEN Stopped(c) /\ UNCHANGED <<slot, rpc>>
       ELSE /\ slot' = [slot EXCEPT ![n] = None]
            /\ call' = [call EXCEPT ![c].stage = "dereg", ![c].session = s]
            /\ Post(Request(c, n, sess[s].app, TRUE))
    /\ UNCHANGED <<edgeVars, sess, budget>>

\* Whatever the answer, terminate awaits the tasks: the handler sees the
\* shutdown only when the last handle goes, so the wait always runs out.
Terminate(c) ==
    call' = [call EXCEPT ![c].stage = "terminate", ![c].wait = StopWait]

\* Mutant: the session stays referenced after the stop.
ReleaseNothing(c) ==
    /\ call[c].stage = "terminate" /\ call[c].wait = 0
    /\ Stopped(c)
    /\ UNCHANGED <<edgeVars, sess, slot, rpc, budget>>

\* terminate clears `running`; the last handle is dropped on return.
Release(c) ==
    LET s == call[c].session IN
    /\ call[c].stage = "terminate" /\ call[c].wait = 0
    /\ sess' = [sess EXCEPT ![s].running = FALSE, ![s].held = FALSE]
    /\ Stopped(c)
    /\ UNCHANGED <<edgeVars, slot, rpc, budget>>

\* The app's files are pinned and the edge is connected: register.
Register(c) ==
    /\ call[c].stage = "load"
    /\ call' = [call EXCEPT ![c].stage = "register"]
    /\ Post(Request(c, call[c].node, call[c].app, FALSE))
    /\ UNCHANGED <<edgeVars, sess, slot, budget>>

\* The app cannot be loaded or the edge cannot be reached.
StartFails(c) ==
    /\ call[c].stage = "load"
    /\ call' = [call EXCEPT ![c] = NoCall]
    /\ UNCHANGED <<edgeVars, sess, slot, rpc, budget>>

\* The edge accepted: both tasks start and the session takes the slot, whose
\* previous occupant (of a start that ran meanwhile) loses its last handle.
StartSession(c, s) ==
    LET n == call[c].node  old == slot[n]
        new == [node |-> n, app |-> call[c].app, held |-> TRUE, running |-> TRUE,
                handler |-> TRUE, beat |-> "sleep", wait |-> Interval, missed |-> 0]
    IN
    /\ sess[s].node = None
    /\ sess' = [x \in Sessions |->
                  IF x = s THEN new
                  ELSE IF x = old THEN [sess[x] EXCEPT !.held = FALSE] ELSE sess[x]]
    /\ slot' = [slot EXCEPT ![n] = s]
    /\ call' = [call EXCEPT ![c] = NoCall]

\* The answer to a command's request; "failed" is a timeout or a lost link.
CallAnswered(c, verdict) ==
    CASE call[c].stage = "dereg" -> Terminate(c) /\ UNCHANGED <<sess, slot>>
      [] call[c].stage = "register" /\ verdict = "ok" ->
            \E s \in Sessions : StartSession(c, s)
      [] OTHER -> call' = [call EXCEPT ![c] = NoCall] /\ UNCHANGED <<sess, slot>>

-----------------------------------------------------------------------------
(* The session's tasks.                                                     *)

\* The handler stops when the shutdown channel closes.
HandlerEnds(s) ==
    /\ sess[s].handler /\ ~sess[s].held
    /\ sess' = [sess EXCEPT ![s].handler = FALSE, ![s].running = FALSE]
    /\ UNCHANGED <<edgeVars, slot, call, rpc, budget>>

\* So does a sleeping heartbeat; one that wakes up to a stopped session ends too.
BeatEnds(s) ==
    /\ sess[s].beat = "sleep"
    /\ sess[s].held => sess[s].wait = 0 /\ ~sess[s].running
    /\ sess' = [sess EXCEPT ![s].beat = "none"]
    /\ UNCHANGED <<edgeVars, slot, call, rpc, budget>>

Beat(s) ==
    /\ sess[s].beat = "sleep" /\ sess[s].wait = 0 /\ sess[s].running
    /\ sess' = [sess EXCEPT ![s].beat = "send"]
    /\ Post(Request(s, sess[s].node, sess[s].app, FALSE))
    /\ UNCHANGED <<edgeVars, slot, call, budget>>

\* Mutant: a refused heartbeat ends the loop.
BeatAnsweredOnce(s, verdict) ==
    /\ sess' = [sess EXCEPT ![s].beat = IF verdict = "refused" THEN "none" ELSE "sleep",
                            ![s].wait = Interval, ![s].missed = 0]
    /\ UNCHANGED <<slot, call>>

\* Whatever the answer, the next beat comes an interval later.
BeatAnswered(s, verdict) ==
    /\ sess' = [sess EXCEPT ![s].beat = "sleep", ![s].wait = Interval,
                            ![s].missed = IF verdict = "ok" THEN 0
                                          ELSE IF @ > Tolerated THEN @ ELSE @ + 1]
    /\ UNCHANGED <<slot, call>>

-----------------------------------------------------------------------------
(* Requests and replies.                                                    *)

Answered(src, verdict) ==
    IF src \in Sessions THEN BeatAnswered(src, verdict) ELSE CallAnswered(src, verdict)

\* The edge handled the request: its reply is on the way.
Reply(m, verdict) ==
    rpc' = (rpc \ {m}) \cup (IF m.src = None THEN {} ELSE {[m EXCEPT !.reply = verdict]})

EdgeHandles(m) ==
    /\ m \in rpc /\ m.reply = "none"
    /\ \/ Deregister(m) /\ Reply(m, "ok")
       \/ Refresh(m) /\ Reply(m, "ok")
       \/ RefuseStale(m) /\ Reply(m, "refused")
       \/ Fetch(m) /\ rpc' = rpc \ {m}
    /\ UNCHANGED <<sess, slot, call, budget>>

\* The manifest was fetched from the publisher ...
EdgePins ==
    /\ Pin
    /\ Reply(fetching, "ok")
    /\ UNCHANGED <<sess, slot, call, budget>>

\* ... or the fetch failed.
EdgeRefuses ==
    /\ RefuseFetch
    /\ budget.losses > 0
    /\ Reply(fetching, "refused")
    /\ budget' = [budget EXCEPT !.losses = @ - 1]
    /\ UNCHANGED <<sess, slot, call>>

Deliver(m) ==
    /\ m \in rpc /\ m.reply # "none"
    /\ rpc' = rpc \ {m}
    /\ Answered(m.src, m.reply)
    /\ UNCHANGED <<edgeVars, budget>>

\* A request or its reply is lost.
Lose(m) ==
    /\ m \in rpc /\ budget.losses > 0
    /\ rpc' = rpc \ {m}
    /\ budget' = [budget EXCEPT !.losses = @ - 1]
    /\ UNCHANGED <<edgeVars, sess, slot, call>>

\* A sender waits no longer than the request timeout; its request may still
\* reach the edge.
Waiting(src) ==
    IF src \in Sessions THEN sess[src].beat = "send"
                        ELSE call[src].stage \in {"dereg", "register"}

Outstanding(src) ==
    {m \in rpc : m.src = src} \cup
    (IF fetching # None /\ fetching.src = src THEN {fetching} ELSE {})

GiveUp(src) ==
    /\ Waiting(src)
    /\ \A m \in Outstanding(src) : m.age >= RpcTimeout
    /\ rpc' = {[m EXCEPT !.src = IF @ = src THEN None ELSE @] :
                  m \in {x \in rpc : x.src # src \/ x.reply = "none"}}
    /\ fetching' = IF fetching # None /\ fetching.src = src
                   THEN [fetching EXCEPT !.src = None] ELSE fetching
    /\ IF Outstanding(src) = {} THEN UNCHANGED budget
       ELSE /\ budget.losses > 0
            /\ budget' = [budget EXCEPT !.losses = @ - 1]
    /\ Answered(src, "failed")
    /\ UNCHANGED <<edgeUp, entry>>

-----------------------------------------------------------------------------
(* Crashes and time.                                                        *)

EdgeDies ==
    /\ budget.crashes > 0 /\ EdgeCrash
    /\ rpc' = {m \in rpc : m.reply # "none"}
    /\ budget' = [budget EXCEPT !.crashes = @ - 1]
    /\ UNCHANGED <<sess, slot, call>>

EdgeReturns == EdgeRestart /\ UNCHANGED <<sess, slot, call, rpc, budget>>

\* What a dead device sent may be on the edge's channel already.
Orphan(m, n) == IF m.node = n THEN [m EXCEPT !.src = None] ELSE m

\* The daemon dies with its sessions; no session is resumed when it returns.
NodeDies(n) ==
    /\ budget.crashes > 0
    /\ budget' = [budget EXCEPT !.crashes = @ - 1]
    /\ slot' = [slot EXCEPT ![n] = None]
    /\ call' = [c \in Calls |-> IF call[c].node = n THEN NoCall ELSE call[c]]
    /\ sess' = [s \in Sessions |->
                  IF sess[s].node = n
                  THEN [NoSession EXCEPT !.node = n, !.app = sess[s].app] ELSE sess[s]]
    /\ rpc' = {Orphan(m, n) : m \in {x \in rpc : x.node = n => x.reply = "none"}}
    /\ fetching' = IF fetching # None THEN Orphan(fetching, n) ELSE None
    /\ UNCHANGED <<edgeUp, entry>>

\* Timers are met: no time passes while one is due.
Due ==
    \/ \E s \in Sessions : sess[s].beat = "sleep" /\ (sess[s].wait = 0 \/ ~sess[s].held)
    \/ \E c \in Calls : call[c].stage = "terminate" /\ call[c].wait = 0
    \/ \E src \in Senders : Waiting(src) /\ \A m \in Outstanding(src) : m.age >= RpcTimeout

Tick ==
    /\ ~Due
    /\ AgeEntries
    /\ sess' = [s \in Sessions |->
                  [sess[s] EXCEPT !.wait = IF sess[s].beat = "sleep" THEN @ - 1 ELSE @]]
    /\ call' = [c \in Calls |->
                  [call[c] EXCEPT !.wait = IF call[c].stage = "terminate" THEN @ - 1 ELSE @]]
    /\ rpc' = {[m EXCEPT !.age = Older(@, MaxAge)] : m \in rpc}
    /\ fetching' = IF fetching # None THEN [fetching EXCEPT !.age = Older(@, MaxAge)]
                   ELSE None
    /\ UNCHANGED <<edgeUp, slot, budget>>

-----------------------------------------------------------------------------
CallStep(c) == Take(c) \/ Release(c) \/ Register(c) \/ StartFails(c)

TaskStep(s) == HandlerEnds(s) \/ BeatEnds(s) \/ Beat(s)

EdgeStep == EdgePins \/ EdgeReturns \/ \E m \in rpc : EdgeHandles(m)

Next ==
    \/ \E c \in Calls, n \in Nodes : BeginStop(c, n) \/ \E a \in Apps : BeginStart(c, n, a)
    \/ \E c \in Calls : CallStep(c)
    \/ \E s \in Sessions : TaskStep(s)
    \/ \E src \in Senders : GiveUp(src)
    \/ \E m \in rpc : Deliver(m) \/ Lose(m)
    \/ EdgeStep \/ EdgeRefuses
    \/ EdgeDies \/ \E n \in Nodes : NodeDies(n)
    \/ Tick

\* tokio runs the tasks and their timers; the edge works through its channel
\* and its service unit restarts it; time does not stop.
Fairness ==
    /\ \A c \in Calls : WF_vars(CallStep(c))
    /\ \A s \in Sessions : WF_vars(TaskStep(s))
    /\ \A src \in Senders : WF_vars(GiveUp(src))
    /\ WF_vars(\E m \in rpc : Deliver(m))
    /\ WF_vars(EdgeStep)
    /\ WF_vars(Tick)

Spec == Init /\ [][Next]_vars /\ Fairness

-----------------------------------------------------------------------------
(* Properties.                                                              *)

\* Type correctness of the sessions, the commands and what is on the wire.
TypeOK ==
    /\ edgeUp \in BOOLEAN /\ entry \in [Apps -> Entry]
    /\ fetching \in Requests \cup {None} /\ rpc \subseteq Requests
    /\ slot \in [Nodes -> Sessions \cup {None}]
    /\ sess \in [Sessions ->
         [node: Nodes \cup {None}, app: Apps \cup {None}, held: BOOLEAN, running: BOOLEAN,
          handler: BOOLEAN, beat: {"none", "sleep", "send"}, wait: 0..Interval,
          missed: 0..(Tolerated + 1)]]
    /\ call \in [Calls ->
         [stage: {"idle", "take", "dereg", "terminate", "load", "register"},
          then: {"idle", "load"}, node: Nodes \cup {None}, app: Apps \cup {None},
          session: Sessions \cup {None}, wait: 0..StopWait]]

InSlot(s) == sess[s].node # None /\ slot[sess[s].node] = s

Live(s) == InSlot(s) /\ sess[s].handler

Quiet(n) ==
    /\ \A c \in Calls : call[c].node # n
    /\ \A m \in rpc : m.node # n
    /\ fetching # None => fetching.node # n

\* An app is "live at that URL for as long as the command runs"
\* (docs/guides/publishing-apps.md:107): while a session runs and has missed no
\* more than the tolerated heartbeats in a row, the edge routes the app to it.
LiveSessionIsRoutable ==
    edgeUp => \A s \in Sessions : Live(s) /\ sess[s].missed <= Tolerated =>
                 Resolve(sess[s].app) = sess[s].node

\* Another device of the identity may have taken the app over since: the app of
\* a running session that misses no heartbeat still routes somewhere.
\* registry.rs:81 drops the mapping because "nothing routes to this publisher
\* anymore", whoever the mapping names.
AppStaysReachable ==
    edgeUp => \A s \in Sessions : Live(s) /\ sess[s].missed <= Tolerated =>
                 Resolve(sess[s].app) # None

\* Stopping "takes the app offline" (docs/guides/publishing-apps.md:108): once
\* the stop has returned and nothing is on the wire, nothing routes to the node.
StoppedIsOffline ==
    \A n \in Nodes, a \in Apps :
        Quiet(n) /\ Resolve(a) = n => \E s \in Sessions : Live(s) /\ sess[s].app = a

\* "The hash is the address" (docs/guides/publishing-apps.md:117): whatever
\* handler answers a request the edge routes for an app serves that app's files.
AnswersOwnApp ==
    \A s \in Sessions :
        sess[s].handler =>
            \A a \in Apps : Resolve(a) = sess[s].node => sess[s].app = a

\* A session whose device named it serves with both its tasks; one that was taken
\* out, replaced or lost ends with the last of them.
Phase(s) ==
    CASE sess[s].node = None -> "new"
      [] InSlot(s) /\ sess[s].handler /\ sess[s].beat # "none" -> "serving"
      [] /\ sess[s].node # None /\ ~InSlot(s)
         /\ sess[s].handler \/ sess[s].beat # "none" -> "leaving"
      [] OTHER -> "over"

Seen == [s \in Sessions |->
           [phase |-> Phase(s), node |-> sess[s].node, app |-> sess[s].app]]

Device == INSTANCE ServeSessions WITH session <- Seen, current <- slot

\* Starts and stops of several connections cross, heartbeats are answered late and
\* devices die: a session in its slot has both its tasks (serve.rs:145-198), leaves it
\* once, to a stop (serve.rs:204-226) or to another start, and does not serve again,
\* whatever is still on its way to it.  The steps implement ServeSessions.
SessionsServeOnce == Device!SessionSpec

\* The registry is in memory, heartbeats repair it: a running session is routed
\* to again after an edge restart, a refusal or a lost request.
PublishedComesBack ==
    \A s \in Sessions : Live(s) ~> (~Live(s) \/ Resolve(sess[s].app) = sess[s].node)

\* registry.rs:21: a publisher that crashed or lost its session without a word
\* is not routed to forever.
SilentIsDropped ==
    \A n \in Nodes, a \in Apps :
        (\A s \in Sessions : sess[s].node = n => ~sess[s].handler)
            ~> (Resolve(a) # n \/ \E s \in Sessions : sess[s].node = n /\ sess[s].handler)

\* A session that left its slot, stopped or replaced, loses both tasks.
TasksEnd ==
    \A s \in Sessions :
        (sess[s].handler /\ ~InSlot(s)) ~> (~sess[s].handler /\ sess[s].beat = "none")
=============================================================================
