------------------------ MODULE AppPublishing_proofs ------------------------
(***************************************************************************)
(* Theorems about publishing an app through an edge (AppPublishing), for    *)
(* any devices, apps, sessions, commands, timers, losses and crashes: the   *)
(* sessions, the commands and the requests on their way fit together, a     *)
(* running session keeps its route, and the sessions serve as ServeSessions *)
(* says.                                                                    *)
(***************************************************************************)
EXTENDS AppPublishing, TLAPS

-----------------------------------------------------------------------------
(* What fits together.                                                      *)

\* Every request and reply between the sessions, the commands and the edge.
Msgs == rpc \cup (IF fetching # None THEN {fetching} ELSE {})

\* A request somebody waits for is the one its sender has under way.
FromSender(m) ==
    \/ /\ m.src \in Sessions /\ sess[m.src].beat = "send" /\ ~m.dereg
       /\ m.node = sess[m.src].node /\ m.app = sess[m.src].app
    \/ /\ m.src \in Calls /\ call[m.src].stage = (IF m.dereg THEN "dereg" ELSE "register")
       /\ m.node = call[m.src].node /\ (~m.dereg => m.app = call[m.src].app)

\* A sender has one request under way, and only its reply still has a sender to
\* reach; the edge fetches for a registration it has not answered.
SentOK ==
    /\ \A m \in Msgs : m.src # None => FromSender(m)
    /\ \A m, q \in Msgs : m.src # None /\ m.src = q.src => m = q
    /\ \A m \in rpc : m.reply # "none" => m.src # None
    /\ fetching # None => /\ fetching.reply = "none" /\ ~fetching.dereg
                          /\ fetching.src # None => fetching \notin rpc

\* A command that goes on knows its device, its app and the session it stops.
CallsOK ==
    \A c \in Calls :
        /\ call[c].stage # "idle" => call[c].node \in Nodes
        /\ call[c].stage \in {"load", "register"} \/ call[c].then = "load" =>
               call[c].app \in Apps
        /\ call[c].stage \in {"dereg", "terminate"} => call[c].session \in Sessions

\* A session that has not started has no tasks.
Unborn(s) ==
    ~sess[s].held /\ ~sess[s].running /\ ~sess[s].handler /\ sess[s].beat = "none"

\* A slot holds a session of its own device, and a started session has an app.
SlotsOK ==
    /\ \A n \in Nodes : slot[n] # None => sess[slot[n]].node = n
    /\ \A s \in Sessions : IF sess[s].node = None THEN Unborn(s) ELSE sess[s].app \in Apps

\* The inductive invariant of the sessions, the commands and the wire.
PartsInv == TypeOK /\ SentOK /\ CallsOK /\ SlotsOK

\* The type invariant, taken apart.
SessionStates ==
    [node: Nodes \cup {None}, app: Apps \cup {None}, held: BOOLEAN, running: BOOLEAN,
     handler: BOOLEAN, beat: {"none", "sleep", "send"}, wait: 0..Interval,
     missed: 0..(Tolerated + 1)]

CallStates ==
    [stage: {"idle", "take", "dereg", "terminate", "load", "register"},
     then: {"idle", "load"}, node: Nodes \cup {None}, app: Apps \cup {None},
     session: Sessions \cup {None}, wait: 0..StopWait]

EdgeTyped == edgeUp \in BOOLEAN /\ entry \in [Apps -> Entry]
WireTyped == fetching \in Requests \cup {None} /\ rpc \subseteq Requests
SlotsTyped == slot \in [Nodes -> Sessions \cup {None}]
SessTyped == sess \in [Sessions -> SessionStates]
CallsTyped == call \in [Calls -> CallStates]

Typed == EdgeTyped /\ WireTyped /\ SlotsTyped /\ SessTyped /\ CallsTyped

LEMMA TypedIsTypeOK == TypeOK <=> Typed
BY DEF TypeOK, Typed, EdgeTyped, WireTyped, SlotsTyped, SessTyped, CallsTyped,
       SessionStates, CallStates

\* The invariant after a step, from its parts.
LEMMA PartsNext == ASSUME Typed', SentOK', CallsOK', SlotsOK' PROVE PartsInv'
BY DEF PartsInv, TypeOK, Typed, EdgeTyped, WireTyped, SlotsTyped, SessTyped, CallsTyped,
       SessionStates, CallStates

\* What a registration carries.
LEMMA RequestMade ==
    ASSUME NEW src \in Senders, NEW n \in Nodes, NEW a \in Apps,
           NEW m, m = Request(src, n, a, FALSE)
    PROVE  /\ m \in Requests /\ m.src = src /\ m.node = n /\ m.app = a /\ ~m.dereg
           /\ m.age = 0 /\ m.reply = "none"
BY PublishingAssumption, EdgeAssumption DEF Request, Requests, MaxAge

\* What a deregistration carries.
LEMMA RemovalMade ==
    ASSUME NEW src \in Senders, NEW n \in Nodes, NEW a \in Apps,
           NEW m, m = Request(src, n, a, TRUE)
    PROVE  /\ m \in Requests /\ m.src = src /\ m.node = n /\ m.app = a /\ m.dereg
           /\ m.age = 0 /\ m.reply = "none"
BY PublishingAssumption, EdgeAssumption DEF Request, Requests, MaxAge

\* The sender x is where it was.
SameSender(x) ==
    /\ x \in Sessions => /\ sess'[x].beat = sess[x].beat /\ sess'[x].node = sess[x].node
                         /\ sess'[x].app = sess[x].app
    /\ x \in Calls => /\ call'[x].stage = call[x].stage /\ call'[x].node = call[x].node
                      /\ call'[x].app = call[x].app

\* A request stays that of a sender that does not move.
LEMMA SenderStays ==
    ASSUME NEW m, FromSender(m), SameSender(m.src)
    PROVE  FromSender(m)'
BY DEF FromSender, SameSender

\* A sender with nothing on its way posts a request.
LEMMA Posted ==
    ASSUME SentOK, NEW src \in Senders, NEW m \in Requests, m.src = src, m.reply = "none",
           UNCHANGED fetching, rpc' = rpc \cup {m},
           \A q \in Msgs : q.src # src,
           FromSender(m)',
           \A x \in Senders \ {src} : SameSender(x)
    PROVE  SentOK'
<1>1. Msgs' = Msgs \cup {m}
  BY DEF Msgs
<1>2. \A q \in Msgs : q.src # None => q.src \in Senders \ {src}
  BY DEF SentOK, FromSender, Senders
<1>3. \A q \in Msgs' : q.src # None => FromSender(q)'
  BY <1>1, <1>2, SenderStays DEF SentOK
<1>4. \A q, r \in Msgs' : q.src # None /\ q.src = r.src => q = r
  BY <1>1 DEF SentOK
<1>5. src # None
  BY PublishingAssumption DEF Senders
<1>6. fetching # None => fetching \in Msgs
  BY DEF Msgs
<1>7. fetching # None /\ fetching.src # None => fetching # m
  BY <1>6
<1> QED BY <1>3, <1>4, <1>5, <1>7 DEF SentOK

\* Requests only leave, and who waits for the rest still does.
LEMMA NoMore ==
    ASSUME SentOK, rpc' \subseteq rpc, fetching' \in {fetching, None},
           \A m \in Msgs' : m.src # None => SameSender(m.src)
    PROVE  SentOK'
<1>1. Msgs' \subseteq Msgs
  BY DEF Msgs
<1>2. \A q \in Msgs' : q.src # None => FromSender(q)'
  BY <1>1, SenderStays DEF SentOK
<1> QED BY <1>1, <1>2 DEF SentOK

-----------------------------------------------------------------------------
(* The commands.                                                            *)

\* One command changes and the others do not.
LEMMA CallSet ==
    ASSUME CallsTyped, NEW c \in Calls, NEW r \in CallStates, call' = [call EXCEPT ![c] = r]
    PROVE  CallsTyped' /\ call'[c] = r /\ \A d \in Calls \ {c} : call'[d] = call[d]
BY DEF CallsTyped

\* The ends of the waits.
LEMMA Starts ==
    /\ 0 \in 0..StopWait /\ StopWait \in 0..StopWait
    /\ 0 \in 0..Interval /\ Interval \in 0..Interval
BY PublishingAssumption

\* An idle command is well typed.
LEMMA NoCallTyped == NoCall \in CallStates
BY PublishingAssumption DEF NoCall, CallStates

\* Commands that differ from before only at c.
LEMMA CallStaysOK ==
    ASSUME CallsOK, NEW c \in Calls, \A d \in Calls \ {c} : call'[d] = call[d],
           call'[c].stage # "idle" => call'[c].node \in Nodes,
           call'[c].stage \in {"load", "register"} \/ call'[c].then = "load" =>
               call'[c].app \in Apps,
           call'[c].stage \in {"dereg", "terminate"} => call'[c].session \in Sessions
    PROVE  CallsOK'
<1> SUFFICES ASSUME NEW d \in Calls
             PROVE  /\ call'[d].stage # "idle" => call'[d].node \in Nodes
                    /\ call'[d].stage \in {"load", "register"} \/ call'[d].then = "load" =>
                           call'[d].app \in Apps
                    /\ call'[d].stage \in {"dereg", "terminate"} =>
                           call'[d].session \in Sessions
  BY DEF CallsOK
<1> QED BY DEF CallsOK

\* A command with nothing on its way changes, and posts nothing.
LEMMA CallMoves ==
    ASSUME SentOK, NEW c \in Calls, UNCHANGED <<rpc, fetching, sess>>,
           \A d \in Calls \ {c} : call'[d] = call[d],
           \A m \in Msgs : m.src # c
    PROVE  SentOK'
<1>1. \A x \in Senders \ {c} : SameSender(x)
  BY DEF SameSender, Senders
<1>2. Msgs' = Msgs
  BY DEF Msgs
<1>3. \A m \in Msgs : m.src # None => m.src \in Senders \ {c}
  BY DEF SentOK, FromSender, Senders
<1> QED BY <1>1, <1>2, <1>3, NoMore

\* Commands and sessions are told apart.
LEMMA NotASession == ASSUME NEW c \in Calls PROVE c \notin Sessions /\ c \in Senders /\ c # None
BY PublishingAssumption DEF Senders

LEMMA NotACall == ASSUME NEW s \in Sessions PROVE s \notin Calls /\ s \in Senders /\ s # None
BY PublishingAssumption DEF Senders

\* An idle command has no request under way.
LEMMA IdleSendsNothing ==
    ASSUME SentOK, NEW c \in Calls, call[c].stage \notin {"dereg", "register"}
    PROVE  \A m \in Msgs : m.src # c
BY NotASession DEF SentOK, FromSender

\* The steps of start_serve_session and stop_serve_session keep the parts together.
LEMMA BeginStartKeeps ==
    ASSUME PartsInv, NEW c \in Calls, NEW n \in Nodes, NEW a \in Apps, BeginStart(c, n, a)
    PROVE  PartsInv'
<1> DEFINE st == IF slot[n] # None THEN "take" ELSE "load"
           r == [NoCall EXCEPT !.stage = st, !.then = "load", !.node = n, !.app = a]
<1>0. Typed /\ SentOK /\ CallsOK /\ SlotsOK
  BY TypedIsTypeOK DEF PartsInv
<1>1. st \in {"take", "load"}
  OBVIOUS
<1>2. call' = [call EXCEPT ![c] = r] /\ UNCHANGED <<edgeVars, sess, slot, rpc>>
  BY DEF BeginStart
<1>3. call[c].stage = "idle"
  BY DEF BeginStart, NoCall
<1> HIDE DEF st
<1>4. r \in CallStates
  BY <1>1, NoCallTyped DEF CallStates
<1>5. r.stage = st /\ r.node = n /\ r.app = a
  BY DEF NoCall
<1> HIDE DEF r
<1>6. CallsTyped' /\ call'[c] = r /\ \A d \in Calls \ {c} : call'[d] = call[d]
  BY <1>0, <1>2, <1>4, CallSet DEF Typed
<1>7. CallsOK'
  BY <1>0, <1>1, <1>5, <1>6, CallStaysOK
<1>8. SentOK'
  BY <1>0, <1>2, <1>3, <1>6, IdleSendsNothing, CallMoves DEF edgeVars
<1>9. Typed' /\ SlotsOK'
  BY <1>0, <1>2, <1>6 DEF Typed, EdgeTyped, WireTyped, SlotsTyped, SessTyped, SlotsOK, Unborn, edgeVars
<1> QED BY <1>7, <1>8, <1>9, PartsNext

LEMMA BeginStopKeeps ==
    ASSUME PartsInv, NEW c \in Calls, NEW n \in Nodes, BeginStop(c, n)
    PROVE  PartsInv'
<1> DEFINE r == [NoCall EXCEPT !.stage = "take", !.node = n]
<1>0. Typed /\ SentOK /\ CallsOK /\ SlotsOK
  BY TypedIsTypeOK DEF PartsInv
<1>1. call' = [call EXCEPT ![c] = r] /\ UNCHANGED <<edgeVars, sess, slot, rpc>>
  BY DEF BeginStop
<1>2. call[c].stage = "idle"
  BY DEF BeginStop, NoCall
<1>3. r \in CallStates
  BY NoCallTyped DEF CallStates
<1>4. r.stage = "take" /\ r.then = "idle" /\ r.node = n
  BY DEF NoCall
<1> HIDE DEF r
<1>5. CallsTyped' /\ call'[c] = r /\ \A d \in Calls \ {c} : call'[d] = call[d]
  BY <1>0, <1>1, <1>3, CallSet DEF Typed
<1>6. CallsOK'
  BY <1>0, <1>4, <1>5, CallStaysOK
<1>7. SentOK'
  BY <1>0, <1>1, <1>2, <1>5, IdleSendsNothing, CallMoves DEF edgeVars
<1>8. Typed' /\ SlotsOK'
  BY <1>0, <1>1, <1>5 DEF Typed, EdgeTyped, WireTyped, SlotsTyped, SessTyped, SlotsOK, Unborn, edgeVars
<1> QED BY <1>6, <1>7, <1>8, PartsNext

\* The stop is over: the command is free again, or goes on with its start.
LEMMA StoppedCall ==
    ASSUME CallsTyped, CallsOK, NEW c \in Calls, call[c].stage # "idle", Stopped(c)
    PROVE  /\ CallsTyped' /\ CallsOK'
           /\ \A d \in Calls \ {c} : call'[d] = call[d]
           /\ call'[c].stage \in {"idle", "load"}
<1> DEFINE r == IF call[c].then = "idle" THEN NoCall
                ELSE [call[c] EXCEPT !.stage = call[c].then, !.session = None, !.wait = 0]
<1>1. call' = [call EXCEPT ![c] = r]
  BY DEF Stopped
<1>2. call[c] \in CallStates /\ call[c].then \in {"idle", "load"}
  BY DEF CallsTyped, CallStates
<1>3. /\ r \in CallStates /\ r.stage \in {"idle", "load"}
      /\ r.stage = "load" \/ r.then = "load" => call[c].then = "load"
      /\ call[c].then = "load" => r.app = call[c].app /\ r.node = call[c].node
  <2>1. CASE call[c].then = "idle"
    BY <2>1, NoCallTyped DEF NoCall
  <2>2. CASE call[c].then = "load"
    <3> DEFINE x == call[c]
    <3>1. x \in CallStates /\ x.then = "load"
      BY <1>2, <2>2
    <3>2. r = [x EXCEPT !.stage = "load", !.session = None, !.wait = 0]
      BY <2>2
    <3> HIDE DEF x, r
    <3>3. r.stage = "load" /\ r.app = x.app /\ r.node = x.node
      BY <3>1, <3>2 DEF CallStates
    <3>4. r \in CallStates
      BY <3>1, <3>2, Starts DEF CallStates
    <3> QED BY <3>3, <3>4, <2>2 DEF x
  <2> QED BY <1>2, <2>1, <2>2
<1> HIDE DEF r
<1>4. CallsTyped' /\ call'[c] = r /\ \A d \in Calls \ {c} : call'[d] = call[d]
  BY <1>1, <1>3, CallSet
<1>5. call[c].node \in Nodes
  BY DEF CallsOK
<1>6. call[c].then = "load" => call[c].app \in Apps
  BY DEF CallsOK
<1>7. call'[c].stage # "idle" => call[c].then = "load"
  BY <1>3, <1>4
<1> QED BY <1>3, <1>4, <1>5, <1>6, <1>7, CallStaysOK

\* A command goes to another stage,
LEMMA CallStage ==
    ASSUME CallsTyped, NEW c \in Calls,
           NEW st \in {"idle", "take", "dereg", "terminate", "load", "register"},
           call' = [call EXCEPT ![c].stage = st]
    PROVE  /\ CallsTyped' /\ \A d \in Calls \ {c} : call'[d] = call[d]
           /\ call'[c].stage = st /\ call'[c].then = call[c].then
           /\ call'[c].node = call[c].node /\ call'[c].app = call[c].app
           /\ call'[c].session = call[c].session
BY DEF CallsTyped, CallStates

\* or takes the session it is to stop,
LEMMA CallTakes ==
    ASSUME CallsTyped, NEW c \in Calls, NEW s \in Sessions,
           call' = [call EXCEPT ![c].stage = "dereg", ![c].session = s]
    PROVE  /\ CallsTyped' /\ \A d \in Calls \ {c} : call'[d] = call[d]
           /\ call'[c].stage = "dereg" /\ call'[c].then = call[c].then
           /\ call'[c].node = call[c].node /\ call'[c].app = call[c].app
           /\ call'[c].session = s
BY ZenonT(60) DEF CallsTyped, CallStates

\* or awaits its tasks,
LEMMA CallTerminates ==
    ASSUME CallsTyped, NEW c \in Calls, Terminate(c)
    PROVE  /\ CallsTyped' /\ \A d \in Calls \ {c} : call'[d] = call[d]
           /\ call'[c].stage = "terminate" /\ call'[c].then = call[c].then
           /\ call'[c].node = call[c].node /\ call'[c].app = call[c].app
           /\ call'[c].session = call[c].session
BY Starts, ZenonT(60) DEF CallsTyped, CallStates, Terminate

\* or is over.
LEMMA CallGoes ==
    ASSUME CallsTyped, CallsOK, NEW c \in Calls, call' = [call EXCEPT ![c] = NoCall]
    PROVE  /\ CallsTyped' /\ CallsOK' /\ \A d \in Calls \ {c} : call'[d] = call[d]
           /\ call'[c].stage = "idle"
<1>1. CallsTyped' /\ call'[c] = NoCall /\ \A d \in Calls \ {c} : call'[d] = call[d]
  BY NoCallTyped, CallSet
<1>2. NoCall.stage = "idle" /\ NoCall.then = "idle"
  BY DEF NoCall
<1> QED BY <1>1, <1>2, CallStaysOK

LEMMA TakeKeeps == ASSUME PartsInv, NEW c \in Calls, Take(c) PROVE PartsInv'
<1> DEFINE n == call[c].node
<1>0. Typed /\ SentOK /\ CallsOK /\ SlotsOK
  BY TypedIsTypeOK DEF PartsInv
<1>1. call[c].stage = "take" /\ UNCHANGED <<edgeVars, sess>>
  BY DEF Take
<1>2. n \in Nodes /\ slot[n] \in Sessions \cup {None}
  BY <1>0, <1>1 DEF CallsOK, Typed, SlotsTyped
<1>3. \A q \in Msgs : q.src # c
  BY <1>0, <1>1, IdleSendsNothing
<1>4. CASE slot[n] = None
  <2>1. Stopped(c) /\ UNCHANGED <<slot, rpc>>
    BY <1>4 DEF Take
  <2>2. CallsTyped' /\ CallsOK' /\ \A d \in Calls \ {c} : call'[d] = call[d]
    BY <1>0, <1>1, <2>1, StoppedCall DEF Typed
  <2>3. SentOK'
    BY <1>0, <1>1, <1>3, <2>1, <2>2, CallMoves DEF edgeVars
  <2>4. Typed' /\ SlotsOK'
    BY <1>0, <1>1, <2>1, <2>2
    DEF Typed, EdgeTyped, WireTyped, SlotsTyped, SessTyped, SlotsOK, Unborn, edgeVars
  <2> QED BY <2>2, <2>3, <2>4, PartsNext
<1>5. CASE slot[n] # None
  <2>s. PICK s \in Sessions : s = slot[n]
    BY <1>2, <1>5
  <2>m. PICK m : m = Request(c, n, sess[s].app, TRUE)
    OBVIOUS
  <2>1. /\ slot' = [slot EXCEPT ![n] = None] /\ rpc' = rpc \cup {m}
        /\ call' = [call EXCEPT ![c].stage = "dereg", ![c].session = s]
    BY <1>5, <2>s, <2>m DEF Take, Post
  <2>2. sess[s].node = n
    BY <1>0, <1>2, <1>5, <2>s DEF SlotsOK
  <2>3. sess[s].app \in Apps
    BY <1>0, <1>2, <2>2, EdgeAssumption DEF SlotsOK
  <2>4. /\ CallsTyped' /\ \A d \in Calls \ {c} : call'[d] = call[d]
        /\ call'[c].stage = "dereg" /\ call'[c].then = call[c].then
        /\ call'[c].node = call[c].node /\ call'[c].app = call[c].app
        /\ call'[c].session = s
    BY <1>0, <2>1, CallTakes DEF Typed
  <2>5. CallsOK'
    BY <1>0, <1>1, <1>2, <2>2, <2>4, CallStaysOK DEF CallsOK
  <2>c. c \in Senders
    BY NotASession
  <2>6. /\ m \in Requests /\ m.src = c /\ m.node = n /\ m.dereg /\ m.reply = "none"
    BY <1>2, <2>3, <2>m, <2>c, RemovalMade DEF Request
  <2>7. FromSender(m)'
    BY <2>4, <2>6 DEF FromSender
  <2>8. \A x \in Senders \ {c} : SameSender(x)
    BY <1>1, <2>4 DEF SameSender, Senders
  <2>9. SentOK'
    BY <1>0, <1>1, <1>3, <2>1, <2>6, <2>7, <2>8, NotASession, Posted DEF edgeVars
  <2>10. SlotsTyped' /\ SlotsOK'
    BY <1>0, <1>1, <2>1 DEF Typed, SlotsTyped, SlotsOK, Unborn
  <2>11. Typed'
    BY <1>0, <1>1, <2>1, <2>4, <2>6, <2>10
    DEF Typed, EdgeTyped, WireTyped, SessTyped, edgeVars
  <2> QED BY <2>5, <2>9, <2>10, <2>11, PartsNext
<1> QED BY <1>4, <1>5

LEMMA RegisterKeeps == ASSUME PartsInv, NEW c \in Calls, Register(c) PROVE PartsInv'
<1>m. PICK m : m = Request(c, call[c].node, call[c].app, FALSE)
  OBVIOUS
<1>0. Typed /\ SentOK /\ CallsOK /\ SlotsOK
  BY TypedIsTypeOK DEF PartsInv
<1>1. /\ call[c].stage = "load" /\ UNCHANGED <<edgeVars, sess, slot>>
      /\ call' = [call EXCEPT ![c].stage = "register"] /\ rpc' = rpc \cup {m}
  BY <1>m DEF Register, Post
<1>2. call[c].node \in Nodes /\ call[c].app \in Apps
  BY <1>0, <1>1 DEF CallsOK
<1>3. \A q \in Msgs : q.src # c
  BY <1>0, <1>1, IdleSendsNothing
<1>4. /\ CallsTyped' /\ \A d \in Calls \ {c} : call'[d] = call[d]
      /\ call'[c].stage = "register" /\ call'[c].then = call[c].then
      /\ call'[c].node = call[c].node /\ call'[c].app = call[c].app
  BY <1>0, <1>1, CallStage DEF Typed
<1>5. CallsOK'
  BY <1>0, <1>2, <1>4, CallStaysOK
<1>c. c \in Senders
  BY NotASession
<1>6. /\ m \in Requests /\ m.src = c /\ m.node = call[c].node /\ m.app = call[c].app
      /\ ~m.dereg /\ m.reply = "none"
  BY <1>2, <1>m, <1>c, RequestMade DEF Request
<1>7. FromSender(m)'
  BY <1>4, <1>6 DEF FromSender
<1>8. \A x \in Senders \ {c} : SameSender(x)
  BY <1>1, <1>4 DEF SameSender, Senders
<1>9. SentOK'
  BY <1>0, <1>1, <1>3, <1>6, <1>7, <1>8, NotASession, Posted DEF edgeVars
<1>10. Typed' /\ SlotsOK'
  BY <1>0, <1>1, <1>4, <1>6
  DEF Typed, EdgeTyped, WireTyped, SlotsTyped, SessTyped, SlotsOK, Unborn, edgeVars
<1> QED BY <1>5, <1>9, <1>10, PartsNext

LEMMA StartFailsKeeps == ASSUME PartsInv, NEW c \in Calls, StartFails(c) PROVE PartsInv'
<1>0. Typed /\ SentOK /\ CallsOK /\ SlotsOK
  BY TypedIsTypeOK DEF PartsInv
<1>1. /\ call[c].stage = "load" /\ UNCHANGED <<edgeVars, sess, slot, rpc>>
      /\ call' = [call EXCEPT ![c] = NoCall]
  BY DEF StartFails
<1>2. CallsTyped' /\ CallsOK' /\ \A d \in Calls \ {c} : call'[d] = call[d]
  BY <1>0, <1>1, CallGoes DEF Typed
<1>3. SentOK'
  BY <1>0, <1>1, <1>2, IdleSendsNothing, CallMoves DEF edgeVars
<1>4. Typed' /\ SlotsOK'
  BY <1>0, <1>1, <1>2 DEF Typed, EdgeTyped, WireTyped, SlotsTyped, SessTyped, SlotsOK, Unborn, edgeVars
<1> QED BY <1>2, <1>3, <1>4, PartsNext

-----------------------------------------------------------------------------
\* A session's tasks change its state; which device and app it is for stays.
LEMMA SessionStays ==
    ASSUME SlotsOK, SlotsTyped, NEW s \in Sessions, UNCHANGED slot,
           \A x \in Sessions \ {s} : sess'[x] = sess[x],
           sess'[s].node = sess[s].node, sess'[s].app = sess[s].app,
           sess[s].node = None => Unborn(s)'
    PROVE  SlotsOK'
<1>1. \A x \in Sessions : sess'[x].node = sess[x].node /\ sess'[x].app = sess[x].app
  OBVIOUS
<1>2. \A x \in Sessions : sess[x].node = None => Unborn(x)'
  BY DEF SlotsOK, Unborn
<1>3. \A n \in Nodes : slot'[n] # None => sess'[slot'[n]].node = n
  <2> SUFFICES ASSUME NEW n \in Nodes, slot[n] # None PROVE sess'[slot[n]].node = n
    OBVIOUS
  <2>1. slot[n] \in Sessions
    BY DEF SlotsTyped
  <2> QED BY <1>1, <2>1 DEF SlotsOK
<1> QED BY <1>1, <1>2, <1>3 DEF SlotsOK

\* A session whose task ends or sleeps moves no other sender.
LEMMA TaskStays ==
    ASSUME SentOK, NEW s \in Sessions, UNCHANGED <<rpc, fetching>>,
           \A x \in Sessions \ {s} : sess'[x] = sess[x],
           \A x \in Senders \ Sessions : SameSender(x),
           SameSender(s) \/ sess[s].beat # "send"
    PROVE  SentOK'
<1>1. Msgs' = Msgs
  BY DEF Msgs
<1>2. \A m \in Msgs : m.src # None => m.src \in Senders
  BY DEF SentOK, FromSender, Senders
<1>3. \A x \in Sessions \ {s} : SameSender(x)
  BY NotACall DEF SameSender
<1>4. sess[s].beat # "send" => \A m \in Msgs : m.src # s
  BY NotACall DEF SentOK, FromSender
<1> QED BY <1>1, <1>2, <1>3, <1>4, NoMore

\* So do the steps of the tasks.
LEMMA HandlerEndsKeeps == ASSUME PartsInv, NEW s \in Sessions, HandlerEnds(s) PROVE PartsInv'
<1>0. Typed /\ SentOK /\ CallsOK /\ SlotsOK
  BY TypedIsTypeOK DEF PartsInv
<1>1. /\ sess[s].handler /\ UNCHANGED <<edgeVars, slot, call, rpc>>
      /\ sess' = [sess EXCEPT ![s].handler = FALSE, ![s].running = FALSE]
  BY DEF HandlerEnds
<1>2. /\ SessTyped' /\ \A x \in Sessions \ {s} : sess'[x] = sess[x]
      /\ sess'[s].node = sess[s].node /\ sess'[s].app = sess[s].app
      /\ sess'[s].beat = sess[s].beat
  BY <1>0, <1>1, ZenonT(60) DEF Typed, SessTyped, SessionStates
<1>3. sess[s].node # None
  BY <1>0, <1>1 DEF SlotsOK, Unborn
<1>4. SameSender(s) /\ \A x \in Senders \ Sessions : SameSender(x)
  BY <1>1, <1>2, NotACall DEF SameSender
<1>5. SentOK'
  BY <1>0, <1>1, <1>2, <1>4, TaskStays DEF edgeVars
<1>6. SlotsOK'
  BY <1>0, <1>1, <1>2, <1>3, SessionStays DEF Typed
<1>7. Typed' /\ CallsOK'
  BY <1>0, <1>1, <1>2 DEF Typed, EdgeTyped, WireTyped, SlotsTyped, CallsTyped, CallsOK, edgeVars
<1> QED BY <1>5, <1>6, <1>7, PartsNext

LEMMA BeatEndsKeeps == ASSUME PartsInv, NEW s \in Sessions, BeatEnds(s) PROVE PartsInv'
<1>0. Typed /\ SentOK /\ CallsOK /\ SlotsOK
  BY TypedIsTypeOK DEF PartsInv
<1>1. /\ sess[s].beat = "sleep" /\ UNCHANGED <<edgeVars, slot, call, rpc>>
      /\ sess' = [sess EXCEPT ![s].beat = "none"]
  BY DEF BeatEnds
<1>2. /\ SessTyped' /\ \A x \in Sessions \ {s} : sess'[x] = sess[x]
      /\ sess'[s].node = sess[s].node /\ sess'[s].app = sess[s].app
  BY <1>0, <1>1 DEF Typed, SessTyped, SessionStates
<1>3. sess[s].node # None
  BY <1>0, <1>1 DEF SlotsOK, Unborn
<1>4. \A x \in Senders \ Sessions : SameSender(x)
  BY <1>1, <1>2, NotACall DEF SameSender
<1>5. SentOK'
  BY <1>0, <1>1, <1>2, <1>4, TaskStays DEF edgeVars
<1>6. SlotsOK'
  BY <1>0, <1>1, <1>2, <1>3, SessionStays DEF Typed
<1>7. Typed' /\ CallsOK'
  BY <1>0, <1>1, <1>2 DEF Typed, EdgeTyped, WireTyped, SlotsTyped, CallsTyped, CallsOK, edgeVars
<1> QED BY <1>5, <1>6, <1>7, PartsNext

LEMMA BeatKeeps == ASSUME PartsInv, NEW s \in Sessions, Beat(s) PROVE PartsInv'
<1>m. PICK m : m = Request(s, sess[s].node, sess[s].app, FALSE)
  OBVIOUS
<1>0. Typed /\ SentOK /\ CallsOK /\ SlotsOK
  BY TypedIsTypeOK DEF PartsInv
<1>1. /\ sess[s].beat = "sleep" /\ UNCHANGED <<edgeVars, slot, call>>
      /\ sess' = [sess EXCEPT ![s].beat = "send"] /\ rpc' = rpc \cup {m}
  BY <1>m DEF Beat, Post
<1>2. /\ SessTyped' /\ \A x \in Sessions \ {s} : sess'[x] = sess[x]
      /\ sess'[s].node = sess[s].node /\ sess'[s].app = sess[s].app
      /\ sess'[s].beat = "send"
  BY <1>0, <1>1 DEF Typed, SessTyped, SessionStates
<1>3. sess[s].node # None /\ sess[s].app \in Apps
  BY <1>0, <1>1 DEF SlotsOK, Unborn
<1>4. sess[s].node \in Nodes
  BY <1>0, <1>3 DEF Typed, SessTyped, SessionStates
<1>5. s \in Senders
  BY NotACall
<1>6. /\ m \in Requests /\ m.src = s /\ m.node = sess[s].node /\ m.app = sess[s].app
      /\ ~m.dereg /\ m.reply = "none"
  BY <1>m, <1>3, <1>4, <1>5, RequestMade DEF Request
<1>7. \A q \in Msgs : q.src # s
  BY <1>0, <1>1, NotACall DEF SentOK, FromSender
<1>8. FromSender(m)'
  BY <1>2, <1>6 DEF FromSender
<1>9. \A x \in Senders \ {s} : SameSender(x)
  BY <1>1, <1>2 DEF SameSender, Senders
<1>10. SentOK'
  BY <1>0, <1>1, <1>5, <1>6, <1>7, <1>8, <1>9, Posted DEF edgeVars
<1>11. SlotsOK'
  BY <1>0, <1>1, <1>2, <1>3, SessionStays DEF Typed
<1>12. Typed' /\ CallsOK'
  BY <1>0, <1>1, <1>2, <1>6
  DEF Typed, EdgeTyped, WireTyped, SlotsTyped, CallsTyped, CallsOK, edgeVars
<1> QED BY <1>10, <1>11, <1>12, PartsNext

LEMMA ReleaseKeeps == ASSUME PartsInv, NEW c \in Calls, Release(c) PROVE PartsInv'
<1>0. Typed /\ SentOK /\ CallsOK /\ SlotsOK
  BY TypedIsTypeOK DEF PartsInv
<1>s. PICK s \in Sessions : s = call[c].session
  BY <1>0 DEF Release, CallsOK
<1>1. /\ call[c].stage = "terminate" /\ UNCHANGED <<edgeVars, slot, rpc>> /\ Stopped(c)
      /\ sess' = [sess EXCEPT ![s].running = FALSE, ![s].held = FALSE]
  BY <1>s DEF Release
<1>2. /\ SessTyped' /\ \A x \in Sessions \ {s} : sess'[x] = sess[x]
      /\ sess'[s].node = sess[s].node /\ sess'[s].app = sess[s].app
      /\ sess'[s].beat = sess[s].beat /\ sess'[s].handler = sess[s].handler
      /\ ~sess'[s].running /\ ~sess'[s].held
  BY <1>0, <1>1, ZenonT(60) DEF Typed, SessTyped, SessionStates
<1>3. CallsTyped' /\ CallsOK' /\ \A d \in Calls \ {c} : call'[d] = call[d]
  BY <1>0, <1>1, StoppedCall DEF Typed
<1>4. \A x \in Senders \ {c} : SameSender(x)
  BY <1>2, <1>3 DEF SameSender, Senders
<1>5. \A q \in Msgs : q.src # c
  BY <1>0, <1>1, IdleSendsNothing
<1>6. \A q \in Msgs : q.src # None => q.src \in Senders
  BY <1>0 DEF SentOK, FromSender, Senders
<1>7. Msgs' = Msgs
  BY <1>1 DEF Msgs, edgeVars
<1>8. SentOK'
  BY <1>0, <1>1, <1>4, <1>5, <1>6, <1>7, NoMore DEF edgeVars
<1>9. SlotsOK'
  BY <1>0, <1>1, <1>2, SessionStays DEF Typed, SlotsOK, Unborn
<1>10. Typed'
  BY <1>0, <1>1, <1>2, <1>3 DEF Typed, EdgeTyped, WireTyped, SlotsTyped, edgeVars
<1> QED BY <1>3, <1>8, <1>9, <1>10, PartsNext

-----------------------------------------------------------------------------
(* Answers.                                                                 *)

\* What the answer to a heartbeat changes.
LEMMA BeatAnsweredTyped ==
    ASSUME SessTyped, NEW s \in Sessions, NEW verdict, BeatAnswered(s, verdict)
    PROVE  /\ SessTyped' /\ \A x \in Sessions \ {s} : sess'[x] = sess[x]
           /\ sess'[s].node = sess[s].node /\ sess'[s].app = sess[s].app
           /\ sess'[s].beat = "sleep" /\ sess'[s].wait = Interval
           /\ sess'[s].held = sess[s].held /\ sess'[s].running = sess[s].running
           /\ sess'[s].handler = sess[s].handler
           /\ verdict = "ok" => sess'[s].missed = 0
           /\ verdict # "ok" => sess'[s].missed = IF sess[s].missed > Tolerated
                                                 THEN sess[s].missed ELSE sess[s].missed + 1
<1> DEFINE k == IF verdict = "ok" THEN 0
                ELSE IF sess[s].missed > Tolerated THEN sess[s].missed ELSE sess[s].missed + 1
<1>1. sess' = [sess EXCEPT ![s].beat = "sleep", ![s].wait = Interval, ![s].missed = k]
  BY DEF BeatAnswered
<1>2. k \in 0..(Tolerated + 1)
  <2>1. sess[s].missed \in 0..(Tolerated + 1)
    BY DEF SessTyped, SessionStates
  <2> QED BY <2>1, PublishingAssumption
<1>3. /\ verdict = "ok" => k = 0
      /\ verdict # "ok" => k = IF sess[s].missed > Tolerated
                               THEN sess[s].missed ELSE sess[s].missed + 1
  OBVIOUS
<1> HIDE DEF k
<1>4. SessTyped' /\ \A x \in Sessions \ {s} : sess'[x] = sess[x]
  <2> DEFINE Waits == 0..Interval
             Misses == 0..(Tolerated + 1)
  <2>1. SessionStates = [node: Nodes \cup {None}, app: Apps \cup {None}, held: BOOLEAN,
                         running: BOOLEAN, handler: BOOLEAN, beat: {"none", "sleep", "send"},
                         wait: Waits, missed: Misses]
    BY DEF SessionStates
  <2>2. k \in Misses /\ Interval \in Waits
    BY <1>2, Starts
  <2> HIDE DEF Waits, Misses
  <2>3. [sess[s] EXCEPT !.beat = "sleep", !.wait = Interval, !.missed = k] \in SessionStates
    BY <2>1, <2>2 DEF SessTyped
  <2>4. \A x \in Sessions \ {s} : sess'[x] = sess[x]
    BY <1>1 DEF SessTyped
  <2>5. SessTyped'
    BY <1>1, <2>1, <2>2, ZenonT(60) DEF SessTyped
  <2> QED BY <2>4, <2>5
<1>5. /\ sess'[s].node = sess[s].node /\ sess'[s].app = sess[s].app
      /\ sess'[s].beat = "sleep" /\ sess'[s].wait = Interval /\ sess'[s].missed = k
      /\ sess'[s].held = sess[s].held /\ sess'[s].running = sess[s].running
      /\ sess'[s].handler = sess[s].handler
  BY <1>1 DEF SessTyped, SessionStates
<1> QED BY <1>3, <1>4, <1>5

\* What starting a session changes.
LEMMA StartSessionSets ==
    ASSUME Typed, CallsOK, SlotsOK, NEW c \in Calls, call[c].stage = "register",
           NEW s \in Sessions, StartSession(c, s)
    PROVE  /\ SessTyped' /\ SlotsTyped' /\ SlotsOK'
           /\ call' = [call EXCEPT ![c] = NoCall]
           /\ sess[s].node = None
           /\ sess'[s].node = call[c].node /\ sess'[s].app = call[c].app
           /\ slot'[call[c].node] = s
           /\ sess'[s].held /\ sess'[s].running /\ sess'[s].handler
           /\ sess'[s].beat = "sleep" /\ sess'[s].wait = Interval /\ sess'[s].missed = 0
           /\ \A x \in Sessions \ {s} :
                 /\ sess'[x].node = sess[x].node /\ sess'[x].app = sess[x].app
                 /\ sess'[x].beat = sess[x].beat /\ sess'[x].handler = sess[x].handler
                 /\ x # slot[call[c].node] => sess'[x] = sess[x]
<1>n. PICK n \in Nodes, a \in Apps : n = call[c].node /\ a = call[c].app
  BY DEF CallsOK
<1> DEFINE new == [node |-> n, app |-> a, held |-> TRUE, running |-> TRUE,
                   handler |-> TRUE, beat |-> "sleep", wait |-> Interval, missed |-> 0]
<1>1. /\ sess[s].node = None
      /\ sess' = [x \in Sessions |->
                    IF x = s THEN new
                    ELSE IF x = slot[n] THEN [sess[x] EXCEPT !.held = FALSE] ELSE sess[x]]
      /\ slot' = [slot EXCEPT ![n] = s] /\ call' = [call EXCEPT ![c] = NoCall]
  BY <1>n DEF StartSession
<1>2. new \in SessionStates
  BY Starts, PublishingAssumption DEF SessionStates
<1>3. /\ new.node = n /\ new.app = a /\ new.held /\ new.running /\ new.handler
      /\ new.beat = "sleep" /\ new.wait = Interval /\ new.missed = 0
  OBVIOUS
<1> HIDE DEF new
<1>4. sess'[s] = new /\ slot'[n] = s
  BY <1>1 DEF Typed, SlotsTyped
<1>5. \A x \in Sessions \ {s} :
         /\ sess'[x] \in SessionStates
         /\ sess'[x].node = sess[x].node /\ sess'[x].app = sess[x].app
         /\ sess'[x].beat = sess[x].beat /\ sess'[x].running = sess[x].running
         /\ sess'[x].handler = sess[x].handler /\ (~sess[x].held => ~sess'[x].held)
  <2> SUFFICES ASSUME NEW x \in Sessions \ {s}
               PROVE  /\ sess'[x] \in SessionStates
                      /\ sess'[x].node = sess[x].node /\ sess'[x].app = sess[x].app
                      /\ sess'[x].beat = sess[x].beat /\ sess'[x].running = sess[x].running
                      /\ sess'[x].handler = sess[x].handler /\ (~sess[x].held => ~sess'[x].held)
    OBVIOUS
  <2>1. sess[x] \in SessionStates
    BY DEF Typed, SessTyped
  <2>2. sess'[x] = [sess[x] EXCEPT !.held = FALSE] \/ sess'[x] = sess[x]
    BY <1>1
  <2> QED BY <2>1, <2>2 DEF SessionStates
<1>6. SessTyped' /\ SlotsTyped'
  <2>1. sess' = [x \in Sessions |-> sess'[x]]
    BY <1>1
  <2> QED BY <1>1, <1>2, <1>4, <1>5, <2>1 DEF Typed, SessTyped, SlotsTyped
<1>7. \A k \in Nodes : slot'[k] # None => sess'[slot'[k]].node = k
  <2> SUFFICES ASSUME NEW k \in Nodes, slot'[k] # None PROVE sess'[slot'[k]].node = k
    OBVIOUS
  <2>1. CASE k = n
    BY <2>1, <1>3, <1>4
  <2>2. CASE k # n
    <3>1. slot'[k] = slot[k] /\ slot[k] \in Sessions
      BY <2>2, <1>1 DEF Typed, SlotsTyped
    <3>2. sess[slot[k]].node = k
      BY <3>1 DEF SlotsOK
    <3>3. slot[k] # s
      BY <3>2, <1>1, EdgeAssumption
    <3> QED BY <3>1, <3>2, <3>3, <1>5
  <2> QED BY <2>1, <2>2
<1>8. \A x \in Sessions : sess'[x].node = None => Unborn(x)'
  <2>1. sess'[s].node # None
    BY <1>3, <1>4, EdgeAssumption
  <2> QED BY <2>1, <1>5 DEF SlotsOK, Unborn
<1>9. \A x \in Sessions : sess'[x].node # None => sess'[x].app \in Apps
  BY <1>3, <1>4, <1>5 DEF SlotsOK
<1>10. SlotsOK'
  BY <1>7, <1>8, <1>9 DEF SlotsOK
<1>11. \A x \in Sessions \ {s} : x # slot[n] => sess'[x] = sess[x]
  BY <1>1
<1> QED BY <1>n, <1>1, <1>3, <1>4, <1>5, <1>6, <1>10, <1>11

\* Whatever the answer, its sender alone goes on.
LEMMA AnsweredKeeps ==
    ASSUME Typed, CallsOK, SlotsOK, NEW src \in Senders, Waiting(src),
           NEW verdict, Answered(src, verdict)
    PROVE  /\ SessTyped' /\ CallsTyped' /\ SlotsTyped' /\ CallsOK' /\ SlotsOK'
           /\ \A x \in Senders \ {src} : Waiting(x) => SameSender(x)
<1>1. CASE src \in Sessions
  <2>1. BeatAnswered(src, verdict) /\ sess[src].beat = "send" /\ UNCHANGED <<slot, call>>
    BY <1>1 DEF Answered, Waiting, BeatAnswered
  <2>2. /\ SessTyped' /\ \A x \in Sessions \ {src} : sess'[x] = sess[x]
        /\ sess'[src].node = sess[src].node /\ sess'[src].app = sess[src].app
    BY <1>1, <2>1, BeatAnsweredTyped DEF Typed
  <2>3. sess[src].node # None
    BY <1>1, <2>1 DEF SlotsOK, Unborn
  <2>4. SlotsOK'
    BY <1>1, <2>1, <2>2, <2>3, SessionStays DEF Typed
  <2>5. \A x \in Senders \ {src} : SameSender(x)
    BY <2>1, <2>2 DEF SameSender, Senders
  <2> QED BY <2>1, <2>2, <2>4, <2>5 DEF Typed, CallsTyped, SlotsTyped, CallsOK
<1>2. CASE src \notin Sessions
  <2>1. src \in Calls /\ CallAnswered(src, verdict) /\ call[src].stage \in {"dereg", "register"}
    BY <1>2 DEF Answered, Waiting, Senders
  <2>2. CASE call[src].stage = "dereg"
    <3>1. Terminate(src) /\ UNCHANGED <<sess, slot>>
      BY <2>1, <2>2 DEF CallAnswered
    <3>2. /\ CallsTyped' /\ \A d \in Calls \ {src} : call'[d] = call[d]
          /\ call'[src].stage = "terminate" /\ call'[src].then = call[src].then
          /\ call'[src].node = call[src].node /\ call'[src].app = call[src].app
          /\ call'[src].session = call[src].session
      BY <2>1, <3>1, CallTerminates DEF Typed
    <3>3. CallsOK'
      BY <2>1, <2>2, <3>2, CallStaysOK DEF CallsOK
    <3>4. \A x \in Senders \ {src} : SameSender(x)
      BY <3>1, <3>2 DEF SameSender, Senders
    <3> QED BY <3>1, <3>2, <3>3, <3>4 DEF Typed, SessTyped, SlotsTyped, SlotsOK, Unborn
  <2>3. CASE call[src].stage = "register" /\ verdict = "ok"
    <3>1. PICK s \in Sessions : StartSession(src, s)
      BY <2>1, <2>3 DEF CallAnswered
    <3>2. /\ SessTyped' /\ SlotsTyped' /\ SlotsOK' /\ call' = [call EXCEPT ![src] = NoCall]
          /\ sess[s].node = None
          /\ \A x \in Sessions \ {s} :
                 /\ sess'[x].node = sess[x].node /\ sess'[x].app = sess[x].app
                 /\ sess'[x].beat = sess[x].beat
      BY <2>1, <2>3, <3>1, StartSessionSets
    <3>3. CallsTyped' /\ CallsOK' /\ \A d \in Calls \ {src} : call'[d] = call[d]
      BY <2>1, <3>2, CallGoes DEF Typed
    <3>4. ~Waiting(s)
      BY <3>2 DEF SlotsOK, Unborn, Waiting
    <3>5. \A x \in Senders \ {src, s} : SameSender(x)
      BY <3>2, <3>3 DEF SameSender, Senders
    <3> QED BY <3>2, <3>3, <3>4, <3>5
  <2>4. CASE call[src].stage = "register" /\ verdict # "ok"
    <3>1. call' = [call EXCEPT ![src] = NoCall] /\ UNCHANGED <<sess, slot>>
      BY <2>1, <2>4 DEF CallAnswered
    <3>2. CallsTyped' /\ CallsOK' /\ \A d \in Calls \ {src} : call'[d] = call[d]
      BY <2>1, <3>1, CallGoes DEF Typed
    <3>3. \A x \in Senders \ {src} : SameSender(x)
      BY <3>1, <3>2 DEF SameSender, Senders
    <3> QED BY <3>1, <3>2, <3>3 DEF Typed, SessTyped, SlotsTyped, SlotsOK, Unborn
  <2> QED BY <2>1, <2>2, <2>3, <2>4
<1> QED BY <1>1, <1>2

-----------------------------------------------------------------------------
(* What happens to a request.                                               *)

\* A request with a sender is awaited by it.
LEMMA SenderWaits ==
    ASSUME SentOK, NEW m \in Msgs, m.src # None
    PROVE  m.src \in Senders /\ Waiting(m.src)
<1>1. FromSender(m)
  BY DEF SentOK
<1>2. CASE m.src \in Sessions
  BY <1>1, <1>2, NotACall DEF FromSender, Waiting
<1>3. CASE m.src \in Calls
  BY <1>1, <1>3, NotASession DEF FromSender, Waiting
<1> QED BY <1>1, <1>2, <1>3 DEF FromSender

LEMMA MsgsTyped == ASSUME WireTyped PROVE Msgs \subseteq Requests
BY DEF WireTyped, Msgs

\* The edge's answer takes the place of the request it answers.
LEMMA Replied ==
    ASSUME SentOK, WireTyped, NEW m \in Msgs, NEW v \in {"ok", "refused"}, Reply(m, v),
           fetching \in {m, None}, fetching' = None, UNCHANGED <<sess, call>>
    PROVE  SentOK' /\ WireTyped'
<1> DEFINE r == [m EXCEPT !.reply = v]
<1>1. m \in Requests
  BY MsgsTyped
<1>2. /\ r \in Requests /\ r.src = m.src /\ r.dereg = m.dereg /\ r.node = m.node
      /\ r.app = m.app /\ r.reply = v
  BY <1>1 DEF Requests
<1>3. rpc' = (rpc \ {m}) \cup (IF m.src = None THEN {} ELSE {r})
  BY DEF Reply
<1> HIDE DEF r
<1>4. WireTyped'
  BY <1>2, <1>3 DEF WireTyped
<1>5. Msgs' = rpc'
  BY DEF Msgs
<1>6. \A q \in Msgs' : (q \in Msgs /\ q # m) \/ (q = r /\ m.src # None)
  BY <1>3, <1>5 DEF Msgs
<1>7. m.src # None => FromSender(r)
  BY <1>2 DEF SentOK, FromSender
<1>8. \A q \in Msgs' : q.src # None => FromSender(q)'
  <2>1. \A q \in Msgs' : q.src # None => FromSender(q)
    BY <1>6, <1>7 DEF SentOK
  <2> QED BY <2>1 DEF FromSender
<1>9. \A q, p \in Msgs' : q.src # None /\ q.src = p.src => q = p
  BY <1>2, <1>6 DEF SentOK
<1>10. \A q \in rpc' : q.reply # "none" => q.src # None
  BY <1>2, <1>3 DEF SentOK
<1> QED BY <1>4, <1>8, <1>9, <1>10 DEF SentOK

\* One mapping changes and the others do not.
LEMMA EntrySet ==
    ASSUME EdgeTyped, NEW a \in Apps, NEW e \in Entry, entry' = [entry EXCEPT ![a] = e],
           UNCHANGED edgeUp
    PROVE  EdgeTyped' /\ entry'[a] = e /\ \A b \in Apps \ {a} : entry'[b] = entry[b]
BY DEF EdgeTyped

\* The mappings the edge makes are well typed.
LEMMA EntriesMade ==
    /\ NoEntry \in Entry
    /\ \A n \in Nodes : [peer |-> n, age |-> 0] \in Entry
    /\ \A e \in Entry : [e EXCEPT !.age = 0] \in Entry
<1>1. 0 \in 0..(TTL + 1)
  BY EdgeAssumption
<1> QED BY <1>1 DEF NoEntry, Entry

\* The edge's handler keeps the parts together.
LEMMA EdgeHandlesKeeps == ASSUME PartsInv, NEW m \in rpc, EdgeHandles(m) PROVE PartsInv'
<1>0. Typed /\ SentOK /\ CallsOK /\ SlotsOK
  BY TypedIsTypeOK DEF PartsInv
<1>1. m.reply = "none" /\ UNCHANGED <<sess, slot, call>>
  BY DEF EdgeHandles
<1>2. m \in Msgs /\ m \in Requests /\ m.app \in Apps /\ m.node \in Nodes
  BY <1>0 DEF Msgs, Typed, WireTyped, Requests
<1>3. CallsTyped' /\ SessTyped' /\ SlotsTyped' /\ CallsOK' /\ SlotsOK'
  BY <1>0, <1>1 DEF Typed, CallsTyped, SessTyped, SlotsTyped, CallsOK, SlotsOK, Unborn
<1>4. CASE Deregister(m) /\ Reply(m, "ok")
  <2>1. fetching = None /\ fetching' = None /\ UNCHANGED edgeUp
        /\ entry' = [entry EXCEPT ![m.app] = NoEntry]
    BY <1>4 DEF Deregister, Free
  <2>2. EdgeTyped'
    BY <1>0, <1>2, <2>1, EntriesMade, EntrySet DEF Typed
  <2>3. SentOK' /\ WireTyped'
    BY <1>0, <1>1, <1>2, <1>4, <2>1, Replied DEF Typed
  <2> QED BY <1>3, <2>2, <2>3, PartsNext DEF Typed
<1>5. CASE Refresh(m) /\ Reply(m, "ok")
  <2>1. fetching = None /\ fetching' = None /\ UNCHANGED edgeUp
        /\ entry' = [entry EXCEPT ![m.app] = [entry[m.app] EXCEPT !.age = 0]]
    BY <1>5 DEF Refresh, Free
  <2>2. [entry[m.app] EXCEPT !.age = 0] \in Entry
    BY <1>0, <1>2, EntriesMade DEF Typed, EdgeTyped
  <2>3. EdgeTyped'
    BY <1>0, <1>2, <2>1, <2>2, EntrySet DEF Typed
  <2>4. SentOK' /\ WireTyped'
    BY <1>0, <1>1, <1>2, <1>5, <2>1, Replied DEF Typed
  <2> QED BY <1>3, <2>3, <2>4, PartsNext DEF Typed
<1>6. CASE RefuseStale(m) /\ Reply(m, "refused")
  <2>1. fetching = None /\ fetching' = None /\ UNCHANGED <<edgeUp, entry>>
    BY <1>6 DEF RefuseStale, Free, edgeVars
  <2>2. EdgeTyped'
    BY <1>0, <2>1 DEF Typed, EdgeTyped
  <2>3. SentOK' /\ WireTyped'
    BY <1>0, <1>1, <1>2, <1>6, <2>1, Replied DEF Typed
  <2> QED BY <1>3, <2>2, <2>3, PartsNext DEF Typed
<1>7. CASE Fetch(m) /\ rpc' = rpc \ {m}
  <2>1. fetching = None /\ fetching' = m /\ UNCHANGED <<edgeUp, entry>> /\ ~m.dereg
    BY <1>7 DEF Fetch, Free, IsFirst
  <2>2. EdgeTyped' /\ WireTyped'
    BY <1>0, <1>2, <1>7, <2>1 DEF Typed, EdgeTyped, WireTyped
  <2>3. Msgs' \subseteq Msgs
    BY <1>2, <1>7, <2>1 DEF Msgs
  <2>4. \A q \in Msgs' : q.src # None => FromSender(q)'
    BY <1>0, <1>1, <2>3 DEF SentOK, FromSender
  <2>5. SentOK'
    BY <1>0, <1>1, <1>7, <2>1, <2>3, <2>4 DEF SentOK
  <2> QED BY <1>3, <2>2, <2>5, PartsNext DEF Typed
<1> QED BY <1>4, <1>5, <1>6, <1>7 DEF EdgeHandles

LEMMA EdgePinsKeeps == ASSUME PartsInv, EdgePins PROVE PartsInv'
<1>0. Typed /\ SentOK /\ CallsOK /\ SlotsOK
  BY TypedIsTypeOK DEF PartsInv
<1>m. PICK m : m = fetching
  OBVIOUS
<1>1. /\ m # None /\ Reply(m, "ok") /\ fetching' = None /\ UNCHANGED <<edgeUp, sess, slot, call>>
      /\ entry' = [entry EXCEPT ![m.app] = [peer |-> m.node, age |-> 0]]
  BY <1>m DEF EdgePins, Pin
<1>2. m \in Msgs /\ m \in Requests /\ m.app \in Apps /\ m.node \in Nodes
  BY <1>0, <1>1, <1>m DEF Msgs, Typed, WireTyped, Requests
<1>3. CallsTyped' /\ SessTyped' /\ SlotsTyped' /\ CallsOK' /\ SlotsOK'
  BY <1>0, <1>1 DEF Typed, CallsTyped, SessTyped, SlotsTyped, CallsOK, SlotsOK, Unborn
<1>4. EdgeTyped'
  BY <1>0, <1>1, <1>2, EntriesMade, EntrySet DEF Typed
<1>5. SentOK' /\ WireTyped'
  BY <1>0, <1>1, <1>2, <1>m, Replied DEF Typed
<1> QED BY <1>3, <1>4, <1>5, PartsNext DEF Typed

LEMMA EdgeRefusesKeeps == ASSUME PartsInv, EdgeRefuses PROVE PartsInv'
<1>0. Typed /\ SentOK /\ CallsOK /\ SlotsOK
  BY TypedIsTypeOK DEF PartsInv
<1>m. PICK m : m = fetching
  OBVIOUS
<1>1. /\ m # None /\ Reply(m, "refused") /\ fetching' = None
      /\ UNCHANGED <<edgeUp, entry, sess, slot, call>>
  BY <1>m DEF EdgeRefuses, RefuseFetch
<1>2. m \in Msgs
  BY <1>0, <1>1, <1>m DEF Msgs, Typed, WireTyped
<1>3. CallsTyped' /\ SessTyped' /\ SlotsTyped' /\ CallsOK' /\ SlotsOK' /\ EdgeTyped'
  BY <1>0, <1>1 DEF Typed, CallsTyped, SessTyped, SlotsTyped, CallsOK, SlotsOK, Unborn, EdgeTyped
<1>4. SentOK' /\ WireTyped'
  BY <1>0, <1>1, <1>2, <1>m, Replied DEF Typed
<1> QED BY <1>3, <1>4, PartsNext DEF Typed

\* So does a reply that arrives, and one that is lost.
LEMMA DeliverKeeps == ASSUME PartsInv, NEW m \in rpc, Deliver(m) PROVE PartsInv'
<1>0. Typed /\ SentOK /\ CallsOK /\ SlotsOK
  BY TypedIsTypeOK DEF PartsInv
<1>1. /\ m.reply # "none" /\ rpc' = rpc \ {m} /\ Answered(m.src, m.reply)
      /\ UNCHANGED <<edgeUp, entry, fetching>>
  BY DEF Deliver, edgeVars
<1>2. m \in Msgs /\ m.src # None
  BY <1>0, <1>1 DEF Msgs, SentOK
<1>3. m.src \in Senders /\ Waiting(m.src)
  BY <1>0, <1>2, SenderWaits
<1>4. /\ SessTyped' /\ CallsTyped' /\ SlotsTyped' /\ CallsOK' /\ SlotsOK'
      /\ \A x \in Senders \ {m.src} : Waiting(x) => SameSender(x)
  BY <1>0, <1>1, <1>3, AnsweredKeeps
<1>5. \A q \in Msgs' : q \in Msgs /\ q # m
  BY <1>0, <1>1 DEF Msgs, SentOK
<1>6. \A q \in Msgs' : q.src # None => SameSender(q.src)
  <2> SUFFICES ASSUME NEW q \in Msgs', q.src # None PROVE SameSender(q.src)
    OBVIOUS
  <2>1. q.src # m.src
    BY <1>0, <1>2, <1>5 DEF SentOK
  <2> QED BY <1>0, <1>4, <1>5, <2>1, SenderWaits
<1>7. SentOK'
  BY <1>0, <1>1, <1>6, NoMore
<1>8. EdgeTyped' /\ WireTyped'
  BY <1>0, <1>1 DEF Typed, EdgeTyped, WireTyped
<1> QED BY <1>4, <1>7, <1>8, PartsNext DEF Typed

LEMMA LoseKeeps == ASSUME PartsInv, NEW m \in rpc, Lose(m) PROVE PartsInv'
<1>0. Typed /\ SentOK /\ CallsOK /\ SlotsOK
  BY TypedIsTypeOK DEF PartsInv
<1>1. rpc' = rpc \ {m} /\ UNCHANGED <<edgeUp, entry, fetching, sess, slot, call>>
  BY DEF Lose, edgeVars
<1>2. Typed' /\ CallsOK' /\ SlotsOK'
  BY <1>0, <1>1
  DEF Typed, EdgeTyped, WireTyped, CallsTyped, SessTyped, SlotsTyped, CallsOK, SlotsOK, Unborn
<1>3. \A x : SameSender(x)
  BY <1>1 DEF SameSender
<1>4. SentOK'
  BY <1>0, <1>1, <1>3, NoMore
<1> QED BY <1>2, <1>4, PartsNext

\* Every request on its way changes, or is forgotten by its sender, or goes.
LEMMA Mapped ==
    ASSUME SentOK, WireTyped, NEW R \in SUBSET rpc, NEW g \in [Msgs -> Requests],
           rpc' = {g[m] : m \in R},
           fetching' = IF fetching # None THEN g[fetching] ELSE None,
           \A m \in Msgs : /\ g[m].src \in {m.src, None} /\ g[m].node = m.node
                           /\ g[m].app = m.app /\ g[m].dereg = m.dereg
                           /\ g[m].reply = m.reply
                           /\ g[m].src # None => SameSender(m.src),
           \A m \in R : m.reply # "none" => g[m].src = m.src
    PROVE  SentOK' /\ WireTyped'
<1>1. R \subseteq Msgs
  BY DEF Msgs
<1>2. WireTyped'
  BY <1>1 DEF WireTyped, Msgs
<1>3. \A q \in Msgs' : \E m \in Msgs : q = g[m]
  BY <1>1 DEF Msgs
<1>4. \A q \in Msgs' : q.src # None => FromSender(q)'
  <2> SUFFICES ASSUME NEW q \in Msgs', q.src # None PROVE FromSender(q)'
    OBVIOUS
  <2>1. PICK m \in Msgs : q = g[m]
    BY <1>3
  <2>2. /\ q.src = m.src /\ q.node = m.node /\ q.app = m.app /\ q.dereg = m.dereg
        /\ SameSender(m.src)
    BY <2>1
  <2>3. FromSender(m)
    BY <2>2 DEF SentOK
  <2>4. FromSender(m)'
    BY <2>2, <2>3, SenderStays
  <2> QED BY <2>2, <2>4 DEF FromSender
<1>5. \A q, p \in Msgs' : q.src # None /\ q.src = p.src => q = p
  <2> SUFFICES ASSUME NEW q \in Msgs', NEW p \in Msgs', q.src # None, q.src = p.src
               PROVE  q = p
    OBVIOUS
  <2>1. PICK m \in Msgs : q = g[m]
    BY <1>3
  <2>2. PICK k \in Msgs : p = g[k]
    BY <1>3
  <2>3. m.src # None /\ m.src = k.src
    BY <2>1, <2>2
  <2>4. m = k
    BY <2>3 DEF SentOK
  <2> QED BY <2>1, <2>2, <2>4
<1>6. \A q \in rpc' : q.reply # "none" => q.src # None
  BY <1>1 DEF SentOK
<1>7. ASSUME fetching' # None
      PROVE  /\ fetching'.reply = "none" /\ ~fetching'.dereg
             /\ fetching'.src # None => fetching' \notin rpc'
  <2>1. fetching # None /\ fetching \in Msgs /\ fetching' = g[fetching]
    BY <1>7 DEF Msgs
  <2>2. fetching'.reply = "none" /\ ~fetching'.dereg
    BY <2>1 DEF SentOK
  <2>3. ASSUME fetching'.src # None, fetching' \in rpc' PROVE FALSE
    <3>1. PICK m \in R : fetching' = g[m]
      BY <2>3
    <3>2. m \in Msgs /\ m \in rpc
      BY <1>1
    <3>3. g[m].src # None /\ g[m] = g[fetching]
      BY <2>1, <2>3, <3>1
    <3>4. g[m].src \in {m.src, None} /\ g[fetching].src \in {fetching.src, None}
      BY <2>1, <3>2
    <3>5. m.src = fetching.src /\ m.src # None
      BY <3>3, <3>4
    <3>6. m = fetching
      BY <2>1, <3>2, <3>5 DEF SentOK
    <3> QED BY <2>1, <3>2, <3>5, <3>6 DEF SentOK
  <2> QED BY <2>2, <2>3
<1> QED BY <1>2, <1>4, <1>5, <1>6, <1>7 DEF SentOK

\* A sender that gives up leaves its request without one.
LEMMA GiveUpKeeps == ASSUME PartsInv, NEW src \in Senders, GiveUp(src) PROVE PartsInv'
<1>0. Typed /\ SentOK /\ CallsOK /\ SlotsOK
  BY TypedIsTypeOK DEF PartsInv
<1> DEFINE Forgotten(m) == [m EXCEPT !.src = IF @ = src THEN None ELSE @]
           R == {x \in rpc : x.src # src \/ x.reply = "none"}
<1>g. PICK g : g = [m \in Msgs |-> Forgotten(m)]
  OBVIOUS
<1>1. /\ Waiting(src) /\ rpc' = {Forgotten(m) : m \in R}
      /\ fetching' = IF fetching # None /\ fetching.src = src
                     THEN [fetching EXCEPT !.src = None] ELSE fetching
      /\ Answered(src, "failed") /\ UNCHANGED <<edgeUp, entry>>
  BY DEF GiveUp
<1>2. /\ SessTyped' /\ CallsTyped' /\ SlotsTyped' /\ CallsOK' /\ SlotsOK'
      /\ \A x \in Senders \ {src} : Waiting(x) => SameSender(x)
  BY <1>0, <1>1, AnsweredKeeps
<1>3. \A m \in Msgs : /\ m \in Requests /\ Forgotten(m) \in Requests
                      /\ Forgotten(m).src = IF m.src = src THEN None ELSE m.src
                      /\ Forgotten(m).node = m.node /\ Forgotten(m).app = m.app
                      /\ Forgotten(m).dereg = m.dereg /\ Forgotten(m).reply = m.reply
  <2> SUFFICES ASSUME NEW m \in Msgs
               PROVE  /\ m \in Requests /\ Forgotten(m) \in Requests
                      /\ Forgotten(m).src = IF m.src = src THEN None ELSE m.src
                      /\ Forgotten(m).node = m.node /\ Forgotten(m).app = m.app
                      /\ Forgotten(m).dereg = m.dereg /\ Forgotten(m).reply = m.reply
    OBVIOUS
  <2>1. m \in Requests
    BY <1>0, MsgsTyped DEF Typed
  <2>2. Forgotten(m) \in Requests
    BY <2>1 DEF Requests
  <2>3. /\ Forgotten(m).src = IF m.src = src THEN None ELSE m.src
        /\ Forgotten(m).node = m.node /\ Forgotten(m).app = m.app
        /\ Forgotten(m).dereg = m.dereg /\ Forgotten(m).reply = m.reply
    BY <2>1 DEF Requests
  <2> QED BY <2>1, <2>2, <2>3
<1>4. fetching # None => fetching' = Forgotten(fetching)
  <2>1. ASSUME fetching # None, fetching.src # src PROVE Forgotten(fetching) = fetching
    <3>1. fetching \in Requests
      BY <1>0, <2>1 DEF Typed, WireTyped
    <3>2. [fetching EXCEPT !.src = fetching.src] = fetching
      BY <3>1 DEF Requests
    <3>3. Forgotten(fetching) = [fetching EXCEPT !.src = fetching.src]
      BY <2>1
    <3> QED BY <3>2, <3>3
  <2> QED BY <1>1, <2>1
<1>5. R \subseteq Msgs /\ R \in SUBSET rpc
  BY DEF Msgs
<1>6. fetching # None => fetching \in Msgs
  BY DEF Msgs
<1> HIDE DEF Forgotten
<1>7. g \in [Msgs -> Requests] /\ \A m \in Msgs : g[m] = Forgotten(m)
  BY <1>g, <1>3
<1>8. rpc' = {g[m] : m \in R}
  BY <1>1, <1>5, <1>7
<1>9. fetching' = IF fetching # None THEN g[fetching] ELSE None
  BY <1>1, <1>4, <1>6, <1>7
<1>10. \A m \in Msgs : g[m].src # None => SameSender(m.src)
  <2> SUFFICES ASSUME NEW m \in Msgs, g[m].src # None PROVE SameSender(m.src)
    OBVIOUS
  <2>1. m.src # src /\ m.src # None
    BY <1>3, <1>7
  <2> QED BY <1>0, <1>2, <2>1, SenderWaits
<1>11. \A m \in Msgs : /\ g[m].src \in {m.src, None} /\ g[m].node = m.node
                       /\ g[m].app = m.app /\ g[m].dereg = m.dereg /\ g[m].reply = m.reply
  BY <1>3, <1>7
<1>12. \A m \in R : m.reply # "none" => g[m].src = m.src
  BY <1>3, <1>5, <1>7
<1> HIDE DEF R
<1>13. SentOK' /\ WireTyped'
  BY <1>0, <1>5, <1>7, <1>8, <1>9, <1>10, <1>11, <1>12, Mapped DEF Typed
<1>14. EdgeTyped'
  BY <1>0, <1>1 DEF Typed, EdgeTyped
<1> QED BY <1>2, <1>13, <1>14, PartsNext DEF Typed

\* Crashes and restarts keep the parts together.
LEMMA EdgeDiesKeeps == ASSUME PartsInv, EdgeDies PROVE PartsInv'
<1>0. Typed /\ SentOK /\ CallsOK /\ SlotsOK
  BY TypedIsTypeOK DEF PartsInv
<1>1. /\ rpc' \subseteq rpc /\ fetching' = None /\ edgeUp' = FALSE
      /\ entry' = [a \in Apps |-> NoEntry] /\ UNCHANGED <<sess, slot, call>>
  BY DEF EdgeDies, EdgeCrash
<1>2. Typed' /\ CallsOK' /\ SlotsOK'
  BY <1>0, <1>1, EntriesMade
  DEF Typed, EdgeTyped, WireTyped, CallsTyped, SessTyped, SlotsTyped, CallsOK, SlotsOK, Unborn
<1>3. \A x : SameSender(x)
  BY <1>1 DEF SameSender
<1>4. SentOK'
  BY <1>0, <1>1, <1>3, NoMore
<1> QED BY <1>2, <1>4, PartsNext

LEMMA EdgeReturnsKeeps == ASSUME PartsInv, EdgeReturns PROVE PartsInv'
<1>0. Typed /\ SentOK /\ CallsOK /\ SlotsOK
  BY TypedIsTypeOK DEF PartsInv
<1>1. edgeUp' = TRUE /\ UNCHANGED <<entry, fetching, sess, slot, call, rpc>>
  BY DEF EdgeReturns, EdgeRestart
<1>2. Typed' /\ CallsOK' /\ SlotsOK'
  BY <1>0, <1>1
  DEF Typed, EdgeTyped, WireTyped, CallsTyped, SessTyped, SlotsTyped, CallsOK, SlotsOK, Unborn
<1>3. \A x : SameSender(x)
  BY <1>1 DEF SameSender
<1>4. SentOK'
  BY <1>0, <1>1, <1>3, NoMore
<1> QED BY <1>2, <1>4, PartsNext

\* A dead device's requests are nobody's.
LEMMA NodeDiesKeeps == ASSUME PartsInv, NEW n \in Nodes, NodeDies(n) PROVE PartsInv'
<1>0. Typed /\ SentOK /\ CallsOK /\ SlotsOK
  BY TypedIsTypeOK DEF PartsInv
<1> DEFINE R == {x \in rpc : x.node = n => x.reply = "none"}
           dead(s) == [NoSession EXCEPT !.node = n, !.app = sess[s].app]
<1>g. PICK g : g = [m \in Msgs |-> Orphan(m, n)]
  OBVIOUS
<1>1. /\ slot' = [slot EXCEPT ![n] = None]
      /\ call' = [c \in Calls |-> IF call[c].node = n THEN NoCall ELSE call[c]]
      /\ sess' = [s \in Sessions |-> IF sess[s].node = n THEN dead(s) ELSE sess[s]]
      /\ rpc' = {Orphan(m, n) : m \in R}
      /\ fetching' = (IF fetching # None THEN Orphan(fetching, n) ELSE None)
      /\ UNCHANGED <<edgeUp, entry>>
  BY DEF NodeDies
<1>2. \A m \in Msgs : /\ m \in Requests /\ Orphan(m, n) \in Requests
                      /\ Orphan(m, n).src = IF m.node = n THEN None ELSE m.src
                      /\ Orphan(m, n).node = m.node /\ Orphan(m, n).app = m.app
                      /\ Orphan(m, n).dereg = m.dereg /\ Orphan(m, n).reply = m.reply
  <2> SUFFICES ASSUME NEW m \in Msgs
               PROVE  /\ m \in Requests /\ Orphan(m, n) \in Requests
                      /\ Orphan(m, n).src = IF m.node = n THEN None ELSE m.src
                      /\ Orphan(m, n).node = m.node /\ Orphan(m, n).app = m.app
                      /\ Orphan(m, n).dereg = m.dereg /\ Orphan(m, n).reply = m.reply
    OBVIOUS
  <2>1. m \in Requests
    BY <1>0, MsgsTyped DEF Typed
  <2>2. Orphan(m, n) \in Requests
    BY <2>1 DEF Requests, Orphan
  <2>3. /\ Orphan(m, n).src = IF m.node = n THEN None ELSE m.src
        /\ Orphan(m, n).node = m.node /\ Orphan(m, n).app = m.app
        /\ Orphan(m, n).dereg = m.dereg /\ Orphan(m, n).reply = m.reply
    BY <2>1 DEF Requests, Orphan
  <2> QED BY <2>1, <2>2, <2>3
<1>3. \A s \in Sessions :
        IF sess[s].node = n
        THEN /\ dead(s) \in SessionStates /\ dead(s).node = n /\ dead(s).app = sess[s].app
        ELSE sess'[s] = sess[s]
  <2> SUFFICES ASSUME NEW s \in Sessions, sess[s].node = n
               PROVE  /\ dead(s) \in SessionStates /\ dead(s).node = n
                      /\ dead(s).app = sess[s].app
    BY <1>1
  <2>1. NoSession \in SessionStates
    BY Starts, PublishingAssumption DEF NoSession, SessionStates
  <2>2. sess[s].app \in Apps \cup {None}
    BY <1>0 DEF Typed, SessTyped, SessionStates
  <2>3. dead(s) \in SessionStates
    BY <2>1, <2>2 DEF SessionStates
  <2> QED BY <2>3 DEF NoSession
<1> HIDE DEF dead
<1>4. SessTyped' /\ CallsTyped' /\ SlotsTyped' /\ EdgeTyped'
  BY <1>0, <1>1, <1>3, NoCallTyped DEF Typed, SessTyped, CallsTyped, SlotsTyped, EdgeTyped
<1>5. \A s \in Sessions : sess'[s].node = sess[s].node /\ sess'[s].app = sess[s].app
  BY <1>1, <1>3
<1>6. SlotsOK'
  <2>1. \A k \in Nodes : slot'[k] # None => sess'[slot'[k]].node = k
    <3> SUFFICES ASSUME NEW k \in Nodes, slot'[k] # None PROVE sess'[slot'[k]].node = k
      OBVIOUS
    <3>1. slot'[k] = slot[k] /\ slot[k] \in Sessions
      BY <1>0, <1>1 DEF Typed, SlotsTyped
    <3> QED BY <1>0, <1>5, <3>1 DEF SlotsOK
  <2>2. \A s \in Sessions : sess'[s].node = None => Unborn(s)'
    BY <1>0, <1>3, <1>5, EdgeAssumption DEF SlotsOK, Unborn
  <2> QED BY <1>0, <1>5, <2>1, <2>2 DEF SlotsOK
<1>7. CallsOK'
  <2>1. NoCall.stage = "idle" /\ NoCall.then = "idle"
    BY DEF NoCall
  <2>2. \A c \in Calls : call'[c] = NoCall \/ call'[c] = call[c]
    BY <1>1
  <2> QED BY <1>0, <2>1, <2>2 DEF CallsOK
<1>8. R \subseteq Msgs /\ R \in SUBSET rpc
  BY DEF Msgs
<1>9. fetching # None => fetching \in Msgs
  BY DEF Msgs
<1>10. g \in [Msgs -> Requests] /\ \A m \in Msgs : g[m] = Orphan(m, n)
  BY <1>g, <1>2
<1>11. rpc' = {g[m] : m \in R}
  BY <1>1, <1>8, <1>10
<1>12. fetching' = IF fetching # None THEN g[fetching] ELSE None
  BY <1>1, <1>9, <1>10
<1>13. \A m \in Msgs : g[m].src # None => SameSender(m.src)
  <2> SUFFICES ASSUME NEW m \in Msgs, g[m].src # None PROVE SameSender(m.src)
    OBVIOUS
  <2>1. m.node # n /\ m.src # None
    BY <1>2, <1>10
  <2>2. FromSender(m)
    BY <1>0, <2>1 DEF SentOK
  <2> QED BY <1>1, <1>3, <2>1, <2>2, PublishingAssumption DEF FromSender, SameSender
<1>14. \A m \in Msgs : /\ g[m].src \in {m.src, None} /\ g[m].node = m.node
                       /\ g[m].app = m.app /\ g[m].dereg = m.dereg /\ g[m].reply = m.reply
  BY <1>2, <1>10
<1>15. \A m \in R : m.reply # "none" => g[m].src = m.src
  BY <1>2, <1>8, <1>10
<1> HIDE DEF R
<1>16. SentOK' /\ WireTyped'
  BY <1>0, <1>8, <1>10, <1>11, <1>12, <1>13, <1>14, <1>15, Mapped DEF Typed
<1> QED BY <1>4, <1>6, <1>7, <1>16, PartsNext DEF Typed

\* Ages are bounded, and below the bound they count the time.
LEMMA OlderBound ==
    ASSUME NEW b \in Nat, NEW a \in 0..(b + 1)
    PROVE  /\ Older(a, b) \in 0..(b + 1)
           /\ a <= b => Older(a, b) = a + 1
           /\ Older(a, b) <= a + 1 /\ a <= Older(a, b)
BY DEF Older

LEMMA MaxAgeNat == MaxAge \in Nat /\ MaxAge >= RpcTimeout
BY PublishingAssumption, EdgeAssumption DEF MaxAge

\* A second more on an entry, a session, a command, a request.
LEMMA TickTimes ==
    ASSUME Typed, Tick
    PROVE  /\ \A a \in Apps : /\ entry'[a] \in Entry /\ entry'[a].peer = entry[a].peer
                              /\ entry'[a].age <= entry[a].age + 1
           /\ \A s \in Sessions :
                 /\ sess'[s] \in SessionStates
                 /\ sess[s].beat = "sleep" => sess'[s].wait = sess[s].wait - 1
                 /\ sess'[s].node = sess[s].node /\ sess'[s].app = sess[s].app
                 /\ sess'[s].held = sess[s].held /\ sess'[s].running = sess[s].running
                 /\ sess'[s].handler = sess[s].handler /\ sess'[s].beat = sess[s].beat
                 /\ sess'[s].missed = sess[s].missed
           /\ \A c \in Calls :
                 /\ call'[c] \in CallStates
                 /\ call'[c].stage = call[c].stage /\ call'[c].then = call[c].then
                 /\ call'[c].node = call[c].node /\ call'[c].app = call[c].app
                 /\ call'[c].session = call[c].session
           /\ \A m \in Requests :
                 LET q == [m EXCEPT !.age = Older(@, MaxAge)] IN
                 /\ q \in Requests /\ q.age = Older(m.age, MaxAge)
                 /\ q.src = m.src /\ q.node = m.node
                 /\ q.app = m.app /\ q.dereg = m.dereg /\ q.reply = m.reply
           /\ \A a \in Apps : entry[a].peer # None => entry'[a].age = Older(entry[a].age, TTL)
<1>1. \A a \in Apps : /\ entry'[a] \in Entry /\ entry'[a].peer = entry[a].peer
                      /\ entry'[a].age <= entry[a].age + 1
                      /\ entry[a].peer # None => entry'[a].age = Older(entry[a].age, TTL)
  <2> SUFFICES ASSUME NEW a \in Apps
               PROVE  /\ entry'[a] \in Entry /\ entry'[a].peer = entry[a].peer
                      /\ entry'[a].age <= entry[a].age + 1
                      /\ entry[a].peer # None => entry'[a].age = Older(entry[a].age, TTL)
    OBVIOUS
  <2>1. entry[a] \in Entry /\ entry[a].age \in 0..(TTL + 1)
    BY DEF Typed, EdgeTyped, Entry
  <2>2. CASE entry[a].peer = None
    <3>1. entry'[a] = NoEntry
      BY <2>2 DEF Tick, AgeEntries
    <3>2. NoEntry.peer = None /\ NoEntry.age = 0
      BY DEF NoEntry
    <3>3. 0 <= entry[a].age + 1
      BY <2>1
    <3> QED BY <2>2, <3>1, <3>2, <3>3, EntriesMade
  <2>3. CASE entry[a].peer # None
    <3> DEFINE k == Older(entry[a].age, TTL)
    <3>1. entry'[a] = [entry[a] EXCEPT !.age = k]
      BY <2>3 DEF Tick, AgeEntries
    <3>2. k \in 0..(TTL + 1) /\ k <= entry[a].age + 1
      BY <2>1, OlderBound, EdgeAssumption
    <3> HIDE DEF k
    <3>3. entry'[a] \in Entry
      BY <2>1, <3>1, <3>2 DEF Entry
    <3>4. entry'[a].peer = entry[a].peer /\ entry'[a].age = k
      BY <2>1, <3>1 DEF Entry
    <3> QED BY <3>2, <3>3, <3>4 DEF k
  <2> QED BY <2>2, <2>3
<1>2. ASSUME NEW s \in Sessions
      PROVE  /\ sess'[s] \in SessionStates
             /\ sess[s].beat = "sleep" => sess'[s].wait = sess[s].wait - 1
             /\ sess'[s].node = sess[s].node /\ sess'[s].app = sess[s].app
             /\ sess'[s].held = sess[s].held /\ sess'[s].running = sess[s].running
             /\ sess'[s].handler = sess[s].handler /\ sess'[s].beat = sess[s].beat
             /\ sess'[s].missed = sess[s].missed
  <2> DEFINE w == IF sess[s].beat = "sleep" THEN sess[s].wait - 1 ELSE sess[s].wait
             Waits == 0..Interval
             Misses == 0..(Tolerated + 1)
  <2>1. SessionStates = [node: Nodes \cup {None}, app: Apps \cup {None}, held: BOOLEAN,
                         running: BOOLEAN, handler: BOOLEAN, beat: {"none", "sleep", "send"},
                         wait: Waits, missed: Misses]
    BY DEF SessionStates
  <2>2. sess[s] \in SessionStates /\ sess[s].wait \in 0..Interval
    BY DEF Typed, SessTyped, SessionStates
  <2>3. sess[s].beat = "sleep" => sess[s].wait # 0
    BY DEF Tick, Due
  <2>4. w \in Waits
    BY <2>2, <2>3, PublishingAssumption
  <2>5. sess'[s] = [sess[s] EXCEPT !.wait = w]
    BY DEF Tick
  <2>6. sess[s].beat = "sleep" => w = sess[s].wait - 1
    OBVIOUS
  <2> HIDE DEF w, Waits, Misses
  <2>7. sess'[s] \in SessionStates
    BY <2>1, <2>2, <2>4, <2>5
  <2>8. /\ sess'[s].node = sess[s].node /\ sess'[s].app = sess[s].app
        /\ sess'[s].held = sess[s].held /\ sess'[s].running = sess[s].running
        /\ sess'[s].handler = sess[s].handler /\ sess'[s].beat = sess[s].beat
        /\ sess'[s].missed = sess[s].missed /\ sess'[s].wait = w
    BY <2>1, <2>2, <2>5
  <2> QED BY <2>6, <2>7, <2>8
<1>3. ASSUME NEW c \in Calls
      PROVE  /\ call'[c] \in CallStates
             /\ call'[c].stage = call[c].stage /\ call'[c].then = call[c].then
             /\ call'[c].node = call[c].node /\ call'[c].app = call[c].app
             /\ call'[c].session = call[c].session
  <2> DEFINE w == IF call[c].stage = "terminate" THEN call[c].wait - 1 ELSE call[c].wait
             Waits == 0..StopWait
  <2>1. CallStates = [stage: {"idle", "take", "dereg", "terminate", "load", "register"},
                      then: {"idle", "load"}, node: Nodes \cup {None}, app: Apps \cup {None},
                      session: Sessions \cup {None}, wait: Waits]
    BY DEF CallStates
  <2>2. call[c] \in CallStates /\ call[c].wait \in 0..StopWait
    BY DEF Typed, CallsTyped, CallStates
  <2>3. call[c].stage = "terminate" => call[c].wait # 0
    BY DEF Tick, Due
  <2>4. w \in Waits
    BY <2>2, <2>3, PublishingAssumption
  <2>5. call'[c] = [call[c] EXCEPT !.wait = w]
    BY DEF Tick
  <2> HIDE DEF w, Waits
  <2>6. call'[c] \in CallStates
    BY <2>1, <2>2, <2>4, <2>5
  <2> QED BY <2>1, <2>2, <2>5, <2>6
<1>4. ASSUME NEW m \in Requests
      PROVE  LET q == [m EXCEPT !.age = Older(@, MaxAge)] IN
             /\ q \in Requests /\ q.age = Older(m.age, MaxAge)
             /\ q.src = m.src /\ q.node = m.node
             /\ q.app = m.app /\ q.dereg = m.dereg /\ q.reply = m.reply
  <2> DEFINE k == Older(m.age, MaxAge)
  <2>1. m.age \in 0..(MaxAge + 1)
    BY DEF Requests
  <2>2. k \in 0..(MaxAge + 1)
    BY <2>1, OlderBound, MaxAgeNat
  <2> HIDE DEF k
  <2>3. [m EXCEPT !.age = k] \in Requests
    BY <2>2 DEF Requests
  <2>4. LET q == [m EXCEPT !.age = k] IN
        /\ q.age = k /\ q.src = m.src /\ q.node = m.node
        /\ q.app = m.app /\ q.dereg = m.dereg /\ q.reply = m.reply
    BY DEF Requests
  <2> QED BY <2>3, <2>4 DEF k
<1> QED BY <1>1, <1>2, <1>3, <1>4

\* Time keeps the parts together.
LEMMA TickKeeps == ASSUME PartsInv, Tick PROVE PartsInv'
<1>0. Typed /\ SentOK /\ CallsOK /\ SlotsOK
  BY TypedIsTypeOK DEF PartsInv
<1> DEFINE Later(m) == [m EXCEPT !.age = Older(@, MaxAge)]
<1>g. PICK g : g = [m \in Msgs |-> Later(m)]
  OBVIOUS
<1>1. /\ entry' = [a \in Apps |-> entry'[a]] /\ sess' = [s \in Sessions |-> sess'[s]]
      /\ call' = [c \in Calls |-> call'[c]] /\ UNCHANGED <<edgeUp, slot>>
      /\ rpc' = {Later(m) : m \in rpc}
      /\ fetching' = (IF fetching # None THEN Later(fetching) ELSE None)
  BY DEF Tick, AgeEntries
<1>2. Msgs \subseteq Requests
  BY <1>0, MsgsTyped DEF Typed
<1>3. \A m \in Msgs : /\ Later(m) \in Requests /\ Later(m).src = m.src
                      /\ Later(m).node = m.node /\ Later(m).app = m.app
                      /\ Later(m).dereg = m.dereg /\ Later(m).reply = m.reply
  BY <1>0, <1>2, TickTimes
<1> HIDE DEF Later
<1>4. /\ \A a \in Apps : entry'[a] \in Entry
      /\ \A s \in Sessions :
            /\ sess'[s] \in SessionStates
            /\ sess'[s].node = sess[s].node /\ sess'[s].app = sess[s].app
            /\ sess'[s].held = sess[s].held /\ sess'[s].running = sess[s].running
            /\ sess'[s].handler = sess[s].handler /\ sess'[s].beat = sess[s].beat
      /\ \A c \in Calls :
            /\ call'[c] \in CallStates
            /\ call'[c].stage = call[c].stage /\ call'[c].then = call[c].then
            /\ call'[c].node = call[c].node /\ call'[c].app = call[c].app
            /\ call'[c].session = call[c].session
  BY <1>0, TickTimes
<1>5. EdgeTyped' /\ SessTyped' /\ CallsTyped' /\ SlotsTyped'
  BY <1>0, <1>1, <1>4 DEF Typed, EdgeTyped, SessTyped, CallsTyped, SlotsTyped
<1>6. CallsOK'
  BY <1>0, <1>4 DEF CallsOK
<1>7. SlotsOK'
  <2>1. \A n \in Nodes : slot'[n] # None => sess'[slot'[n]].node = n
    <3> SUFFICES ASSUME NEW n \in Nodes, slot[n] # None PROVE sess'[slot[n]].node = n
      BY <1>1
    <3>1. slot[n] \in Sessions
      BY <1>0 DEF Typed, SlotsTyped
    <3> QED BY <1>0, <1>4, <3>1 DEF SlotsOK
  <2>2. \A s \in Sessions : IF sess'[s].node = None THEN Unborn(s)' ELSE sess'[s].app \in Apps
    BY <1>0, <1>4 DEF SlotsOK, Unborn
  <2> QED BY <2>1, <2>2 DEF SlotsOK
<1>8. g \in [Msgs -> Requests] /\ \A m \in Msgs : g[m] = Later(m)
  BY <1>g, <1>3
<1>9. rpc \subseteq Msgs /\ (fetching # None => fetching \in Msgs)
  BY DEF Msgs
<1>10. rpc' = {g[m] : m \in rpc}
  BY <1>1, <1>8, <1>9
<1>11. fetching' = IF fetching # None THEN g[fetching] ELSE None
  BY <1>1, <1>8, <1>9
<1>12. \A x \in Senders : SameSender(x)
  BY <1>4 DEF SameSender
<1>13. \A m \in Msgs : /\ g[m].src \in {m.src, None} /\ g[m].node = m.node
                       /\ g[m].app = m.app /\ g[m].dereg = m.dereg /\ g[m].reply = m.reply
                       /\ g[m].src # None => SameSender(m.src)
  BY <1>0, <1>3, <1>8, <1>12, SenderWaits
<1>14. \A m \in rpc : m.reply # "none" => g[m].src = m.src
  BY <1>3, <1>8, <1>9
<1>15. SentOK' /\ WireTyped'
  BY <1>0, <1>8, <1>10, <1>11, <1>13, <1>14, Mapped DEF Typed
<1> QED BY <1>5, <1>6, <1>7, <1>15, PartsNext DEF Typed

LEMMA PartsStutter == ASSUME PartsInv, UNCHANGED vars PROVE PartsInv'
BY DEF vars, edgeVars, PartsInv, TypeOK, SentOK, Msgs, FromSender, CallsOK, SlotsOK, Unborn

\* They fit together at the start,
LEMMA PartsInit == Init => PartsInv
<1> SUFFICES ASSUME Init PROVE PartsInv
  OBVIOUS
<1>1. /\ sess = [s \in Sessions |-> NoSession] /\ slot = [n \in Nodes |-> None]
      /\ call = [c \in Calls |-> NoCall] /\ rpc = {} /\ fetching = None
      /\ edgeUp = TRUE /\ entry = [a \in Apps |-> NoEntry]
  BY DEF Init, EdgeInit
<1>2. NoSession \in SessionStates
  BY Starts, PublishingAssumption DEF NoSession, SessionStates
<1>3. Typed
  BY <1>1, <1>2, NoCallTyped, EntriesMade
  DEF Typed, EdgeTyped, WireTyped, SlotsTyped, SessTyped, CallsTyped
<1>4. SentOK
  BY <1>1 DEF SentOK, Msgs
<1>5. CallsOK
  <2>1. NoCall.stage = "idle" /\ NoCall.then = "idle"
    BY DEF NoCall
  <2> QED BY <1>1, <2>1 DEF CallsOK
<1>6. SlotsOK
  BY <1>1 DEF SlotsOK, Unborn, NoSession
<1> QED BY <1>3, <1>4, <1>5, <1>6, TypedIsTypeOK DEF PartsInv

\* and after every step.
LEMMA PartsStep == PartsInv /\ [Next]_vars => PartsInv'
<1> SUFFICES ASSUME PartsInv, [Next]_vars PROVE PartsInv'
  OBVIOUS
<1>1. ASSUME NEW c \in Calls, NEW n \in Nodes, BeginStop(c, n) PROVE PartsInv'
  BY <1>1, BeginStopKeeps
<1>2. ASSUME NEW c \in Calls, NEW n \in Nodes, NEW a \in Apps, BeginStart(c, n, a)
      PROVE PartsInv'
  BY <1>2, BeginStartKeeps
<1>3. ASSUME NEW c \in Calls, CallStep(c) PROVE PartsInv'
  BY <1>3, TakeKeeps, ReleaseKeeps, RegisterKeeps, StartFailsKeeps DEF CallStep
<1>4. ASSUME NEW s \in Sessions, TaskStep(s) PROVE PartsInv'
  BY <1>4, HandlerEndsKeeps, BeatEndsKeeps, BeatKeeps DEF TaskStep
<1>5. ASSUME NEW src \in Senders, GiveUp(src) PROVE PartsInv'
  BY <1>5, GiveUpKeeps
<1>6. ASSUME NEW m \in rpc, Deliver(m) \/ Lose(m) PROVE PartsInv'
  BY <1>6, DeliverKeeps, LoseKeeps
<1>7. CASE EdgeStep
  BY <1>7, EdgePinsKeeps, EdgeReturnsKeeps, EdgeHandlesKeeps DEF EdgeStep
<1>8. CASE EdgeRefuses
  BY <1>8, EdgeRefusesKeeps
<1>9. CASE EdgeDies
  BY <1>9, EdgeDiesKeeps
<1>10. ASSUME NEW n \in Nodes, NodeDies(n) PROVE PartsInv'
  BY <1>10, NodeDiesKeeps
<1>11. CASE Tick
  BY <1>11, TickKeeps
<1>12. CASE UNCHANGED vars
  BY <1>12, PartsStutter
<1> QED BY <1>1, <1>2, <1>3, <1>4, <1>5, <1>6, <1>7, <1>8, <1>9, <1>10, <1>11, <1>12 DEF Next

\* The sessions, the commands and what is on the wire fit together.
THEOREM PublishingInvariant == Spec => []PartsInv
BY PartsInit, PartsStep, PTL DEF Spec

\* The sessions of serve.rs, the commands of the daemon and the requests to the
\* edge stay well typed in every behaviour, for any devices, apps, sessions,
\* timers, losses and crashes.
THEOREM PublishingTyped == Spec => []TypeOK
<1>1. PartsInv => TypeOK
  BY DEF PartsInv
<1> QED BY <1>1, PublishingInvariant, PTL

-----------------------------------------------------------------------------
(* A session keeps its route.                                               *)

\* One publisher device, and a lifetime that outlasts the tolerated misses:
\* each costs an interval and a timeout, and the first answer may be as late.
OneDevice == \A n, k \in Nodes : n = k

Timely == RpcTimeout + (Tolerated + 1) * (Interval + RpcTimeout) <= TTL

\* No process has died.
Undisturbed == budget.crashes = Crashes

\* No session was stopped or replaced.
Serving == \A s \in Sessions : sess[s].node = None \/ InSlot(s)

\* How old the entry of a session can be at the answer to its last heartbeat.
Bound(k) == RpcTimeout + k * (Interval + RpcTimeout)

\* A sleeping session will have beaten in time, a beating one is in time.
Leased(s) ==
    LET age == entry[sess[s].app].age
        k == sess[s].missed
    IN  /\ sess[s].beat = "sleep" => age + sess[s].wait <= Bound(k) + Interval
        /\ sess[s].beat = "send" =>
               /\ age <= Bound(k) + Interval + RpcTimeout
               /\ \A m \in Msgs : m.src = s => age <= Bound(k) + Interval + m.age

\* No session is being stopped.
NoneLeaves ==
    /\ \A m \in Msgs : ~m.dereg
    /\ \A c \in Calls : call[c].stage \notin {"dereg", "terminate"}

\* While an acceptance travels, the mapping it acknowledges is younger than it.
OksAreFresh ==
    \A m \in rpc : m.reply = "ok" =>
        /\ entry[m.app].peer = m.node
        /\ entry[m.app].age <= m.age

\* A session that serves is the one its app is mapped to, and is in time.
Routed(s) ==
    /\ sess[s].held /\ sess[s].running /\ sess[s].handler /\ sess[s].beat # "none"
    /\ entry[sess[s].app].peer = sess[s].node
    /\ sess[s].missed <= Tolerated => Leased(s)

\* All this, while every session that was started serves.
ServedOK == NoneLeaves /\ OksAreFresh /\ \A s \in Sessions : InSlot(s) => Routed(s)

\* Nobody waits longer than the timeout.
InTime == \A m \in Msgs : m.src # None => m.age <= RpcTimeout

\* The bounds that count losses and crashes.
BudgetOK == budget \in [losses: Nat, crashes: 0..Crashes]

\* The inductive invariant of the leases.
LeaseInv == BudgetOK /\ (Undisturbed => edgeUp /\ InTime /\ (Serving => ServedOK))

\* The bound grows by an interval and a timeout with each miss,
LEMMA BoundFacts ==
    /\ Bound(0) = RpcTimeout
    /\ \A k \in Nat : /\ Bound(k) \in Nat /\ Bound(k) >= RpcTimeout
                      /\ Bound(k + 1) = Bound(k) + Interval + RpcTimeout
<1> DEFINE X == Interval + RpcTimeout
<1>1. X \in Nat /\ RpcTimeout \in Nat /\ Interval \in Nat
  BY PublishingAssumption
<1>2. \A k \in Nat : k * X \in Nat /\ (k + 1) * X = k * X + X /\ 0 * X = 0
  BY <1>1
<1>3. \A k \in Nat : Bound(k) = RpcTimeout + k * X
  BY DEF Bound
<1> QED BY <1>1, <1>2, <1>3

\* and with no more than the tolerated ones stays within the lifetime.
LEMMA BoundHolds ==
    ASSUME Timely, NEW k \in Nat, k <= Tolerated
    PROVE  Bound(k) + Interval + RpcTimeout <= TTL
<1> DEFINE X == Interval + RpcTimeout
<1>1. X \in Nat /\ RpcTimeout \in Nat /\ Interval \in Nat /\ Tolerated \in Nat
  BY PublishingAssumption
<1>2. k * X <= Tolerated * X /\ k * X \in Nat /\ Tolerated * X \in Nat
  BY <1>1
<1>3. (Tolerated + 1) * X = Tolerated * X + X
  BY <1>1
<1>4. Bound(k) = RpcTimeout + k * X /\ RpcTimeout + (Tolerated + 1) * X <= TTL
  BY DEF Bound, Timely
<1> QED BY <1>1, <1>2, <1>3, <1>4, EdgeAssumption

\* The property, for a session that was not stopped while nothing died.
LEMMA LeasedIsRouted ==
    ASSUME PartsInv, LeaseInv, Timely, Undisturbed, Serving
    PROVE  LiveSessionIsRoutable
<1> SUFFICES ASSUME NEW s \in Sessions, Live(s), sess[s].missed <= Tolerated
             PROVE  Resolve(sess[s].app) = sess[s].node
  BY DEF LiveSessionIsRoutable
<1>0. Typed /\ SentOK /\ CallsOK /\ SlotsOK
  BY TypedIsTypeOK DEF PartsInv
<1>1. InSlot(s) /\ Routed(s) /\ sess[s].node # None
  BY DEF Live, InSlot, LeaseInv, ServedOK
<1>2. sess[s].app \in Apps
  BY <1>0, <1>1 DEF SlotsOK
<1> DEFINE k == sess[s].missed
           age == entry[sess[s].app].age
           w == sess[s].wait
<1>3. k \in Nat /\ age \in Nat /\ w \in Nat /\ sess[s].beat \in {"none", "sleep", "send"}
  <2>1. k \in 0..(Tolerated + 1) /\ w \in 0..Interval /\ sess[s].beat \in {"none", "sleep", "send"}
    BY <1>0 DEF Typed, SessTyped, SessionStates
  <2>2. age \in 0..(TTL + 1)
    BY <1>0, <1>2 DEF Typed, EdgeTyped, Entry
  <2> QED BY <2>1, <2>2
<1>4. age <= Bound(k) + Interval + RpcTimeout
  <2>1. CASE sess[s].beat = "sleep"
    <3>1. age + w <= Bound(k) + Interval
      BY <1>1, <2>1 DEF Routed, Leased
    <3>2. Bound(k) \in Nat /\ RpcTimeout \in Nat /\ Interval \in Nat
      BY <1>3, BoundFacts, PublishingAssumption
    <3> HIDE DEF age, k, w
    <3> QED BY <1>3, <3>1, <3>2
  <2>2. CASE sess[s].beat = "send"
    BY <1>1, <2>2 DEF Routed, Leased
  <2> QED BY <1>1, <1>3, <2>1, <2>2 DEF Routed
<1>5. Bound(k) + Interval + RpcTimeout <= TTL
  BY <1>3, BoundHolds
<1>6. age <= TTL
  <2>1. Bound(k) \in Nat /\ RpcTimeout \in Nat /\ Interval \in Nat /\ TTL \in Nat
    BY <1>3, BoundFacts, PublishingAssumption, EdgeAssumption
  <2> HIDE DEF age, k
  <2> QED BY <1>3, <1>4, <1>5, <2>1
<1> QED BY <1>1, <1>6 DEF Resolve, Routed

\* What the types say of each mapping, request and session.
LEMMA AgesAreNumbers ==
    ASSUME Typed
    PROVE  /\ \A a \in Apps : entry[a].age \in Nat /\ entry[a].peer \in Nodes \cup {None}
           /\ \A m \in Msgs : /\ m.age \in Nat /\ m.app \in Apps /\ m.node \in Nodes
                              /\ m.src \in Senders \cup {None}
           /\ \A s \in Sessions : /\ sess[s].wait \in Nat /\ sess[s].missed \in Nat
                                  /\ sess[s].missed \in 0..(Tolerated + 1)
                                  /\ sess[s].node \in Nodes \cup {None}
                                  /\ sess[s].app \in Apps \cup {None}
                                  /\ sess[s].beat \in {"none", "sleep", "send"}
<1>1. \A a \in Apps : entry[a].age \in 0..(TTL + 1) /\ entry[a].peer \in Nodes \cup {None}
  BY DEF Typed, EdgeTyped, Entry
<1>2. \A m \in Msgs : /\ m.age \in 0..(MaxAge + 1) /\ m.app \in Apps /\ m.node \in Nodes
                      /\ m.src \in Senders \cup {None}
  BY MsgsTyped DEF Typed, Requests
<1>3. \A s \in Sessions : /\ sess[s].wait \in 0..Interval
                          /\ sess[s].missed \in 0..(Tolerated + 1)
                          /\ sess[s].node \in Nodes \cup {None}
                          /\ sess[s].app \in Apps \cup {None}
                          /\ sess[s].beat \in {"none", "sleep", "send"}
  BY DEF Typed, SessTyped, SessionStates
<1> QED BY <1>1, <1>2, <1>3

\* The parts of the invariant, before
LEMMA PartsTyped == ASSUME PartsInv PROVE Typed /\ SentOK /\ CallsOK /\ SlotsOK
BY TypedIsTypeOK DEF PartsInv

\* and after a step.
LEMMA TypedNext == ASSUME PartsInv' PROVE Typed' /\ SentOK' /\ CallsOK' /\ SlotsOK'
BY DEF PartsInv, TypeOK, Typed, EdgeTyped, WireTyped, SlotsTyped, SessTyped, CallsTyped,
       SessionStates, CallStates

\* A session that no step touches stays routed while its entry gets no older.
LEMMA RoutedStays ==
    ASSUME Typed, Typed', SlotsOK, NEW s \in Sessions, InSlot(s), Routed(s), sess'[s] = sess[s],
           entry'[sess[s].app].peer = entry[sess[s].app].peer,
           entry'[sess[s].app].age <= entry[sess[s].app].age,
           \A q \in Msgs' : q.src = s => \E m \in Msgs : m.src = s /\ m.age = q.age
    PROVE  Routed(s)'
<1> DEFINE app == sess[s].app
           k == sess[s].missed
           w == sess[s].wait
           old == entry[app].age
           new == entry'[app].age
           b == Bound(k)
<1>1. app \in Apps
  BY DEF SlotsOK, InSlot
<1>2. old \in Nat /\ new \in Nat /\ w \in Nat /\ k \in Nat
  <2>1. Typed /\ (\A a \in Apps : entry[a].age \in Nat)
                /\ \A x \in Sessions : sess[x].wait \in Nat /\ sess[x].missed \in Nat
    BY AgesAreNumbers
  <2>2. new \in 0..(TTL + 1)
    BY <1>1 DEF Typed, EdgeTyped, Entry
  <2> QED BY <1>1, <2>1, <2>2
<1>3. b \in Nat /\ Interval \in Nat /\ RpcTimeout \in Nat
  BY <1>2, BoundFacts, PublishingAssumption
<1>4. new <= old
  OBVIOUS
<1>5. sess'[s].missed <= Tolerated => Leased(s)'
  <2> SUFFICES ASSUME k <= Tolerated PROVE Leased(s)'
    OBVIOUS
  <2>1. Leased(s)
    BY DEF Routed
  <2>2. /\ sess[s].beat = "sleep" => old + w <= b + Interval
        /\ sess[s].beat = "send" =>
               /\ old <= b + Interval + RpcTimeout
               /\ \A m \in Msgs : m.src = s => old <= b + Interval + m.age
    BY <2>1 DEF Leased
  <2>3. sess[s].beat = "sleep" => new + w <= b + Interval
    <3> HIDE DEF old, new, w, b
    <3> QED BY <1>2, <1>3, <1>4, <2>2
  <2>4. sess[s].beat = "send" => new <= b + Interval + RpcTimeout
    <3> HIDE DEF old, new, w, b
    <3> QED BY <1>2, <1>3, <1>4, <2>2
  <2>5. ASSUME sess[s].beat = "send", NEW q \in Msgs', q.src = s
        PROVE  new <= b + Interval + q.age
    <3>1. PICK m \in Msgs : m.src = s /\ m.age = q.age
      BY <2>5
    <3>2. old <= b + Interval + m.age /\ m.age \in Nat
      BY <2>2, <2>5, <3>1, AgesAreNumbers
    <3> HIDE DEF old, new, b
    <3> QED BY <1>2, <1>3, <1>4, <3>1, <3>2
  <2>6. Bound(sess'[s].missed) = b
    OBVIOUS
  <2> QED BY <2>3, <2>4, <2>5, <2>6 DEF Leased
<1> QED BY <1>5 DEF Routed

\* A step that stops no session and lets no entry age.
LEMMA Quietly ==
    ASSUME PartsInv, PartsInv', LeaseInv, BudgetOK', budget'.crashes = budget.crashes,
           UNCHANGED <<edgeUp, slot>>, \A s \in Sessions : sess'[s].node = sess[s].node,
           \A q \in Msgs' : \/ \E m \in Msgs : /\ q.src \in {m.src, None}
                                               /\ q.dereg = m.dereg /\ q.age = m.age
                            \/ ~q.dereg /\ q.age = 0,
           Serving /\ ServedOK =>
             /\ \A c \in Calls : call'[c].stage \notin {"dereg", "terminate"}
             /\ \A a \in Apps : entry[a].peer # None =>
                    entry'[a].peer = entry[a].peer /\ entry'[a].age <= entry[a].age
             /\ \A q \in rpc' : q.reply = "ok" =>
                    \/ entry'[q.app].peer = q.node /\ entry'[q.app].age = 0
                    \/ \E m \in rpc : /\ m.reply = "ok" /\ m.app = q.app
                                      /\ m.node = q.node /\ m.age = q.age
             /\ \A s \in Sessions : InSlot(s) =>
                    \/ Routed(s)'
                    \/ /\ sess'[s] = sess[s]
                       /\ \A q \in Msgs' : q.src = s => \E m \in Msgs : m.src = s /\ m.age = q.age
    PROVE  LeaseInv'
<1> SUFFICES ASSUME Undisturbed' PROVE edgeUp' /\ InTime' /\ (Serving' => ServedOK')
  BY DEF LeaseInv
<1>0. Typed /\ SlotsOK /\ Typed'
  BY PartsTyped, TypedNext
<1>1. Undisturbed /\ edgeUp /\ InTime /\ (Serving => ServedOK)
  BY DEF LeaseInv, Undisturbed
<1>2. InTime'
  BY <1>1, PublishingAssumption DEF InTime
<1>3. \A s \in Sessions : InSlot(s)' => InSlot(s)
  BY DEF InSlot
<1>4. ASSUME Serving' PROVE ServedOK'
  <2>1. Serving /\ ServedOK
    BY <1>1, <1>4 DEF Serving, InSlot
  <2>2. NoneLeaves'
    BY <2>1 DEF ServedOK, NoneLeaves
  <2>3. OksAreFresh'
    <3> SUFFICES ASSUME NEW q \in rpc', q.reply = "ok"
                 PROVE  entry'[q.app].peer = q.node /\ entry'[q.app].age <= q.age
      BY DEF OksAreFresh
    <3>1. q \in Requests
      BY <1>0 DEF Typed, WireTyped
    <3>2. q.app \in Apps /\ q.node \in Nodes /\ q.age \in 0..(MaxAge + 1)
      BY <3>1 DEF Requests
    <3>3. CASE entry'[q.app].peer = q.node /\ entry'[q.app].age = 0
      BY <3>2, <3>3
    <3>4. ASSUME NEW m \in rpc, m.reply = "ok", m.app = q.app, m.node = q.node, m.age = q.age
          PROVE  entry'[q.app].peer = q.node /\ entry'[q.app].age <= q.age
      <4>1. entry[q.app].peer = q.node /\ entry[q.app].age <= q.age
        BY <2>1, <3>4 DEF ServedOK, OksAreFresh
      <4>2. entry[q.app].peer # None
        BY <4>1, <3>2, EdgeAssumption
      <4>3. entry'[q.app].peer = q.node /\ entry'[q.app].age <= entry[q.app].age
        BY <2>1, <3>2, <4>1, <4>2
      <4>4. entry[q.app].age \in 0..(TTL + 1) /\ entry'[q.app].age \in 0..(TTL + 1)
        BY <1>0, <3>2 DEF Typed, EdgeTyped, Entry
      <4> QED BY <3>2, <4>1, <4>3, <4>4
    <3> QED BY <2>1, <3>3, <3>4
  <2>4. ASSUME NEW s \in Sessions, InSlot(s)' PROVE Routed(s)'
    <3>1. InSlot(s) /\ Routed(s)
      BY <1>3, <2>1, <2>4 DEF ServedOK
    <3>2. CASE /\ sess'[s] = sess[s]
               /\ \A q \in Msgs' : q.src = s => \E m \in Msgs : m.src = s /\ m.age = q.age
      <4>1. sess[s].app \in Apps /\ entry[sess[s].app].peer # None
        BY <1>0, <3>1 DEF SlotsOK, InSlot, Routed
      <4>2. /\ entry'[sess[s].app].peer = entry[sess[s].app].peer
            /\ entry'[sess[s].app].age <= entry[sess[s].app].age
        BY <2>1, <4>1
      <4> QED BY <1>0, <3>1, <3>2, <4>2, RoutedStays
    <3> QED BY <2>1, <3>1, <3>2
  <2> QED BY <2>2, <2>3, <2>4 DEF ServedOK
<1> QED BY <1>1, <1>2, <1>4

\* A loss is counted, and is no crash.
LEMMA LossCounted ==
    ASSUME BudgetOK, budget.losses > 0, budget' = [budget EXCEPT !.losses = @ - 1]
    PROVE  BudgetOK' /\ budget'.crashes = budget.crashes
<1>1. budget.losses \in Nat /\ budget.losses - 1 \in Nat
  BY DEF BudgetOK
<1> DEFINE k == budget.losses - 1
           C == 0..Crashes
<1>2. budget' = [budget EXCEPT !.losses = k] /\ k \in Nat
  BY <1>1
<1>3. BudgetOK <=> budget \in [losses: Nat, crashes: C]
  BY DEF BudgetOK
<1> HIDE DEF k, C
<1>4. budget' \in [losses: Nat, crashes: C] /\ budget'.crashes = budget.crashes
  BY <1>2, <1>3
<1> QED BY <1>4 DEF BudgetOK, C

\* A step that leaves a session outside its slot.
LEMMA Unserved ==
    ASSUME LeaseInv, BudgetOK', budget'.crashes = budget.crashes, UNCHANGED edgeUp, ~Serving',
           \A q \in Msgs' : \/ \E m \in Msgs : q.src \in {m.src, None} /\ q.age = m.age
                            \/ q.age = 0
    PROVE  LeaseInv'
<1>1. Undisturbed' => Undisturbed
  BY DEF Undisturbed
<1>2. InTime => InTime'
  BY PublishingAssumption DEF InTime
<1> QED BY <1>1, <1>2 DEF LeaseInv

\* A command that neither sends nor stops anything.
LEMMA CallOnly ==
    ASSUME PartsInv, PartsInv', LeaseInv, UNCHANGED <<edgeVars, sess, slot, rpc, budget>>,
           \A d \in Calls : call'[d] = call[d] \/ call'[d].stage \notin {"dereg", "terminate"}
    PROVE  LeaseInv'
<1>1. BudgetOK' /\ Msgs' = Msgs
  BY DEF LeaseInv, BudgetOK, Msgs, edgeVars
<1>2. Serving /\ ServedOK => \A d \in Calls : call'[d].stage \notin {"dereg", "terminate"}
  BY DEF ServedOK, NoneLeaves
<1>3. \A a \in Apps : entry'[a] = entry[a] /\ entry[a].age <= entry[a].age
  BY PartsTyped, AgesAreNumbers DEF edgeVars
<1> QED BY <1>1, <1>2, <1>3, Quietly DEF edgeVars

\* The steps of start_serve_session and stop_serve_session keep the leases.
LEMMA BeginStartLease ==
    ASSUME PartsInv, PartsInv', LeaseInv, NEW c \in Calls, NEW n \in Nodes, NEW a \in Apps,
           BeginStart(c, n, a)
    PROVE  LeaseInv'
<1> DEFINE st == IF slot[n] # None THEN "take" ELSE "load"
           r == [NoCall EXCEPT !.stage = st, !.then = "load", !.node = n, !.app = a]
<1>1. call' = [call EXCEPT ![c] = r] /\ UNCHANGED <<edgeVars, sess, slot, rpc, budget>>
  BY DEF BeginStart
<1>2. st \in {"take", "load"}
  OBVIOUS
<1> HIDE DEF st
<1>3. r.stage = st
  BY DEF NoCall
<1> HIDE DEF r
<1>4. \A d \in Calls : call'[d] = call[d] \/ call'[d].stage \in {"take", "load"}
  BY <1>1, <1>2, <1>3, PartsTyped DEF Typed, CallsTyped
<1> QED BY <1>1, <1>4, CallOnly

LEMMA BeginStopLease ==
    ASSUME PartsInv, PartsInv', LeaseInv, NEW c \in Calls, NEW n \in Nodes, BeginStop(c, n)
    PROVE  LeaseInv'
<1> DEFINE r == [NoCall EXCEPT !.stage = "take", !.node = n]
<1>1. call' = [call EXCEPT ![c] = r] /\ UNCHANGED <<edgeVars, sess, slot, rpc, budget>>
  BY DEF BeginStop
<1>2. r.stage = "take"
  BY DEF NoCall
<1> HIDE DEF r
<1>3. \A d \in Calls : call'[d] = call[d] \/ call'[d].stage = "take"
  BY <1>1, <1>2, PartsTyped DEF Typed, CallsTyped
<1> QED BY <1>1, <1>3, CallOnly

LEMMA StartFailsLease ==
    ASSUME PartsInv, PartsInv', LeaseInv, NEW c \in Calls, StartFails(c)
    PROVE  LeaseInv'
<1>1. call' = [call EXCEPT ![c] = NoCall] /\ UNCHANGED <<edgeVars, sess, slot, rpc, budget>>
  BY DEF StartFails
<1>2. \A d \in Calls : call'[d] = call[d] \/ call'[d].stage = "idle"
  BY <1>1, PartsTyped, CallGoes DEF Typed
<1> QED BY <1>1, <1>2, CallOnly

\* A session that leaves its slot ends what the lease promises.
LEMMA TakeLease ==
    ASSUME PartsInv, PartsInv', LeaseInv, NEW c \in Calls, Take(c)
    PROVE  LeaseInv'
<1> DEFINE n == call[c].node
<1>0. Typed /\ CallsOK /\ SlotsOK
  BY PartsTyped
<1>1. call[c].stage = "take" /\ UNCHANGED <<edgeVars, sess, budget>>
  BY DEF Take
<1>2. n \in Nodes
  BY <1>0, <1>1 DEF CallsOK
<1>3. CASE slot[n] = None
  <2>1. Stopped(c) /\ UNCHANGED <<slot, rpc>>
    BY <1>3 DEF Take
  <2>2. \A d \in Calls : call'[d] = call[d] \/ call'[d].stage \in {"idle", "load"}
    BY <1>0, <1>1, <2>1, StoppedCall DEF Typed
  <2> QED BY <1>1, <2>1, <2>2, CallOnly
<1>4. CASE slot[n] # None
  <2>m. PICK m : m = Request(c, n, sess[slot[n]].app, TRUE)
    OBVIOUS
  <2>1. slot' = [slot EXCEPT ![n] = None] /\ rpc' = rpc \cup {m}
    BY <1>4, <2>m DEF Take, Post
  <2>s. PICK s \in Sessions : s = slot[n]
    BY <1>0, <1>2, <1>4 DEF Typed, SlotsTyped
  <2>2. sess[s].node = n /\ slot'[n] = None /\ n # None /\ s # None
    BY <1>0, <1>2, <1>4, <2>s, <2>1, EdgeAssumption, PublishingAssumption
    DEF Typed, SlotsTyped, SlotsOK
  <2>7. sess'[s].node # None /\ ~InSlot(s)'
    BY <1>1, <2>2 DEF InSlot
  <2>3. ~Serving'
    BY <2>7 DEF Serving
  <2>4. m.age = 0
    BY <2>m DEF Request
  <2>5. Msgs' \subseteq Msgs \cup {m}
    BY <1>1, <2>1 DEF Msgs, edgeVars
  <2>6. BudgetOK' /\ budget'.crashes = budget.crashes /\ UNCHANGED edgeUp
    BY <1>1 DEF LeaseInv, BudgetOK, edgeVars
  <2> QED BY <2>3, <2>4, <2>5, <2>6, Unserved
<1> QED BY <1>3, <1>4

\* A registration is sent.
LEMMA RegisterLease ==
    ASSUME PartsInv, PartsInv', LeaseInv, NEW c \in Calls, Register(c)
    PROVE  LeaseInv'
<1>m. PICK m : m = Request(c, call[c].node, call[c].app, FALSE)
  OBVIOUS
<1>0. Typed
  BY PartsTyped
<1>1. /\ UNCHANGED <<edgeVars, sess, slot, budget>>
      /\ call' = [call EXCEPT ![c].stage = "register"] /\ rpc' = rpc \cup {m}
  BY <1>m DEF Register, Post
<1>2. m.src = c /\ m.age = 0 /\ ~m.dereg /\ m.reply = "none"
  BY <1>m DEF Request
<1>3. \A d \in Calls : call'[d] = call[d] \/ call'[d].stage = "register"
  BY <1>0, <1>1, CallStage DEF Typed
<1>4. Msgs' = Msgs \cup {m}
  BY <1>1 DEF Msgs, edgeVars
<1>5. BudgetOK'
  BY <1>1 DEF LeaseInv, BudgetOK
<1>6. Serving /\ ServedOK => \A d \in Calls : call'[d].stage \notin {"dereg", "terminate"}
  BY <1>3 DEF ServedOK, NoneLeaves
<1>7. \A a \in Apps : entry'[a] = entry[a] /\ entry[a].age <= entry[a].age
  BY <1>0, <1>1, AgesAreNumbers DEF edgeVars
<1>8. \A s \in Sessions : s # c
  BY NotACall
<1>9. \A q \in rpc' : q.reply = "ok" => q \in rpc
  BY <1>1, <1>2
<1> QED BY <1>1, <1>2, <1>4, <1>5, <1>6, <1>7, <1>8, <1>9, Quietly DEF edgeVars

\* While no session is stopped, none has anything to end.
LEMMA ServingGoesOn ==
    ASSUME PartsInv, LeaseInv, Undisturbed, Serving, NEW s \in Sessions, sess[s].node # None
    PROVE  InSlot(s) /\ Routed(s)
BY DEF Serving, LeaseInv, ServedOK

\* Whoever releases a session is past its deregistration.
LEMMA ReleaseLease ==
    ASSUME PartsInv, PartsInv', LeaseInv, NEW c \in Calls, Release(c)
    PROVE  LeaseInv'
<1>0. Typed /\ CallsOK
  BY PartsTyped
<1>s. PICK s \in Sessions : s = call[c].session
  BY <1>0 DEF Release, CallsOK
<1>1. /\ call[c].stage = "terminate" /\ UNCHANGED <<edgeVars, slot, rpc, budget>>
      /\ sess' = [sess EXCEPT ![s].running = FALSE, ![s].held = FALSE]
  BY <1>s DEF Release
<1>2. \A x \in Sessions : sess'[x].node = sess[x].node
  BY <1>0, <1>1 DEF Typed, SessTyped, SessionStates
<1>3. ~(Serving /\ ServedOK)
  BY <1>1 DEF ServedOK, NoneLeaves
<1>4. BudgetOK' /\ Msgs' = Msgs
  BY <1>1 DEF LeaseInv, BudgetOK, Msgs, edgeVars
<1> QED BY <1>1, <1>2, <1>3, <1>4, Quietly DEF edgeVars

\* While every session serves no task ends.
LEMMA HandlerEndsLease ==
    ASSUME PartsInv, PartsInv', LeaseInv, NEW s \in Sessions, HandlerEnds(s)
    PROVE  LeaseInv'
<1>0. Typed /\ SlotsOK
  BY PartsTyped
<1>1. /\ sess[s].handler /\ ~sess[s].held /\ UNCHANGED <<edgeVars, slot, call, rpc, budget>>
      /\ sess' = [sess EXCEPT ![s].handler = FALSE, ![s].running = FALSE]
  BY DEF HandlerEnds
<1>2. \A x \in Sessions : sess'[x].node = sess[x].node
  BY <1>0, <1>1 DEF Typed, SessTyped, SessionStates
<1>3. sess[s].node # None
  BY <1>0, <1>1 DEF SlotsOK, Unborn
<1>4. ~(Serving /\ ServedOK)
  BY <1>1, <1>3 DEF Serving, ServedOK, Routed
<1>5. BudgetOK' /\ Msgs' = Msgs
  BY <1>1 DEF LeaseInv, BudgetOK, Msgs, edgeVars
<1> QED BY <1>1, <1>2, <1>4, <1>5, Quietly DEF edgeVars

LEMMA BeatEndsLease ==
    ASSUME PartsInv, PartsInv', LeaseInv, NEW s \in Sessions, BeatEnds(s)
    PROVE  LeaseInv'
<1>0. Typed /\ SlotsOK
  BY PartsTyped
<1>1. /\ sess[s].beat = "sleep" /\ (sess[s].held => ~sess[s].running)
      /\ UNCHANGED <<edgeVars, slot, call, rpc, budget>>
      /\ sess' = [sess EXCEPT ![s].beat = "none"]
  BY DEF BeatEnds
<1>2. \A x \in Sessions : sess'[x].node = sess[x].node
  BY <1>0, <1>1 DEF Typed, SessTyped, SessionStates
<1>3. sess[s].node # None
  BY <1>0, <1>1 DEF SlotsOK, Unborn
<1>4. ~(Serving /\ ServedOK)
  BY <1>1, <1>3 DEF Serving, ServedOK, Routed
<1>5. BudgetOK' /\ Msgs' = Msgs
  BY <1>1 DEF LeaseInv, BudgetOK, Msgs, edgeVars
<1> QED BY <1>1, <1>2, <1>4, <1>5, Quietly DEF edgeVars

\* The quantities of a session's lease are numbers.
LEMMA LeaseNumbers ==
    ASSUME Typed, SlotsOK, NEW s \in Sessions, sess[s].node # None
    PROVE  /\ sess[s].app \in Apps /\ entry[sess[s].app].age \in Nat
           /\ sess[s].wait \in Nat /\ sess[s].missed \in Nat /\ Bound(sess[s].missed) \in Nat
           /\ Interval \in Nat /\ RpcTimeout \in Nat
<1>1. sess[s].app \in Apps
  BY DEF SlotsOK
<1>2. entry[sess[s].app].age \in Nat /\ sess[s].wait \in Nat /\ sess[s].missed \in Nat
  BY <1>1, AgesAreNumbers
<1> QED BY <1>1, <1>2, BoundFacts, PublishingAssumption

\* A heartbeat is sent when the interval is over.
LEMMA BeatLease ==
    ASSUME PartsInv, PartsInv', LeaseInv, NEW s \in Sessions, Beat(s)
    PROVE  LeaseInv'
<1>m. PICK m : m = Request(s, sess[s].node, sess[s].app, FALSE)
  OBVIOUS
<1>0. Typed /\ SlotsOK /\ Typed'
  BY PartsTyped, TypedNext
<1>1. /\ sess[s].beat = "sleep" /\ sess[s].wait = 0
      /\ UNCHANGED <<edgeVars, slot, call, budget>>
      /\ sess' = [sess EXCEPT ![s].beat = "send"] /\ rpc' = rpc \cup {m}
  BY <1>m DEF Beat, Post
<1>2. m.src = s /\ m.age = 0 /\ ~m.dereg /\ m.reply = "none"
  BY <1>m DEF Request
<1>3. /\ \A x \in Sessions \ {s} : sess'[x] = sess[x]
      /\ sess'[s].node = sess[s].node /\ sess'[s].app = sess[s].app
      /\ sess'[s].held = sess[s].held /\ sess'[s].running = sess[s].running
      /\ sess'[s].handler = sess[s].handler /\ sess'[s].missed = sess[s].missed
      /\ sess'[s].beat = "send"
  BY <1>0, <1>1 DEF Typed, SessTyped, SessionStates
<1>4. Msgs' = Msgs \cup {m}
  BY <1>1 DEF Msgs, edgeVars
<1>5. BudgetOK'
  BY <1>1 DEF LeaseInv, BudgetOK
<1>6. \A a \in Apps : entry'[a] = entry[a] /\ entry[a].age <= entry[a].age
  BY <1>0, <1>1, AgesAreNumbers DEF edgeVars
<1>7. \A q \in rpc' : q.reply = "ok" => q \in rpc
  BY <1>1, <1>2
<1>8. ASSUME Routed(s), InSlot(s) PROVE Routed(s)'
  <2> DEFINE age == entry[sess[s].app].age
             b == Bound(sess[s].missed)
  <2>1. /\ age \in Nat /\ b \in Nat /\ Interval \in Nat /\ RpcTimeout \in Nat
    BY <1>0, <1>8, LeaseNumbers DEF InSlot
  <2>2. ASSUME sess[s].missed <= Tolerated PROVE Leased(s)'
    <3>1. age + 0 <= b + Interval
      BY <1>1, <1>8, <2>2 DEF Routed, Leased
    <3>2. ASSUME NEW k \in Nat PROVE age <= b + Interval + k
      <4> HIDE DEF age, b
      <4> QED BY <2>1, <3>1
    <3>3. \A q \in Msgs' : q.age \in Nat
      <4>1. \A q \in Msgs : q.age \in Nat
        BY <1>0, AgesAreNumbers
      <4> QED BY <4>1, <1>2, <1>4
    <3>4. age <= b + Interval + RpcTimeout /\ \A q \in Msgs' : age <= b + Interval + q.age
      BY <2>1, <3>2, <3>3
    <3>5. entry'[sess'[s].app].age = age /\ Bound(sess'[s].missed) = b
      BY <1>1, <1>3 DEF edgeVars
    <3> QED BY <1>3, <3>4, <3>5 DEF Leased
  <2> QED BY <1>1, <1>3, <1>8, <2>2 DEF Routed, edgeVars
<1>9. ASSUME NEW x \in Sessions \ {s}
      PROVE  /\ sess'[x] = sess[x]
             /\ \A q \in Msgs' : q.src = x => q \in Msgs
  BY <1>2, <1>3, <1>4
<1>10. /\ \A x \in Sessions : sess'[x].node = sess[x].node
       /\ ServedOK => \A c \in Calls : call'[c].stage \notin {"dereg", "terminate"}
       /\ UNCHANGED <<edgeUp, slot>> /\ budget'.crashes = budget.crashes
  BY <1>1, <1>3 DEF ServedOK, NoneLeaves, edgeVars
<1>11. ServedOK => \A x \in Sessions : InSlot(x) =>
          \/ Routed(x)'
          \/ /\ sess'[x] = sess[x]
             /\ \A q \in Msgs' : q.src = x => \E p \in Msgs : p.src = x /\ p.age = q.age
  BY <1>8, <1>9 DEF ServedOK
<1> QED BY <1>2, <1>4, <1>5, <1>6, <1>7, <1>10, <1>11, Quietly

\* The answer of the edge carries what the request carried.
LEMMA RepliesCarry ==
    ASSUME Typed, NEW m \in Msgs, NEW v \in {"ok", "refused"}, Reply(m, v),
           fetching \in {m, None}, fetching' = None
    PROVE  \A q \in Msgs' :
              /\ q \in rpc'
              /\ \E p \in Msgs : /\ q.src = p.src /\ q.dereg = p.dereg /\ q.age = p.age
                                 /\ q.app = p.app /\ q.node = p.node
                                 /\ (p \in rpc /\ q = p) \/ (p = m /\ q.reply = v)
<1> DEFINE r == [m EXCEPT !.reply = v]
<1>1. m \in Requests
  BY MsgsTyped DEF Typed
<1>2. /\ r.src = m.src /\ r.dereg = m.dereg /\ r.node = m.node /\ r.age = m.age
      /\ r.app = m.app /\ r.reply = v
  BY <1>1 DEF Requests
<1>3. rpc' = (rpc \ {m}) \cup (IF m.src = None THEN {} ELSE {r})
  BY DEF Reply
<1> HIDE DEF r
<1> QED BY <1>2, <1>3 DEF Msgs

\* The edge answers and no mapping gets older.
LEMMA RepliesLease ==
    ASSUME PartsInv, PartsInv', LeaseInv, BudgetOK', budget'.crashes = budget.crashes,
           UNCHANGED <<edgeUp, slot, sess, call>>,
           NEW m \in Msgs, NEW v \in {"ok", "refused"}, Reply(m, v),
           fetching \in {m, None}, fetching' = None,
           Serving /\ ServedOK =>
             /\ \A a \in Apps : entry[a].peer # None =>
                    entry'[a].peer = entry[a].peer /\ entry'[a].age <= entry[a].age
             /\ v = "ok" => entry'[m.app].peer = m.node /\ entry'[m.app].age = 0
    PROVE  LeaseInv'
<1>1. \A q \in Msgs' :
         /\ q \in rpc'
         /\ \E p \in Msgs : /\ q.src = p.src /\ q.dereg = p.dereg /\ q.age = p.age
                            /\ q.app = p.app /\ q.node = p.node
                            /\ (p \in rpc /\ q = p) \/ (p = m /\ q.reply = v)
  BY PartsTyped, RepliesCarry
<1>2. rpc' \subseteq Msgs'
  BY DEF Msgs
<1>3. ASSUME Serving, ServedOK
      PROVE  \A q \in rpc' : q.reply = "ok" =>
                    \/ entry'[q.app].peer = q.node /\ entry'[q.app].age = 0
                    \/ \E p \in rpc : /\ p.reply = "ok" /\ p.app = q.app
                                      /\ p.node = q.node /\ p.age = q.age
  <2> SUFFICES ASSUME NEW q \in rpc', q.reply = "ok"
               PROVE \/ entry'[q.app].peer = q.node /\ entry'[q.app].age = 0
                     \/ \E p \in rpc : /\ p.reply = "ok" /\ p.app = q.app
                                       /\ p.node = q.node /\ p.age = q.age
    OBVIOUS
  <2>1. PICK p \in Msgs : /\ q.app = p.app /\ q.node = p.node /\ q.age = p.age
                          /\ (p \in rpc /\ q = p) \/ (p = m /\ q.reply = v)
    BY <1>1, <1>2
  <2> QED BY <1>3, <2>1
<1>4. \A q \in Msgs' : \E p \in Msgs : /\ q.src \in {p.src, None}
                                       /\ q.dereg = p.dereg /\ q.age = p.age
  BY <1>1
<1>5. \A s \in Sessions : \A q \in Msgs' : q.src = s => \E p \in Msgs : p.src = s /\ p.age = q.age
  BY <1>1
<1>6. /\ \A s \in Sessions : sess'[s] = sess[s]
      /\ ServedOK => \A c \in Calls : call'[c].stage \notin {"dereg", "terminate"}
  BY DEF ServedOK, NoneLeaves
<1> QED BY <1>3, <1>4, <1>5, <1>6, Quietly

\* The handler of the edge only refreshes what is mapped already.
LEMMA EdgeHandlesLease ==
    ASSUME PartsInv, PartsInv', LeaseInv, NEW m \in rpc, EdgeHandles(m)
    PROVE  LeaseInv'
<1>0. Typed /\ \A a \in Apps : entry[a].age \in Nat
  BY PartsTyped, AgesAreNumbers
<1>1. m \in Msgs /\ m.app \in Apps
  BY <1>0, AgesAreNumbers DEF Msgs
<1>2. UNCHANGED <<sess, slot, call, budget, edgeUp>> /\ BudgetOK'
  BY DEF EdgeHandles, Deregister, Refresh, RefuseStale, Fetch, edgeVars, LeaseInv, BudgetOK
<1>3. CASE Deregister(m) /\ Reply(m, "ok")
  <2>1. ~(Serving /\ ServedOK)
    BY <1>1, <1>3 DEF Deregister, ServedOK, NoneLeaves
  <2>2. fetching = None /\ fetching' = None
    BY <1>3 DEF Deregister, Free
  <2> QED BY <1>1, <1>2, <1>3, <2>1, <2>2, RepliesLease
<1>4. CASE Refresh(m) /\ Reply(m, "ok")
  <2>1. /\ fetching = None /\ fetching' = None /\ entry[m.app].peer = m.node
        /\ entry' = [entry EXCEPT ![m.app].age = 0]
    BY <1>4 DEF Refresh, Free, IsHeartbeat
  <2>2. entry'[m.app].peer = m.node /\ entry'[m.app].age = 0
    BY <1>0, <1>1, <2>1 DEF Typed, EdgeTyped, Entry
  <2>3. \A a \in Apps \ {m.app} : entry'[a] = entry[a]
    BY <1>0, <2>1 DEF Typed, EdgeTyped
  <2>4. \A a \in Apps : entry'[a].peer = entry[a].peer /\ entry'[a].age <= entry[a].age
    BY <1>0, <1>1, <2>1, <2>2, <2>3
  <2> QED BY <1>1, <1>2, <1>4, <2>1, <2>2, <2>4, RepliesLease
<1>5. CASE RefuseStale(m) /\ Reply(m, "refused")
  <2>1. fetching = None /\ fetching' = None /\ entry' = entry
    BY <1>5 DEF RefuseStale, Free, edgeVars
  <2>2. \A a \in Apps : entry'[a].peer = entry[a].peer /\ entry'[a].age <= entry[a].age
    BY <1>0, <2>1
  <2> QED BY <1>1, <1>2, <1>5, <2>1, <2>2, RepliesLease
<1>6. CASE Fetch(m) /\ rpc' = rpc \ {m}
  <2>1. fetching = None /\ fetching' = m /\ entry' = entry
    BY <1>6 DEF Fetch, Free
  <2>2. Msgs' \subseteq Msgs /\ rpc' \subseteq rpc
    BY <1>1, <1>6, <2>1 DEF Msgs
  <2>3. \A a \in Apps : entry'[a].peer = entry[a].peer /\ entry'[a].age <= entry[a].age
    BY <1>0, <2>1
  <2>4. ServedOK => \A c \in Calls : call'[c].stage \notin {"dereg", "terminate"}
    BY <1>2 DEF ServedOK, NoneLeaves
  <2> QED BY <1>2, <2>2, <2>3, <2>4, Quietly
<1> QED BY <1>3, <1>4, <1>5, <1>6 DEF EdgeHandles

\* A fetched manifest maps its app to the one device there is.
LEMMA EdgePinsLease ==
    ASSUME PartsInv, PartsInv', LeaseInv, OneDevice, EdgePins
    PROVE  LeaseInv'
<1>m. PICK m : m = fetching
  OBVIOUS
<1>0. Typed /\ \A a \in Apps : entry[a].age \in Nat /\ entry[a].peer \in Nodes \cup {None}
  BY PartsTyped, AgesAreNumbers
<1>1. /\ m # None /\ Reply(m, "ok") /\ fetching' = None
      /\ UNCHANGED <<edgeUp, sess, slot, call, budget>>
      /\ entry' = [entry EXCEPT ![m.app] = [peer |-> m.node, age |-> 0]]
  BY <1>m DEF EdgePins, Pin
<1>2. m \in Msgs /\ m.app \in Apps /\ m.node \in Nodes /\ BudgetOK'
  BY <1>0, <1>1, <1>m, AgesAreNumbers DEF Msgs, LeaseInv, BudgetOK
<1>3. entry'[m.app].peer = m.node /\ entry'[m.app].age = 0
  BY <1>0, <1>1, <1>2 DEF Typed, EdgeTyped
<1>4. \A a \in Apps \ {m.app} : entry'[a] = entry[a]
  BY <1>0, <1>1 DEF Typed, EdgeTyped
<1>5. \A a \in Apps : entry[a].peer # None =>
         entry'[a].peer = entry[a].peer /\ entry'[a].age <= entry[a].age
  BY <1>0, <1>2, <1>3, <1>4 DEF OneDevice
<1> QED BY <1>1, <1>2, <1>3, <1>5, <1>m, RepliesLease

\* A failed fetch leaves the mapping as it was.
LEMMA EdgeRefusesLease ==
    ASSUME PartsInv, PartsInv', LeaseInv, EdgeRefuses
    PROVE  LeaseInv'
<1>m. PICK m : m = fetching
  OBVIOUS
<1>0. Typed /\ \A a \in Apps : entry[a].age \in Nat
  BY PartsTyped, AgesAreNumbers
<1>1. /\ m # None /\ Reply(m, "refused") /\ fetching' = None
      /\ UNCHANGED <<edgeUp, entry, sess, slot, call>>
  BY <1>m DEF EdgeRefuses, RefuseFetch
<1>2. m \in Msgs
  BY <1>1, <1>m DEF Msgs
<1>3. BudgetOK' /\ budget'.crashes = budget.crashes
  BY LossCounted DEF EdgeRefuses, LeaseInv
<1>4. \A a \in Apps : entry'[a].peer = entry[a].peer /\ entry'[a].age <= entry[a].age
  BY <1>0, <1>1
<1> QED BY <1>1, <1>2, <1>3, <1>4, <1>m, RepliesLease

\* A lost request leaves its sender waiting.
LEMMA LoseLease ==
    ASSUME PartsInv, PartsInv', LeaseInv, NEW m \in rpc, Lose(m)
    PROVE  LeaseInv'
<1>0. Typed /\ \A a \in Apps : entry[a].age \in Nat
  BY PartsTyped, AgesAreNumbers
<1>1. rpc' = rpc \ {m} /\ UNCHANGED <<edgeUp, entry, fetching, sess, slot, call>>
  BY DEF Lose, edgeVars
<1>2. BudgetOK' /\ budget'.crashes = budget.crashes
  BY LossCounted DEF Lose, LeaseInv
<1>3. Msgs' \subseteq Msgs
  BY <1>1 DEF Msgs
<1>4. \A a \in Apps : entry'[a].peer = entry[a].peer /\ entry'[a].age <= entry[a].age
  BY <1>0, <1>1
<1>5. ServedOK => \A c \in Calls : call'[c].stage \notin {"dereg", "terminate"}
  BY <1>1 DEF ServedOK, NoneLeaves
<1> QED BY <1>1, <1>2, <1>3, <1>4, <1>5, Quietly

\* A heartbeat that is answered, or given up, leaves its session a new interval.
LEMMA BeatAnsweredRouted ==
    ASSUME Typed, SlotsOK, NEW s \in Sessions, InSlot(s), Routed(s), sess[s].beat = "send",
           NEW verdict, BeatAnswered(s, verdict), UNCHANGED entry,
           verdict = "ok" => entry[sess[s].app].age <= RpcTimeout
    PROVE  Routed(s)'
<1> DEFINE age == entry[sess[s].app].age
           k == sess[s].missed
<1>1. /\ sess'[s].node = sess[s].node /\ sess'[s].app = sess[s].app
      /\ sess'[s].beat = "sleep" /\ sess'[s].wait = Interval
      /\ sess'[s].held = sess[s].held /\ sess'[s].running = sess[s].running
      /\ sess'[s].handler = sess[s].handler
      /\ verdict = "ok" => sess'[s].missed = 0
      /\ verdict # "ok" => sess'[s].missed = IF sess[s].missed > Tolerated
                                            THEN sess[s].missed ELSE sess[s].missed + 1
  BY BeatAnsweredTyped DEF Typed
<1>2. age \in Nat /\ k \in Nat /\ Bound(k) \in Nat /\ Interval \in Nat /\ RpcTimeout \in Nat
  BY LeaseNumbers DEF InSlot
<1>3. ASSUME sess'[s].missed <= Tolerated PROVE Leased(s)'
  <2>1. age <= Bound(sess'[s].missed)
    <3>1. CASE verdict = "ok"
      BY <1>1, <3>1, BoundFacts
    <3>2. CASE verdict # "ok"
      <4>1. k <= Tolerated /\ sess'[s].missed = k + 1
        BY <1>1, <1>2, <1>3, <3>2, PublishingAssumption
      <4>2. age <= Bound(k) + Interval + RpcTimeout
        BY <4>1 DEF Routed, Leased
      <4> QED BY <1>2, <4>1, <4>2, BoundFacts
    <3> QED BY <3>1, <3>2
  <2>2. Bound(sess'[s].missed) \in Nat
    <3>1. sess'[s].missed \in Nat
      BY <1>1, <1>2
    <3> QED BY <3>1, BoundFacts
  <2>3. age + Interval <= Bound(sess'[s].missed) + Interval
    <3> HIDE DEF age
    <3> QED BY <1>2, <2>1, <2>2
  <2> QED BY <1>1, <2>3 DEF Leased
<1> QED BY <1>1, <1>3 DEF Routed

\* The sender of a request goes on, and no session starts.
LEMMA AnsweredLease ==
    ASSUME PartsInv, PartsInv', LeaseInv, BudgetOK', budget'.crashes = budget.crashes,
           UNCHANGED <<edgeUp, entry>>, NEW src \in Senders, Waiting(src),
           NEW verdict, Answered(src, verdict),
           src \in Calls /\ call[src].stage = "register" => verdict # "ok",
           \A q \in Msgs' : \E m \in Msgs : /\ q.src \in {m.src, None}
                                            /\ q.dereg = m.dereg /\ q.age = m.age,
           \A q \in rpc' : q.reply = "ok" =>
               \E m \in rpc : /\ m.reply = "ok" /\ m.app = q.app
                              /\ m.node = q.node /\ m.age = q.age,
           src \in Sessions /\ verdict = "ok" /\ InTime /\ ServedOK =>
               entry[sess[src].app].age <= RpcTimeout
    PROVE  LeaseInv'
<1>0. Typed /\ CallsOK /\ SlotsOK
  BY PartsTyped
<1>1. CASE ~Undisturbed
  BY <1>1 DEF LeaseInv, Undisturbed
<1>2. \A a \in Apps : entry'[a] = entry[a] /\ entry[a].age <= entry[a].age
  BY <1>0, AgesAreNumbers
<1>3. \A x \in Sessions : \A q \in Msgs' : q.src = x => \E m \in Msgs : m.src = x /\ m.age = q.age
  BY PublishingAssumption
<1>4. CASE Undisturbed /\ src \in Sessions
  <2>1. BeatAnswered(src, verdict) /\ sess[src].beat = "send" /\ UNCHANGED <<slot, call>>
    BY <1>4 DEF Answered, Waiting, BeatAnswered
  <2>2. /\ \A x \in Sessions \ {src} : sess'[x] = sess[x]
        /\ sess'[src].node = sess[src].node
    BY <1>0, <1>4, <2>1, BeatAnsweredTyped DEF Typed
  <2>3. InTime
    BY <1>4 DEF LeaseInv
  <2>4. ASSUME ServedOK, InSlot(src) PROVE Routed(src)'
    BY <1>0, <1>4, <2>1, <2>3, <2>4, BeatAnsweredRouted DEF ServedOK
  <2>5. ServedOK => \A c \in Calls : call'[c].stage \notin {"dereg", "terminate"}
    BY <2>1 DEF ServedOK, NoneLeaves
  <2> QED BY <1>2, <1>3, <2>1, <2>2, <2>4, <2>5, Quietly
<1>5. CASE src \notin Sessions
  <2>1. /\ src \in Calls /\ CallAnswered(src, verdict)
        /\ call[src].stage \in {"dereg", "register"}
    BY <1>5 DEF Answered, Waiting, Senders
  <2>2. CASE call[src].stage = "dereg"
    <3>1. UNCHANGED <<sess, slot>>
      BY <2>1, <2>2 DEF CallAnswered
    <3>2. ~ServedOK
      BY <2>1, <2>2 DEF ServedOK, NoneLeaves
    <3> QED BY <1>2, <3>1, <3>2, Quietly
  <2>3. CASE call[src].stage = "register"
    <3>1. call' = [call EXCEPT ![src] = NoCall] /\ UNCHANGED <<sess, slot>>
      BY <2>1, <2>3 DEF CallAnswered
    <3>2. \A d \in Calls : call'[d] = call[d] \/ call'[d].stage = "idle"
      BY <1>0, <2>1, <3>1, CallGoes DEF Typed
    <3>3. ServedOK => \A c \in Calls : call'[c].stage \notin {"dereg", "terminate"}
      BY <3>2 DEF ServedOK, NoneLeaves
    <3> QED BY <1>2, <1>3, <3>1, <3>3, Quietly
  <2> QED BY <2>1, <2>2, <2>3
<1> QED BY <1>1, <1>4, <1>5

\* The session that starts holds the only device's slot.
LEMMA StartSessionLease ==
    ASSUME PartsInv, PartsInv', LeaseInv, OneDevice, UNCHANGED <<edgeVars, budget>>,
           NEW c \in Calls, call[c].stage = "register", NEW s \in Sessions, StartSession(c, s),
           NEW m \in rpc, rpc' = rpc \ {m}, m.src = c, m.reply = "ok"
    PROVE  LeaseInv'
<1>0. Typed /\ SentOK /\ CallsOK /\ SlotsOK /\ Typed' /\ SlotsOK'
  BY PartsTyped, TypedNext
<1> DEFINE n == call[c].node
           a == call[c].app
<1>1. /\ call' = [call EXCEPT ![c] = NoCall]
      /\ sess[s].node = None /\ sess'[s].node = n /\ sess'[s].app = a /\ slot'[n] = s
      /\ sess'[s].held /\ sess'[s].running /\ sess'[s].handler
      /\ sess'[s].beat = "sleep" /\ sess'[s].wait = Interval /\ sess'[s].missed = 0
      /\ \A x \in Sessions \ {s} : sess'[x].node = sess[x].node
  BY <1>0, StartSessionSets
<1>2. n \in Nodes /\ a \in Apps
  BY <1>0 DEF CallsOK
<1> SUFFICES ASSUME Undisturbed' PROVE edgeUp' /\ InTime' /\ (Serving' => ServedOK')
  BY DEF LeaseInv, BudgetOK
<1>3. edgeUp /\ InTime /\ (Serving => ServedOK) /\ edgeUp'
  BY DEF LeaseInv, Undisturbed, edgeVars
<1>4. Msgs' \subseteq Msgs /\ rpc' \subseteq rpc /\ m \in Msgs
  BY DEF Msgs, edgeVars
<1>5. \A x \in Sessions \ {s} : sess'[x].node # None => ~InSlot(x)'
  <2> SUFFICES ASSUME NEW x \in Sessions \ {s}, sess'[x].node # None PROVE ~InSlot(x)'
    OBVIOUS
  <2>1. sess'[x].node \in Nodes
    BY <1>0 DEF Typed, SessTyped, SessionStates
  <2> QED BY <1>1, <1>2, <2>1 DEF OneDevice, InSlot
<1>6. ASSUME Serving' PROVE ServedOK'
  <2>1. ServedOK
    BY <1>1, <1>3, <1>5, <1>6 DEF Serving
  <2>2. \A d \in Calls : call'[d] = call[d] \/ call'[d].stage = "idle"
    <3>1. CallsTyped /\ CallsOK /\ call' = [call EXCEPT ![c] = NoCall]
      BY <1>0, <1>1 DEF Typed
    <3> QED BY <3>1, CallGoes
  <2>3. NoneLeaves'
    BY <1>4, <2>1, <2>2 DEF ServedOK, NoneLeaves
  <2>4. OksAreFresh'
    BY <1>4, <2>1 DEF ServedOK, OksAreFresh, edgeVars
  <2>5. m.node = n /\ m.app = a
    <3>1. FromSender(m) /\ ~m.dereg
      BY <1>0, <1>4, <2>1, PublishingAssumption DEF SentOK, ServedOK, NoneLeaves
    <3> QED BY <3>1, NotASession DEF FromSender
  <2>6. entry'[a].peer = n /\ entry'[a].age <= RpcTimeout
    <3>1. entry[a].peer = n /\ entry[a].age <= m.age
      BY <2>1, <2>5 DEF ServedOK, OksAreFresh
    <3>2. m.age <= RpcTimeout
      BY <1>3, <1>4, NotASession DEF InTime
    <3>3. entry[a].age \in Nat /\ m.age \in Nat /\ RpcTimeout \in Nat
      BY <1>0, <1>2, <1>4, AgesAreNumbers, PublishingAssumption
    <3> QED BY <3>1, <3>2, <3>3 DEF edgeVars
  <2>7. Routed(s)'
    <3>1. Bound(0) = RpcTimeout /\ RpcTimeout \in Nat /\ Interval \in Nat
      BY BoundFacts, PublishingAssumption
    <3>2. entry'[a].age \in Nat
      BY <1>0, <1>2, AgesAreNumbers DEF edgeVars
    <3>3. entry'[a].age + Interval <= Bound(0) + Interval
      BY <2>6, <3>1, <3>2
    <3>4. Leased(s)'
      BY <1>1, <3>3 DEF Leased
    <3> QED BY <1>1, <2>6, <3>4 DEF Routed
  <2>8. \A x \in Sessions : InSlot(x)' => Routed(x)'
    BY <1>5, <2>7 DEF InSlot
  <2> QED BY <2>3, <2>4, <2>8 DEF ServedOK
<1>7. InTime'
  BY <1>3, <1>4 DEF InTime
<1> QED BY <1>3, <1>6, <1>7

\* A reply reaches its sender.
LEMMA DeliverLease ==
    ASSUME PartsInv, PartsInv', LeaseInv, OneDevice, NEW m \in rpc, Deliver(m)
    PROVE  LeaseInv'
<1>0. Typed /\ SentOK
  BY PartsTyped
<1>1. /\ m.reply # "none" /\ rpc' = rpc \ {m} /\ Answered(m.src, m.reply)
      /\ UNCHANGED <<edgeVars, budget>>
  BY DEF Deliver
<1>2. m \in Msgs /\ m.src # None
  BY <1>0, <1>1 DEF Msgs, SentOK
<1>3. m.src \in Senders /\ Waiting(m.src) /\ FromSender(m)
  BY <1>0, <1>2, SenderWaits DEF SentOK
<1>4. Msgs' \subseteq Msgs /\ rpc' \subseteq rpc
  BY <1>1 DEF Msgs, edgeVars
<1>5. BudgetOK'
  BY <1>1 DEF LeaseInv, BudgetOK
<1>6. CASE m.src \in Calls /\ call[m.src].stage = "register" /\ m.reply = "ok"
  <2>1. CallAnswered(m.src, "ok")
    BY <1>1, <1>6, NotASession DEF Answered
  <2>2. PICK s \in Sessions : StartSession(m.src, s)
    BY <1>6, <2>1 DEF CallAnswered
  <2> QED BY <1>1, <1>6, <2>2, StartSessionLease
<1>7. CASE m.src \in Calls /\ call[m.src].stage = "register" => m.reply # "ok"
  <2>1. ASSUME m.src \in Sessions, m.reply = "ok", InTime, ServedOK
        PROVE  entry[sess[m.src].app].age <= RpcTimeout
    <3>1. m.app = sess[m.src].app
      BY <1>3, <2>1, NotACall DEF FromSender
    <3>2. entry[m.app].age <= m.age /\ m.age <= RpcTimeout
      BY <1>2, <2>1 DEF ServedOK, OksAreFresh, InTime
    <3>3. entry[m.app].age \in Nat /\ m.age \in Nat /\ RpcTimeout \in Nat
      BY <1>0, <1>2, AgesAreNumbers, PublishingAssumption
    <3> QED BY <3>1, <3>2, <3>3
  <2> QED BY <1>1, <1>3, <1>4, <1>5, <1>7, <2>1, AnsweredLease DEF edgeVars
<1> QED BY <1>6, <1>7

\* A sender gives up when the timeout is over.
LEMMA GiveUpLease ==
    ASSUME PartsInv, PartsInv', LeaseInv, NEW src \in Senders, GiveUp(src)
    PROVE  LeaseInv'
<1>0. Typed /\ SentOK
  BY PartsTyped
<1> DEFINE Forgotten(m) == [m EXCEPT !.src = IF @ = src THEN None ELSE @]
           R == {x \in rpc : x.src # src \/ x.reply = "none"}
<1>1. /\ Waiting(src) /\ rpc' = {Forgotten(m) : m \in R}
      /\ fetching' \in {fetching, [fetching EXCEPT !.src = None]}
      /\ fetching = None => fetching' = None
      /\ Answered(src, "failed") /\ UNCHANGED <<edgeUp, entry>>
  BY DEF GiveUp
<1>2. \A m \in Msgs : /\ Forgotten(m).src \in {m.src, None}
                      /\ Forgotten(m).age = m.age /\ Forgotten(m).reply = m.reply
                      /\ Forgotten(m).node = m.node /\ Forgotten(m).app = m.app
                      /\ Forgotten(m).dereg = m.dereg
  <2> SUFFICES ASSUME NEW m \in Msgs
               PROVE  /\ Forgotten(m).src \in {m.src, None}
                      /\ Forgotten(m).age = m.age /\ Forgotten(m).reply = m.reply
                      /\ Forgotten(m).node = m.node /\ Forgotten(m).app = m.app
                      /\ Forgotten(m).dereg = m.dereg
    OBVIOUS
  <2>1. m \in Requests
    BY <1>0, MsgsTyped DEF Typed
  <2> QED BY <2>1 DEF Requests
<1>3. fetching # None => /\ fetching'.src \in {fetching.src, None}
                         /\ fetching'.age = fetching.age /\ fetching'.dereg = fetching.dereg
  <2>1. fetching # None => fetching \in Requests
    BY <1>0 DEF Typed, WireTyped
  <2> QED BY <1>1, <2>1 DEF Requests
<1> HIDE DEF Forgotten
<1>4. \A q \in Msgs' : \E m \in Msgs : /\ q.src \in {m.src, None}
                                       /\ q.dereg = m.dereg /\ q.age = m.age
  BY <1>1, <1>2, <1>3 DEF Msgs
<1>5. \A q \in rpc' : q.reply = "ok" =>
         \E m \in rpc : /\ m.reply = "ok" /\ m.app = q.app
                        /\ m.node = q.node /\ m.age = q.age
  BY <1>1, <1>2 DEF Msgs
<1>6. BudgetOK' /\ budget'.crashes = budget.crashes
  <2>1. CASE budget' = budget
    BY <2>1 DEF LeaseInv, BudgetOK
  <2>2. CASE budget.losses > 0 /\ budget' = [budget EXCEPT !.losses = @ - 1]
    BY <2>2, LossCounted DEF LeaseInv
  <2> QED BY <2>1, <2>2 DEF GiveUp
<1> QED BY <1>1, <1>4, <1>5, <1>6, AnsweredLease

\* A crash is counted, and the lease promises nothing after it.
LEMMA CrashLease ==
    ASSUME LeaseInv, budget.crashes > 0, budget' = [budget EXCEPT !.crashes = @ - 1]
    PROVE  LeaseInv'
<1>1. budget.crashes \in 0..Crashes
  BY DEF LeaseInv, BudgetOK
<1> DEFINE k == budget.crashes - 1
           C == 0..Crashes
<1>2. k \in C /\ k # Crashes
  BY <1>1, PublishingAssumption
<1>3. budget' = [budget EXCEPT !.crashes = k] /\ budget \in [losses: Nat, crashes: C]
  BY DEF LeaseInv, BudgetOK
<1> HIDE DEF k, C
<1>4. budget' \in [losses: Nat, crashes: C] /\ budget'.crashes = k
  BY <1>2, <1>3
<1>5. BudgetOK' /\ ~Undisturbed'
  BY <1>2, <1>4 DEF BudgetOK, Undisturbed, C
<1> QED BY <1>5 DEF LeaseInv

\* The edge returns only after a crash.
LEMMA EdgeReturnsLease ==
    ASSUME LeaseInv, EdgeReturns
    PROVE  LeaseInv'
<1>1. ~edgeUp /\ budget' = budget
  BY DEF EdgeReturns, EdgeRestart
<1> QED BY <1>1 DEF LeaseInv, BudgetOK, Undisturbed

\* Time passes only while somebody who waits for an answer has time left.
LEMMA WaitersHaveTime ==
    ASSUME Typed, SentOK, ~Due
    PROVE  /\ \A m \in Msgs : m.src # None => m.age + 1 <= RpcTimeout
           /\ \A s \in Sessions : sess[s].beat = "send" =>
                  \E m \in Msgs : m.src = s /\ m.age + 1 <= RpcTimeout
<1>1. ASSUME NEW src \in Senders, Waiting(src)
      PROVE  \E m \in Msgs : m.src = src /\ m.age + 1 <= RpcTimeout
  <2>1. PICK m \in Outstanding(src) : ~(m.age >= RpcTimeout)
    BY <1>1 DEF Due
  <2>2. m \in Msgs /\ m.src = src
    BY <2>1 DEF Outstanding, Msgs
  <2>3. m.age \in Nat /\ RpcTimeout \in Nat
    BY <2>2, AgesAreNumbers, PublishingAssumption
  <2> QED BY <2>1, <2>2, <2>3
<1>2. ASSUME NEW m \in Msgs, m.src # None PROVE m.age + 1 <= RpcTimeout
  <2>1. PICK q \in Msgs : q.src = m.src /\ q.age + 1 <= RpcTimeout
    BY <1>1, <1>2, SenderWaits
  <2>2. q = m
    BY <1>2, <2>1 DEF SentOK
  <2> QED BY <2>1, <2>2
<1>3. ASSUME NEW s \in Sessions, sess[s].beat = "send"
      PROVE  \E m \in Msgs : m.src = s /\ m.age + 1 <= RpcTimeout
  BY <1>1, <1>3, NotACall DEF Waiting
<1> QED BY <1>2, <1>3

\* A second passes for a routed session.
LEMMA RoutedWaits ==
    ASSUME Typed, SentOK, SlotsOK, ~Due, NEW s \in Sessions, InSlot(s), Routed(s),
           sess'[s].node = sess[s].node, sess'[s].app = sess[s].app,
           sess'[s].held = sess[s].held, sess'[s].running = sess[s].running,
           sess'[s].handler = sess[s].handler, sess'[s].beat = sess[s].beat,
           sess'[s].missed = sess[s].missed,
           sess[s].beat = "sleep" => sess'[s].wait = sess[s].wait - 1,
           entry'[sess[s].app].peer = entry[sess[s].app].peer,
           entry'[sess[s].app].age \in Nat,
           entry'[sess[s].app].age <= entry[sess[s].app].age + 1,
           \A q \in Msgs' : q.src = s => \E m \in Msgs : m.src = s /\ q.age = m.age + 1
    PROVE  Routed(s)'
<1> DEFINE old == entry[sess[s].app].age
           new == entry'[sess[s].app].age
           b == Bound(sess[s].missed)
           w == sess[s].wait
<1>1. /\ old \in Nat /\ new \in Nat /\ w \in Nat /\ b \in Nat
      /\ Interval \in Nat /\ RpcTimeout \in Nat /\ new <= old + 1
  BY LeaseNumbers DEF InSlot
<1>2. ASSUME sess[s].missed <= Tolerated PROVE Leased(s)'
  <2>1. Leased(s)
    BY <1>2 DEF Routed
  <2>2. ASSUME sess[s].beat = "sleep" PROVE new + (w - 1) <= b + Interval
    <3>1. old + w <= b + Interval
      BY <2>1, <2>2 DEF Leased
    <3> HIDE DEF old, new, b, w
    <3> QED BY <1>1, <3>1
  <2>3. ASSUME sess[s].beat = "send", NEW k \in Nat, old <= b + Interval + k
        PROVE  new <= b + Interval + (k + 1)
    <3> HIDE DEF old, new, b
    <3> QED BY <1>1, <2>3
  <2>4. \A m \in Msgs : m.age \in Nat
    BY AgesAreNumbers
  <2>5. sess[s].beat = "send" => \A m \in Msgs : m.src = s => new <= b + Interval + (m.age + 1)
    BY <2>1, <2>3, <2>4 DEF Leased
  <2>6. ASSUME sess[s].beat = "send" PROVE new <= b + Interval + RpcTimeout
    <3>1. PICK m \in Msgs : m.src = s /\ m.age + 1 <= RpcTimeout
      BY <2>6, WaitersHaveTime
    <3>2. new <= b + Interval + (m.age + 1) /\ m.age \in Nat
      BY <2>4, <2>5, <2>6, <3>1
    <3> HIDE DEF new, b
    <3> QED BY <1>1, <3>1, <3>2
  <2>7. ASSUME sess[s].beat = "send", NEW q \in Msgs', q.src = s
        PROVE  new <= b + Interval + q.age
    BY <2>5, <2>7
  <2>8. Bound(sess'[s].missed) = b /\ entry'[sess'[s].app].age = new
    OBVIOUS
  <2> HIDE DEF new, b, w
  <2>9. sess[s].beat = "sleep" => new + sess'[s].wait <= b + Interval
    BY <2>2 DEF w
  <2> QED BY <2>6, <2>7, <2>8, <2>9 DEF Leased
<1> QED BY <1>2 DEF Routed

\* Time passes: sleepers come closer to their next beat, waiters to their timeout.
LEMMA TickLease ==
    ASSUME PartsInv, PartsInv', LeaseInv, Tick
    PROVE  LeaseInv'
<1> SUFFICES ASSUME Undisturbed' PROVE edgeUp' /\ InTime' /\ (Serving' => ServedOK')
  BY DEF LeaseInv, BudgetOK, Tick
<1>0. Typed /\ SentOK /\ SlotsOK /\ Typed'
  BY PartsTyped, TypedNext
<1> DEFINE Later(m) == [m EXCEPT !.age = Older(@, MaxAge)]
<1>1. /\ ~Due /\ UNCHANGED <<edgeUp, slot, budget>> /\ rpc' = {Later(m) : m \in rpc}
      /\ fetching' = (IF fetching # None THEN Later(fetching) ELSE None)
  BY DEF Tick
<1>2. edgeUp /\ InTime /\ (Serving => ServedOK)
  BY <1>1 DEF LeaseInv, Undisturbed
<1>3. \A m \in Msgs : /\ Later(m).age = Older(m.age, MaxAge) /\ Later(m).src = m.src
                      /\ Later(m).node = m.node /\ Later(m).app = m.app
                      /\ Later(m).dereg = m.dereg /\ Later(m).reply = m.reply
  BY <1>0, MsgsTyped, TickTimes DEF Typed
<1> HIDE DEF Later
<1>4. \A m \in Msgs : m.src # None => Later(m).age = m.age + 1 /\ m.age + 1 <= RpcTimeout
  <2> SUFFICES ASSUME NEW m \in Msgs, m.src # None
               PROVE  Later(m).age = m.age + 1 /\ m.age + 1 <= RpcTimeout
    OBVIOUS
  <2>1. m.age + 1 <= RpcTimeout
    BY <1>0, <1>1, WaitersHaveTime
  <2>2. m.age \in Nat /\ MaxAge \in Nat /\ MaxAge >= RpcTimeout /\ RpcTimeout \in Nat
    BY <1>0, AgesAreNumbers, MaxAgeNat, PublishingAssumption
  <2>3. Older(m.age, MaxAge) = m.age + 1
    BY <2>1, <2>2 DEF Older
  <2> QED BY <1>3, <2>1, <2>3
<1>5. /\ rpc \subseteq Msgs
      /\ \A q \in Msgs' : \E m \in Msgs : q = Later(m)
  BY <1>1 DEF Msgs
<1>6. InTime'
  BY <1>3, <1>4, <1>5 DEF InTime
<1>7. \A a \in Apps : /\ entry'[a].peer = entry[a].peer
                      /\ entry'[a].age <= entry[a].age + 1
  BY <1>0, TickTimes
<1>8. \A a \in Apps : entry'[a].age \in Nat /\ entry[a].age \in Nat
  BY <1>0, AgesAreNumbers DEF Typed, EdgeTyped, Entry
<1>9. \A s \in Sessions :
         /\ sess[s].beat = "sleep" => sess'[s].wait = sess[s].wait - 1
         /\ sess'[s].node = sess[s].node /\ sess'[s].app = sess[s].app
         /\ sess'[s].held = sess[s].held /\ sess'[s].running = sess[s].running
         /\ sess'[s].handler = sess[s].handler /\ sess'[s].beat = sess[s].beat
         /\ sess'[s].missed = sess[s].missed
  BY <1>0, TickTimes
<1>10. ASSUME Serving' PROVE ServedOK'
  <2>1. ServedOK
    BY <1>1, <1>2, <1>9, <1>10 DEF Serving, InSlot
  <2>2. NoneLeaves'
    <3>1. \A c \in Calls : call'[c].stage = call[c].stage
      BY <1>0, TickTimes
    <3> QED BY <1>3, <1>5, <2>1, <3>1 DEF ServedOK, NoneLeaves
  <2>3. OksAreFresh'
    <3> SUFFICES ASSUME NEW q \in rpc', q.reply = "ok"
                 PROVE  entry'[q.app].peer = q.node /\ entry'[q.app].age <= q.age
      BY DEF OksAreFresh
    <3>1. PICK m \in rpc : q = Later(m)
      BY <1>1
    <3>2. /\ m \in Msgs /\ m.reply = "ok" /\ q.app = m.app /\ q.node = m.node
      BY <1>3, <1>5, <3>1
    <3>3. m.src # None
      BY <1>0, <3>2 DEF SentOK
    <3>4. q.age = m.age + 1
      BY <1>4, <3>1, <3>2, <3>3
    <3>5. entry[m.app].peer = m.node /\ entry[m.app].age <= m.age
      BY <2>1, <3>2 DEF ServedOK, OksAreFresh
    <3>6. m.app \in Apps /\ m.age \in Nat
      BY <1>0, <3>2, AgesAreNumbers
    <3>7. entry'[m.app].peer = m.node
      BY <1>7, <3>5, <3>6
    <3>8. entry'[m.app].age <= m.age + 1
      BY <1>7, <1>8, <3>5, <3>6
    <3> QED BY <3>2, <3>4, <3>7, <3>8
  <2>4. ASSUME NEW s \in Sessions, InSlot(s)' PROVE Routed(s)'
    <3>1. InSlot(s) /\ Routed(s)
      BY <1>1, <1>9, <2>1, <2>4 DEF InSlot, ServedOK
    <3>2. sess[s].app \in Apps
      BY <1>0, <3>1 DEF SlotsOK, InSlot
    <3>3. \A q \in Msgs' : q.src = s => \E m \in Msgs : m.src = s /\ q.age = m.age + 1
      BY <1>3, <1>4, <1>5, PublishingAssumption
    <3> QED BY <1>0, <1>1, <1>7, <1>8, <1>9, <3>1, <3>2, <3>3, RoutedWaits
  <2> QED BY <2>2, <2>3, <2>4 DEF ServedOK
<1> QED BY <1>1, <1>2, <1>6, <1>10

\* The leases hold at the start,
LEMMA LeaseInit == Init => LeaseInv
<1> SUFFICES ASSUME Init PROVE LeaseInv
  OBVIOUS
<1>1. /\ edgeUp /\ rpc = {} /\ fetching = None /\ sess = [s \in Sessions |-> NoSession]
      /\ call = [c \in Calls |-> NoCall]
      /\ budget = [losses |-> Losses, crashes |-> Crashes]
  BY DEF Init, EdgeInit
<1>2. BudgetOK
  BY <1>1, PublishingAssumption DEF BudgetOK
<1>3. Msgs = {}
  BY <1>1 DEF Msgs
<1>4. \A s \in Sessions : ~InSlot(s)
  BY <1>1 DEF InSlot, NoSession
<1>5. NoneLeaves /\ OksAreFresh
  BY <1>1, <1>3 DEF NoneLeaves, OksAreFresh, NoCall
<1> QED BY <1>1, <1>2, <1>3, <1>4, <1>5 DEF LeaseInv, InTime, ServedOK

LEMMA LeaseStutter ==
    ASSUME LeaseInv, UNCHANGED vars
    PROVE  LeaseInv'
BY DEF vars, edgeVars, LeaseInv, BudgetOK, Undisturbed, InTime, Msgs, Serving, InSlot, ServedOK,
       NoneLeaves, OksAreFresh, Routed, Leased

\* and after every step.
LEMMA LeaseStep ==
    ASSUME OneDevice
    PROVE  PartsInv /\ PartsInv' /\ LeaseInv /\ [Next]_vars => LeaseInv'
<1> SUFFICES ASSUME PartsInv, PartsInv', LeaseInv, [Next]_vars PROVE LeaseInv'
  OBVIOUS
<1>1. ASSUME NEW c \in Calls, NEW n \in Nodes, BeginStop(c, n) PROVE LeaseInv'
  BY <1>1, BeginStopLease
<1>2. ASSUME NEW c \in Calls, NEW n \in Nodes, NEW a \in Apps, BeginStart(c, n, a)
      PROVE LeaseInv'
  BY <1>2, BeginStartLease
<1>3. ASSUME NEW c \in Calls, CallStep(c) PROVE LeaseInv'
  BY <1>3, TakeLease, ReleaseLease, RegisterLease, StartFailsLease DEF CallStep
<1>4. ASSUME NEW s \in Sessions, TaskStep(s) PROVE LeaseInv'
  BY <1>4, HandlerEndsLease, BeatEndsLease, BeatLease DEF TaskStep
<1>5. ASSUME NEW src \in Senders, GiveUp(src) PROVE LeaseInv'
  BY <1>5, GiveUpLease
<1>6. ASSUME NEW m \in rpc, Deliver(m) \/ Lose(m) PROVE LeaseInv'
  BY <1>6, DeliverLease, LoseLease
<1>7. CASE EdgeStep
  BY <1>7, EdgePinsLease, EdgeReturnsLease, EdgeHandlesLease DEF EdgeStep
<1>8. CASE EdgeRefuses
  BY <1>8, EdgeRefusesLease
<1>9. CASE EdgeDies
  BY <1>9, CrashLease DEF EdgeDies
<1>10. ASSUME NEW n \in Nodes, NodeDies(n) PROVE LeaseInv'
  BY <1>10, CrashLease DEF NodeDies
<1>11. CASE Tick
  BY <1>11, TickLease
<1>12. CASE UNCHANGED vars
  BY <1>12, LeaseStutter
<1> QED BY <1>1, <1>2, <1>3, <1>4, <1>5, <1>6, <1>7, <1>8, <1>9, <1>10, <1>11, <1>12 DEF Next

\* With one publisher device, while no process has died and no session was stopped
\* or replaced, every running session keeps its mapping and its mapping is no older
\* than its missed heartbeats account for (serve.rs registers again an interval
\* after each answer or timeout, registry.rs sets the age back).
THEOREM LeaseInvariant ==
    ASSUME OneDevice
    PROVE  Spec => []LeaseInv
<1>1. Init => LeaseInv
  BY LeaseInit
<1>2. PartsInv /\ PartsInv' /\ LeaseInv /\ [Next]_vars => LeaseInv'
  BY LeaseStep
<1> QED BY <1>1, <1>2, PublishingInvariant, PTL DEF Spec

\* With one publisher device and a lifetime that outlasts the tolerated misses, the
\* edge routes the app of a running session to it, however many requests and
\* replies are lost or late, for any number of sessions, as long as no process died
\* and none of them was stopped or replaced (registry.rs, resolve).
THEOREM ServedIsRoutable ==
    ASSUME OneDevice, Timely
    PROVE  Spec => [](Undisturbed /\ Serving => LiveSessionIsRoutable)
<1>1. PartsInv /\ LeaseInv => (Undisturbed /\ Serving => LiveSessionIsRoutable)
  BY LeasedIsRouted
<1> QED BY <1>1, PublishingInvariant, LeaseInvariant, PTL

\* The property of the runs, unconditionally, for a session that is started and
\* stopped by any number of commands in any order: with a second session a late
\* deregistration of the first could remove its mapping (registry.rs).
THEOREM SessionIsRoutable ==
    ASSUME OneDevice, Timely, Crashes = 0, \A s, t \in Sessions : s = t
    PROVE  Spec => []LiveSessionIsRoutable
<1>1. ASSUME PartsInv, LeaseInv PROVE LiveSessionIsRoutable
  <2>1. Undisturbed
    BY <1>1 DEF LeaseInv, BudgetOK, Undisturbed
  <2>2. CASE Serving
    BY <1>1, <2>1, <2>2, LeasedIsRouted
  <2>3. CASE ~Serving
    <3>1. \A s \in Sessions : ~InSlot(s)
      BY <2>3 DEF Serving
    <3> QED BY <3>1 DEF LiveSessionIsRoutable, Live
  <2> QED BY <2>2, <2>3
<1> QED BY <1>1, PublishingInvariant, LeaseInvariant, PTL

-----------------------------------------------------------------------------
(* The sessions of a device implement ServeSessions.                        *)

\* A session whose tasks run and are not told to stop.
OnDuty(s) ==
    sess[s].held /\ sess[s].running /\ sess[s].handler /\ sess[s].beat # "none"

\* A session in its slot is on duty, and one that is being stopped has started and
\* is in no slot.
DutyInv ==
    /\ \A s \in Sessions : InSlot(s) => OnDuty(s)
    /\ \A c \in Calls, s \in Sessions :
          call[c].stage \in {"dereg", "terminate"} /\ call[c].session = s =>
              sess[s].node # None /\ ~InSlot(s)

ServeStep == [Device!SessionNext]_(Device!sessionVars)

\* The phases, one by one.
LEMMA Phases ==
    ASSUME NEW s \in Sessions
    PROVE  /\ sess[s].node = None => Phase(s) = "new"
           /\ InSlot(s) /\ OnDuty(s) => Phase(s) = "serving"
           /\ sess[s].node # None /\ ~InSlot(s) /\ (sess[s].handler \/ sess[s].beat # "none") =>
                  Phase(s) = "leaving"
           /\ sess[s].node # None /\ ~InSlot(s) /\ ~sess[s].handler /\ sess[s].beat = "none" =>
                  Phase(s) = "over"
BY DEF Phase, InSlot, OnDuty

LEMMA PhasesNext ==
    ASSUME NEW s \in Sessions
    PROVE  /\ sess'[s].node = None => Phase(s)' = "new"
           /\ InSlot(s)' /\ OnDuty(s)' => Phase(s)' = "serving"
           /\ sess'[s].node # None /\ ~InSlot(s)' /\ (sess'[s].handler \/ sess'[s].beat # "none") =>
                  Phase(s)' = "leaving"
           /\ sess'[s].node # None /\ ~InSlot(s)' /\ ~sess'[s].handler /\ sess'[s].beat = "none" =>
                  Phase(s)' = "over"
BY DEF Phase, InSlot, OnDuty

\* The session s is of the device and the app it was of.
Keeps(s) == sess'[s].node = sess[s].node /\ sess'[s].app = sess[s].app

\* Its tasks are as they were.
SameTasks(s) ==
    /\ Keeps(s) /\ sess'[s].handler = sess[s].handler
    /\ sess'[s].beat = "none" <=> sess[s].beat = "none"

\* A command that stops a session did so before, and stops the same.
StopsGoOn ==
    \A c \in Calls :
        call'[c].stage \in {"dereg", "terminate"} =>
            /\ call[c].stage \in {"dereg", "terminate"}
            /\ call'[c].session = call[c].session

LEMMA PhaseStays ==
    ASSUME NEW s \in Sessions, SameTasks(s), InSlot(s)' <=> InSlot(s)
    PROVE  Phase(s)' = Phase(s)
BY DEF Phase, SameTasks, Keeps

\* Nothing of it can be seen from outside.
LEMMA Unseen ==
    ASSUME DutyInv, UNCHANGED slot, StopsGoOn, \A s \in Sessions : SameTasks(s),
           \A s \in Sessions : InSlot(s) =>
               sess'[s].held = sess[s].held /\ sess'[s].running = sess[s].running
    PROVE  DutyInv' /\ Seen' = Seen
<1>1. \A s \in Sessions : InSlot(s)' <=> InSlot(s)
  BY DEF InSlot, SameTasks, Keeps
<1>2. \A s \in Sessions : InSlot(s)' => OnDuty(s)'
  BY <1>1 DEF DutyInv, OnDuty, SameTasks
<1>3. \A c \in Calls, s \in Sessions :
         call'[c].stage \in {"dereg", "terminate"} /\ call'[c].session = s =>
             sess'[s].node # None /\ ~InSlot(s)'
  BY <1>1 DEF StopsGoOn, DutyInv, SameTasks, Keeps
<1>4. \A s \in Sessions : Phase(s)' = Phase(s)
  BY <1>1, PhaseStays
<1>5. Seen' = Seen
  BY <1>4 DEF Seen, SameTasks, Keeps
<1> QED BY <1>2, <1>3, <1>5 DEF DutyInv

\* One session's view changes and the others' do not.
LEMMA SeenOne ==
    ASSUME NEW s \in Sessions, NEW p, Keeps(s), Phase(s)' = p,
           \A x \in Sessions \ {s} : Keeps(x) /\ Phase(x)' = Phase(x)
    PROVE  Seen' = [Seen EXCEPT ![s].phase = p]
<1>1. Seen = [x \in Sessions |-> [phase |-> Phase(x), node |-> sess[x].node, app |-> sess[x].app]]
  BY DEF Seen
<1>2. Seen' = [x \in Sessions |-> [phase |-> Phase(x)', node |-> sess'[x].node, app |-> sess'[x].app]]
  BY DEF Seen
<1>3. Seen[s] = [phase |-> Phase(s), node |-> sess[s].node, app |-> sess[s].app]
  BY <1>1
<1>4. [Seen[s] EXCEPT !.phase = p] = [phase |-> p, node |-> sess[s].node, app |-> sess[s].app]
  BY <1>3
<1>5. [Seen EXCEPT ![s] = [Seen[s] EXCEPT !.phase = p]] =
         [x \in Sessions |-> IF x = s THEN [Seen[s] EXCEPT !.phase = p] ELSE Seen[x]]
  BY <1>1
<1> DEFINE r == [Seen[s] EXCEPT !.phase = p]
<1>6. \A x \in Sessions : Seen'[x] = IF x = s THEN r ELSE Seen[x]
  BY <1>1, <1>2, <1>4 DEF Keeps
<1> QED BY <1>1, <1>2, <1>5, <1>6

\* A step that changes no session and no slot.
LEMMA CommandGoesOn ==
    ASSUME DutyInv, UNCHANGED <<sess, slot>>, StopsGoOn
    PROVE  DutyInv' /\ ServeStep
<1>1. DutyInv' /\ Seen' = Seen
  BY Unseen DEF SameTasks, Keeps
<1> QED BY <1>1 DEF ServeStep, Device!sessionVars

\* A command that moves to a stage in which it stops nothing.
LEMMA OthersStop ==
    ASSUME NEW c \in Calls, \A d \in Calls \ {c} : call'[d] = call[d],
           call'[c].stage \notin {"dereg", "terminate"}
    PROVE  StopsGoOn
BY DEF StopsGoOn

LEMMA BeginStartServe ==
    ASSUME PartsInv, DutyInv, NEW c \in Calls, NEW n \in Nodes, NEW a \in Apps,
           BeginStart(c, n, a)
    PROVE  DutyInv' /\ ServeStep
<1> DEFINE st == IF slot[n] # None THEN "take" ELSE "load"
           r == [NoCall EXCEPT !.stage = st, !.then = "load", !.node = n, !.app = a]
<1>1. call' = [call EXCEPT ![c] = r] /\ UNCHANGED <<sess, slot>>
  BY DEF BeginStart
<1>2. r.stage \in {"take", "load"}
  BY DEF NoCall
<1> HIDE DEF r
<1>3. call'[c] = r /\ \A d \in Calls \ {c} : call'[d] = call[d]
  BY <1>1, PartsTyped DEF Typed, CallsTyped
<1> QED BY <1>1, <1>2, <1>3, OthersStop, CommandGoesOn

LEMMA BeginStopServe ==
    ASSUME PartsInv, DutyInv, NEW c \in Calls, NEW n \in Nodes, BeginStop(c, n)
    PROVE  DutyInv' /\ ServeStep
<1> DEFINE r == [NoCall EXCEPT !.stage = "take", !.node = n]
<1>1. call' = [call EXCEPT ![c] = r] /\ UNCHANGED <<sess, slot>>
  BY DEF BeginStop
<1>2. r.stage = "take"
  BY DEF NoCall
<1> HIDE DEF r
<1>3. call'[c] = r /\ \A d \in Calls \ {c} : call'[d] = call[d]
  BY <1>1, PartsTyped DEF Typed, CallsTyped
<1> QED BY <1>1, <1>2, <1>3, OthersStop, CommandGoesOn

LEMMA StartFailsServe ==
    ASSUME PartsInv, DutyInv, NEW c \in Calls, StartFails(c)
    PROVE  DutyInv' /\ ServeStep
<1>1. call' = [call EXCEPT ![c] = NoCall] /\ UNCHANGED <<sess, slot>>
  BY DEF StartFails
<1>2. call'[c].stage = "idle" /\ \A d \in Calls \ {c} : call'[d] = call[d]
  BY <1>1, PartsTyped, CallGoes DEF Typed
<1> QED BY <1>1, <1>2, OthersStop, CommandGoesOn

LEMMA RegisterServe ==
    ASSUME PartsInv, DutyInv, NEW c \in Calls, Register(c)
    PROVE  DutyInv' /\ ServeStep
<1>1. call' = [call EXCEPT ![c].stage = "register"] /\ UNCHANGED <<sess, slot>>
  BY DEF Register
<1>2. call'[c].stage = "register" /\ \A d \in Calls \ {c} : call'[d] = call[d]
  BY <1>1, PartsTyped, CallStage DEF Typed
<1> QED BY <1>1, <1>2, OthersStop, CommandGoesOn

\* The session in the slot leaves it, on duty until then.
LEMMA TakeServe ==
    ASSUME PartsInv, DutyInv, NEW c \in Calls, Take(c)
    PROVE  DutyInv' /\ ServeStep
<1> DEFINE n == call[c].node
<1>0. Typed /\ CallsOK /\ SlotsOK
  BY PartsTyped
<1>1. call[c].stage = "take" /\ UNCHANGED sess
  BY DEF Take
<1>2. n \in Nodes /\ n # None
  BY <1>0, <1>1, EdgeAssumption DEF CallsOK
<1>3. CASE slot[n] = None
  <2>1. Stopped(c) /\ UNCHANGED slot
    BY <1>3 DEF Take
  <2>2. /\ call'[c].stage \in {"idle", "load"}
        /\ \A d \in Calls \ {c} : call'[d] = call[d]
    BY <1>0, <1>1, <2>1, StoppedCall DEF Typed
  <2> QED BY <1>1, <2>1, <2>2, OthersStop, CommandGoesOn
<1>4. CASE slot[n] # None
  <2>s. PICK s \in Sessions : s = slot[n]
    BY <1>0, <1>2, <1>4 DEF Typed, SlotsTyped
  <2>1. /\ slot' = [slot EXCEPT ![n] = None]
        /\ call' = [call EXCEPT ![c].stage = "dereg", ![c].session = s]
    BY <1>4, <2>s DEF Take
  <2>2. /\ call'[c].session = s /\ \A d \in Calls \ {c} : call'[d] = call[d]
    BY <1>0, <2>1, CallTakes DEF Typed
  <2>3. sess[s].node = n /\ InSlot(s) /\ s # None
    BY <1>0, <1>2, <2>s, NotACall DEF SlotsOK, InSlot
  <2>4. slot'[n] = None /\ \A k \in Nodes \ {n} : slot'[k] = slot[k]
    BY <1>0, <1>2, <2>1 DEF Typed, SlotsTyped
  <2>5. \A x \in Sessions \ {s} : InSlot(x)' <=> InSlot(x)
    <3> SUFFICES ASSUME NEW x \in Sessions \ {s} PROVE InSlot(x)' <=> InSlot(x)
      OBVIOUS
    <3>1. x # None /\ sess[x].node \in Nodes \cup {None}
      BY <1>0, NotACall DEF Typed, SessTyped, SessionStates
    <3>2. CASE sess[x].node = n
      BY <1>1, <2>s, <2>4, <3>1, <3>2 DEF InSlot
    <3>3. CASE sess[x].node # n
      BY <1>1, <2>4, <3>1, <3>3 DEF InSlot
    <3> QED BY <3>2, <3>3
  <2>6. ~InSlot(s)'
    BY <1>1, <2>3, <2>4 DEF InSlot
  <2>7. DutyInv'
    <3>1. \A x \in Sessions : InSlot(x)' => OnDuty(x)'
      BY <1>1, <2>5, <2>6 DEF DutyInv, OnDuty
    <3>2. \A d \in Calls, x \in Sessions :
             call'[d].stage \in {"dereg", "terminate"} /\ call'[d].session = x =>
                 sess'[x].node # None /\ ~InSlot(x)'
      BY <1>1, <1>2, <2>2, <2>3, <2>5, <2>6 DEF DutyInv
    <3> QED BY <3>1, <3>2 DEF DutyInv
  <2>8. Phase(s) = "serving" /\ Phase(s)' = "leaving"
    BY <1>1, <1>2, <2>3, <2>6, Phases, PhasesNext DEF DutyInv, OnDuty
  <2>9. \A x \in Sessions \ {s} : Keeps(x) /\ Phase(x)' = Phase(x)
    BY <1>1, <2>5, PhaseStays DEF SameTasks, Keeps
  <2>10. Seen' = [Seen EXCEPT ![s].phase = "leaving"]
    BY <1>1, <2>8, <2>9, SeenOne DEF Keeps
  <2>11. Seen[s].phase = "serving"
    BY <2>8 DEF Seen
  <2>12. Device!Leave(s, n)
    BY <2>s, <2>1, <2>10, <2>11 DEF Device!Leave
  <2>13. Device!SessionNext
    BY <1>2, <2>12 DEF Device!SessionNext
  <2> QED BY <2>7, <2>13 DEF ServeStep
<1> QED BY <1>3, <1>4

\* The session that is released left its slot before.
LEMMA ReleaseServe ==
    ASSUME PartsInv, DutyInv, NEW c \in Calls, Release(c)
    PROVE  DutyInv' /\ ServeStep
<1>0. Typed /\ CallsOK
  BY PartsTyped
<1>s. PICK s \in Sessions : s = call[c].session
  BY <1>0 DEF Release, CallsOK
<1>1. /\ call[c].stage = "terminate" /\ UNCHANGED slot /\ Stopped(c)
      /\ sess' = [sess EXCEPT ![s].running = FALSE, ![s].held = FALSE]
  BY <1>s DEF Release
<1>2. /\ \A x \in Sessions \ {s} : sess'[x] = sess[x]
      /\ sess'[s].node = sess[s].node /\ sess'[s].app = sess[s].app
      /\ sess'[s].beat = sess[s].beat /\ sess'[s].handler = sess[s].handler
  BY <1>0, <1>1, ZenonT(60) DEF Typed, SessTyped, SessionStates
<1>3. ~InSlot(s)
  BY <1>s, <1>1 DEF DutyInv
<1>4. StopsGoOn
  BY <1>0, <1>1, StoppedCall, OthersStop DEF Typed
<1>5. \A x \in Sessions : SameTasks(x)
  BY <1>2 DEF SameTasks, Keeps
<1>6. DutyInv' /\ Seen' = Seen
  BY <1>1, <1>2, <1>3, <1>4, <1>5, Unseen
<1> QED BY <1>1, <1>6 DEF ServeStep, Device!sessionVars

\* A task of a session that is in no slot ends.
LEMMA TaskEndsServe ==
    ASSUME DutyInv, NEW s \in Sessions, UNCHANGED <<slot, call>>,
           \A x \in Sessions \ {s} : sess'[x] = sess[x],
           Keeps(s), sess[s].node # None, ~InSlot(s),
           sess[s].handler \/ sess[s].beat # "none"
    PROVE  DutyInv' /\ ServeStep
<1>1. \A x \in Sessions : sess'[x].node = sess[x].node /\ (InSlot(x)' <=> InSlot(x))
  BY DEF InSlot, Keeps
<1>2. \A x \in Sessions : InSlot(x)' => OnDuty(x)'
  BY <1>1 DEF DutyInv, OnDuty
<1>3. DutyInv'
  BY <1>1, <1>2 DEF DutyInv
<1>4. Phase(s) = "leaving" /\ Phase(s)' \in {"leaving", "over"}
  BY <1>1, Phases, PhasesNext
<1>5. \A x \in Sessions \ {s} : Keeps(x) /\ Phase(x)' = Phase(x)
  BY <1>1, PhaseStays DEF SameTasks, Keeps
<1>6. CASE Phase(s)' = "leaving"
  <2>1. Seen' = Seen
    BY <1>4, <1>5, <1>6 DEF Seen, Keeps
  <2> QED BY <1>3, <2>1 DEF ServeStep, Device!sessionVars
<1>7. CASE Phase(s)' = "over"
  <2>1. Seen' = [Seen EXCEPT ![s].phase = "over"]
    BY <1>5, <1>7, SeenOne
  <2>2. Seen[s].phase = "leaving"
    BY <1>4 DEF Seen
  <2>3. Device!End(s)
    BY <2>1, <2>2 DEF Device!End
  <2> QED BY <1>3, <2>3 DEF ServeStep, Device!SessionNext
<1> QED BY <1>4, <1>6, <1>7

LEMMA HandlerEndsServe ==
    ASSUME PartsInv, DutyInv, NEW s \in Sessions, HandlerEnds(s)
    PROVE  DutyInv' /\ ServeStep
<1>0. Typed /\ SlotsOK
  BY PartsTyped
<1>1. /\ sess[s].handler /\ ~sess[s].held /\ UNCHANGED <<slot, call>>
      /\ sess' = [sess EXCEPT ![s].handler = FALSE, ![s].running = FALSE]
  BY DEF HandlerEnds
<1>2. /\ \A x \in Sessions \ {s} : sess'[x] = sess[x]
      /\ sess'[s].node = sess[s].node /\ sess'[s].app = sess[s].app
  BY <1>0, <1>1, ZenonT(60) DEF Typed, SessTyped, SessionStates
<1>3. ~InSlot(s)
  BY <1>1 DEF DutyInv, OnDuty
<1>4. sess[s].node # None
  BY <1>0, <1>1 DEF SlotsOK, Unborn
<1> QED BY <1>1, <1>2, <1>3, <1>4, TaskEndsServe DEF Keeps

\* A sleeping heartbeat ends only when its session was released.
LEMMA BeatEndsServe ==
    ASSUME PartsInv, DutyInv, NEW s \in Sessions, BeatEnds(s)
    PROVE  DutyInv' /\ ServeStep
<1>0. Typed /\ SlotsOK
  BY PartsTyped
<1>1. /\ sess[s].beat = "sleep" /\ (sess[s].held => ~sess[s].running)
      /\ UNCHANGED <<slot, call>>
      /\ sess' = [sess EXCEPT ![s].beat = "none"]
  BY DEF BeatEnds
<1>2. /\ \A x \in Sessions \ {s} : sess'[x] = sess[x]
      /\ sess'[s].node = sess[s].node /\ sess'[s].app = sess[s].app
  BY <1>0, <1>1 DEF Typed, SessTyped, SessionStates
<1>3. ~InSlot(s)
  BY <1>1 DEF DutyInv, OnDuty
<1>4. sess[s].node # None
  BY <1>0, <1>1 DEF SlotsOK, Unborn
<1> QED BY <1>1, <1>2, <1>3, <1>4, TaskEndsServe DEF Keeps

\* A heartbeat goes on, sending or asleep.
LEMMA BeatGoesOn ==
    ASSUME DutyInv, NEW s \in Sessions, UNCHANGED <<slot, call>>,
           \A x \in Sessions \ {s} : sess'[x] = sess[x], Keeps(s),
           sess'[s].held = sess[s].held, sess'[s].running = sess[s].running,
           sess'[s].handler = sess[s].handler,
           sess[s].beat # "none", sess'[s].beat # "none"
    PROVE  DutyInv' /\ ServeStep
<1>1. \A x \in Sessions : SameTasks(x)
  BY DEF SameTasks, Keeps
<1>2. StopsGoOn
  BY DEF StopsGoOn
<1>3. DutyInv' /\ Seen' = Seen
  BY <1>1, <1>2, Unseen
<1> QED BY <1>3 DEF ServeStep, Device!sessionVars

LEMMA BeatServe ==
    ASSUME PartsInv, DutyInv, NEW s \in Sessions, Beat(s)
    PROVE  DutyInv' /\ ServeStep
<1>1. /\ sess[s].beat = "sleep" /\ UNCHANGED <<slot, call>>
      /\ sess' = [sess EXCEPT ![s].beat = "send"]
  BY DEF Beat
<1>2. /\ \A x \in Sessions \ {s} : sess'[x] = sess[x]
      /\ sess'[s].node = sess[s].node /\ sess'[s].app = sess[s].app
      /\ sess'[s].held = sess[s].held /\ sess'[s].running = sess[s].running
      /\ sess'[s].handler = sess[s].handler /\ sess'[s].beat = "send"
  BY <1>1, PartsTyped, ZenonT(60) DEF Typed, SessTyped, SessionStates
<1> QED BY <1>1, <1>2, BeatGoesOn DEF Keeps

\* A session starts, and the one it replaces leaves.
LEMMA StartSessionServe ==
    ASSUME PartsInv, DutyInv, NEW c \in Calls, call[c].stage = "register",
           NEW s \in Sessions, StartSession(c, s)
    PROVE  DutyInv' /\ ServeStep
<1>d. PICK n, a, old : n = call[c].node /\ a = call[c].app /\ old = slot[n]
  OBVIOUS
<1>0. Typed /\ CallsOK /\ SlotsOK
  BY PartsTyped
<1>1. n \in Nodes /\ a \in Apps /\ n # None
  BY <1>0, <1>d, EdgeAssumption DEF CallsOK
<1>2. /\ call' = [call EXCEPT ![c] = NoCall]
      /\ sess[s].node = None /\ sess'[s].node = n /\ sess'[s].app = a
      /\ sess'[s].held /\ sess'[s].running /\ sess'[s].handler /\ sess'[s].beat = "sleep"
      /\ \A x \in Sessions \ {s} :
            /\ sess'[x].node = sess[x].node /\ sess'[x].app = sess[x].app
            /\ sess'[x].beat = sess[x].beat /\ sess'[x].handler = sess[x].handler
            /\ x # old => sess'[x] = sess[x]
  BY <1>0, <1>d, StartSessionSets
<1>3. slot' = [slot EXCEPT ![n] = s]
  BY <1>d DEF StartSession
<1>4. slot'[n] = s /\ \A k \in Nodes \ {n} : slot'[k] = slot[k]
  BY <1>0, <1>1, <1>3 DEF Typed, SlotsTyped
<1>5. StopsGoOn
  <2>1. CallsTyped /\ CallsOK
    BY <1>0 DEF Typed
  <2>2. call'[c].stage = "idle" /\ \A d \in Calls \ {c} : call'[d] = call[d]
    BY <2>1, <1>2, CallGoes
  <2> QED BY <2>2, OthersStop
<1>6. \A x \in Sessions : x # s /\ x # old => (InSlot(x)' <=> InSlot(x))
  <2> SUFFICES ASSUME NEW x \in Sessions, x # s, x # old PROVE InSlot(x)' <=> InSlot(x)
    OBVIOUS
  <2>1. sess[x].node \in Nodes \cup {None} /\ sess'[x].node = sess[x].node
    BY <1>0, <1>2 DEF Typed, SessTyped, SessionStates
  <2>2. CASE sess[x].node = n
    BY <1>4, <2>1, <1>d, <2>2 DEF InSlot
  <2>3. CASE sess[x].node # n
    BY <1>4, <2>1, <2>3 DEF InSlot
  <2> QED BY <2>2, <2>3
<1>7. InSlot(s)' /\ OnDuty(s)' /\ ~InSlot(s)
  BY <1>1, <1>2, <1>4 DEF InSlot, OnDuty
<1>8. ASSUME old # None
      PROVE  /\ old \in Sessions \ {s} /\ InSlot(old) /\ ~InSlot(old)'
             /\ sess[old].node = n
  <2>1. old \in Sessions /\ sess[old].node = n
    BY <1>0, <1>1, <1>8, <1>d DEF Typed, SlotsTyped, SlotsOK
  <2>2. old # s /\ sess'[old].node = n
    BY <1>1, <1>2, <2>1
  <2> QED BY <1>1, <1>4, <1>d, <2>1, <2>2 DEF InSlot
<1>n. \A x \in Sessions : x # None
  BY NotACall
<1>9. DutyInv'
  <2>1. ASSUME NEW x \in Sessions, InSlot(x)' PROVE OnDuty(x)'
    <3>1. CASE x = s
      BY <3>1, <1>7
    <3>2. CASE x # s
      <4>1. x # old
        BY <1>8, <2>1, <1>n
      <4>2. InSlot(x) /\ sess'[x] = sess[x]
        BY <1>2, <1>6, <2>1, <3>2, <4>1
      <4> QED BY <4>2 DEF DutyInv, OnDuty
    <3> QED BY <3>1, <3>2
  <2>2. ASSUME NEW d \in Calls, NEW x \in Sessions,
               call'[d].stage \in {"dereg", "terminate"}, call'[d].session = x
        PROVE  sess'[x].node # None /\ ~InSlot(x)'
    <3>1. sess[x].node # None /\ ~InSlot(x)
      BY <1>5, <2>2 DEF StopsGoOn, DutyInv
    <3>2. x # s
      BY <1>2, <3>1
    <3>3. x # old
      BY <1>8, <1>n, <3>1
    <3> QED BY <1>2, <1>6, <3>1, <3>2, <3>3
  <2> QED BY <2>1, <2>2 DEF DutyInv
<1>10. Seen[s].phase = "new"
  BY <1>2, Phases DEF Seen
<1>11. Seen'[s] = [phase |-> "serving", node |-> n, app |-> a]
  BY <1>2, <1>7, PhasesNext DEF Seen
<1>12. \A x \in Sessions : x # s /\ x # old => Seen'[x] = Seen[x]
  <2> SUFFICES ASSUME NEW x \in Sessions, x # s, x # old PROVE Seen'[x] = Seen[x]
    OBVIOUS
  <2>1. SameTasks(x) /\ (InSlot(x)' <=> InSlot(x))
    BY <1>2, <1>6 DEF SameTasks, Keeps
  <2>2. Phase(x)' = Phase(x)
    BY <2>1, PhaseStays
  <2> QED BY <2>1, <2>2 DEF Seen, SameTasks, Keeps
<1>13. ASSUME old # None PROVE Seen'[old] = [Seen[old] EXCEPT !.phase = "leaving"]
  <2>1. old \in Sessions /\ OnDuty(old) /\ Keeps(old)
    BY <1>2, <1>8, <1>13 DEF DutyInv, Keeps
  <2>2. sess'[old].handler /\ sess'[old].node # None
    BY <1>1, <1>2, <1>8, <1>13, <2>1 DEF OnDuty
  <2>3. Phase(old)' = "leaving"
    BY <1>8, <1>13, <2>1, <2>2, PhasesNext
  <2>4. /\ Seen[old] = [phase |-> Phase(old), node |-> sess[old].node, app |-> sess[old].app]
        /\ Seen'[old] = [phase |-> "leaving", node |-> sess'[old].node, app |-> sess'[old].app]
    BY <2>1, <2>3 DEF Seen
  <2> QED BY <2>1, <2>4 DEF Keeps
<1>14. Seen' = [x \in Sessions |->
                  IF x = s THEN [phase |-> "serving", node |-> n, app |-> a]
                  ELSE IF x = slot[n] THEN [Seen[x] EXCEPT !.phase = "leaving"] ELSE Seen[x]]
  <2>1. Seen' = [x \in Sessions |-> Seen'[x]]
    BY DEF Seen
  <2>2. \A x \in Sessions :
           Seen'[x] = IF x = s THEN [phase |-> "serving", node |-> n, app |-> a]
                      ELSE IF x = slot[n] THEN [Seen[x] EXCEPT !.phase = "leaving"] ELSE Seen[x]
    BY <1>d, <1>n, <1>11, <1>12, <1>13
  <2> QED BY <2>1, <2>2
<1>15. Device!Start(s, n, a)
  BY <1>3, <1>10, <1>14 DEF Device!Start
<1>16. Device!SessionNext
  BY <1>1, <1>15 DEF Device!SessionNext
<1> QED BY <1>9, <1>16 DEF ServeStep

\* Whatever the answer, its sender alone goes on.
LEMMA AnsweredServe ==
    ASSUME PartsInv, DutyInv, NEW src \in Senders, Waiting(src), NEW verdict,
           Answered(src, verdict)
    PROVE  DutyInv' /\ ServeStep
<1>0. Typed /\ CallsOK
  BY PartsTyped
<1>1. CASE src \in Sessions
  <2>1. BeatAnswered(src, verdict) /\ sess[src].beat = "send" /\ UNCHANGED <<slot, call>>
    BY <1>1 DEF Answered, Waiting, BeatAnswered
  <2>2. SessTyped
    BY <1>0 DEF Typed
  <2>3. /\ \A x \in Sessions \ {src} : sess'[x] = sess[x]
        /\ sess'[src].node = sess[src].node /\ sess'[src].app = sess[src].app
        /\ sess'[src].held = sess[src].held /\ sess'[src].running = sess[src].running
        /\ sess'[src].handler = sess[src].handler /\ sess'[src].beat = "sleep"
    BY <1>1, <2>1, <2>2, BeatAnsweredTyped
  <2> QED BY <1>1, <2>1, <2>3, BeatGoesOn DEF Keeps
<1>2. CASE src \notin Sessions
  <2>1. src \in Calls /\ CallAnswered(src, verdict) /\ call[src].stage \in {"dereg", "register"}
    BY <1>2 DEF Answered, Waiting, Senders
  <2>2. CASE call[src].stage = "dereg"
    <3>1. Terminate(src) /\ UNCHANGED <<sess, slot>>
      BY <2>1, <2>2 DEF CallAnswered
    <3>2. /\ \A d \in Calls \ {src} : call'[d] = call[d]
          /\ call'[src].session = call[src].session
      BY <1>0, <2>1, <3>1, CallTerminates DEF Typed
    <3>3. StopsGoOn
      BY <2>2, <3>2 DEF StopsGoOn
    <3> QED BY <3>1, <3>3, CommandGoesOn
  <2>3. CASE call[src].stage = "register" /\ verdict = "ok"
    <3>1. PICK s \in Sessions : StartSession(src, s)
      BY <2>1, <2>3 DEF CallAnswered
    <3> QED BY <2>1, <2>3, <3>1, StartSessionServe
  <2>4. CASE call[src].stage = "register" /\ verdict # "ok"
    <3>1. call' = [call EXCEPT ![src] = NoCall] /\ UNCHANGED <<sess, slot>>
      BY <2>1, <2>4 DEF CallAnswered
    <3>2. call'[src].stage = "idle" /\ \A d \in Calls \ {src} : call'[d] = call[d]
      BY <1>0, <2>1, <3>1, CallGoes DEF Typed
    <3> QED BY <2>1, <3>1, <3>2, OthersStop, CommandGoesOn
  <2> QED BY <2>1, <2>2, <2>3, <2>4
<1> QED BY <1>1, <1>2

LEMMA DeliverServe ==
    ASSUME PartsInv, DutyInv, NEW m \in rpc, Deliver(m)
    PROVE  DutyInv' /\ ServeStep
<1>1. SentOK /\ m.reply # "none" /\ Answered(m.src, m.reply)
  BY PartsTyped DEF Deliver
<1>2. m \in Msgs /\ m.src # None
  BY <1>1 DEF Msgs, SentOK
<1>3. m.src \in Senders /\ Waiting(m.src)
  BY <1>1, <1>2, SenderWaits
<1> QED BY <1>1, <1>3, AnsweredServe

LEMMA GiveUpServe ==
    ASSUME PartsInv, DutyInv, NEW src \in Senders, GiveUp(src)
    PROVE  DutyInv' /\ ServeStep
BY AnsweredServe DEF GiveUp

\* A device dies with its sessions.
LEMMA NodeDiesServe ==
    ASSUME PartsInv, DutyInv, NEW n \in Nodes, NodeDies(n)
    PROVE  DutyInv' /\ ServeStep
<1> DEFINE dead(s) == [NoSession EXCEPT !.node = n, !.app = sess[s].app]
<1>0. Typed /\ n # None
  BY PartsTyped, EdgeAssumption
<1>1. /\ slot' = [slot EXCEPT ![n] = None]
      /\ call' = [c \in Calls |-> IF call[c].node = n THEN NoCall ELSE call[c]]
      /\ sess' = [s \in Sessions |-> IF sess[s].node = n THEN dead(s) ELSE sess[s]]
  BY DEF NodeDies
<1>2. \A s \in Sessions :
         /\ dead(s).node = n /\ dead(s).app = sess[s].app
         /\ ~dead(s).handler /\ dead(s).beat = "none"
  BY DEF NoSession
<1> HIDE DEF dead
<1>3. ASSUME NEW s \in Sessions, sess[s].node = n
      PROVE  /\ Keeps(s) /\ ~InSlot(s)' /\ ~sess'[s].handler /\ sess'[s].beat = "none"
             /\ sess'[s].node # None
  <2>1. /\ sess'[s].node = n /\ sess'[s].app = sess[s].app
        /\ ~sess'[s].handler /\ sess'[s].beat = "none"
    BY <1>1, <1>2, <1>3
  <2>2. slot'[n] = None /\ s # None
    BY <1>0, <1>1, NotACall DEF Typed, SlotsTyped
  <2> QED BY <1>0, <1>3, <2>1, <2>2 DEF Keeps, InSlot
<1>4. ASSUME NEW s \in Sessions, sess[s].node # n
      PROVE  sess'[s] = sess[s] /\ (InSlot(s)' <=> InSlot(s))
  <2>1. sess'[s] = sess[s] /\ sess[s].node \in Nodes \cup {None}
    BY <1>0, <1>1, <1>4 DEF Typed, SessTyped, SessionStates
  <2>2. sess[s].node # None => slot'[sess[s].node] = slot[sess[s].node]
    BY <1>0, <1>1, <1>4, <2>1 DEF Typed, SlotsTyped
  <2> QED BY <2>1, <2>2 DEF InSlot
<1>5. DutyInv'
  <2>1. \A s \in Sessions : InSlot(s)' => OnDuty(s)'
    BY <1>3, <1>4 DEF DutyInv, OnDuty
  <2>2. ASSUME NEW c \in Calls, NEW s \in Sessions,
               call'[c].stage \in {"dereg", "terminate"}, call'[c].session = s
        PROVE  sess'[s].node # None /\ ~InSlot(s)'
    <3>1. call'[c] = call[c]
      BY <1>1, <2>2 DEF NoCall
    <3>2. sess[s].node # None /\ ~InSlot(s)
      BY <2>2, <3>1 DEF DutyInv
    <3> QED BY <1>3, <1>4, <3>2
  <2> QED BY <2>1, <2>2 DEF DutyInv
<1>6. \A s \in Sessions : Seen'[s] = IF Seen[s].node = n THEN [Seen[s] EXCEPT !.phase = "over"]
                                                         ELSE Seen[s]
  <2> SUFFICES ASSUME NEW s \in Sessions
               PROVE  Seen'[s] = IF Seen[s].node = n THEN [Seen[s] EXCEPT !.phase = "over"]
                                                     ELSE Seen[s]
    OBVIOUS
  <2>1. Seen[s] = [phase |-> Phase(s), node |-> sess[s].node, app |-> sess[s].app]
    BY DEF Seen
  <2>2. Seen'[s] = [phase |-> Phase(s)', node |-> sess'[s].node, app |-> sess'[s].app]
    BY DEF Seen
  <2>3. CASE sess[s].node = n
    <3>1. Phase(s)' = "over" /\ Keeps(s)
      BY <1>3, <2>3, PhasesNext
    <3> QED BY <2>1, <2>2, <2>3, <3>1 DEF Keeps
  <2>4. CASE sess[s].node # n
    <3>1. SameTasks(s) /\ (InSlot(s)' <=> InSlot(s))
      BY <1>4, <2>4 DEF SameTasks, Keeps
    <3>2. Phase(s)' = Phase(s)
      BY <3>1, PhaseStays
    <3> QED BY <2>1, <2>2, <2>4, <3>1, <3>2 DEF SameTasks, Keeps
  <2> QED BY <2>3, <2>4
<1>7. Seen' = [s \in Sessions |-> IF Seen[s].node = n THEN [Seen[s] EXCEPT !.phase = "over"]
                                                      ELSE Seen[s]]
  <2>1. Seen' = [s \in Sessions |-> Seen'[s]]
    BY DEF Seen
  <2> QED BY <1>6, <2>1
<1>8. Device!Die(n)
  BY <1>1, <1>7 DEF Device!Die
<1>9. Device!SessionNext
  BY <1>8 DEF Device!SessionNext
<1> QED BY <1>5, <1>9 DEF ServeStep

LEMMA TickServe ==
    ASSUME PartsInv, DutyInv, Tick
    PROVE  DutyInv' /\ ServeStep
<1>1. UNCHANGED slot /\ Typed
  BY PartsTyped DEF Tick
<1>2. \A s \in Sessions :
         /\ sess'[s].node = sess[s].node /\ sess'[s].app = sess[s].app
         /\ sess'[s].held = sess[s].held /\ sess'[s].running = sess[s].running
         /\ sess'[s].handler = sess[s].handler /\ sess'[s].beat = sess[s].beat
  BY <1>1, TickTimes
<1>3. \A c \in Calls : call'[c].stage = call[c].stage /\ call'[c].session = call[c].session
  BY <1>1, TickTimes
<1>4. StopsGoOn /\ \A s \in Sessions : SameTasks(s)
  BY <1>2, <1>3 DEF StopsGoOn, SameTasks, Keeps
<1>5. DutyInv' /\ Seen' = Seen
  BY <1>1, <1>2, <1>4, Unseen
<1> QED BY <1>1, <1>5 DEF ServeStep, Device!sessionVars

LEMMA ServeInit == Init => DutyInv /\ Device!SessionInit
<1> SUFFICES ASSUME Init PROVE DutyInv /\ Device!SessionInit
  OBVIOUS
<1>1. /\ sess = [s \in Sessions |-> NoSession] /\ slot = [n \in Nodes |-> None]
      /\ call = [c \in Calls |-> NoCall]
  BY DEF Init
<1>2. NoCall.stage = "idle" /\ NoSession.node = None /\ NoSession.app = None
  BY DEF NoCall, NoSession
<1>3. DutyInv
  BY <1>1, <1>2 DEF DutyInv, InSlot
<1>4. Seen = [s \in Sessions |-> Device!NotStarted]
  BY <1>1, <1>2, Phases DEF Seen, Device!NotStarted
<1> QED BY <1>1, <1>3, <1>4 DEF Device!SessionInit

\* Every step keeps the sessions on duty, and is a step of ServeSessions or none.
LEMMA ServesOn == PartsInv /\ DutyInv /\ [Next]_vars => DutyInv' /\ ServeStep
<1> SUFFICES ASSUME PartsInv, DutyInv, [Next]_vars PROVE DutyInv' /\ ServeStep
  OBVIOUS
<1>q. ASSUME UNCHANGED <<sess, slot, call>> PROVE DutyInv' /\ ServeStep
  BY <1>q, CommandGoesOn DEF StopsGoOn
<1>1. ASSUME NEW c \in Calls, NEW n \in Nodes, BeginStop(c, n) PROVE DutyInv' /\ ServeStep
  BY <1>1, BeginStopServe
<1>2. ASSUME NEW c \in Calls, NEW n \in Nodes, NEW a \in Apps, BeginStart(c, n, a)
      PROVE DutyInv' /\ ServeStep
  BY <1>2, BeginStartServe
<1>3. ASSUME NEW c \in Calls, CallStep(c) PROVE DutyInv' /\ ServeStep
  BY <1>3, TakeServe, ReleaseServe, RegisterServe, StartFailsServe DEF CallStep
<1>4. ASSUME NEW s \in Sessions, TaskStep(s) PROVE DutyInv' /\ ServeStep
  BY <1>4, HandlerEndsServe, BeatEndsServe, BeatServe DEF TaskStep
<1>5. ASSUME NEW src \in Senders, GiveUp(src) PROVE DutyInv' /\ ServeStep
  BY <1>5, GiveUpServe
<1>6. ASSUME NEW m \in rpc, Deliver(m) PROVE DutyInv' /\ ServeStep
  BY <1>6, DeliverServe
<1>7. ASSUME NEW m \in rpc, Lose(m) PROVE DutyInv' /\ ServeStep
  BY <1>7, <1>q DEF Lose
<1>8. CASE EdgeStep
  BY <1>8, <1>q DEF EdgeStep, EdgePins, EdgeReturns, EdgeHandles
<1>9. CASE EdgeRefuses \/ EdgeDies
  BY <1>9, <1>q DEF EdgeRefuses, EdgeDies
<1>10. ASSUME NEW n \in Nodes, NodeDies(n) PROVE DutyInv' /\ ServeStep
  BY <1>10, NodeDiesServe
<1>11. CASE Tick
  BY <1>11, TickServe
<1>12. CASE UNCHANGED vars
  BY <1>12, <1>q DEF vars
<1> QED BY <1>1, <1>2, <1>3, <1>4, <1>5, <1>6, <1>7, <1>8, <1>9, <1>10, <1>11, <1>12 DEF Next

\* A session in its slot has both its tasks, and nothing has told them to stop
\* (serve.rs:145-198); one that is being stopped is in no slot any more, whatever
\* starts and stops of other connections do meanwhile (serve.rs:204-226).
THEOREM DutyInvariant == Spec => []DutyInv
<1>1. Init => DutyInv
  BY ServeInit
<1>2. PartsInv /\ DutyInv /\ [Next]_vars => DutyInv'
  BY ServesOn
<1> QED BY <1>1, <1>2, PublishingInvariant, PTL DEF Spec

\* For any devices, sessions, commands, timers, losses and crashes, every step of
\* publishing is a step of ServeSessions or changes nothing of its view: a session
\* leaves its slot once and does not serve again (serve.rs:53-226).
THEOREM PublishingServesOnce == Spec => SessionsServeOnce
<1>1. Init => Device!SessionInit
  BY ServeInit
<1>2. PartsInv /\ DutyInv /\ [Next]_vars => [Device!SessionNext]_(Device!sessionVars)
  BY ServesOn DEF ServeStep
<1> QED
  BY <1>1, <1>2, PublishingInvariant, DutyInvariant, PTL
  DEF Spec, SessionsServeOnce, Device!SessionSpec
=============================================================================
