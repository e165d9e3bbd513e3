------------------------ MODULE DaemonClients_proofs ------------------------
(***************************************************************************)
(* Theorems about what talks to the daemon: the calls made over its socket  *)
(* (DaemonCalls), a browser page's requests over the gateway                *)
(* (GatewaySession) and subscriptions to gossip topics (TopicStreams), for  *)
(* any number of daemons, callers, commands and events, any clients, topics *)
(* and messages, and any size of the channel.                               *)
(***************************************************************************)
EXTENDS GatewaySession, DaemonCalls, TopicStreams, SequenceTheorems, TLAPS

-----------------------------------------------------------------------------
(* The tables of commands and replies.                                      *)

\* An entry of a table of tables is an entry of one of them.
LEMMA JoinedEntry ==
    ASSUME NEW f, NEW g, NEW x \in DOMAIN Joined(f, g)
    PROVE  \/ x \in DOMAIN f /\ Joined(f, g)[x] = f[x]
           \/ x \in DOMAIN g /\ x \notin DOMAIN f /\ Joined(f, g)[x] = g[x]
BY DEF Joined

\* And an entry of a table is one of the joined table, unless it is hidden.
LEMMA EntryJoined ==
    ASSUME NEW f, NEW g, NEW x
    PROVE  /\ x \in DOMAIN f => x \in DOMAIN Joined(f, g) /\ Joined(f, g)[x] = f[x]
           /\ x \in DOMAIN g /\ x \notin DOMAIN f =>
                x \in DOMAIN Joined(f, g) /\ Joined(f, g)[x] = g[x]
BY DEF Joined

\* No reply is in two sections of the SDK's methods.
LEMMA MethodSections ==
    /\ \A r \in DOMAIN ObjectMethods : r \in DOMAIN Methods /\ Methods[r] = ObjectMethods[r]
    /\ \A r \in DOMAIN NetworkMethods : r \in DOMAIN Methods /\ Methods[r] = NetworkMethods[r]
    /\ \A r \in DOMAIN UserMethods : r \in DOMAIN Methods /\ Methods[r] = UserMethods[r]
    /\ \A r \in DOMAIN SyncMethods : r \in DOMAIN Methods /\ Methods[r] = SyncMethods[r]
    /\ \A r \in DOMAIN CapabilityMethods :
          r \in DOMAIN Methods /\ Methods[r] = CapabilityMethods[r]
<1>1. \A r : /\ r \in DOMAIN NetworkMethods => r \notin DOMAIN ObjectMethods
             /\ r \in DOMAIN UserMethods =>
                   r \notin DOMAIN ObjectMethods /\ r \notin DOMAIN NetworkMethods
  BY DEF ObjectMethods, NetworkMethods, UserMethods
<1>2. \A r : r \in DOMAIN SyncMethods =>
             /\ r \notin DOMAIN ObjectMethods /\ r \notin DOMAIN NetworkMethods
             /\ r \notin DOMAIN UserMethods
  BY DEF ObjectMethods, NetworkMethods, UserMethods, SyncMethods
<1>3. \A r : r \in DOMAIN CapabilityMethods =>
             /\ r \notin DOMAIN ObjectMethods /\ r \notin DOMAIN NetworkMethods
             /\ r \notin DOMAIN UserMethods /\ r \notin DOMAIN SyncMethods
  BY DEF ObjectMethods, NetworkMethods, UserMethods, SyncMethods, CapabilityMethods
<1> QED BY <1>1, <1>2, <1>3, EntryJoined DEF Methods

\* The reply of a section's command is one its own method takes.
Taken(cmd, reply) == reply \in DOMAIN Methods /\ cmd \in Methods[reply]

\* The commands of the object store.
LEMMA StorageTaken == \A cmd \in DOMAIN StorageReplies : Taken(cmd, StorageReplies[cmd])
<1>1. \A cmd \in DOMAIN StorageReplies :
         \/ /\ StorageReplies[cmd] \in DOMAIN ObjectMethods
            /\ cmd \in ObjectMethods[StorageReplies[cmd]]
         \/ /\ StorageReplies[cmd] \in DOMAIN CapabilityMethods
            /\ cmd \in CapabilityMethods[StorageReplies[cmd]]
  BY DEF StorageReplies, ObjectMethods, CapabilityMethods
<1> QED BY <1>1, MethodSections DEF Taken

\* The commands of the network.
LEMMA NetworkTaken == \A cmd \in DOMAIN NetworkReplies : Taken(cmd, NetworkReplies[cmd])
<1>1. \A cmd \in DOMAIN NetworkReplies :
         \/ /\ NetworkReplies[cmd] \in DOMAIN ObjectMethods
            /\ cmd \in ObjectMethods[NetworkReplies[cmd]]
         \/ /\ NetworkReplies[cmd] \in DOMAIN NetworkMethods
            /\ cmd \in NetworkMethods[NetworkReplies[cmd]]
         \/ /\ NetworkReplies[cmd] \in DOMAIN CapabilityMethods
            /\ cmd \in CapabilityMethods[NetworkReplies[cmd]]
  BY DEF NetworkReplies, ObjectMethods, NetworkMethods, CapabilityMethods
<1> QED BY <1>1, MethodSections DEF Taken

\* The commands of the owner's records.
LEMMA RecordTaken == \A cmd \in DOMAIN RecordReplies : Taken(cmd, RecordReplies[cmd])
<1>1. \A cmd \in DOMAIN RecordReplies :
         \/ /\ RecordReplies[cmd] \in DOMAIN ObjectMethods
            /\ cmd \in ObjectMethods[RecordReplies[cmd]]
         \/ /\ RecordReplies[cmd] \in DOMAIN NetworkMethods
            /\ cmd \in NetworkMethods[RecordReplies[cmd]]
         \/ /\ RecordReplies[cmd] \in DOMAIN UserMethods
            /\ cmd \in UserMethods[RecordReplies[cmd]]
         \/ /\ RecordReplies[cmd] \in DOMAIN SyncMethods
            /\ cmd \in SyncMethods[RecordReplies[cmd]]
  BY DEF RecordReplies, ObjectMethods, NetworkMethods, UserMethods, SyncMethods
<1> QED BY <1>1, MethodSections DEF Taken

\* The commands of identities and devices.
LEMMA IdentityTaken == \A cmd \in DOMAIN IdentityReplies : Taken(cmd, IdentityReplies[cmd])
<1>1. \A cmd \in DOMAIN IdentityReplies :
         \/ /\ IdentityReplies[cmd] \in DOMAIN ObjectMethods
            /\ cmd \in ObjectMethods[IdentityReplies[cmd]]
         \/ /\ IdentityReplies[cmd] \in DOMAIN UserMethods
            /\ cmd \in UserMethods[IdentityReplies[cmd]]
  BY DEF IdentityReplies, ObjectMethods, UserMethods
<1> QED BY <1>1, MethodSections DEF Taken

\* The commands of pairing, capabilities and serve sessions.
LEMMA SessionTaken == \A cmd \in DOMAIN SessionReplies : Taken(cmd, SessionReplies[cmd])
<1>1. \A cmd \in DOMAIN SessionReplies :
         \/ /\ SessionReplies[cmd] \in DOMAIN UserMethods
            /\ cmd \in UserMethods[SessionReplies[cmd]]
         \/ /\ SessionReplies[cmd] \in DOMAIN SyncMethods
            /\ cmd \in SyncMethods[SessionReplies[cmd]]
         \/ /\ SessionReplies[cmd] \in DOMAIN CapabilityMethods
            /\ cmd \in CapabilityMethods[SessionReplies[cmd]]
  BY DEF SessionReplies, UserMethods, SyncMethods, CapabilityMethods
<1> QED BY <1>1, MethodSections DEF Taken

\* What `handle` answers a command with is what the SDK's method takes.
LEMMA RepliesAreTaken ==
    \A cmd \in NodeCommand : Understood(cmd, NodeReplies[cmd]) \in {"ok", "error"}
<1> SUFFICES ASSUME NEW cmd \in NodeCommand PROVE Taken(cmd, NodeReplies[cmd])
  BY DEF Understood, Taken
<1> QED BY JoinedEntry, StorageTaken, NetworkTaken, RecordTaken, IdentityTaken, SessionTaken
        DEF NodeCommand, NodeReplies

-----------------------------------------------------------------------------
(* Calls: a reply says what became of the command.                          *)

CallType ==
    [at : {"idle", "queued", "reading", "running", "replying", "settled"},
     by : Daemons \cup {NoDaemon}, cmd : NodeCommand \cup {"none"},
     reply : {NodeReplies[cmd] : cmd \in NodeCommand} \cup {"none", "Error", "lost"},
     did : BOOLEAN]

\* The reply a handler has made up its mind for.
Answered(k) ==
    /\ k.cmd \in NodeCommand
    /\ k.reply = "Error" \/ (k.reply = NodeReplies[k.cmd] /\ k.did)

\* A call that is under way names a command, one that runs is carried out, and
\* what is written back is the handler's answer or nothing.
CallOK(k) ==
    /\ k \in CallType
    /\ k.at \in {"queued", "reading", "running"} => k.cmd \in NodeCommand
    /\ k.at = "running" => k.did
    /\ k.at = "replying" => Answered(k)
    /\ k.at = "settled" => k.reply = "lost" \/ Answered(k)

CallsInv ==
    /\ socket \in Daemons \cup {NoDaemon}
    /\ call \in [Callers -> CallType]
    /\ \A c \in Callers : CallOK(call[c])

\* A caller that waits for nothing.
LEMMA NoCallOK == CallOK(NoCall)
BY DEF CallOK, CallType, NoCall

LEMMA InitCallsInv == CallInit => CallsInv
BY NoCallOK DEF CallInit, CallsInv, CallOK

\* One call moves on.
LEMMA CallMoves ==
    ASSUME CallsInv, NEW c \in Callers, NEW k, CallOK(k), call' = [call EXCEPT ![c] = k],
           socket' = socket
    PROVE  CallsInv'
BY DEF CallsInv, CallOK

\* The calls of a daemon that goes are lost, whatever stage they are in.
LEMMA FailKeeps ==
    ASSUME CallsInv, NEW cs, call' = Fail(cs), socket' \in Daemons \cup {NoDaemon}
    PROVE  CallsInv'
<1>1. \A c \in Callers : call'[c] = call[c] \/
            call'[c] = [call[c] EXCEPT !.at = "settled", !.reply = "lost"]
  BY DEF Fail
<1>2. \A c \in Callers : CallOK(call'[c])
  <2> TAKE c \in Callers
  <2>1. CallOK(call[c])
    BY DEF CallsInv
  <2>2. CallOK([call[c] EXCEPT !.at = "settled", !.reply = "lost"])
    BY <2>1 DEF CallOK, CallType
  <2> QED BY <1>1, <2>1, <2>2
<1>3. call' \in [Callers -> CallType]
  BY <1>2 DEF Fail, CallOK
<1> QED BY <1>2, <1>3 DEF CallsInv

\* Every step of daemons and callers keeps the replies true.
LEMMA CallsPreserved == CallsInv /\ [CallNext]_callVars => CallsInv'
<1> SUFFICES ASSUME CallsInv, [CallNext]_callVars PROVE CallsInv'
  OBVIOUS
<1> USE CallsAssumption
<1>1. ASSUME UNCHANGED call, socket' \in Daemons \cup {NoDaemon} PROVE CallsInv'
  BY <1>1 DEF CallsInv
<1>2. CASE UNCHANGED callVars \/ CheckStart \/ SpawnNode
  BY <1>1, <1>2 DEF callVars, CheckStart, SpawnNode, CallsInv
<1>3. ASSUME NEW d \in Daemons,
             OpenNode(d) \/ RemoveStale(d) \/ Bind(d)
      PROVE  CallsInv'
  BY <1>1, <1>3 DEF OpenNode, RemoveStale, Bind, CallsInv
<1>4. ASSUME NEW d \in Daemons, AbortCalls(d) \/ Exit(d) \/ Kill(d) PROVE CallsInv'
  BY <1>4, FailKeeps DEF AbortCalls, Exit, Kill, CallsInv
<1>5. ASSUME NEW d \in Daemons, Unlink(d) PROVE CallsInv'
  BY <1>1, <1>5 DEF Unlink, CallsInv
<1>6. ASSUME NEW c \in Callers, Request(c) PROVE CallsInv'
  <2>1. PICK cmd \in Menu[c] :
            call' = [call EXCEPT ![c] =
                IF Answers THEN [NoCall EXCEPT !.at = "queued", !.by = socket, !.cmd = cmd]
                ELSE [NoCall EXCEPT !.at = "settled", !.reply = "lost"]]
    BY <1>6 DEF Request
  <2>2. cmd \in NodeCommand
    OBVIOUS
  <2>3. CallOK([NoCall EXCEPT !.at = "queued", !.by = socket, !.cmd = cmd])
    BY <2>2, NoCallOK DEF CallOK, CallType, CallsInv, NoCall
  <2>4. CallOK([NoCall EXCEPT !.at = "settled", !.reply = "lost"])
    BY NoCallOK DEF CallOK, CallType, NoCall
  <2>5. socket' = socket
    BY <1>6 DEF Request
  <2> QED BY <2>1, <2>3, <2>4, <2>5, CallMoves
<1>7. ASSUME NEW c \in Callers, AcceptCall(c) PROVE CallsInv'
  <2> DEFINE k == [call[c] EXCEPT !.at = "reading"]
  <2>1. CallOK(k)
    BY <1>7 DEF AcceptCall, CallsInv, CallOK, CallType
  <2>2. call' = [call EXCEPT ![c] = k] /\ socket' = socket
    BY <1>7 DEF AcceptCall
  <2> HIDE DEF k
  <2> QED BY <2>1, <2>2, CallMoves
<1>8. ASSUME NEW c \in Callers, Handle(c) PROVE CallsInv'
  <2> DEFINE k == [call[c] EXCEPT !.at = "running", !.did = TRUE]
  <2>1. CallOK(k)
    BY <1>8 DEF Handle, CallsInv, CallOK, CallType
  <2>2. call' = [call EXCEPT ![c] = k] /\ socket' = socket
    BY <1>8 DEF Handle
  <2> HIDE DEF k
  <2> QED BY <2>1, <2>2, CallMoves
<1>9. ASSUME NEW c \in Callers, Reply(c) PROVE CallsInv'
  <2>0. /\ CallOK(call[c]) /\ call[c].at \in {"reading", "running"} /\ socket' = socket
        /\ call[c].cmd \in NodeCommand
    BY <1>9 DEF Reply, CallsInv, CallOK
  <2> DEFINE k == [call[c] EXCEPT !.at = "replying", !.reply = NodeReplies[call[c].cmd]]
             e == [call[c] EXCEPT !.at = "replying", !.reply = "Error"]
  <2>1. CASE call[c].at = "running" /\ call' = [call EXCEPT ![c] = k]
    <3>1. CallOK(k)
      BY <2>0, <2>1 DEF CallOK, CallType, Answered
    <3> HIDE DEF k
    <3> QED BY <2>0, <2>1, <3>1, CallMoves
  <2>2. CASE call' = [call EXCEPT ![c] = e]
    <3>1. CallOK(e)
      BY <2>0 DEF CallOK, CallType, Answered
    <3> HIDE DEF e
    <3> QED BY <2>0, <2>2, <3>1, CallMoves
  <2> QED BY <1>9, <2>1, <2>2 DEF Reply
<1>10. ASSUME NEW c \in Callers, Settle(c) PROVE CallsInv'
  <2> DEFINE k == [call[c] EXCEPT !.at = "settled"]
  <2>1. CallOK(k)
    BY <1>10 DEF Settle, CallsInv, CallOK, CallType, Answered
  <2>2. call' = [call EXCEPT ![c] = k] /\ socket' = socket
    BY <1>10 DEF Settle
  <2> HIDE DEF k
  <2> QED BY <2>1, <2>2, CallMoves
<1> QED BY <1>2, <1>3, <1>4, <1>5, <1>6, <1>7, <1>8, <1>9, <1>10 DEF CallNext

\* Whatever is shut down, killed or aborted meanwhile, a call that succeeds has
\* had its command carried out (Node::handle, CanopeeClient::request), and every
\* reply is one the method that waits for it takes.
THEOREM RepliesAreUnderstood == CallSpec => []AnswersAreUnderstood
<1>1. CallsInv => AnswersAreUnderstood
  BY RepliesAreTaken DEF CallsInv, CallOK, Answered, AnswersAreUnderstood, Understood
<1> QED BY <1>1, InitCallsInv, CallsPreserved, PTL DEF CallSpec

-----------------------------------------------------------------------------
(* The socket.                                                              *)

DaemonStages == {"unborn", "opening", "found", "binding", "listening", "stopping",
                 "unlinked", "gone"}

\* As long as no two starts have overlapped: at most one daemon is about to come
\* up, a daemon whose file has not been removed is the one the file leads to, and
\* while there is one nothing is about to come up.
SocketInv ==
    /\ daemon \in [Daemons -> DaemonStages] /\ checked \in Nat /\ raced \in BOOLEAN
    /\ ~raced =>
         /\ checked <= 1 /\ (checked = 1 => Rising = {})
         /\ \A d, e \in Rising : d = e
         /\ \A d \in Daemons : daemon[d] \in {"listening", "stopping"} =>
               socket = d /\ checked = 0 /\ Rising = {}

LEMMA InitSocketInv == CallInit => SocketInv
<1> SUFFICES ASSUME CallInit PROVE SocketInv
  OBVIOUS
<1>1. Rising = {}
  BY DEF CallInit, Rising
<1>2. \A d \in Daemons : daemon[d] \notin {"listening", "stopping"}
  BY DEF CallInit
<1>3. daemon \in [Daemons -> DaemonStages] /\ checked = 0 /\ raced \in BOOLEAN
  BY DEF CallInit, DaemonStages
<1> QED BY <1>1, <1>2, <1>3 DEF SocketInv

\* A daemon that goes or stops, or whose file is removed, threatens nobody.
LEMMA SettlesDown ==
    ASSUME SocketInv, CallsAssumption, NEW d \in Daemons, NEW s,
           Becomes(d, s), UNCHANGED <<checked, raced>>,
           \/ s = "gone" /\ UNCHANGED socket
           \/ s = "stopping" /\ daemon[d] = "listening" /\ UNCHANGED socket
           \/ s = "unlinked" /\ daemon[d] = "stopping"
    PROVE  SocketInv'
<1>1. daemon' = [daemon EXCEPT ![d] = s] /\ daemon' \in [Daemons -> DaemonStages]
  BY DEF Becomes, SocketInv, DaemonStages
<1>2. Rising' \subseteq Rising
  BY <1>1 DEF Rising, SocketInv
<1> QED BY <1>1, <1>2 DEF SocketInv

\* Every step keeps the socket a lock, until two starts overlap.
LEMMA SocketPreserved == SocketInv /\ [CallNext]_callVars => SocketInv'
<1> SUFFICES ASSUME SocketInv, [CallNext]_callVars PROVE SocketInv'
  OBVIOUS
<1> USE CallsAssumption
<1>1. ASSUME UNCHANGED <<daemon, socket, checked, raced>> PROVE SocketInv'
  BY <1>1 DEF SocketInv, Rising
<1>2. CASE UNCHANGED callVars
  BY <1>1, <1>2 DEF callVars
<1>3. CASE CheckStart
  <2>1. CASE Answers
    BY <1>1, <1>3, <2>1 DEF CheckStart
  <2>2. CASE ~Answers
    <3>1. UNCHANGED <<daemon, socket>> /\ checked' = checked + 1
          /\ raced' = (raced \/ checked > 0 \/ Rising # {})
      BY <1>3, <2>2 DEF CheckStart
    <3>2. Rising' = Rising
      BY <3>1 DEF Rising
    <3>3. ~raced => \A d \in Daemons : daemon[d] \notin {"listening", "stopping"}
      BY <2>2 DEF Answers, HasListener, SocketInv
    <3>4. raced' \in BOOLEAN /\ (~raced' => ~raced /\ ~(checked > 0) /\ Rising = {})
      BY <3>1 DEF SocketInv
    <3> QED BY <3>1, <3>2, <3>3, <3>4 DEF SocketInv
  <2> QED BY <2>1, <2>2
<1>4. CASE SpawnNode
  <2>1. PICK d \in Daemons :
            daemon[d] = "unborn" /\ daemon' = [daemon EXCEPT ![d] = "opening"]
    BY <1>4 DEF SpawnNode
  <2>2. checked > 0 /\ checked' = checked - 1 /\ UNCHANGED <<socket, raced>>
    BY <1>4 DEF SpawnNode
  <2>3. Rising' \subseteq Rising \cup {d}
    BY <2>1 DEF Rising, SocketInv
  <2> QED BY <2>1, <2>2, <2>3 DEF SocketInv, DaemonStages
<1>5. ASSUME NEW d \in Daemons, NEW s \in {"binding", "found"}, d \in Rising, Becomes(d, s),
             UNCHANGED <<checked, raced>>
      PROVE  SocketInv'
  <2>1. daemon' = [daemon EXCEPT ![d] = s] /\ daemon' \in [Daemons -> DaemonStages]
    BY <1>5 DEF Becomes, SocketInv, DaemonStages
  <2>2. Rising' = Rising
    BY <1>5, <2>1 DEF Rising, SocketInv
  <2> QED BY <1>5, <2>1, <2>2 DEF SocketInv
<1>6. ASSUME NEW d \in Daemons, OpenNode(d) PROVE SocketInv'
  <2>1. d \in Rising
    BY <1>6 DEF OpenNode, Rising
  <2>2. UNCHANGED <<socket, checked, raced>>
    BY <1>6 DEF OpenNode
  <2>3. \E s \in {"gone", "binding", "found"} : Becomes(d, s)
    BY <1>6 DEF OpenNode, Becomes
  <2> QED BY <1>5, <2>1, <2>2, <2>3, SettlesDown
<1>7. ASSUME NEW d \in Daemons, RemoveStale(d) PROVE SocketInv'
  <2>1. d \in Rising
    BY <1>7 DEF RemoveStale, Rising
  <2> QED BY <1>5, <1>7, <2>1, SettlesDown DEF RemoveStale
<1>8. ASSUME NEW d \in Daemons, Bind(d) PROVE SocketInv'
  <2>1. d \in Rising
    BY <1>8 DEF Bind, Rising
  <2>2. CASE socket = NoDaemon
    <3>1. socket' = d /\ daemon' = [daemon EXCEPT ![d] = "listening"]
          /\ UNCHANGED <<checked, raced>>
      BY <1>8, <2>2 DEF Bind, Becomes
    <3>2. Rising' = Rising \ {d}
      BY <3>1 DEF Rising, SocketInv
    <3> QED BY <2>1, <3>1, <3>2 DEF SocketInv, DaemonStages
  <2>3. CASE socket # NoDaemon
    BY <1>8, <2>3, SettlesDown DEF Bind
  <2> QED BY <2>2, <2>3
<1>9. ASSUME NEW d \in Daemons, AbortCalls(d) \/ Unlink(d) \/ Exit(d) \/ Kill(d)
      PROVE  SocketInv'
  BY <1>1, <1>9, SettlesDown DEF AbortCalls, Unlink, Exit, Kill, boundVars
<1>10. ASSUME NEW c \in Callers,
              Request(c) \/ AcceptCall(c) \/ Handle(c) \/ Reply(c) \/ Settle(c)
       PROVE  SocketInv'
  <2>1. CASE Settle(c) /\ call[c].by \in Daemons
    BY <1>1, <1>10, <2>1, SettlesDown DEF Settle, boundVars
  <2>2. CASE Settle(c) /\ call[c].by \notin Daemons
    <3>1. daemon' \in {daemon, [daemon EXCEPT ![call[c].by] = "stopping"]}
      BY <2>2 DEF Settle, Becomes
    <3>2. daemon' = daemon
      BY <2>2, <3>1 DEF SocketInv
    <3> QED BY <1>1, <2>2, <3>2 DEF Settle, boundVars
  <2> QED BY <1>1, <1>10, <2>1, <2>2 DEF Request, AcceptCall, Handle, Reply, boundVars
<1> QED BY <1>2, <1>3, <1>4, <1>6, <1>7, <1>8, <1>9, <1>10 DEF CallNext

\* "The socket is the lock" (daemon.rs), for starts that do not overlap: through
\* every stop, kill and restart the daemon that listens is the one the file
\* leads to, and it is alone beside daemons that are on their way out.
THEOREM SocketLeads == CallSpec => []SocketLeadsToDaemon
<1>1. SocketInv => SocketLeadsToDaemon
  BY DEF SocketInv, SocketLeadsToDaemon, HasListener
<1> QED BY <1>1, InitSocketInv, SocketPreserved, PTL DEF CallSpec

-----------------------------------------------------------------------------
(* The page's requests and the frames that carry them.                      *)

Frames == [id : Nat, kind : CommandKinds \cup {"close"}]
Results == [op : {"ok", "error", "message"}, to : Nat]
Fates == {"unsent", "waiting", "own", "other", "rejected"}

GatewayTyped ==
    /\ pending \in Seq(Ids) /\ fate \in [Ids -> Fates] /\ sent \in 0..MaxCommands
    /\ inbox \in Seq(Frames) /\ outbox \in Seq(Results)
    /\ gate \in {"listening", "reading", "halfway", "lost", "running", "over"}
    /\ gate = "halfway" => inbox # <<>>
    /\ command \in Nat /\ failed \in BOOLEAN
    /\ events \in Seq([op : {"message", "error"}, to : {0}])

\* The requests that wait, those with an answer on its way to the page, the one
\* the session runs, and those it has not read.
Waiting == {pending[k] : k \in 1..Len(pending)}

AnsweredIn(s) == {s[k].to : k \in {j \in 1..Len(s) : s[j].op # "message"}}

Running == IF gate = "running" THEN {command} ELSE {}

UnreadIn(s) == {s[k].id : k \in {j \in 1..Len(s) : s[j].kind \in {"call", "invalid"}}}

Increasing(s) == \A j, k \in 1..Len(s) : j < k => s[j] < s[k]

AnswersInOrder(s) ==
    \A j, k \in 1..Len(s) :
        j < k /\ s[j].op # "message" /\ s[k].op # "message" => s[j].to < s[k].to

UnreadInOrder(s) ==
    \A j, k \in 1..Len(s) :
        j < k /\ s[j].kind \in {"call", "invalid"} /\ s[k].kind \in {"call", "invalid"}
            => s[j].id < s[k].id

\* The page's side: requests wait in the order they were sent, and the answers on
\* their way are to the oldest of them, in that order.
PageInOrder ==
    /\ \A i \in Ids : fate[i] # "other"
    /\ Increasing(pending) /\ \A p \in Waiting : p <= sent
    /\ AnswersInOrder(outbox) /\ AnsweredIn(outbox) \subseteq Waiting
    /\ \A a \in AnsweredIn(outbox), p \in Waiting : p < a => p \in AnsweredIn(outbox)

\* The session's side: what it has answered, runs and has not read follow each
\* other, and no request that waits is anywhere else.
SessionInOrder ==
    /\ UnreadInOrder(inbox)
    /\ Running \cup UnreadIn(inbox) \subseteq Waiting
    /\ \A a \in AnsweredIn(outbox), b \in Running \cup UnreadIn(inbox) : a < b
    /\ \A a \in Running, b \in UnreadIn(inbox) : a < b
    /\ Waiting \subseteq AnsweredIn(outbox) \cup Running \cup UnreadIn(inbox)

\* Until a subscription fails or a part of a frame is dropped.
GatewayInv ==
    /\ GatewayTyped
    /\ ~failed /\ torn = {} =>
         gate # "lost" /\ PageInOrder /\ (gate # "over" => SessionInOrder)

\* Taking the first frame off the way to the page.
LEMMA TailOfAnswers ==
    ASSUME NEW s \in Seq(Results), s # <<>>
    PROVE  /\ AnsweredIn(Tail(s)) \subseteq AnsweredIn(s)
           /\ Head(s).op = "message" => AnsweredIn(s) \subseteq AnsweredIn(Tail(s))
           /\ Head(s).op # "message" =>
                /\ Head(s).to \in AnsweredIn(s)
                /\ AnsweredIn(s) \subseteq AnsweredIn(Tail(s)) \cup {Head(s).to}
           /\ AnswersInOrder(s) =>
                /\ AnswersInOrder(Tail(s))
                /\ Head(s).op # "message" => \A a \in AnsweredIn(Tail(s)) : Head(s).to < a
<1>1. /\ Len(s) \in Nat /\ Len(s) > 0 /\ Len(Tail(s)) = Len(s) - 1 /\ Head(s) = s[1]
      /\ \A k \in 1..Len(Tail(s)) : Tail(s)[k] = s[k + 1]
  BY HeadTailProperties
<1>2. \A k \in 1..Len(Tail(s)) : k + 1 \in 1..Len(s)
  BY <1>1
<1>3. \A k \in 1..Len(s) : k = 1 \/ (k - 1 \in 1..Len(Tail(s)) /\ Tail(s)[k - 1] = s[k])
  BY <1>1
<1>4. 1 \in 1..Len(s)
  BY <1>1
<1>5. AnsweredIn(Tail(s)) \subseteq AnsweredIn(s)
  BY <1>1, <1>2 DEF AnsweredIn
<1>6. ASSUME NEW a \in AnsweredIn(s)
      PROVE  a \in AnsweredIn(Tail(s)) \/ (Head(s).op # "message" /\ a = Head(s).to)
  BY <1>1, <1>3, <1>6 DEF AnsweredIn
<1>7. Head(s).op # "message" => Head(s).to \in AnsweredIn(s)
  BY <1>1, <1>4 DEF AnsweredIn
<1>8. ASSUME AnswersInOrder(s)
      PROVE  /\ AnswersInOrder(Tail(s))
             /\ Head(s).op # "message" => \A a \in AnsweredIn(Tail(s)) : Head(s).to < a
  BY <1>1, <1>2, <1>4, <1>8 DEF AnswersInOrder, AnsweredIn
<1> QED BY <1>5, <1>6, <1>7, <1>8

\* Writing a frame to the page.
LEMMA AppendAnswer ==
    ASSUME NEW s \in Seq(Results), NEW m \in Results
    PROVE  /\ AnsweredIn(Append(s, m)) =
                 AnsweredIn(s) \cup (IF m.op # "message" THEN {m.to} ELSE {})
           /\ /\ AnswersInOrder(s)
              /\ m.op # "message" => \A a \in AnsweredIn(s) : a < m.to
              => AnswersInOrder(Append(s, m))
<1>1. /\ Len(s) \in Nat /\ Len(Append(s, m)) = Len(s) + 1 /\ Append(s, m)[Len(s) + 1] = m
      /\ \A k \in 1..Len(s) : Append(s, m)[k] = s[k] /\ k \in 1..Len(Append(s, m))
  BY AppendProperties
<1>2. \A k \in 1..Len(Append(s, m)) : k \in 1..Len(s) \/ k = Len(s) + 1
  BY <1>1
<1>3. Len(s) + 1 \in 1..Len(Append(s, m))
  BY <1>1
<1>4. AnsweredIn(Append(s, m)) = AnsweredIn(s) \cup (IF m.op # "message" THEN {m.to} ELSE {})
  BY <1>1, <1>2, <1>3 DEF AnsweredIn
<1>5. ASSUME AnswersInOrder(s), m.op # "message" => \A a \in AnsweredIn(s) : a < m.to
      PROVE  AnswersInOrder(Append(s, m))
  BY <1>1, <1>2, <1>5 DEF AnswersInOrder, AnsweredIn
<1> QED BY <1>4, <1>5

\* The session takes the first frame off its socket.
LEMMA TailOfUnread ==
    ASSUME NEW s \in Seq(Frames), s # <<>>
    PROVE  /\ UnreadIn(Tail(s)) \subseteq UnreadIn(s)
           /\ Head(s).kind \notin {"call", "invalid"} => UnreadIn(s) \subseteq UnreadIn(Tail(s))
           /\ Head(s).kind \in {"call", "invalid"} =>
                /\ Head(s).id \in UnreadIn(s)
                /\ UnreadIn(s) \subseteq UnreadIn(Tail(s)) \cup {Head(s).id}
           /\ UnreadInOrder(s) =>
                /\ UnreadInOrder(Tail(s))
                /\ Head(s).kind \in {"call", "invalid"} =>
                      \A b \in UnreadIn(Tail(s)) : Head(s).id < b
<1>1. /\ Len(s) \in Nat /\ Len(s) > 0 /\ Len(Tail(s)) = Len(s) - 1 /\ Head(s) = s[1]
      /\ \A k \in 1..Len(Tail(s)) : Tail(s)[k] = s[k + 1]
  BY HeadTailProperties
<1>2. \A k \in 1..Len(Tail(s)) : k + 1 \in 1..Len(s)
  BY <1>1
<1>3. \A k \in 1..Len(s) : k = 1 \/ (k - 1 \in 1..Len(Tail(s)) /\ Tail(s)[k - 1] = s[k])
  BY <1>1
<1>4. 1 \in 1..Len(s)
  BY <1>1
<1>5. UnreadIn(Tail(s)) \subseteq UnreadIn(s)
  BY <1>1, <1>2 DEF UnreadIn
<1>6. ASSUME NEW b \in UnreadIn(s)
      PROVE  b \in UnreadIn(Tail(s)) \/ (Head(s).kind \in {"call", "invalid"} /\ b = Head(s).id)
  BY <1>1, <1>3, <1>6 DEF UnreadIn
<1>7. Head(s).kind \in {"call", "invalid"} => Head(s).id \in UnreadIn(s)
  BY <1>1, <1>4 DEF UnreadIn
<1>8. ASSUME UnreadInOrder(s)
      PROVE  /\ UnreadInOrder(Tail(s))
             /\ Head(s).kind \in {"call", "invalid"} =>
                   \A b \in UnreadIn(Tail(s)) : Head(s).id < b
  BY <1>1, <1>2, <1>4, <1>8 DEF UnreadInOrder, UnreadIn
<1> QED BY <1>5, <1>6, <1>7, <1>8

\* The page sends a frame.
LEMMA AppendFrame ==
    ASSUME NEW s \in Seq(Frames), NEW f \in Frames
    PROVE  /\ UnreadIn(Append(s, f)) =
                 UnreadIn(s) \cup (IF f.kind \in {"call", "invalid"} THEN {f.id} ELSE {})
           /\ /\ UnreadInOrder(s)
              /\ f.kind \in {"call", "invalid"} => \A b \in UnreadIn(s) : b < f.id
              => UnreadInOrder(Append(s, f))
<1>1. /\ Len(s) \in Nat /\ Len(Append(s, f)) = Len(s) + 1 /\ Append(s, f)[Len(s) + 1] = f
      /\ \A k \in 1..Len(s) : Append(s, f)[k] = s[k] /\ k \in 1..Len(Append(s, f))
  BY AppendProperties
<1>2. \A k \in 1..Len(Append(s, f)) : k \in 1..Len(s) \/ k = Len(s) + 1
  BY <1>1
<1>3. Len(s) + 1 \in 1..Len(Append(s, f))
  BY <1>1
<1>4. UnreadIn(Append(s, f)) =
          UnreadIn(s) \cup (IF f.kind \in {"call", "invalid"} THEN {f.id} ELSE {})
  BY <1>1, <1>2, <1>3 DEF UnreadIn
<1>5. ASSUME UnreadInOrder(s), f.kind \in {"call", "invalid"} => \A b \in UnreadIn(s) : b < f.id
      PROVE  UnreadInOrder(Append(s, f))
  BY <1>1, <1>2, <1>5 DEF UnreadInOrder, UnreadIn
<1> QED BY <1>4, <1>5

\* The oldest request is settled.
LEMMA OldestLeaves ==
    ASSUME pending \in Seq(Ids), pending # <<>>, pending' = Tail(pending), Increasing(pending)
    PROVE  /\ Head(pending) \in Waiting /\ Waiting' = Waiting \ {Head(pending)}
           /\ \A p \in Waiting : Head(pending) <= p
           /\ Increasing(pending)' /\ pending' \in Seq(Ids)
<1>0. \A k \in 1..Len(pending) : pending[k] \in Int
  BY GatewayBounds, ElementOfSeq DEF Ids
<1>1. /\ Len(pending) \in Nat /\ Len(pending) > 0 /\ Len(pending') = Len(pending) - 1
      /\ Head(pending) = pending[1] /\ pending' \in Seq(Ids)
      /\ \A k \in 1..Len(pending') : pending'[k] = pending[k + 1]
  BY HeadTailProperties
<1>2. \A k \in 1..Len(pending') : k + 1 \in 1..Len(pending)
  BY <1>1
<1>3. \A k \in 1..Len(pending) : k = 1 \/ (k - 1 \in 1..Len(pending') /\ pending'[k - 1] = pending[k])
  BY <1>1
<1>4. 1 \in 1..Len(pending)
  BY <1>1
<1>5. \A p \in Waiting : Head(pending) <= p
  BY <1>0, <1>1, <1>4 DEF Waiting, Increasing
<1>6. Waiting' \subseteq Waiting \ {Head(pending)}
  BY <1>0, <1>1, <1>2, <1>4 DEF Waiting, Increasing
<1>7. ASSUME NEW p \in Waiting, p # Head(pending) PROVE p \in Waiting'
  <2>1. PICK k \in 1..Len(pending) : pending[k] = p
    BY DEF Waiting
  <2>2. k - 1 \in 1..Len(pending') /\ pending'[k - 1] = p
    BY <1>1, <1>3, <1>7, <2>1
  <2> QED BY <2>2 DEF Waiting
<1>8. Increasing(pending)'
  BY <1>1, <1>2 DEF Increasing
<1> QED BY <1>1, <1>4, <1>5, <1>6, <1>7, <1>8 DEF Waiting

\* A request joins those that wait.
LEMMA NewestJoins ==
    ASSUME pending \in Seq(Ids), NEW i \in Ids, pending' = Append(pending, i),
           Increasing(pending), \A p \in Waiting : p < i
    PROVE  /\ Waiting' = Waiting \cup {i} /\ Increasing(pending)' /\ pending' \in Seq(Ids)
<1>1. /\ Len(pending) \in Nat /\ Len(pending') = Len(pending) + 1 /\ pending'[Len(pending) + 1] = i
      /\ \A k \in 1..Len(pending) : pending'[k] = pending[k] /\ k \in 1..Len(pending')
      /\ pending' \in Seq(Ids)
  BY AppendProperties
<1>2. \A k \in 1..Len(pending') : k \in 1..Len(pending) \/ k = Len(pending) + 1
  BY <1>1
<1>3. Len(pending) + 1 \in 1..Len(pending')
  BY <1>1
<1>4. Waiting' = Waiting \cup {i}
  BY <1>1, <1>2, <1>3 DEF Waiting
<1>5. Increasing(pending)'
  BY <1>1, <1>2 DEF Increasing, Waiting
<1> QED BY <1>1, <1>4, <1>5

-----------------------------------------------------------------------------
(* Each step keeps the types.                                               *)

\* An empty page and an empty session.
LEMMA InitGatewayTyped == GatewayInit => GatewayTyped
<1> SUFFICES ASSUME GatewayInit PROVE GatewayTyped
  OBVIOUS
<1>1. /\ pending \in Seq(Ids) /\ inbox \in Seq(Frames) /\ outbox \in Seq(Results)
      /\ events \in Seq([op : {"message", "error"}, to : {0}])
  BY EmptySeq DEF GatewayInit
<1>2. fate \in [Ids -> Fates] /\ sent \in 0..MaxCommands
  BY GatewayBounds DEF GatewayInit, Fates
<1> QED BY <1>1, <1>2 DEF GatewayInit, GatewayTyped

\* Taking a frame.
LEMMA TakeTyped ==
    ASSUME GatewayTyped, inbox # <<>>, Take(Head(inbox))
    PROVE  GatewayTyped'
<1>1. Head(inbox) \in Frames /\ Tail(inbox) \in Seq(Frames)
  BY HeadTailProperties DEF GatewayTyped
<1>2. command' \in Nat /\ events' \in Seq([op : {"message", "error"}, to : {0}])
  BY <1>1, EmptySeq DEF Take, GatewayTyped, pumpVars, Frames
<1>3. gate' \in {"running", "reading", "over"}
  BY DEF Take
<1>4. inbox' \in Seq(Frames)
  BY <1>1 DEF Take
<1>5. UNCHANGED <<pending, fate, sent, outbox, failed>>
  BY DEF Take, pageVars
<1> QED BY <1>2, <1>3, <1>4, <1>5 DEF GatewayTyped

\* Every step of the page, the session and the pump.
LEMMA TypedGateway == GatewayTyped /\ [GatewayNext]_gatewayVars => GatewayTyped'
<1> SUFFICES ASSUME GatewayTyped, [GatewayNext]_gatewayVars PROVE GatewayTyped'
  OBVIOUS
<1> USE GatewayBounds DEF wireVars, pageVars, pumpVars
<1> DEFINE E == [op : {"message", "error"}, to : {0}]
<1>1. CASE UNCHANGED gatewayVars
  BY <1>1 DEF gatewayVars, GatewayTyped
<1>2. CASE Accept
  BY <1>2 DEF Accept, GatewayTyped
<1>3. CASE SendCommand
  <2>1. PICK kind \in CommandKinds :
            /\ inbox' = Append(inbox, [id |-> sent', kind |-> kind])
            /\ IF kind = "subscribe" THEN UNCHANGED <<pending, fate>>
               ELSE /\ pending' = Append(pending, sent')
                    /\ fate' = [fate EXCEPT ![sent'] = "waiting"]
    BY <1>3 DEF SendCommand
  <2>2. sent' \in Ids /\ sent' \in 0..MaxCommands
    BY <1>3 DEF SendCommand, GatewayTyped, Ids
  <2>3. [id |-> sent', kind |-> kind] \in Frames
    BY <2>2 DEF Frames, Ids
  <2>4. inbox' \in Seq(Frames) /\ inbox' # <<>>
    BY <2>1, <2>3, AppendProperties DEF GatewayTyped
  <2>5. pending' \in Seq(Ids) /\ fate' \in [Ids -> Fates]
    <3>1. CASE UNCHANGED <<pending, fate>>
      BY <3>1 DEF GatewayTyped
    <3>2. CASE /\ pending' = Append(pending, sent')
               /\ fate' = [fate EXCEPT ![sent'] = "waiting"]
      <4>1. pending' \in Seq(Ids)
        BY <2>2, <3>2, AppendProperties DEF GatewayTyped
      <4>2. fate' \in [Ids -> Fates]
        BY <3>2 DEF GatewayTyped, Fates
      <4> QED BY <4>1, <4>2
    <3> QED BY <2>1, <3>1, <3>2
  <2> QED BY <1>3, <2>2, <2>4, <2>5 DEF SendCommand, GatewayTyped
<1>4. CASE ReceiveFrame
  <2>1. outbox' \in Seq(Results)
    BY <1>4, HeadTailProperties DEF ReceiveFrame, GatewayTyped
  <2>2. pending' \in Seq(Ids) /\ fate' \in [Ids -> Fates]
    <3>1. CASE UNCHANGED <<pending, fate>>
      BY <3>1 DEF GatewayTyped
    <3>2. CASE pending # <<>> /\ pending' = Tail(pending)
      BY <1>4, <3>2, HeadTailProperties DEF ReceiveFrame, GatewayTyped, Fates
    <3> QED BY <1>4, <3>1, <3>2 DEF ReceiveFrame
  <2> QED BY <1>4, <2>1, <2>2 DEF ReceiveFrame, GatewayTyped
<1>5. CASE ClosePage
  <2>1. [id |-> 0, kind |-> "close"] \in Frames
    BY DEF Frames
  <2>2. inbox' \in Seq(Frames) /\ inbox' # <<>>
    BY <1>5, <2>1, AppendProperties DEF ClosePage, GatewayTyped
  <2> QED BY <1>5, <2>2 DEF ClosePage, GatewayTyped
<1>6. CASE SeeClose
  <2>1. fate' \in [Ids -> Fates] /\ pending' \in Seq(Ids)
    BY <1>6, EmptySeq DEF SeeClose, GatewayTyped, Fates
  <2> QED BY <1>6, <2>1 DEF SeeClose, GatewayTyped
<1>7. CASE ReadFrame \/ FinishFrame
  BY <1>7, TakeTyped DEF ReadFrame, FinishFrame, GatewayTyped
<1>8. CASE BeginFrame
  BY <1>8 DEF BeginFrame, GatewayTyped
<1>9. CASE AnswerCall
  <2>1. outbox' \in Seq(Results)
    <3>1. \A op \in {"ok", "error"} : [op |-> op, to |-> command] \in Results
      BY DEF GatewayTyped, Results
    <3> QED BY <1>9, <3>1, AppendProperties DEF AnswerCall, GatewayTyped
  <2> QED BY <1>9, <2>1 DEF AnswerCall, GatewayTyped
<1>10. CASE ForwardEvent
  <2>1. Head(events) \in E /\ events' \in Seq(E)
    BY <1>10, HeadTailProperties DEF ForwardEvent, GatewayTyped
  <2>2. Head(events) \in Results
    BY <2>1 DEF Results
  <2>3. outbox' \in Seq(Results)
    BY <1>10, <2>2, AppendProperties DEF ForwardEvent, GatewayTyped
  <2>4. inbox' \in Seq(Frames) /\ gate' \in {"reading", "lost"}
    BY <1>10, HeadTailProperties DEF ForwardEvent, GatewayTyped, Selects
  <2>5. failed' \in BOOLEAN
    BY <1>10 DEF ForwardEvent, GatewayTyped
  <2> QED BY <1>10, <2>1, <2>3, <2>4, <2>5 DEF ForwardEvent, GatewayTyped
<1>11. CASE EndOfStream
  BY <1>11 DEF EndOfStream, GatewayTyped
<1>12. CASE Misread
  <2>1. inbox' \in Seq(Frames)
    BY <1>12, HeadTailProperties DEF Misread, GatewayTyped
  <2> QED BY <1>12, <2>1 DEF Misread, GatewayTyped
<1>13. CASE PumpJoins \/ PumpDelivers \/ PumpEnds
  <2>1. Event("error") \in E /\ Event("message") \in E
    BY DEF Event
  <2>2. Append(events, Event("error")) \in Seq(E) /\ Append(events, Event("message")) \in Seq(E)
    BY <2>1, AppendProperties DEF GatewayTyped
  <2>3. events \in Seq(E)
    BY DEF GatewayTyped
  <2>4. events' \in {events, Append(events, Event("error")), Append(events, Event("message"))}
    BY <1>13 DEF PumpJoins, PumpDelivers, PumpEnds
  <2>5. events' \in Seq(E)
    BY <2>2, <2>3, <2>4
  <2> QED BY <1>13, <2>5 DEF PumpJoins, PumpDelivers, PumpEnds, GatewayTyped
<1> QED BY <1>1, <1>2, <1>3, <1>4, <1>5, <1>6, <1>7, <1>8, <1>9, <1>10, <1>11, <1>12,
           <1>13 DEF GatewayNext

-----------------------------------------------------------------------------
(* Each step keeps the order, as long as nothing has failed or was dropped.  *)

InOrder == gate # "lost" /\ PageInOrder /\ (gate # "over" => SessionInOrder)

\* What the sets of requests hold.
LEMMA RequestNumbers ==
    ASSUME GatewayTyped
    PROVE  /\ Waiting \subseteq Ids /\ Waiting \subseteq Int /\ sent \in Int
           /\ AnsweredIn(outbox) \subseteq Int
           /\ Running \subseteq Int /\ UnreadIn(inbox) \subseteq Int
<1>1. \A k \in 1..Len(pending) : pending[k] \in Ids
  BY ElementOfSeq DEF GatewayTyped
<1>2. \A k \in 1..Len(outbox) : outbox[k] \in Results
  BY ElementOfSeq DEF GatewayTyped
<1>3. \A k \in 1..Len(inbox) : inbox[k] \in Frames
  BY ElementOfSeq DEF GatewayTyped
<1>4. Waiting \subseteq Ids /\ Waiting \subseteq Int
  BY <1>1, GatewayBounds DEF Waiting, Ids
<1>5. AnsweredIn(outbox) \subseteq Int
  BY <1>2 DEF AnsweredIn, Results
<1>6. UnreadIn(inbox) \subseteq Int
  BY <1>3 DEF UnreadIn, Frames
<1>7. Running \subseteq Int /\ sent \in Int
  BY GatewayBounds DEF Running, GatewayTyped
<1> QED BY <1>4, <1>5, <1>6, <1>7

\* A command that wants an answer comes after every request that waits, and is
\* the last the session will read; `subscribe` is no request.
LEMMA SendKeepsOrder ==
    ASSUME GatewayTyped, InOrder, SendCommand
    PROVE  InOrder'
<1> USE DEF GatewayTyped
<1>1. PICK kind \in CommandKinds :
          /\ inbox' = Append(inbox, [id |-> sent', kind |-> kind])
          /\ IF kind = "subscribe" THEN UNCHANGED <<pending, fate>>
             ELSE /\ pending' = Append(pending, sent')
                  /\ fate' = [fate EXCEPT ![sent'] = "waiting"]
  BY DEF SendCommand
<1> DEFINE f == [id |-> sent', kind |-> kind]
<1>2. sent' = sent + 1 /\ sent' \in Ids /\ UNCHANGED <<outbox, gate, command>>
  BY GatewayBounds DEF SendCommand, Ids
<1>3. f \in Frames /\ f.id = sent' /\ f.kind = kind
  BY <1>2 DEF Frames, Ids
<1>4. /\ Waiting \subseteq Int /\ sent \in Int /\ AnsweredIn(outbox) \subseteq Int
      /\ Running \subseteq Int /\ UnreadIn(inbox) \subseteq Int
  BY RequestNumbers
<1>5. \A p \in Waiting : p <= sent /\ p < sent'
  BY <1>2, <1>4 DEF InOrder, PageInOrder
<1>6. AnsweredIn(outbox') = AnsweredIn(outbox) /\ Running' = Running
      /\ AnswersInOrder(outbox') /\ (AnsweredIn(outbox))' = AnsweredIn(outbox)
      /\ AnswersInOrder(outbox)'
  BY <1>2 DEF Running, InOrder, PageInOrder
<1>7. \A b \in UnreadIn(inbox) : gate # "over" => b < f.id
  BY <1>3, <1>5 DEF InOrder, SessionInOrder
<1>8. /\ UnreadIn(inbox') =
            UnreadIn(inbox) \cup (IF kind \in {"call", "invalid"} THEN {sent'} ELSE {})
      /\ gate # "over" => UnreadInOrder(inbox')
  <2> HIDE DEF f
  <2>1. inbox \in Seq(Frames) /\ inbox' = Append(inbox, f)
    BY <1>1 DEF f
  <2> QED BY <2>1, <1>3, <1>7, AppendFrame DEF InOrder, SessionInOrder
<1>9. CASE kind = "subscribe"
  <2>1. Waiting' = Waiting /\ UnreadIn(inbox') = UnreadIn(inbox) /\ UNCHANGED <<pending, fate>>
    BY <1>1, <1>8, <1>9 DEF Waiting
  <2>2. PageInOrder'
    <3>1. \A p \in Waiting : p <= sent'
      BY <1>2, <1>4, <1>5
    <3>2. Increasing(pending)'
      BY <2>1 DEF InOrder, PageInOrder, Increasing
    <3> QED BY <1>6, <2>1, <3>1, <3>2 DEF InOrder, PageInOrder
  <2>3. gate' # "over" => SessionInOrder'
    BY <1>2, <1>6, <1>8, <2>1 DEF InOrder, SessionInOrder
  <2> QED BY <1>2, <2>2, <2>3 DEF InOrder
<1>10. CASE kind # "subscribe"
  <2>1. pending' = Append(pending, sent') /\ fate' = [fate EXCEPT ![sent'] = "waiting"]
        /\ kind \in {"call", "invalid"}
    BY <1>1, <1>10 DEF CommandKinds
  <2>2. Waiting' = Waiting \cup {sent'} /\ Increasing(pending)'
    BY <1>2, <1>5, <2>1, NewestJoins DEF InOrder, PageInOrder
  <2>3. UnreadIn(inbox') = UnreadIn(inbox) \cup {sent'}
    BY <1>8, <2>1
  <2>4. \A i \in Ids : fate'[i] # "other"
    BY <1>2, <2>1 DEF InOrder, PageInOrder
  <2>5. \A a \in AnsweredIn(outbox) : a < sent'
    BY <1>5 DEF InOrder, PageInOrder
  <2>6. PageInOrder'
    <3>1. \A p \in Waiting' : p <= sent'
      BY <1>2, <1>4, <1>5, <2>2
    <3>2. \A a \in AnsweredIn(outbox), p \in Waiting' : p < a => p \in AnsweredIn(outbox)
      BY <1>2, <1>4, <2>2, <2>5 DEF InOrder, PageInOrder
    <3>3. AnsweredIn(outbox) \subseteq Waiting'
      BY <2>2 DEF InOrder, PageInOrder
    <3> QED BY <1>6, <2>2, <2>4, <3>1, <3>2, <3>3 DEF PageInOrder
  <2>7. ASSUME gate # "over" PROVE SessionInOrder'
    <3>1. \A a \in Running : a < sent'
      BY <1>5, <2>7 DEF InOrder, SessionInOrder
    <3>2. Running \cup UnreadIn(inbox') \subseteq Waiting'
      BY <2>2, <2>3, <2>7 DEF InOrder, SessionInOrder
    <3>3. \A a \in AnsweredIn(outbox), b \in Running \cup UnreadIn(inbox') : a < b
      BY <2>3, <2>5, <2>7 DEF InOrder, SessionInOrder
    <3>4. \A a \in Running, b \in UnreadIn(inbox') : a < b
      BY <2>3, <2>7, <3>1 DEF InOrder, SessionInOrder
    <3>5. Waiting' \subseteq AnsweredIn(outbox) \cup Running \cup UnreadIn(inbox')
      BY <2>2, <2>3, <2>7 DEF InOrder, SessionInOrder
    <3>6. UnreadInOrder(inbox)' /\ (UnreadIn(inbox))' = UnreadIn(inbox')
      BY <1>8, <2>7
    <3> QED BY <1>6, <3>2, <3>3, <3>4, <3>5, <3>6 DEF SessionInOrder
  <2> QED BY <1>2, <2>6, <2>7 DEF InOrder
<1> QED BY <1>9, <1>10

\* The oldest answer on its way is the oldest request's.
LEMMA ReceiveKeepsOrder ==
    ASSUME GatewayTyped, InOrder, ReceiveFrame
    PROVE  InOrder'
<1> USE DEF GatewayTyped
<1>1. outbox # <<>> /\ outbox \in Seq(Results) /\ outbox' = Tail(outbox)
      /\ UNCHANGED <<sent, inbox, gate, command>>
  BY DEF ReceiveFrame
<1>2. /\ Waiting \subseteq Ids /\ Waiting \subseteq Int
      /\ AnsweredIn(outbox) \subseteq Int
      /\ Running \subseteq Int /\ UnreadIn(inbox) \subseteq Int
  BY RequestNumbers
<1>3. Running' = Running /\ (UnreadIn(inbox))' = UnreadIn(inbox)
      /\ UnreadInOrder(inbox)' = UnreadInOrder(inbox)
  BY <1>1 DEF Running
<1>4. AnsweredIn(outbox') \subseteq AnsweredIn(outbox) /\ AnswersInOrder(outbox')
  BY <1>1, TailOfAnswers DEF InOrder, PageInOrder
<1>5. CASE Head(outbox).op = "message"
  <2>1. AnsweredIn(outbox') = AnsweredIn(outbox)
    BY <1>1, <1>4, <1>5, TailOfAnswers
  <2>2. UNCHANGED <<pending, fate>> /\ Waiting' = Waiting
    BY <1>5 DEF ReceiveFrame, Waiting
  <2>3. PageInOrder'
    BY <1>1, <1>4, <2>1, <2>2 DEF InOrder, PageInOrder, Increasing
  <2>4. gate' # "over" => SessionInOrder'
    BY <1>1, <1>3, <2>1, <2>2 DEF InOrder, SessionInOrder
  <2> QED BY <1>1, <2>3, <2>4 DEF InOrder
<1>6. CASE Head(outbox).op # "message"
  <2> DEFINE h == Head(pending)
  <2>1. /\ Head(outbox).to \in AnsweredIn(outbox)
        /\ AnsweredIn(outbox) \subseteq AnsweredIn(outbox') \cup {Head(outbox).to}
        /\ \A a \in AnsweredIn(outbox') : Head(outbox).to < a
    BY <1>1, <1>6, TailOfAnswers DEF InOrder, PageInOrder
  <2>2. Head(outbox).to \in Waiting
    BY <2>1 DEF InOrder, PageInOrder
  <2>3. pending # <<>>
    BY <2>2 DEF Waiting
  <2>4. /\ pending' = Tail(pending)
        /\ fate' = [fate EXCEPT ![h] = IF Head(outbox).to = h THEN "own" ELSE "other"]
    BY <1>6, <2>3 DEF ReceiveFrame
  <2>5. /\ h \in Waiting /\ Waiting' = Waiting \ {h} /\ Increasing(pending)'
        /\ \A p \in Waiting : h <= p
    BY <2>3, <2>4, OldestLeaves DEF InOrder, PageInOrder
  <2> HIDE DEF h
  <2>6. Head(outbox).to = h
    <3>1. h <= Head(outbox).to
      BY <2>2, <2>5
    <3>2. ASSUME h < Head(outbox).to PROVE FALSE
      <4>1. h \in AnsweredIn(outbox)
        BY <2>1, <2>5, <3>2 DEF InOrder, PageInOrder
      <4>2. h \in AnsweredIn(outbox') \/ h = Head(outbox).to
        BY <2>1, <4>1
      <4> QED BY <1>2, <2>1, <2>2, <2>5, <3>2, <4>2
    <3>3. h \in Int /\ Head(outbox).to \in Int
      BY <1>2, <2>2, <2>5
    <3> QED BY ONLY <3>1, <3>2, <3>3
  <2>7. AnsweredIn(outbox') = AnsweredIn(outbox) \ {h}
    BY <1>2, <1>4, <2>1, <2>6
  <2>8. \A i \in Ids : fate'[i] # "other"
    BY <1>2, <2>4, <2>5, <2>6 DEF InOrder, PageInOrder
  <2>9. PageInOrder'
    <3>1. \A p \in Waiting' : p <= sent'
      BY <1>1, <2>5 DEF InOrder, PageInOrder
    <3>2. AnsweredIn(outbox') \subseteq Waiting'
      BY <2>5, <2>7 DEF InOrder, PageInOrder
    <3>3. \A a \in AnsweredIn(outbox'), p \in Waiting' : p < a => p \in AnsweredIn(outbox')
      BY <2>5, <2>7 DEF InOrder, PageInOrder
    <3> QED BY <1>4, <2>5, <2>8, <3>1, <3>2, <3>3 DEF PageInOrder
  <2>10. ASSUME gate # "over" PROVE SessionInOrder'
    <3>1. h \notin Running \cup UnreadIn(inbox)
      BY <1>2, <2>1, <2>6, <2>10 DEF InOrder, SessionInOrder
    <3>2. Running \cup UnreadIn(inbox) \subseteq Waiting'
      BY <2>5, <2>10, <3>1 DEF InOrder, SessionInOrder
    <3>3. Waiting' \subseteq AnsweredIn(outbox') \cup Running \cup UnreadIn(inbox)
      BY <2>5, <2>7, <2>10 DEF InOrder, SessionInOrder
    <3> QED BY <1>3, <1>4, <2>10, <3>2, <3>3 DEF InOrder, SessionInOrder
  <2> QED BY <1>1, <2>9, <2>10 DEF InOrder
<1> QED BY <1>5, <1>6

\* The page asks to end: its frame is no request.
LEMMA CloseKeepsOrder ==
    ASSUME GatewayTyped, InOrder, ClosePage
    PROVE  InOrder'
<1> DEFINE f == [id |-> 0, kind |-> "close"]
<1>1. f \in Frames /\ f.kind \notin {"call", "invalid"}
  BY DEF Frames
<1>2. inbox \in Seq(Frames) /\ inbox' = Append(inbox, f)
      /\ UNCHANGED <<pending, fate, sent, outbox, gate, command>>
  BY DEF ClosePage, GatewayTyped
<1> HIDE DEF f
<1>3. UnreadIn(inbox') = UnreadIn(inbox) /\ (UnreadInOrder(inbox) => UnreadInOrder(inbox'))
  BY <1>1, <1>2, AppendFrame
<1>4. Waiting' = Waiting /\ Running' = Running
  BY <1>2 DEF Waiting, Running
<1>5. PageInOrder'
  BY <1>2, <1>4 DEF InOrder, PageInOrder, Increasing
<1>6. gate' # "over" => SessionInOrder'
  BY <1>2, <1>3, <1>4 DEF InOrder, SessionInOrder
<1> QED BY <1>2, <1>5, <1>6 DEF InOrder

\* The end of the session empties the queue, and no answer was on its way.
LEMMA EndKeepsOrder ==
    ASSUME GatewayTyped, InOrder, SeeClose
    PROVE  InOrder'
<1>1. gate' = "over" /\ outbox' = <<>> /\ pending' = <<>>
      /\ \A i \in Ids : fate'[i] # "other"
  BY DEF SeeClose, InOrder, PageInOrder, wireVars
<1>2. Waiting' = {} /\ AnsweredIn(outbox') = {}
  BY <1>1 DEF Waiting, AnsweredIn
<1>3. Increasing(pending)' /\ AnswersInOrder(outbox')
  BY <1>1 DEF Increasing, AnswersInOrder
<1> QED BY <1>1, <1>2, <1>3 DEF InOrder, PageInOrder

\* A call that is read is the oldest the session has not read; a command that is
\* refused ends it.
LEMMA TakeKeepsOrder ==
    ASSUME GatewayTyped, InOrder, gate \in {"reading", "halfway"}, inbox # <<>>,
           Take(Head(inbox))
    PROVE  InOrder'
<1> DEFINE f == Head(inbox)
<1>1. /\ inbox \in Seq(Frames) /\ inbox' = Tail(inbox)
      /\ UNCHANGED <<pending, fate, sent, outbox>>
  BY DEF Take, GatewayTyped, pageVars
<1>2. gate' # "lost" /\ Running = {}
  BY DEF Take, Running
<1>3. Waiting' = Waiting /\ PageInOrder'
  BY <1>1 DEF Waiting, InOrder, PageInOrder, Increasing
<1>4. /\ UnreadIn(Tail(inbox)) \subseteq UnreadIn(inbox)
      /\ f.kind \notin {"call", "invalid"} => UnreadIn(inbox) \subseteq UnreadIn(Tail(inbox))
      /\ f.kind \in {"call", "invalid"} =>
           /\ f.id \in UnreadIn(inbox)
           /\ UnreadIn(inbox) \subseteq UnreadIn(Tail(inbox)) \cup {f.id}
      /\ UnreadInOrder(inbox) =>
           /\ UnreadInOrder(Tail(inbox))
           /\ f.kind \in {"call", "invalid"} => \A b \in UnreadIn(Tail(inbox)) : f.id < b
  BY <1>1, TailOfUnread
<1> HIDE DEF f
<1>5. SessionInOrder
  BY DEF InOrder
<1>6. CASE f.kind = "call"
  <2>1. gate' = "running" /\ command' = f.id
    BY <1>6 DEF Take, f
  <2>2. Running' = {f.id}
    BY <2>1 DEF Running
  <2>3. SessionInOrder'
    BY <1>1, <1>2, <1>3, <1>4, <1>5, <1>6, <2>2 DEF SessionInOrder
  <2> QED BY <1>2, <1>3, <2>3 DEF InOrder
<1>7. CASE f.kind = "subscribe"
  <2>1. gate' = "reading"
    BY <1>7 DEF Take, f
  <2>2. Running' = {} /\ UnreadIn(inbox') = UnreadIn(inbox)
    BY <1>1, <1>4, <1>7, <2>1 DEF Running
  <2>3. SessionInOrder'
    BY <1>1, <1>2, <1>3, <1>4, <1>5, <2>2 DEF SessionInOrder
  <2> QED BY <1>2, <1>3, <2>3 DEF InOrder
<1>8. CASE f.kind \notin {"call", "subscribe"}
  <2>1. gate' = "over"
    BY <1>8 DEF Take, f
  <2> QED BY <1>2, <1>3, <2>1 DEF InOrder
<1> QED BY <1>6, <1>7, <1>8

\* The call that was running is answered: all that were answered before it are
\* older, all that are unread are newer.
LEMMA AnswerKeepsOrder ==
    ASSUME GatewayTyped, InOrder, AnswerCall
    PROVE  InOrder'
<1>1. PICK op \in {"ok", "error"} : outbox' = Append(outbox, [op |-> op, to |-> command])
  BY DEF AnswerCall
<1> DEFINE m == [op |-> op, to |-> command]
<1>2. m \in Results /\ m.op # "message" /\ m.to = command
  BY DEF Results, GatewayTyped
<1>3. /\ outbox \in Seq(Results) /\ outbox' = Append(outbox, m)
      /\ gate = "running" /\ gate' = "reading"
      /\ UNCHANGED <<pending, fate, sent, inbox, command>>
  BY <1>1 DEF AnswerCall, GatewayTyped, pageVars
<1> HIDE DEF m
<1>4. SessionInOrder /\ Running = {command} /\ Running' = {} /\ Waiting' = Waiting
  BY <1>3 DEF InOrder, Running, Waiting
<1>5. \A a \in AnsweredIn(outbox) : a < command
  BY <1>4 DEF SessionInOrder
<1>6. AnsweredIn(outbox') = AnsweredIn(outbox) \cup {command} /\ AnswersInOrder(outbox')
  BY <1>2, <1>3, <1>5, AppendAnswer DEF InOrder, PageInOrder
<1>7. /\ Waiting \subseteq Int /\ AnsweredIn(outbox) \subseteq Int
      /\ UnreadIn(inbox) \subseteq Int /\ command \in Int
  BY RequestNumbers DEF GatewayTyped
<1>8. PageInOrder'
  <2>1. AnsweredIn(outbox') \subseteq Waiting
    BY <1>4, <1>6 DEF SessionInOrder, InOrder, PageInOrder
  <2>2. ASSUME NEW p \in Waiting, p < command PROVE p \in AnsweredIn(outbox)
    <3>1. p \notin UnreadIn(inbox)
      <4> SUFFICES ASSUME p \in UnreadIn(inbox) PROVE FALSE
        OBVIOUS
      <4>1. command < p
        BY <1>4 DEF SessionInOrder
      <4> QED BY ONLY <1>7, <2>2, <4>1
    <3>2. p # command
      BY ONLY <1>7, <2>2
    <3> QED BY <1>4, <3>1, <3>2 DEF SessionInOrder
  <2>3. \A a \in AnsweredIn(outbox'), p \in Waiting : p < a => p \in AnsweredIn(outbox')
    BY <1>6, <2>2 DEF InOrder, PageInOrder
  <2>4. UNCHANGED <<Increasing(pending), fate, sent, Waiting>>
    BY <1>3, <1>4 DEF Increasing
  <2> QED BY <1>6, <2>1, <2>3, <2>4 DEF InOrder, PageInOrder
<1>9. SessionInOrder'
  <2>1. \A a \in AnsweredIn(outbox'), b \in UnreadIn(inbox) : a < b
    BY <1>4, <1>6 DEF SessionInOrder
  <2>2. UnreadIn(inbox) \subseteq Waiting
        /\ Waiting \subseteq AnsweredIn(outbox') \cup UnreadIn(inbox) /\ UnreadInOrder(inbox)
    BY <1>4, <1>6 DEF SessionInOrder
  <2> QED BY <1>3, <1>4, <2>1, <2>2 DEF SessionInOrder
<1> QED BY <1>3, <1>8, <1>9 DEF InOrder

\* A topic's message is no answer; an error, or a frame that is dropped with it,
\* ends what the order promises.
LEMMA ForwardKeepsOrder ==
    ASSUME GatewayTyped, InOrder, ForwardEvent, ~failed', torn' = {}
    PROVE  InOrder'
<1> DEFINE E == [op : {"message", "error"}, to : {0}]
<1>1. Head(events) \in E
  BY HeadTailProperties DEF ForwardEvent, GatewayTyped
<1>2. Head(events).op = "message" /\ Head(events) \in Results
  <2>1. failed' = (failed \/ Head(events).op = "error")
    BY DEF ForwardEvent
  <2>2. Head(events).op # "error"
    BY <2>1
  <2> QED BY <1>1, <2>2 DEF Results
<1>3. /\ outbox \in Seq(Results) /\ outbox' = Append(outbox, Head(events))
      /\ UNCHANGED <<pending, fate, sent, command>>
  BY DEF ForwardEvent, GatewayTyped, pageVars
<1>4. UNCHANGED <<gate, inbox>>
  BY DEF ForwardEvent
<1>5. AnsweredIn(outbox') = AnsweredIn(outbox)
      /\ (AnswersInOrder(outbox) => AnswersInOrder(outbox'))
  BY <1>2, <1>3, AppendAnswer
<1>6. Waiting' = Waiting /\ Running' = Running
  BY <1>3, <1>4 DEF Waiting, Running
<1>7. PageInOrder'
  BY <1>3, <1>5, <1>6 DEF InOrder, PageInOrder, Increasing
<1>8. gate' # "over" => SessionInOrder'
  BY <1>4, <1>5, <1>6 DEF InOrder, SessionInOrder
<1> QED BY <1>4, <1>7, <1>8 DEF InOrder

\* The requests, their frames and their answers stay as they are.
LEMMA RestKeepsOrder ==
    ASSUME InOrder, UNCHANGED <<pending, fate, sent, inbox, outbox, command>>,
           \/ UNCHANGED gate
           \/ gate # "running" /\ gate' \in {"reading", "halfway"} /\ gate # "over"
           \/ gate' = "over"
    PROVE  InOrder'
<1>1. Waiting' = Waiting /\ PageInOrder'
  BY DEF Waiting, InOrder, PageInOrder, Increasing
<1>2. ASSUME gate' # "over" PROVE SessionInOrder'
  <2>1. Running' = Running /\ gate # "over"
    BY <1>2 DEF Running
  <2> QED BY <1>1, <2>1 DEF InOrder, SessionInOrder
<1>3. gate' # "lost"
  BY DEF InOrder
<1> QED BY <1>1, <1>2, <1>3 DEF InOrder

\* Nothing waits and nothing is on its way.
LEMMA InitGatewayInv == GatewayInit => GatewayInv
<1> SUFFICES ASSUME GatewayInit PROVE GatewayInv
  OBVIOUS
<1>1. Waiting = {} /\ Running = {} /\ AnsweredIn(outbox) = {} /\ UnreadIn(inbox) = {}
  BY DEF GatewayInit, Waiting, Running, AnsweredIn, UnreadIn
<1>2. Increasing(pending) /\ AnswersInOrder(outbox) /\ UnreadInOrder(inbox)
  BY DEF GatewayInit, Increasing, AnswersInOrder, UnreadInOrder
<1>3. gate # "lost" /\ \A i \in Ids : fate[i] # "other"
  BY DEF GatewayInit
<1> QED BY <1>1, <1>2, <1>3, InitGatewayTyped DEF GatewayInv, PageInOrder, SessionInOrder

\* Every step of the page, the session and the pump.
LEMMA GatewayPreserved == GatewayInv /\ [GatewayNext]_gatewayVars => GatewayInv'
<1> SUFFICES ASSUME GatewayInv, [GatewayNext]_gatewayVars, ~failed', torn' = {}
             PROVE  InOrder'
  BY TypedGateway DEF GatewayInv, InOrder
<1> USE DEF wireVars, pageVars, pumpVars
<1>1. GatewayTyped
  BY DEF GatewayInv
<1>2. ~failed /\ torn = {}
  <2>1. CASE ForwardEvent
    BY <1>1, <2>1 DEF ForwardEvent, GatewayTyped
  <2>2. CASE UNCHANGED <<failed, torn>>
    BY <2>2
  <2>3. ForwardEvent \/ UNCHANGED <<failed, torn>>
    BY DEF GatewayNext, gatewayVars, Accept, SendCommand, ReceiveFrame, ClosePage, SeeClose,
           ReadFrame, FinishFrame, Take, BeginFrame, AnswerCall, EndOfStream, Misread,
           PumpJoins, PumpDelivers, PumpEnds
  <2> QED BY <2>1, <2>2, <2>3
<1>3. InOrder
  BY <1>2 DEF GatewayInv, InOrder
<1>4. CASE UNCHANGED gatewayVars
  BY <1>3, <1>4, RestKeepsOrder DEF gatewayVars
<1>5. CASE Accept \/ BeginFrame \/ EndOfStream
  BY <1>3, <1>5, RestKeepsOrder DEF Accept, BeginFrame, EndOfStream
<1>6. CASE Misread
  BY <1>3, <1>6 DEF Misread, InOrder
<1>7. CASE PumpJoins \/ PumpDelivers \/ PumpEnds
  BY <1>3, <1>7, RestKeepsOrder DEF PumpJoins, PumpDelivers, PumpEnds
<1>8. CASE ReadFrame \/ FinishFrame
  BY <1>1, <1>3, <1>8, TakeKeepsOrder DEF ReadFrame, FinishFrame, GatewayTyped
<1> QED BY <1>1, <1>3, <1>4, <1>5, <1>6, <1>7, <1>8, SendKeepsOrder, ReceiveKeepsOrder,
           CloseKeepsOrder, EndKeepsOrder, AnswerKeepsOrder, ForwardKeepsOrder
           DEF GatewayNext

\* client.js gives each answer to the oldest request: as long as no subscription
\* has failed and no part of a frame was dropped, that is the request it answers,
\* however many the page sends without waiting.
THEOREM AnswersFollowRequests == GatewaySpec => []AnswersAreOwn
<1>1. GatewayInv => AnswersAreOwn
  BY DEF GatewayInv, PageInOrder, AnswersAreOwn
<1> QED BY <1>1, InitGatewayInv, GatewayPreserved, PTL DEF GatewaySpec

-----------------------------------------------------------------------------
(* Subscriptions implement TopicFeed.                                       *)

\* The last message written to a client, or its subscription's start.
LastHeard(h) ==
    IF h.written = <<>> THEN h.from ELSE h.written[Len(h.written)]

\* The cursor has passed no message of the topic since the last one written.
NoGap(h) ==
    /\ LastHeard(h) <= h.cursor
    /\ h.cursor <= Len(taken)
    /\ \A i \in LastHeard(h) + 1 .. h.cursor : taken[i] # h.topic

\* Nothing is written before the stream starts.
Unwritten(h) == h.stage \in {"asking", "answered"} => h.written = <<>>

StreamInv ==
    /\ StreamTypeOK
    /\ \A c \in Clients : Unwritten(stream[c])
    /\ \A c \in Clients : Streams(c) => NoGap(stream[c])

-----------------------------------------------------------------------------
(* Types.                                                                   *)

LEMMA InitTyped == StreamInit => StreamTypeOK
<1>1. Closed \in Stream /\ Closed.stage = "closed"
  BY EmptySeq DEF Stream, Closed
<1>2. <<>> \in Seq(Topics) /\ <<>> \in Seq(LoopCommand)
  BY EmptySeq
<1> QED BY <1>1, <1>2 DEF StreamInit, StreamTypeOK

\* The next command is one of a client, for a topic, and the rest are commands.
LEMMA NextRequest ==
    ASSUME StreamTypeOK, requests # <<>>
    PROVE  /\ Head(requests).by \in Clients /\ Head(requests).topic \in Topics
           /\ Tail(requests) \in Seq(LoopCommand)
<1>1. Head(requests) \in LoopCommand /\ Tail(requests) \in Seq(LoopCommand)
  BY HeadTailProperties DEF StreamTypeOK
<1> QED BY <1>1 DEF LoopCommand

\* A command that is sent is one of a client, for a topic.
LEMMA RequestTyped ==
    ASSUME StreamTypeOK, NEW kind \in {"subscribe", "unsubscribe"},
           NEW t \in Topics, NEW c \in Clients
    PROVE  Append(requests, [kind |-> kind, topic |-> t, by |-> c]) \in Seq(LoopCommand)
<1>1. [kind |-> kind, topic |-> t, by |-> c] \in LoopCommand
  BY DEF LoopCommand
<1> QED BY <1>1, AppendProperties DEF StreamTypeOK

\* The fields of a client's connection.
LEMMA HandlerTyped ==
    ASSUME StreamTypeOK, NEW c \in Clients
    PROVE  /\ stream[c] \in Stream
           /\ Len(taken) \in Nat /\ stream[c].cursor \in Nat
           /\ Append(stream[c].written, stream[c].cursor + 1) \in Seq(Nat)
<1>1. stream[c] \in Stream
  BY DEF StreamTypeOK
<1>2. stream[c].cursor + 1 \in Nat /\ stream[c].written \in Seq(Nat)
  BY <1>1 DEF Stream
<1>3. Len(taken) \in Nat
  BY LenProperties DEF StreamTypeOK
<1> QED BY <1>1, <1>2, <1>3, AppendProperties DEF Stream

\* A connection may take any shape that is one.
LEMMA HandlerReplaced ==
    ASSUME StreamTypeOK, NEW c \in Clients, NEW h \in Stream,
           h.stage # "closed" => h.topic \in Topics,
           stream' = [stream EXCEPT ![c] = h]
    PROVE  /\ stream' \in [Clients -> Stream]
           /\ \A d \in Clients : stream'[d].stage # "closed" => stream'[d].topic \in Topics
BY DEF StreamTypeOK

LEMMA ClosedTyped == Closed \in Stream /\ Closed.stage = "closed"
BY EmptySeq DEF Stream, Closed

LEMMA TypePreserved == StreamTypeOK /\ [StreamNext]_streamVars => StreamTypeOK'
<1> SUFFICES ASSUME StreamTypeOK, [StreamNext]_streamVars PROVE StreamTypeOK'
  OBVIOUS
<1>1. CASE UNCHANGED streamVars
  BY <1>1 DEF StreamTypeOK, streamVars
<1>2. CASE LoopSubscribes
  <2>1. PICK c \in Clients : c = Head(requests).by
    BY <1>2, NextRequest DEF LoopSubscribes
  <2> DEFINE h == [stream[c] EXCEPT !.stage = IF @ = "asking" THEN "answered" ELSE @]
  <2>2. stream' = [stream EXCEPT ![c] = h]
    BY <1>2, <2>1 DEF LoopSubscribes
  <2>3. stream[c] \in Stream /\ (stream[c].stage # "closed" => stream[c].topic \in Topics)
    BY DEF StreamTypeOK
  <2>4. h \in Stream /\ (h.stage # "closed" => h.topic \in Topics)
    BY <2>3 DEF Stream
  <2>5. /\ stream' \in [Clients -> Stream]
        /\ \A d \in Clients : stream'[d].stage # "closed" => stream'[d].topic \in Topics
    BY <2>2, <2>4, HandlerReplaced
  <2>6. topics' \subseteq Topics /\ requests' \in Seq(LoopCommand)
    BY <1>2, NextRequest DEF LoopSubscribes, StreamTypeOK
  <2>7. UNCHANGED <<taken, down>>
    BY <1>2 DEF LoopSubscribes
  <2> QED BY <2>5, <2>6, <2>7 DEF StreamTypeOK
<1>3. CASE LoopUnsubscribes
  BY <1>3, NextRequest DEF LoopUnsubscribes, StreamTypeOK
<1>4. CASE MessageArrives
  <2>1. taken' \in Seq(Topics)
    BY <1>4, AppendProperties DEF MessageArrives, StreamTypeOK
  <2> QED BY <1>4, <2>1 DEF MessageArrives, StreamTypeOK
<1>5. CASE ShutDown
  BY <1>5 DEF ShutDown, StreamTypeOK
<1>6. ASSUME NEW c \in Clients, OpenStream(c) PROVE StreamTypeOK'
  <2>1. PICK t \in Topics :
          /\ stream' = [stream EXCEPT ![c] =
                 [Closed EXCEPT !.stage = "asking", !.topic = t, !.there = TRUE]]
          /\ requests' = Append(requests, [kind |-> "subscribe", topic |-> t, by |-> c])
    BY <1>6 DEF OpenStream
  <2> DEFINE h == [Closed EXCEPT !.stage = "asking", !.topic = t, !.there = TRUE]
  <2>2. h \in Stream /\ h.topic \in Topics
    BY EmptySeq DEF Stream, Closed
  <2>3. requests' \in Seq(LoopCommand)
    BY <2>1, RequestTyped
  <2> QED BY <1>6, <2>1, <2>2, <2>3, HandlerReplaced DEF OpenStream, StreamTypeOK
<1>7. ASSUME NEW c \in Clients, StartStream(c) PROVE StreamTypeOK'
  <2> DEFINE h == IF stream[c].there
                  THEN [stream[c] EXCEPT !.stage = "streaming", !.from = Len(taken),
                                         !.cursor = Len(taken)]
                  ELSE Closed
  <2>1. stream' = [stream EXCEPT ![c] = h]
    BY <1>7 DEF StartStream
  <2>2. h \in Stream /\ (h.stage # "closed" => h.topic \in Topics)
    BY <1>7, HandlerTyped, ClosedTyped DEF StartStream, StreamTypeOK, Stream
  <2> QED BY <1>7, <2>1, <2>2, HandlerReplaced DEF StartStream, StreamTypeOK
<1>8. ASSUME NEW c \in Clients, EndLagging(c) \/ SeeShutdown(c) PROVE StreamTypeOK'
  <2> DEFINE h == [stream[c] EXCEPT !.stage = "ending"]
  <2>1. stream' = [stream EXCEPT ![c] = h]
    BY <1>8 DEF EndLagging, SeeShutdown
  <2>2. h \in Stream /\ h.topic \in Topics
    BY <1>8, HandlerTyped DEF EndLagging, SeeShutdown, Streams, StreamTypeOK, Stream
  <2> QED BY <1>8, <2>1, <2>2, HandlerReplaced DEF EndLagging, SeeShutdown, StreamTypeOK
<1>9. ASSUME NEW c \in Clients, DropStream(c) PROVE StreamTypeOK'
  <2> DEFINE h == [stream[c] EXCEPT !.there = FALSE]
  <2>1. stream' = [stream EXCEPT ![c] = h]
    BY <1>9 DEF DropStream
  <2>2. h \in Stream /\ (h.stage # "closed" => h.topic \in Topics)
    BY HandlerTyped DEF StreamTypeOK, Stream
  <2> QED BY <1>9, <2>1, <2>2, HandlerReplaced DEF DropStream, StreamTypeOK
<1>10. ASSUME NEW c \in Clients, Receive(c) PROVE StreamTypeOK'
  <2> DEFINE next == stream[c].cursor + 1
             read == [stream[c] EXCEPT !.cursor = next]
             heard == [stream[c] EXCEPT !.cursor = next,
                                        !.written = Append(stream[c].written, next)]
             ended == [stream[c] EXCEPT !.stage = "ending"]
  <2>1. \E h \in {read, heard, ended} : stream' = [stream EXCEPT ![c] = h]
    BY <1>10 DEF Receive
  <2>2. stream[c] \in Stream /\ next \in Nat /\ Append(stream[c].written, next) \in Seq(Nat)
    BY HandlerTyped
  <2>3. stream[c].topic \in Topics
    BY <1>10 DEF Receive, Streams, StreamTypeOK
  <2>4. \A h \in {read, heard, ended} : h \in Stream /\ h.topic \in Topics
    BY <2>2, <2>3 DEF Stream
  <2>5. /\ stream' \in [Clients -> Stream]
        /\ \A d \in Clients : stream'[d].stage # "closed" => stream'[d].topic \in Topics
    BY <2>1, <2>4, HandlerReplaced
  <2> QED BY <1>10, <2>5 DEF Receive, StreamTypeOK
<1>11. ASSUME NEW c \in Clients, EndStream(c) PROVE StreamTypeOK'
  <2>1. requests' \in Seq(LoopCommand)
    BY <1>11, RequestTyped DEF EndStream, StreamTypeOK
  <2> QED BY <1>11, <2>1, ClosedTyped, HandlerReplaced DEF EndStream, StreamTypeOK
<1>12. ASSUME NEW c \in Clients, AbortHandler(c) PROVE StreamTypeOK'
  BY <1>12, ClosedTyped, HandlerReplaced DEF AbortHandler, StreamTypeOK
<1> QED BY <1>1, <1>2, <1>3, <1>4, <1>5, <1>6, <1>7, <1>8, <1>9, <1>10, <1>11, <1>12
        DEF StreamNext, HandlerStep

\* Connections, their handlers and the loop's queue are well typed.
THEOREM TypeCorrect == StreamSpec => []StreamTypeOK
BY InitTyped, TypePreserved, PTL DEF StreamSpec

-----------------------------------------------------------------------------
(* The stretch between the last message written and the cursor.             *)

LEMMA LastHeardTyped ==
    ASSUME NEW h \in Stream
    PROVE  LastHeard(h) \in Nat /\ h.cursor \in Nat
<1>1. h.from \in Nat /\ h.cursor \in Nat /\ h.written \in Seq(Nat)
  BY DEF Stream
<1>2. ASSUME h.written # <<>> PROVE h.written[Len(h.written)] \in Nat
  <2>1. Len(h.written) \in Nat /\ Len(h.written) # 0
    BY <1>1, <1>2, LenProperties, EmptySeq
  <2> QED BY <1>1, <2>1, ElementOfSeq
<1> QED BY <1>1, <1>2 DEF LastHeard

\* A message more does not disturb what was read before it.
LEMMA TakenGrows ==
    ASSUME StreamTypeOK, NEW t \in Topics, taken' = Append(taken, t)
    PROVE  /\ Len(taken') = Len(taken) + 1
           /\ \A i \in 1 .. Len(taken) : taken'[i] = taken[i]
BY AppendProperties DEF StreamTypeOK

\* One client's handler moves.
LEMMA OneHandler ==
    ASSUME StreamTypeOK, NEW c \in Clients, NEW h,
           stream' = [stream EXCEPT ![c] = h]
    PROVE  stream'[c] = h /\ \A d \in Clients \ {c} : stream'[d] = stream[d]
BY DEF StreamTypeOK

\* What is left of the invariant when one handler moves and nothing is taken in.
LEMMA HandlerMoves ==
    ASSUME StreamInv, StreamTypeOK', NEW c \in Clients, NEW h,
           stream' = [stream EXCEPT ![c] = h], UNCHANGED taken,
           Unwritten(h), h.stage = "streaming" => NoGap(h)
    PROVE  StreamInv'
<1>1. stream'[c] = h /\ \A d \in Clients \ {c} : stream'[d] = stream[d]
  BY OneHandler DEF StreamInv
<1>2. \A d \in Clients : Unwritten(stream'[d])
  BY <1>1 DEF StreamInv
<1>3. \A d \in Clients : stream'[d].stage = "streaming" => NoGap(stream'[d])
  BY <1>1 DEF StreamInv, Streams
<1>4. \A d \in Clients : Streams(d)' => NoGap(stream[d])'
  BY <1>3 DEF NoGap, Streams, LastHeard
<1>5. \A d \in Clients : Unwritten(stream[d])'
  BY <1>2 DEF Unwritten
<1> QED BY <1>4, <1>5 DEF StreamInv

\* What StartStream makes of a connection.
Started(h) ==
    [h EXCEPT !.stage = "streaming", !.from = Len(taken), !.cursor = Len(taken)]

LEMMA StartedNoGap ==
    ASSUME StreamInv, NEW c \in Clients, stream[c].stage = "answered"
    PROVE  NoGap(Started(stream[c])) /\ Started(stream[c]).written = <<>>
<1>1. stream[c] \in Stream /\ Len(taken) \in Nat
  BY HandlerTyped DEF StreamInv
<1>2. stream[c].written = <<>>
  BY DEF StreamInv, Unwritten
<1>3. /\ Started(stream[c]).from = Len(taken) /\ Started(stream[c]).cursor = Len(taken)
      /\ Started(stream[c]).written = <<>>
  BY <1>1, <1>2 DEF Started, Stream
<1> QED BY <1>1, <1>3 DEF NoGap, LastHeard

\* What Receive makes of a connection, for a message of another topic and for
\* one of its own.
Passed(h) == [h EXCEPT !.cursor = h.cursor + 1]
Wrote(h) ==
    [h EXCEPT !.cursor = h.cursor + 1, !.written = Append(h.written, h.cursor + 1)]

LEMMA PassedNoGap ==
    ASSUME NEW h \in Stream, NoGap(h), Len(taken) \in Nat, h.cursor < Len(taken),
           taken[h.cursor + 1] # h.topic
    PROVE  NoGap(Passed(h))
<1>1. /\ Passed(h).cursor = h.cursor + 1 /\ Passed(h).written = h.written
      /\ Passed(h).from = h.from /\ Passed(h).topic = h.topic
  BY DEF Passed, Stream
<1>2. LastHeard(Passed(h)) = LastHeard(h) /\ LastHeard(h) \in Nat /\ h.cursor \in Nat
  BY <1>1, LastHeardTyped DEF LastHeard
<1>3. ASSUME NEW i \in LastHeard(h) + 1 .. h.cursor + 1 PROVE taken[i] # h.topic
  <2>1. i \in LastHeard(h) + 1 .. h.cursor \/ i = h.cursor + 1
    BY <1>2
  <2> QED BY <2>1 DEF NoGap
<1> QED BY <1>1, <1>2, <1>3 DEF NoGap

LEMMA WroteNoGap ==
    ASSUME NEW h \in Stream, Len(taken) \in Nat, h.cursor < Len(taken)
    PROVE  NoGap(Wrote(h))
<1>1. h.written \in Seq(Nat) /\ h.cursor + 1 \in Nat /\ h.cursor \in Nat
  BY DEF Stream
<1>2. /\ Wrote(h).cursor = h.cursor + 1
      /\ Wrote(h).written = Append(h.written, h.cursor + 1)
  BY DEF Wrote, Stream
<1>3. LET w == Append(h.written, h.cursor + 1)
      IN  w # <<>> /\ w[Len(w)] = h.cursor + 1
  BY <1>1, AppendProperties
<1>4. LastHeard(Wrote(h)) = h.cursor + 1
  BY <1>2, <1>3 DEF LastHeard
<1> QED BY <1>1, <1>2, <1>4 DEF NoGap

-----------------------------------------------------------------------------
(* The invariant.                                                           *)

LEMMA StreamInvInit == StreamInit => StreamInv
<1> SUFFICES ASSUME StreamInit PROVE StreamInv
  OBVIOUS
<1>1. \A c \in Clients : Unwritten(stream[c]) /\ ~Streams(c)
  BY DEF StreamInit, Closed, Unwritten, Streams
<1> QED BY <1>1, InitTyped DEF StreamInv

LEMMA StreamInvPreserved == StreamInv /\ [StreamNext]_streamVars => StreamInv'
<1> SUFFICES ASSUME StreamInv, [StreamNext]_streamVars PROVE StreamInv'
  OBVIOUS
<1> USE DEF StreamInv
<1>0. StreamTypeOK /\ StreamTypeOK'
  BY TypePreserved
<1>1. ASSUME UNCHANGED <<stream, taken>> PROVE StreamInv'
  BY <1>0, <1>1 DEF Unwritten, NoGap, LastHeard, Streams
<1>2. CASE LoopSubscribes
  <2>1. PICK c \in Clients : c = Head(requests).by
    BY <1>0, <1>2, NextRequest DEF LoopSubscribes
  <2> DEFINE h == [stream[c] EXCEPT !.stage = IF @ = "asking" THEN "answered" ELSE @]
  <2>2. stream' = [stream EXCEPT ![c] = h]
    BY <1>2, <2>1 DEF LoopSubscribes
  <2>3. stream[c] \in Stream
    BY <1>0, HandlerTyped
  <2>4. /\ h.stage = IF stream[c].stage = "asking" THEN "answered" ELSE stream[c].stage
        /\ h.written = stream[c].written /\ h.cursor = stream[c].cursor
        /\ h.from = stream[c].from /\ h.topic = stream[c].topic
    BY <2>3 DEF Stream
  <2>5. Unwritten(h)
    BY <2>4 DEF Unwritten
  <2>6. h.stage = "streaming" => NoGap(h)
    BY <2>4 DEF Streams, NoGap, LastHeard
  <2> HIDE DEF h
  <2> QED BY <1>0, <1>2, <2>2, <2>5, <2>6, HandlerMoves DEF LoopSubscribes
<1>3. CASE MessageArrives
  <2>1. PICK t \in Topics : taken' = Append(taken, t)
    BY <1>0, <1>3 DEF MessageArrives, StreamTypeOK
  <2>2. /\ Len(taken') = Len(taken) + 1 /\ Len(taken) \in Nat
        /\ \A i \in 1 .. Len(taken) : taken'[i] = taken[i]
    BY <1>0, <2>1, TakenGrows, LenProperties DEF StreamTypeOK
  <2>3. ASSUME NEW c \in Clients, Streams(c) PROVE NoGap(stream[c])'
    <3>1. stream'[c] = stream[c] /\ NoGap(stream[c]) /\ stream[c] \in Stream
      BY <1>0, <1>3, <2>3, HandlerTyped DEF MessageArrives
    <3>2. LastHeard(stream[c]) \in Nat /\ stream[c].cursor \in Nat
      BY <3>1, LastHeardTyped
    <3>3. \A i \in LastHeard(stream[c]) + 1 .. stream[c].cursor :
              taken'[i] # stream[c].topic
      BY <3>1, <3>2, <2>2 DEF NoGap
    <3>4. LastHeard(stream[c])' = LastHeard(stream[c])
      BY <3>1 DEF LastHeard
    <3> QED BY <3>1, <3>2, <3>3, <3>4, <2>2 DEF NoGap
  <2> QED BY <1>0, <1>3, <2>3 DEF MessageArrives, Unwritten, Streams
<1>4. ASSUME NEW c \in Clients, OpenStream(c) PROVE StreamInv'
  <2>1. PICK t \in Topics : stream' = [stream EXCEPT ![c] =
                 [Closed EXCEPT !.stage = "asking", !.topic = t, !.there = TRUE]]
    BY <1>4 DEF OpenStream
  <2> DEFINE h == [Closed EXCEPT !.stage = "asking", !.topic = t, !.there = TRUE]
  <2>2. Unwritten(h) /\ h.stage = "asking"
    BY DEF Unwritten, Closed
  <2> HIDE DEF h
  <2> QED BY <1>0, <1>4, <2>1, <2>2, HandlerMoves DEF OpenStream, h
<1>5. ASSUME NEW c \in Clients, StartStream(c) PROVE StreamInv'
  <2> DEFINE h == IF stream[c].there THEN Started(stream[c]) ELSE Closed
  <2>1. stream' = [stream EXCEPT ![c] = h]
    BY <1>5 DEF StartStream, Started
  <2>2. NoGap(Started(stream[c])) /\ Started(stream[c]).written = <<>>
    BY <1>5, StartedNoGap DEF StartStream
  <2>3. Unwritten(h) /\ (h.stage = "streaming" => NoGap(h))
    BY <2>2, ClosedTyped DEF Unwritten, Closed
  <2> HIDE DEF h
  <2> QED BY <1>0, <1>5, <2>1, <2>3, HandlerMoves DEF StartStream
<1>6. ASSUME NEW c \in Clients, EndLagging(c) \/ SeeShutdown(c) PROVE StreamInv'
  <2> DEFINE h == [stream[c] EXCEPT !.stage = "ending"]
  <2>1. stream' = [stream EXCEPT ![c] = h] /\ UNCHANGED taken
    BY <1>6 DEF EndLagging, SeeShutdown
  <2>2. h.stage = "ending"
    BY <1>0, HandlerTyped DEF Stream
  <2>3. Unwritten(h)
    BY <2>2 DEF Unwritten
  <2> HIDE DEF h
  <2> QED BY <1>0, <2>1, <2>2, <2>3, HandlerMoves
<1>7. ASSUME NEW c \in Clients, DropStream(c) PROVE StreamInv'
  <2> DEFINE h == [stream[c] EXCEPT !.there = FALSE]
  <2>1. stream' = [stream EXCEPT ![c] = h] /\ UNCHANGED taken
    BY <1>7 DEF DropStream
  <2>2. /\ h.stage = stream[c].stage /\ h.written = stream[c].written
        /\ h.cursor = stream[c].cursor /\ h.from = stream[c].from
        /\ h.topic = stream[c].topic
    BY <1>0, HandlerTyped DEF Stream
  <2>3. Unwritten(h) /\ (h.stage = "streaming" => NoGap(h))
    BY <2>2 DEF Unwritten, Streams, NoGap, LastHeard
  <2> HIDE DEF h
  <2> QED BY <1>0, <2>1, <2>3, HandlerMoves
<1>8. ASSUME NEW c \in Clients, Receive(c) PROVE StreamInv'
  <2> DEFINE ended == [stream[c] EXCEPT !.stage = "ending"]
  <2>1. /\ stream[c] \in Stream /\ Len(taken) \in Nat
        /\ stream[c].cursor < Len(taken) /\ NoGap(stream[c])
        /\ stream[c].stage = "streaming" /\ UNCHANGED taken
    BY <1>0, <1>8, HandlerTyped DEF Receive, Streams
  <2>2. CASE taken[stream[c].cursor + 1] # stream[c].topic
    <3>1. stream' = [stream EXCEPT ![c] = Passed(stream[c])]
      BY <1>8, <2>2 DEF Receive, Passed
    <3>2. Unwritten(Passed(stream[c])) /\ NoGap(Passed(stream[c]))
      BY <2>1, <2>2, PassedNoGap DEF Unwritten, Passed, Stream
    <3> QED BY <1>0, <2>1, <3>1, <3>2, HandlerMoves
  <2>3. CASE taken[stream[c].cursor + 1] = stream[c].topic /\ stream[c].there
    <3>1. stream' = [stream EXCEPT ![c] = Wrote(stream[c])]
      BY <1>8, <2>3 DEF Receive, Wrote
    <3>2. Unwritten(Wrote(stream[c])) /\ NoGap(Wrote(stream[c]))
      BY <2>1, WroteNoGap DEF Unwritten, Wrote, Stream
    <3> QED BY <1>0, <2>1, <3>1, <3>2, HandlerMoves
  <2>4. CASE taken[stream[c].cursor + 1] = stream[c].topic /\ ~stream[c].there
    <3>1. stream' = [stream EXCEPT ![c] = ended]
      BY <1>8, <2>4 DEF Receive
    <3>2. Unwritten(ended) /\ ended.stage = "ending"
      BY <2>1 DEF Unwritten, Stream
    <3> HIDE DEF ended
    <3> QED BY <1>0, <2>1, <3>1, <3>2, HandlerMoves
  <2> QED BY <2>2, <2>3, <2>4
<1>9. ASSUME NEW c \in Clients, EndStream(c) \/ AbortHandler(c) PROVE StreamInv'
  <2>1. stream' = [stream EXCEPT ![c] = Closed] /\ UNCHANGED taken
    BY <1>9 DEF EndStream, AbortHandler
  <2>2. Unwritten(Closed) /\ Closed.stage = "closed"
    BY DEF Unwritten, Closed
  <2> QED BY <1>0, <2>1, <2>2, HandlerMoves
<1>10. ASSUME LoopUnsubscribes \/ ShutDown \/ UNCHANGED streamVars PROVE StreamInv'
  <2>1. UNCHANGED <<stream, taken>>
    BY <1>10 DEF LoopUnsubscribes, ShutDown, streamVars
  <2> QED BY <1>1, <2>1
<1> QED BY <1>2, <1>3, <1>4, <1>5, <1>6, <1>7, <1>8, <1>9, <1>10
        DEF StreamNext, HandlerStep

\* The cursor of a stream never leaves an unwritten message of its topic behind.
THEOREM StreamsKeepUp == StreamSpec => []StreamInv
BY StreamInvInit, StreamInvPreserved, PTL DEF StreamSpec

-----------------------------------------------------------------------------
(* The refinement.                                                          *)

\* What TopicFeed sees of every client.
FeedBar == [c \in Clients |-> FeedOf(c)]

\* What TopicFeed sees of a connection.
Seen(h) ==
    IF h.stage = "streaming"
    THEN [topic |-> h.topic, from |-> h.from, heard |-> h.written]
    ELSE Silent

LEMMA FeedOfSeen == \A c : FeedOf(c) = Seen(stream[c])
BY DEF FeedOf, Seen, Streams

\* A subscription is never mistaken for none.
LEMMA StreamingHeard ==
    ASSUME StreamTypeOK, NEW c \in Clients, Streams(c)
    PROVE  /\ FeedOf(c) # Silent
           /\ FeedOf(c) = [topic |-> stream[c].topic, from |-> stream[c].from,
                           heard |-> stream[c].written]
           /\ stream[c].topic \in Topics
<1>1. stream[c] \in Stream /\ stream[c].topic \in Topics
  BY DEF StreamTypeOK, Streams
<1>2. [topic |-> stream[c].topic, from |-> stream[c].from, heard |-> stream[c].written]
          \in [topic : Topics, from : Nat, heard : Seq(Nat)]
  BY <1>1 DEF Stream
<1> QED BY <1>1, <1>2, StreamsAssumption DEF FeedOf

\* One handler's move is a move of one subscriber.
LEMMA OneFeed ==
    ASSUME StreamTypeOK, NEW c \in Clients, NEW h,
           stream' = [stream EXCEPT ![c] = h]
    PROVE  FeedBar' = [FeedBar EXCEPT ![c] = Seen(h)]
<1>1. stream'[c] = h /\ \A d \in Clients \ {c} : stream'[d] = stream[d]
  BY OneHandler
<1>2. FeedBar = [d \in Clients |-> Seen(stream[d])]
  BY FeedOfSeen DEF FeedBar
<1>3. FeedBar' = [d \in Clients |-> Seen(stream'[d])]
  BY DEF FeedBar, FeedOf, Seen, Streams
<1>4. \A d \in Clients : Seen(stream'[d]) = IF d = c THEN Seen(h) ELSE Seen(stream[d])
  BY <1>1
<1>5. FeedBar' = [d \in Clients |-> IF d = c THEN Seen(h) ELSE Seen(stream[d])]
  BY <1>3, <1>4
<1>6. [FeedBar EXCEPT ![c] = Seen(h)]
          = [d \in Clients |-> IF d = c THEN Seen(h) ELSE Seen(stream[d])]
  BY <1>2
<1> QED BY <1>5, <1>6

\* A move between stages in which nothing is streamed is none for TopicFeed.
LEMMA UnseenMove ==
    ASSUME StreamTypeOK, NEW c \in Clients, NEW h,
           stream' = [stream EXCEPT ![c] = h], UNCHANGED taken,
           Seen(h) = Seen(stream[c])
    PROVE  UNCHANGED Feed!feedVars
<1>1. FeedBar' = [FeedBar EXCEPT ![c] = FeedBar[c]]
  BY OneFeed, FeedOfSeen DEF FeedBar
<1>2. FeedBar' = FeedBar
  BY <1>1 DEF FeedBar
<1> QED BY <1>2 DEF Feed!feedVars, FeedBar

\* A stream that ends, for whatever reason, is a subscriber that leaves.
LEMMA EndIsLeave ==
    ASSUME StreamTypeOK, NEW c \in Clients, NEW h, Streams(c),
           stream' = [stream EXCEPT ![c] = h], UNCHANGED taken,
           h.stage # "streaming"
    PROVE  Feed!Leave(c)
<1>1. FeedBar' = [FeedBar EXCEPT ![c] = Silent]
  BY OneFeed DEF Seen
<1>2. FeedBar[c] # Silent
  BY StreamingHeard DEF FeedBar
<1> QED BY <1>1, <1>2 DEF Feed!Leave, FeedBar

\* Joining the channel starts a subscription at what the node has taken in.
LEMMA StartIsJoin ==
    ASSUME StreamInv, NEW c \in Clients, StartStream(c), stream[c].there
    PROVE  Feed!Join(c)
<1>1. stream' = [stream EXCEPT ![c] = Started(stream[c])]
  BY DEF StartStream, Started
<1>2. stream[c] \in Stream /\ stream[c].topic \in Topics
  BY DEF StreamInv, StreamTypeOK, StartStream
<1>3. Started(stream[c]).written = <<>>
  BY StartedNoGap DEF StartStream
<1>4. Seen(Started(stream[c])) = Feed!Subscription(stream[c].topic, Len(taken), <<>>)
  BY <1>2, <1>3 DEF Seen, Started, Stream, Feed!Subscription
<1>5. FeedBar' = [FeedBar EXCEPT ![c] =
                     Feed!Subscription(stream[c].topic, Len(taken), <<>>)]
  BY <1>1, <1>4, OneFeed DEF StreamInv
<1>6. FeedBar[c] = Silent
  BY DEF FeedBar, FeedOf, Streams, StartStream
<1> QED BY <1>2, <1>5, <1>6 DEF Feed!Join, FeedBar, StartStream

\* The next message of the topic that is read is the first one not yet heard.
LEMMA WriteIsHear ==
    ASSUME StreamInv, NEW c \in Clients, Receive(c),
           taken[stream[c].cursor + 1] = stream[c].topic, stream[c].there
    PROVE  Feed!Hear(c)
<1> DEFINE h == stream[c]
           next == h.cursor + 1
<1>1. /\ h \in Stream /\ h.stage = "streaming" /\ Len(taken) \in Nat
      /\ h.cursor < Len(taken) /\ NoGap(h)
      /\ FeedBar[c] # Silent
      /\ FeedBar[c] = [topic |-> h.topic, from |-> h.from, heard |-> h.written]
  BY HandlerTyped, StreamingHeard DEF StreamInv, Receive, Streams, FeedBar
<1>2. LastHeard(h) \in Nat /\ h.cursor \in Nat
  BY <1>1, LastHeardTyped
<1>3. Feed!Unheard(FeedBar[c]) = {i \in LastHeard(h) + 1 .. Len(taken) : taken[i] = h.topic}
  BY <1>1 DEF Feed!Unheard, LastHeard
<1>4. next \in Feed!Unheard(FeedBar[c])
  BY <1>1, <1>2, <1>3 DEF NoGap
<1>5. ASSUME NEW j \in Feed!Unheard(FeedBar[c]) PROVE next <= j
  <2>1. j \in LastHeard(h) + 1 .. Len(taken) /\ taken[j] = h.topic
    BY <1>3, <1>5
  <2>2. j \notin LastHeard(h) + 1 .. h.cursor
    BY <1>1, <2>1 DEF NoGap
  <2> QED BY <1>2, <2>1, <2>2
<1>6. stream' = [stream EXCEPT ![c] = Wrote(h)]
  BY DEF Receive, Wrote
<1>7. Seen(Wrote(h)) = Feed!Subscription(h.topic, h.from, Append(h.written, next))
  BY <1>1 DEF Seen, Wrote, Stream, Feed!Subscription
<1>8. FeedBar' = [FeedBar EXCEPT ![c] =
          Feed!Subscription(h.topic, h.from, Append(h.written, next))]
  BY <1>6, <1>7, OneFeed DEF StreamInv
<1>9. FeedBar' = [FeedBar EXCEPT ![c] =
          Feed!Subscription(FeedBar[c].topic, FeedBar[c].from,
                            Append(FeedBar[c].heard, next))]
  BY <1>1, <1>8
<1>10. UNCHANGED taken
  BY DEF Receive
<1> HIDE DEF h, next
<1>11. \E i \in Feed!Unheard(FeedBar[c]) :
          /\ \A j \in Feed!Unheard(FeedBar[c]) : i <= j
          /\ FeedBar' = [FeedBar EXCEPT ![c] =
                 Feed!Subscription(FeedBar[c].topic, FeedBar[c].from,
                                   Append(FeedBar[c].heard, i))]
  BY <1>4, <1>5, <1>9
<1> QED BY <1>1, <1>10, <1>11 DEF Feed!Hear, FeedBar

LEMMA InitIsFeedInit == StreamInit => Feed!FeedInit
<1> SUFFICES ASSUME StreamInit PROVE Feed!FeedInit
  OBVIOUS
<1>1. \A c \in Clients : FeedOf(c) = Silent
  BY DEF StreamInit, Closed, FeedOf, Streams
<1> QED BY <1>1 DEF Feed!FeedInit, StreamInit

LEMMA StepIsFeedStep ==
    StreamInv /\ [StreamNext]_streamVars => [Feed!FeedNext]_(Feed!feedVars)
<1> SUFFICES ASSUME StreamInv, [StreamNext]_streamVars
             PROVE  [Feed!FeedNext]_(Feed!feedVars)
  OBVIOUS
<1>0. StreamTypeOK
  BY DEF StreamInv
<1>1. ASSUME UNCHANGED <<stream, taken>> PROVE UNCHANGED Feed!feedVars
  BY <1>1 DEF Feed!feedVars, FeedOf, Streams
<1>2. CASE LoopSubscribes
  <2>1. PICK c \in Clients : c = Head(requests).by
    BY <1>0, <1>2, NextRequest DEF LoopSubscribes
  <2> DEFINE h == [stream[c] EXCEPT !.stage = IF @ = "asking" THEN "answered" ELSE @]
  <2>2. stream' = [stream EXCEPT ![c] = h] /\ UNCHANGED taken
    BY <1>2, <2>1 DEF LoopSubscribes
  <2>3. Seen(h) = Seen(stream[c])
    BY <1>0, HandlerTyped DEF Seen, Stream
  <2> HIDE DEF h
  <2> QED BY <1>0, <2>2, <2>3, UnseenMove
<1>3. CASE MessageArrives
  <2>1. UNCHANGED FeedBar /\ \E t \in Topics : taken' = Append(taken, t)
    BY <1>0, <1>3 DEF MessageArrives, StreamTypeOK, FeedBar, FeedOf, Streams
  <2>2. Feed!TakeIn
    BY <2>1 DEF Feed!TakeIn, FeedBar
  <2> QED BY <2>2 DEF Feed!FeedNext
<1>4. ASSUME NEW c \in Clients, OpenStream(c) PROVE UNCHANGED Feed!feedVars
  <2>1. PICK t \in Topics : stream' = [stream EXCEPT ![c] =
                 [Closed EXCEPT !.stage = "asking", !.topic = t, !.there = TRUE]]
    BY <1>4 DEF OpenStream
  <2> DEFINE h == [Closed EXCEPT !.stage = "asking", !.topic = t, !.there = TRUE]
  <2>2. Seen(h) = Seen(stream[c]) /\ UNCHANGED taken
    BY <1>4 DEF Seen, Closed, OpenStream
  <2>3. stream' = [stream EXCEPT ![c] = h]
    BY <2>1
  <2> HIDE DEF h
  <2> QED BY <1>0, <2>2, <2>3, UnseenMove
<1>5. ASSUME NEW c \in Clients, StartStream(c)
      PROVE  Feed!Join(c) \/ UNCHANGED Feed!feedVars
  <2>1. CASE stream[c].there
    BY <1>5, <2>1, StartIsJoin
  <2>2. CASE ~stream[c].there
    <3>1. stream' = [stream EXCEPT ![c] = Closed] /\ UNCHANGED taken
      BY <1>5, <2>2 DEF StartStream
    <3>2. Seen(Closed) = Seen(stream[c])
      BY <1>5, ClosedTyped DEF Seen, StartStream
    <3> QED BY <1>0, <3>1, <3>2, UnseenMove
  <2> QED BY <2>1, <2>2
<1>6. ASSUME NEW c \in Clients, EndLagging(c) \/ SeeShutdown(c) PROVE Feed!Leave(c)
  <2> DEFINE h == [stream[c] EXCEPT !.stage = "ending"]
  <2>1. stream' = [stream EXCEPT ![c] = h] /\ UNCHANGED taken /\ Streams(c)
    BY <1>6 DEF EndLagging, SeeShutdown
  <2>2. h.stage # "streaming"
    BY <1>0, HandlerTyped DEF Stream
  <2> HIDE DEF h
  <2> QED BY <1>0, <2>1, <2>2, EndIsLeave
<1>7. ASSUME NEW c \in Clients, DropStream(c) PROVE UNCHANGED Feed!feedVars
  <2> DEFINE h == [stream[c] EXCEPT !.there = FALSE]
  <2>1. stream' = [stream EXCEPT ![c] = h] /\ UNCHANGED taken
    BY <1>7 DEF DropStream
  <2>2. Seen(h) = Seen(stream[c])
    BY <1>0, HandlerTyped DEF Stream, Seen
  <2> HIDE DEF h
  <2> QED BY <1>0, <2>1, <2>2, UnseenMove
<1>8. ASSUME NEW c \in Clients, Receive(c)
      PROVE  Feed!Hear(c) \/ Feed!Leave(c) \/ UNCHANGED Feed!feedVars
  <2> DEFINE ended == [stream[c] EXCEPT !.stage = "ending"]
  <2>1. stream[c] \in Stream /\ Streams(c) /\ UNCHANGED taken
    BY <1>0, <1>8, HandlerTyped DEF Receive
  <2>2. CASE taken[stream[c].cursor + 1] # stream[c].topic
    <3>1. stream' = [stream EXCEPT ![c] = Passed(stream[c])]
      BY <1>8, <2>2 DEF Receive, Passed
    <3>2. Seen(Passed(stream[c])) = Seen(stream[c])
      BY <2>1 DEF Seen, Passed, Stream
    <3> QED BY <1>0, <2>1, <3>1, <3>2, UnseenMove
  <2>3. CASE taken[stream[c].cursor + 1] = stream[c].topic /\ stream[c].there
    BY <1>8, <2>3, WriteIsHear
  <2>4. CASE taken[stream[c].cursor + 1] = stream[c].topic /\ ~stream[c].there
    <3>1. stream' = [stream EXCEPT ![c] = ended]
      BY <1>8, <2>4 DEF Receive
    <3>2. ended.stage # "streaming"
      BY <2>1 DEF Stream
    <3> HIDE DEF ended
    <3> QED BY <1>0, <2>1, <3>1, <3>2, EndIsLeave
  <2> QED BY <2>2, <2>3, <2>4
<1>9. ASSUME NEW c \in Clients, EndStream(c) PROVE UNCHANGED Feed!feedVars
  <2>1. stream' = [stream EXCEPT ![c] = Closed] /\ UNCHANGED taken
    BY <1>9 DEF EndStream
  <2>2. Seen(Closed) = Seen(stream[c])
    BY <1>9, ClosedTyped DEF Seen, EndStream
  <2> QED BY <1>0, <2>1, <2>2, UnseenMove
<1>10. ASSUME NEW c \in Clients, AbortHandler(c)
       PROVE  Feed!Leave(c) \/ UNCHANGED Feed!feedVars
  <2>1. stream' = [stream EXCEPT ![c] = Closed] /\ UNCHANGED taken
    BY <1>10 DEF AbortHandler
  <2>2. CASE Streams(c)
    BY <1>0, <2>1, <2>2, ClosedTyped, EndIsLeave
  <2>3. CASE ~Streams(c)
    <3>1. Seen(Closed) = Seen(stream[c])
      BY <2>3, ClosedTyped DEF Seen, Streams
    <3> QED BY <1>0, <2>1, <3>1, UnseenMove
  <2> QED BY <2>2, <2>3
<1>11. ASSUME LoopUnsubscribes \/ ShutDown \/ UNCHANGED streamVars
       PROVE  UNCHANGED Feed!feedVars
  <2>1. UNCHANGED <<stream, taken>>
    BY <1>11 DEF LoopUnsubscribes, ShutDown, streamVars
  <2> QED BY <1>1, <2>1
<1> QED BY <1>2, <1>3, <1>4, <1>5, <1>6, <1>7, <1>8, <1>9, <1>10, <1>11
        DEF StreamNext, HandlerStep, Feed!FeedNext

\* What a client reads is an unbroken run of its topic's messages: the handlers
\* of all the clients, and the loop, implement TopicFeed.
THEOREM StreamsImplementFeed == StreamSpec => StreamsAreFeeds
<1>1. StreamSpec => []StreamInv
  BY StreamsKeepUp
<1> QED BY <1>1, InitIsFeedInit, StepIsFeedStep, PTL
        DEF StreamSpec, StreamsAreFeeds, Feed!FeedSpec
=============================================================================
