--------------------------- MODULE GatewaySession ---------------------------
(***************************************************************************)
(* One browser page on the WebSocket gateway.  The page's client           *)
(* (www/client.js) keeps its unanswered requests in a queue and gives      *)
(* every answer to the oldest of them; the gateway's session               *)
(* (canopee-gateway/src/lib.rs) takes one command at a time and writes one *)
(* answer for each but `subscribe`, for which a pump of its own puts the   *)
(* topic's messages, or one error, on a channel.  While a subscription is  *)
(* active the session waits for the next command and for the next event at *)
(* once, and whichever comes first drops the other wait; a frame half read *)
(* is dropped with it.                                                     *)
(***************************************************************************)
EXTENDS Naturals, Sequences

CONSTANTS
    MaxCommands,   \* bound: commands the page sends
    MaxEvents      \* bound: messages of subscriptions

ASSUME GatewayBounds == MaxCommands \in Nat /\ MaxEvents \in Nat

Ids == 1 .. MaxCommands

\* A call is answered, an invalid command is one that serde refuses, as the
\* client's fetchObject is, which writes peerId for peer_id.
CommandKinds == {"call", "subscribe", "invalid"}

VARIABLES
    link,      \* the page's WebSocket
    pending,   \* its unanswered requests
    fate,      \* what became of each request
    sent,      \* how many commands it has sent
    inbox,     \* frames on their way to the gateway
    outbox,    \* frames on their way to the page
    gate,      \* the session's task
    command,   \* the call it is running
    pump,      \* the task of its subscription
    events,    \* the channel from the pump to the session
    emitted,   \* messages the pumps have put on it
    torn,      \* commands of which the session has dropped a part
    failed     \* the failure of a subscription has been written to the page

wireVars == <<inbox, outbox>>
pageVars == <<link, pending, fate, sent>>
pumpVars == <<pump, events, emitted>>
gatewayVars == <<pageVars, wireVars, gate, command, pumpVars, torn, failed>>

GatewayInit ==
    /\ link = "none" /\ pending = <<>>
    /\ fate = [i \in Ids |-> "unsent"] /\ sent = 0
    /\ inbox = <<>> /\ outbox = <<>>
    /\ gate = "listening" /\ command = 0
    /\ pump = "none" /\ events = <<>> /\ emitted = 0
    /\ torn = {} /\ failed = FALSE

-----------------------------------------------------------------------------
(* The page.                                                                *)

\* The handshake; a request that is refused, or that asks for the demo page,
\* ends there.  Then the gateway opens its client to the node.
Accept ==
    /\ gate = "listening"
    /\ \/ link' = "open" /\ gate' \in {"reading", "over"}
       \/ link' = "gone" /\ gate' = "over"
    /\ UNCHANGED <<pending, fate, sent, wireVars, command, pumpVars, torn,
                   failed>>

\* `subscribe` expects no answer.
SendCommand ==
    /\ link = "open"
    /\ sent < MaxCommands /\ sent' = sent + 1
    /\ \E kind \in CommandKinds :
        /\ inbox' = Append(inbox, [id |-> sent', kind |-> kind])
        /\ IF kind = "subscribe" THEN UNCHANGED <<pending, fate>>
           ELSE /\ pending' = Append(pending, sent')
                /\ fate' = [fate EXCEPT ![sent'] = "waiting"]
    /\ UNCHANGED <<link, outbox, gate, command, pumpVars, torn, failed>>

\* An answer, of either kind, settles the oldest request; an error without a
\* request goes to onError.
ReceiveFrame ==
    /\ link \in {"open", "closing"}
    /\ outbox # <<>> /\ outbox' = Tail(outbox)
    /\ IF Head(outbox).op = "message" \/ pending = <<>>
       THEN UNCHANGED <<pending, fate>>
       ELSE /\ pending' = Tail(pending)
            /\ fate' = [fate EXCEPT ![Head(pending)] =
                           IF Head(outbox).to = Head(pending) THEN "own"
                           ELSE "other"]
    /\ UNCHANGED <<link, sent, inbox, gate, command, pumpVars, torn, failed>>

ClosePage ==
    /\ link = "open"
    /\ link' = "closing"
    /\ inbox' = Append(inbox, [id |-> 0, kind |-> "close"])
    /\ UNCHANGED <<pending, fate, sent, outbox, gate, command, pumpVars, torn,
                   failed>>

\* Mutant: the requests that wait are not rejected.
SeeCloseQuietly ==
    /\ link \in {"open", "closing"}
    /\ gate = "over" /\ outbox = <<>>
    /\ link' = "gone"
    /\ UNCHANGED <<pending, fate, sent, wireVars, gate, command, pumpVars,
                   torn, failed>>

\* onclose: every request that waits is rejected.
SeeClose ==
    /\ link \in {"open", "closing"}
    /\ gate = "over" /\ outbox = <<>>
    /\ link' = "gone"
    /\ pending' = <<>>
    /\ fate' = [i \in Ids |-> IF fate[i] = "waiting" THEN "rejected"
                              ELSE fate[i]]
    /\ UNCHANGED <<sent, wireVars, gate, command, pumpVars, torn, failed>>

-----------------------------------------------------------------------------
(* The session.                                                             *)

\* Mutant: a subscription is answered like every other command.
TakeAnswering(frame) ==
    /\ inbox' = Tail(inbox)
    /\ gate' = CASE frame.kind = "call" -> "running"
                 [] frame.kind = "subscribe" -> "reading"
                 [] OTHER -> "over"
    /\ command' = IF frame.kind = "call" THEN frame.id ELSE command
    /\ IF frame.kind = "subscribe"
       THEN /\ pump' = "joining" /\ events' = <<>> /\ UNCHANGED emitted
            /\ outbox' = Append(outbox, [op |-> "ok", to |-> frame.id])
       ELSE UNCHANGED <<pumpVars, outbox>>
    /\ UNCHANGED <<pageVars, torn, failed>>

\* A new subscription aborts the pump of the last one and takes a new channel;
\* a close frame ends the session, and so does a command that cannot be parsed,
\* which is not answered.
Take(frame) ==
    /\ inbox' = Tail(inbox)
    /\ gate' = CASE frame.kind = "call" -> "running"
                 [] frame.kind = "subscribe" -> "reading"
                 [] OTHER -> "over"
    /\ command' = IF frame.kind = "call" THEN frame.id ELSE command
    /\ IF frame.kind = "subscribe"
       THEN pump' = "joining" /\ events' = <<>> /\ UNCHANGED emitted
       ELSE UNCHANGED pumpVars
    /\ UNCHANGED <<pageVars, outbox, torn, failed>>

\* The whole frame is there.
ReadFrame ==
    /\ gate = "reading"
    /\ inbox # <<>> /\ Take(Head(inbox))

\* A part of it is there: read_frame keeps what it has read on its own stack.
BeginFrame ==
    /\ gate = "reading"
    /\ inbox # <<>> /\ Head(inbox).kind # "close"
    /\ gate' = "halfway"
    /\ UNCHANGED <<pageVars, wireVars, command, pumpVars, torn, failed>>

FinishFrame ==
    /\ gate = "halfway"
    /\ Take(Head(inbox))

\* dispatch: the node's result or its error.  Nothing else is read meanwhile.
AnswerCall ==
    /\ gate = "running" /\ gate' = "reading"
    /\ \E op \in {"ok", "error"} :
        outbox' = Append(outbox, [op |-> op, to |-> command])
    /\ UNCHANGED <<pageVars, inbox, command, pumpVars, torn, failed>>

Selects == gate \in {"reading", "halfway", "lost"} /\ pump # "none"

\* The event is ready first: read_command's future is dropped, and with it the
\* part of a frame it has taken off the socket.
ForwardEvent ==
    /\ Selects
    /\ events # <<>> /\ events' = Tail(events)
    /\ outbox' = Append(outbox, Head(events))
    /\ failed' = (failed \/ Head(events).op = "error")
    /\ IF gate = "halfway"
       THEN /\ gate' = "lost"
            /\ torn' = torn \cup {Head(inbox).id}
            /\ inbox' = Tail(inbox)
       ELSE UNCHANGED <<gate, torn, inbox>>
    /\ UNCHANGED <<pageVars, command, pump, emitted>>

\* The channel is closed and drained: the session ends.
EndOfStream ==
    /\ Selects
    /\ pump = "over" /\ events = <<>>
    /\ gate' = "over"
    /\ UNCHANGED <<pageVars, wireVars, command, pumpVars, torn, failed>>

\* After a part was dropped the session takes what follows for the head of a
\* frame: a protocol error, or bytes it waits for and gets from later frames.
Misread ==
    /\ gate = "lost"
    /\ \/ gate' = "over" /\ UNCHANGED inbox
       \/ inbox # <<>> /\ inbox' = Tail(inbox) /\ UNCHANGED gate
    /\ UNCHANGED <<pageVars, outbox, command, pumpVars, torn, failed>>

-----------------------------------------------------------------------------
(* The pump: a client of its own, a subscription, then its messages.        *)

Event(op) == [op |-> op, to |-> 0]

PumpJoins ==
    /\ pump = "joining"
    /\ \/ pump' = "streaming" /\ UNCHANGED events
       \/ pump' = "over" /\ events' = Append(events, Event("error"))
    /\ UNCHANGED <<pageVars, wireVars, gate, command, emitted, torn, failed>>

\* When the session is over the receiver is gone, which the pump, that nobody
\* aborts, finds out with its next message.
PumpDelivers ==
    /\ pump = "streaming"
    /\ emitted < MaxEvents /\ emitted' = emitted + 1
    /\ IF gate = "over" THEN pump' = "over" /\ UNCHANGED events
       ELSE events' = Append(events, Event("message")) /\ UNCHANGED pump
    /\ UNCHANGED <<pageVars, wireVars, gate, command, torn, failed>>

\* The node ends the subscription, or its frame cannot be read.
PumpEnds ==
    /\ pump = "streaming" /\ pump' = "over"
    /\ UNCHANGED <<pageVars, wireVars, gate, command, events, emitted, torn,
                   failed>>

GatewayNext ==
    \/ Accept \/ SendCommand \/ ReceiveFrame \/ ClosePage \/ SeeClose
    \/ ReadFrame \/ BeginFrame \/ FinishFrame \/ AnswerCall
    \/ ForwardEvent \/ EndOfStream \/ Misread
    \/ PumpJoins \/ PumpDelivers \/ PumpEnds

\* The runtimes of both ends run what is ready, a frame that has begun to
\* arrive arrives, and the node answers every call.
GatewayFairness ==
    /\ WF_gatewayVars(ReceiveFrame \/ SeeClose)
    /\ WF_gatewayVars(ReadFrame \/ FinishFrame)
    /\ WF_gatewayVars(AnswerCall)
    /\ WF_gatewayVars(ForwardEvent \/ EndOfStream)
    /\ WF_gatewayVars(PumpJoins)

GatewaySpec == GatewayInit /\ [][GatewayNext]_gatewayVars /\ GatewayFairness

-----------------------------------------------------------------------------
(* Properties.                                                              *)

\* client.js gives answers to requests by their order alone.  It is right as
\* long as no subscription has failed, whose error takes the place of an
\* answer, and no frame was dropped: then nobody gets another request's answer,
\* whatever the page sends without waiting.
AnswersAreOwn ==
    (\E i \in Ids : fate[i] = "other") => failed \/ torn # {}

\* Every request of a page is settled, by an answer or by the end of the
\* session, unless a frame was dropped: also those the session has not read
\* when it ends, and those behind a command that is refused without an answer.
RequestsSettle ==
    \A i \in Ids : fate[i] = "waiting" ~> (fate[i] # "waiting" \/ torn # {})

\* lib.rs:211: beside a subscription "every other command is answered
\* immediately alongside it": no command is read and dropped.
AnsweredAlongside == torn = {}

\* client.js:59: pending requests are matched with their own answers, and an
\* error that belongs to none of them goes to onError.
ErrorsFindTheirRequest == \A i \in Ids : fate[i] # "other"
=============================================================================
