---------------------------- MODULE TopicStreams ----------------------------
(***************************************************************************)
(* Subscriptions to gossip topics.  A client opens a connection to the     *)
(* daemon's socket and sends Subscribe; the connection's handler asks the  *)
(* network loop to subscribe, joins the channel on which the loop puts     *)
(* every message it takes in, whatever its topic, and writes those of its  *)
(* own topic to the socket.  The loop handles the commands of all the      *)
(* handlers one after the other, and a topic is subscribed or it is not:   *)
(* nobody counts who asked.  A handler that ends asks for the topic to be  *)
(* unsubscribed.                                                           *)
(***************************************************************************)
EXTENDS Naturals, Sequences

CONSTANTS
    Clients,
    Topics,
    Silent,        \* a connection without a subscription
    Capacity,      \* messages the channel keeps for its receivers, 256
    MaxMessages,   \* bound: messages taken in
    FrameLength    \* bytes of a message on the socket

ASSUME StreamsAssumption ==
    /\ Capacity \in Nat \ {0}
    /\ MaxMessages \in Nat
    /\ FrameLength \in 1 .. 127
    /\ Silent \notin [topic : Topics, from : Nat, heard : Seq(Nat)]

VARIABLES
    topics,        \* the topics the node is subscribed to
    requests,      \* commands on their way to the network loop
    taken,         \* the topic of each message the node has taken in
    stream,        \* each client's connection and its handler
    down           \* the daemon has been told to stop

streamVars == <<topics, requests, taken, stream, down>>

Closed ==
    [stage |-> "closed", topic |-> Silent, from |-> 0, cursor |-> 0,
     written |-> <<>>, there |-> FALSE]

StreamInit ==
    /\ topics = {}
    /\ requests = <<>>
    /\ taken = <<>>
    /\ stream = [c \in Clients |-> Closed]
    /\ down = FALSE

\* Mutant: connections are accepted while the daemon waits for the others.
OpenAnyTime(c) ==
    /\ stream[c].stage = "closed"
    /\ \E t \in Topics :
        /\ stream' = [stream EXCEPT ![c] =
               [Closed EXCEPT !.stage = "asking", !.topic = t, !.there = TRUE]]
        /\ requests' = Append(requests, [kind |-> "subscribe", topic |-> t, by |-> c])
    /\ UNCHANGED <<topics, taken, down>>

\* Asks the loop; the handler waits for its answer.
OpenStream(c) ==
    /\ ~down
    /\ stream[c].stage = "closed"
    /\ \E t \in Topics :
        /\ stream' = [stream EXCEPT ![c] =
               [Closed EXCEPT !.stage = "asking", !.topic = t, !.there = TRUE]]
        /\ requests' = Append(requests, [kind |-> "subscribe", topic |-> t, by |-> c])
    /\ UNCHANGED <<topics, taken, down>>

\* The loop takes the next command.
LoopSubscribes ==
    /\ requests # <<>> /\ Head(requests).kind = "subscribe"
    /\ requests' = Tail(requests)
    /\ topics' = topics \cup {Head(requests).topic}
    /\ stream' = [stream EXCEPT ![Head(requests).by].stage =
                     IF @ = "asking" THEN "answered" ELSE @]
    /\ UNCHANGED <<taken, down>>

LoopUnsubscribes ==
    /\ requests # <<>> /\ Head(requests).kind = "unsubscribe"
    /\ requests' = Tail(requests)
    /\ topics' = topics \ {Head(requests).topic}
    /\ UNCHANGED <<taken, stream, down>>

\* A message of the mesh: only a topic the node is subscribed to reaches it.
MessageArrives ==
    /\ Len(taken) < MaxMessages
    /\ \E t \in topics : taken' = Append(taken, t)
    /\ UNCHANGED <<topics, requests, stream, down>>

\* The handler joins the channel as it is now, and tells the client; when the
\* client has gone it ends there and then, and the topic stays subscribed.
StartStream(c) ==
    /\ stream[c].stage = "answered"
    /\ stream' = [stream EXCEPT ![c] =
           IF @.there THEN [@ EXCEPT !.stage = "streaming", !.from = Len(taken),
                                     !.cursor = Len(taken)]
           ELSE Closed]
    /\ UNCHANGED <<topics, requests, taken, down>>

Streams(c) == stream[c].stage = "streaming"

Lagging(c) == Len(taken) - stream[c].cursor > Capacity

\* Mutant: a receiver that lags goes on with the oldest message that is kept,
\* as the chat application does.
SkipAhead(c) ==
    /\ Streams(c) /\ Lagging(c)
    /\ stream' = [stream EXCEPT ![c].cursor = Len(taken) - Capacity]
    /\ UNCHANGED <<topics, requests, taken, down>>

\* A receiver that lags behind the channel has lost messages: the stream ends.
EndLagging(c) ==
    /\ Streams(c) /\ Lagging(c)
    /\ stream' = [stream EXCEPT ![c].stage = "ending"]
    /\ UNCHANGED <<topics, requests, taken, down>>

\* The next message: another topic's is skipped; one that cannot be written,
\* because the client has gone, ends the stream.
Receive(c) ==
    /\ Streams(c) /\ ~Lagging(c)
    /\ stream[c].cursor < Len(taken)
    /\ LET h == stream[c]
           next == h.cursor + 1
       IN  stream' = [stream EXCEPT ![c] =
               IF taken[next] # h.topic THEN [h EXCEPT !.cursor = next]
               ELSE IF h.there
                    THEN [h EXCEPT !.cursor = next,
                                   !.written = Append(h.written, next)]
               ELSE [h EXCEPT !.stage = "ending"]]
    /\ UNCHANGED <<topics, requests, taken, down>>

\* The client drops its end of the connection.
DropStream(c) ==
    /\ stream[c].there
    /\ stream' = [stream EXCEPT ![c].there = FALSE]
    /\ UNCHANGED <<topics, requests, taken, down>>

\* The loop of the handler ends with the unsubscription.
EndStream(c) ==
    /\ stream[c].stage = "ending"
    /\ requests' = Append(requests,
                          [kind |-> "unsubscribe", topic |-> stream[c].topic,
                           by |-> c])
    /\ stream' = [stream EXCEPT ![c] = Closed]
    /\ UNCHANGED <<topics, taken, down>>

\* The Shutdown command has been answered: the daemon accepts no connection
\* any more, handlers see the signal and those that do not are aborted.
ShutDown ==
    /\ ~down
    /\ down' = TRUE
    /\ UNCHANGED <<topics, requests, taken, stream>>

SeeShutdown(c) ==
    /\ down /\ Streams(c)
    /\ stream' = [stream EXCEPT ![c].stage = "ending"]
    /\ UNCHANGED <<topics, requests, taken, down>>

AbortHandler(c) ==
    /\ down /\ stream[c].stage # "closed"
    /\ stream' = [stream EXCEPT ![c] = Closed]
    /\ UNCHANGED <<topics, requests, taken, down>>

HandlerStep(c) ==
    StartStream(c) \/ EndLagging(c) \/ Receive(c) \/ EndStream(c)

StreamNext ==
    \/ LoopSubscribes \/ LoopUnsubscribes \/ MessageArrives \/ ShutDown
    \/ \E c \in Clients :
        \/ OpenStream(c) \/ HandlerStep(c) \/ DropStream(c)
        \/ SeeShutdown(c) \/ AbortHandler(c)

\* Every task that is ready is run; clients and peers do as they please.
StreamFairness ==
    /\ WF_streamVars(LoopSubscribes \/ LoopUnsubscribes)
    /\ \A c \in Clients : WF_streamVars(HandlerStep(c))
    /\ \A c \in Clients : WF_streamVars(AbortHandler(c))

StreamSpec == StreamInit /\ [][StreamNext]_streamVars /\ StreamFairness

-----------------------------------------------------------------------------
(* The client's side of the socket.                                         *)

\* write_response sends the length of a frame with its highest byte first;
\* read_frame_opt reads it with the lowest byte first.
SwapBytes(n) ==
    (n % 256) * 16777216 + ((n \div 256) % 256) * 65536
        + ((n \div 65536) % 256) * 256 + n \div 16777216

\* How many of the frames written a reader has got, that waits for as many
\* bytes as it has read the length to be.
Got(c) ==
    LET frames == Len(stream[c].written)
    IN  IF frames * (4 + FrameLength) < 4 + SwapBytes(FrameLength) THEN 0
        ELSE frames

-----------------------------------------------------------------------------
(* Properties.                                                              *)

\* A connection and its handler.
Stream ==
    [stage : {"closed", "asking", "answered", "streaming", "ending"},
     topic : Topics \cup {Silent}, from : Nat, cursor : Nat, written : Seq(Nat),
     there : BOOLEAN]

\* What handlers ask of the loop.
LoopCommand == [kind : {"subscribe", "unsubscribe"}, topic : Topics, by : Clients]

\* Type correctness of the connections and of the loop's queue.
StreamTypeOK ==
    /\ topics \subseteq Topics
    /\ taken \in Seq(Topics)
    /\ requests \in Seq(LoopCommand)
    /\ stream \in [Clients -> Stream]
    /\ \A c \in Clients : stream[c].stage # "closed" => stream[c].topic \in Topics
    /\ down \in BOOLEAN

\* What a client's handler does, as TopicFeed tells it.
FeedOf(c) ==
    IF Streams(c)
    THEN [topic |-> stream[c].topic, from |-> stream[c].from,
          heard |-> stream[c].written]
    ELSE Silent

Feed == INSTANCE TopicFeed WITH
    Subscribers <- Clients,
    feed <- [c \in Clients |-> FeedOf(c)]

\* Whatever other topics' messages share the channel, and however far a
\* handler lags behind, what it writes to its socket is an unbroken run of its
\* topic's messages from the subscription on: handle_subscribe implements
\* TopicFeed.
StreamsAreFeeds == Feed!FeedSpec

\* A daemon told to stop ends every handler, whatever it is waiting for.
ShutdownCloses == down ~> \A c \in Clients : stream[c].stage = "closed"

\* docs/reference/protocols.md:38: "the node pushes `PubSubMessage` frames until
\* the client disconnects": as long as a client reads its stream, the node is
\* subscribed to the topic.
StreamedIsSubscribed ==
    \A c \in Clients :
        (Streams(c) /\ stream[c].there) => stream[c].topic \in topics

\* docs/reference/sdk.md:104: `subscribe` gives a "stream of `PubSubMessage`
\* frames": a client at rest has got what was written to it.
WrittenIsGot ==
    \A c \in Clients : Got(c) = Len(stream[c].written)

\* subscription.rs:5: dropping a subscription "closes the underlying connection,
\* which the node interprets as an unsubscribe".
DroppedIsUnsubscribed ==
    \A c \in Clients :
        (Streams(c) /\ ~stream[c].there) ~> ~Streams(c)
=============================================================================
