----------------------------- MODULE TopicFeed ------------------------------
(***************************************************************************)
(* What a subscription promises.  The node takes in messages, each on one  *)
(* topic; a subscriber hears, in their order, the messages of its topic    *)
(* that the node takes in after the subscription started, none of them     *)
(* twice and none left out, until the subscription ends.                   *)
(***************************************************************************)
EXTENDS Naturals, Sequences

CONSTANTS
    Subscribers,
    Topics,
    Silent          \* a subscriber without a subscription

VARIABLES
    taken,          \* the topic of each message the node has taken in
    feed            \* per subscriber, its topic, start and messages heard

feedVars == <<taken, feed>>

Subscription(topic, from, heard) ==
    [topic |-> topic, from |-> from, heard |-> heard]

FeedInit ==
    /\ taken = <<>>
    /\ feed = [s \in Subscribers |-> Silent]

TakeIn ==
    /\ \E t \in Topics : taken' = Append(taken, t)
    /\ UNCHANGED feed

Join(s) ==
    /\ feed[s] = Silent
    /\ \E t \in Topics :
        feed' = [feed EXCEPT ![s] = Subscription(t, Len(taken), <<>>)]
    /\ UNCHANGED taken

\* The messages of a subscription that were taken in after the last one heard.
Unheard(sub) ==
    LET last == IF sub.heard = <<>> THEN sub.from
                ELSE sub.heard[Len(sub.heard)]
    IN  {i \in last + 1 .. Len(taken) : taken[i] = sub.topic}

Hear(s) ==
    /\ feed[s] # Silent
    /\ \E i \in Unheard(feed[s]) :
        /\ \A j \in Unheard(feed[s]) : i <= j
        /\ feed' = [feed EXCEPT ![s] =
               Subscription(@.topic, @.from, Append(@.heard, i))]
    /\ UNCHANGED taken

Leave(s) ==
    /\ feed[s] # Silent
    /\ feed' = [feed EXCEPT ![s] = Silent]
    /\ UNCHANGED taken

FeedNext == TakeIn \/ \E s \in Subscribers : Join(s) \/ Hear(s) \/ Leave(s)

FeedSpec == FeedInit /\ [][FeedNext]_feedVars
=============================================================================
