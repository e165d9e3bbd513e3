-------------------------- MODULE MCDaemonClients --------------------------
(***************************************************************************)
(* Three parts that share no state, one of them at work in each behaviour  *)
(* and the others at rest: nothing that is fair is enabled in a part at    *)
(* rest.                                                                   *)
(***************************************************************************)
EXTENDS TopicStreams, GatewaySession, DaemonCalls, TLC

CONSTANTS c1, c2

\* One caller sends any command, the other shuts the daemon down.
MCMenu == (c1 :> NodeCommand) @@ (c2 :> {"Shutdown"})

VARIABLE part

MCVars == <<part, streamVars, gatewayVars, callVars>>

MCInit ==
    /\ part \in {"streams", "gateway", "calls"}
    /\ StreamInit /\ GatewayInit /\ CallInit

MCNext ==
    \/ part = "streams" /\ StreamNext /\ UNCHANGED <<part, gatewayVars, callVars>>
    \/ part = "gateway" /\ GatewayNext /\ UNCHANGED <<part, streamVars, callVars>>
    \/ part = "calls" /\ CallNext /\ UNCHANGED <<part, streamVars, gatewayVars>>

MCSpec ==
    /\ MCInit /\ [][MCNext]_MCVars
    /\ StreamFairness /\ GatewayFairness /\ CallFairness
=============================================================================
