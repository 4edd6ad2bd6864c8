---------------------------- MODULE SocketIORun -----------------------------
(***************************************************************************)
(* SocketIOClient together with the server the stress test is meant for:   *)
(* it accepts the connection and the upgrade, takes every frame, and       *)
(* answers each request with one event and nothing else.  The events are   *)
(* taken one after another as they arrive; each is two pieces of input, a  *)
(* header and a payload.  The client's heartbeats may come between.        *)
(***************************************************************************)
EXTENDS SocketIOClient

\* What the server has sent by now is bounded by the requests it has seen.
Answerable == 2 * Len(DeliveredRequests)

Accepts ==
    \/ C!ConnectDone("ok")
    \/ C!WriteRequestDone("ok")
    \/ C!ReadResponseDone("ok", 0)

Serves ==
    \/ C!WriteDone
    \/ \E k \in 1..MaxChunk :
           received + k <= Answerable /\ C!ReadDone(k)

\* Both directions fail once the client has shut the socket down.
Breaks == m_state = "CLOSED" /\ (C!ReadFail \/ C!WriteFail)

ServerStep ==
    /\ main = "run"
    /\ Accepts \/ Serves \/ Breaks
    /\ UNCHANGED <<handlervars, mainvars>>

Silence ==
    /\ main = "run"
    /\ C!AppTimerExpires
    /\ UNCHANGED <<handlervars, mainvars>>

\* The input is what the server sends: headers and events.
Answered ==
    \/ /\ main = "run"
       /\ C!ConsumeHeader
       /\ UNCHANGED <<handlervars, mainvars>>
    \/ \E id \in SessionIds : ReceivesEvent(id)

RunStep ==
    \/ SetUp /\ main' = "run"
    \/ MainReturns
    \/ NoCallback /\ m_buf' >= m_buf
    \/ Ends \/ Opens \/ HeartbeatTimeout
    \/ Answered

RunNext == RunStep \/ ServerStep \/ Silence \/ Terminated

\* The client's thread runs, and the server and the network get on with it.
RunSpec ==
    /\ Init /\ [][RunNext]_vars
    /\ WF_vars(RunStep) /\ WF_vars(ServerStep)

-----------------------------------------------------------------------------

\* The whole point of the program: with such a server the run comes to its
\* end, every request of the script has been sent, and the status is 0.
Completes ==
    <>[](/\ main = "exited" /\ status = 0
         /\ Len(DeliveredRequests) = Cardinality(Requests)
         /\ OnWire("CLOSE_NORMAL"))

\* On the way, no request is sent before the answers to those before it.
Paced == Len(DeliveredRequests) <= 1 + received \div 2

=============================================================================
