----------------------- MODULE SocketIOClient_proofs -----------------------
(***************************************************************************)
(* Proofs about SocketIOClient, for every script, every set of session ids *)
(* and every value of the bounds: the client's steps are steps of          *)
(* WSConnection, so that what is proved there is true of it, and with that *)
(* its own invariants.  A run against the server it is meant for, which is *)
(* SocketIORun, is a run of the client, and keeps its pace.                *)
(***************************************************************************)
EXTENDS SocketIORun, WellFoundedInduction, TLAPS

\* The theorems of WSConnection, about the connection of this client.
P == INSTANCE WSConnection_proofs
         WITH Text <- Texts, Behaviours <- HandlerCallbacks

\* The script has a length.
LEMMA ScriptLength == N \in Nat
  BY ScriptAssumption DEF N

\* The parameters are as WSConnection assumes them.
LEMMA ConnectionAssumptions ==
    P!TextAssumption /\ P!BoundsAssumption /\ P!BehavioursAssumption
  <1>1. P!TextAssumption BY ScriptLength DEF P!TextAssumption, Texts, NoText
  <1>2. P!BoundsAssumption BY ClientBoundsAssumption DEF P!BoundsAssumption
  <1>3. P!BehavioursAssumption
    BY DEF P!BehavioursAssumption, P!Callbacks, HandlerCallbacks
  <1> QED BY <1>1, <1>2, <1>3

-----------------------------------------------------------------------------
(* C and P are instances of the same definitions.                          *)

\* The thread and its environment take the same steps in both.
LEMMA SameThread ==
    /\ C!Thread <=> P!Thread
    /\ C!Network <=> P!Network
    /\ C!Timers <=> P!Timers
  <1> USE DEF C!Alive, P!Alive, C!netvars, P!netvars, C!sockvars, P!sockvars,
              C!outvars, P!outvars, C!invars, P!invars, C!appvars, P!appvars,
              C!Completion, P!Completion, C!WriteMessage, P!WriteMessage,
              C!NoMessage, P!NoMessage, C!CloseOps, P!CloseOps
  <1>1. C!Network <=> P!Network
    BY DEF C!Network, P!Network, C!ConnectDone, P!ConnectDone,
           C!WriteRequestDone, P!WriteRequestDone, C!ReadResponseDone,
           P!ReadResponseDone, C!ReadDone, P!ReadDone, C!ReadFail, P!ReadFail,
           C!WriteDone, P!WriteDone, C!WriteFail, P!WriteFail
  <1>2. C!Timers <=> P!Timers
    BY DEF C!Timers, P!Timers, C!CloseTimerExpires, P!CloseTimerExpires,
           C!AppTimerExpires, P!AppTimerExpires
  <1>3. C!Thread <=> P!Thread
    BY DEF C!Thread, P!Thread, C!Runs, P!Runs, C!RunsOk, P!RunsOk,
           C!HandleConnect, P!HandleConnect,
           C!HandleConnectThrows, P!HandleConnectThrows,
           C!HandleWriteRequest, P!HandleWriteRequest,
           C!HandleReadResponseThrows, P!HandleReadResponseThrows,
           C!HandleReadResponseRefuses, P!HandleReadResponseRefuses,
           C!HandleReadFrame, P!HandleReadFrame, C!ReadOn, P!ReadOn,
           C!ReadLoopEnds, P!ReadLoopEnds, C!Consumes, P!Consumes,
           C!ConsumeHeader, P!ConsumeHeader, C!ConsumePing, P!ConsumePing,
           C!ConsumePong, P!ConsumePong, C!ConsumeClose, P!ConsumeClose,
           C!ConsumeViolation, P!ConsumeViolation, C!SendClose, P!SendClose,
           C!HandleWriteMessage, P!HandleWriteMessage, C!Write, P!Write,
           C!HandleWrite, P!HandleWrite, C!HandleSendClose, P!HandleSendClose,
           C!HandleAborted, P!HandleAborted, C!NoWork, P!NoWork,
           C!RunReturns, P!RunReturns
  <1> QED BY <1>1, <1>2, <1>3

\* So do the handlers that call back.
LEMMA SameCallbacks ==
    ASSUME NEW cb
    PROVE  /\ C!Ending(cb) <=> P!Ending(cb)
           /\ C!Calling(cb) <=> P!Calling(cb)
           /\ C!HandleReadResponse(cb) <=> P!HandleReadResponse(cb)
  <1> USE DEF C!Alive, P!Alive, C!netvars, P!netvars, C!sockvars, P!sockvars,
              C!outvars, P!outvars, C!invars, P!invars, C!appvars, P!appvars,
              C!Completion, P!Completion, C!WriteMessage, P!WriteMessage,
              C!NoMessage, P!NoMessage, C!CloseOps, P!CloseOps,
              C!Runs, P!Runs, C!RunsOk, P!RunsOk, C!Consumes, P!Consumes,
              C!AppendIf, P!AppendIf, C!Sends, P!Sends,
              C!CallbackReady, P!CallbackReady,
              C!CallbackEffects, P!CallbackEffects,
              C!CallbackCalls, P!CallbackCalls
  <1>1. C!Ending(cb) <=> P!Ending(cb)
    BY DEF C!Ending, P!Ending, C!Terminate, P!Terminate,
           C!HandleConnectFails, P!HandleConnectFails,
           C!HandshakeFails, P!HandshakeFails,
           C!HandleReadFrameError, P!HandleReadFrameError,
           C!ConsumeCloseAck, P!ConsumeCloseAck,
           C!HandleWriteClose, P!HandleWriteClose,
           C!HandleWriteError, P!HandleWriteError,
           C!HandleTerminate, P!HandleTerminate, C!FailOnExpire, P!FailOnExpire
  <1>2. C!HandleReadResponse(cb) <=> P!HandleReadResponse(cb)
    BY DEF C!HandleReadResponse, P!HandleReadResponse
  <1>3. C!Calling(cb) <=> P!Calling(cb)
    BY <1>2 DEF C!Calling, P!Calling, C!ConsumePayload, P!ConsumePayload,
           C!HandleAppTimer, P!HandleAppTimer
  <1> QED BY <1>1, <1>2, <1>3

\* The two instances describe one connection.
LEMMA SameConnection ==
    /\ C!Init <=> P!Init
    /\ [C!Next]_(C!vars) <=> [P!Next]_(P!vars)
    /\ C!TypeOK <=> P!TypeOK
  <1>1. C!Init <=> P!Init BY DEF C!Init, P!Init
  <1>2. UNCHANGED C!vars <=> UNCHANGED P!vars
    BY DEF C!vars, P!vars, C!netvars, P!netvars, C!sockvars, P!sockvars,
           C!outvars, P!outvars, C!invars, P!invars, C!appvars, P!appvars
  <1>3. C!ThreadStep <=> P!ThreadStep
    BY SameThread, SameCallbacks DEF C!ThreadStep, P!ThreadStep
  <1>4. C!Ended <=> P!Ended
    BY <1>2 DEF C!Ended, P!Ended, C!Alive, P!Alive
  <1>5. [C!Next]_(C!vars) <=> [P!Next]_(P!vars)
    BY SameThread, <1>2, <1>3, <1>4 DEF C!Next, P!Next
  <1>6. C!TypeOK <=> P!TypeOK
    BY DEF C!TypeOK, P!TypeOK, C!Handlers, P!Handlers, C!HandlerNames,
           P!HandlerNames, C!Errors, P!Errors, C!Message, P!Message,
           C!Ops, P!Ops, C!CloseOps, P!CloseOps
  <1> QED BY <1>1, <1>5, <1>6

-----------------------------------------------------------------------------
(* The handler's own variables, and the callbacks it makes of them.        *)

HandlerTypes ==
    /\ main \in {"start", "run", "usage", "failed", "exited"}
    /\ status \in {0, 1}
    /\ lastIndex \in 0..N
    /\ sessionid \in SessionIds \cup {NoId}
    /\ formatted \in [1..N -> SessionIds \cup {NoId, "-"}]

\* Whatever the handler does is one of the callbacks WSConnection allows for.
LEMMA CallbacksAllowed ==
    ASSUME lastIndex \in 0..N
    PROVE  /\ OnEnd \in HandlerCallbacks /\ OnOpen \in HandlerCallbacks
           /\ HeartbeatReply \in HandlerCallbacks /\ Ignore \in HandlerCallbacks
           /\ OnHeartbeatTimeout \in HandlerCallbacks
           /\ \A id : OnEvent(id) \in HandlerCallbacks
  <1>1. NextAction \in Texts /\ Heartbeat \in Texts
    BY ScriptLength DEF NextAction, HasNext, Next1, Stop, Heartbeat, Texts
  <1> QED BY <1>1 DEF OnEnd, OnFail, OnClose, OnOpen, HeartbeatReply, Ignore,
             OnHeartbeatTimeout, OnEvent, Callback, HandlerCallbacks

\* The texts that the handler formats are items of the script.
LEMMA FormatsItem ==
    ASSUME lastIndex \in 0..N, NEW id, OnEvent(id).call = "send"
    PROVE  /\ HasNext /\ lastIndex + 1 \in 1..N
           /\ OnEvent(id).text = lastIndex + 1
           /\ SessionAfter(id) # "bad"
  <1>1. SessionAfter(id) # "bad" /\ ~IsStop(NextAction) /\ OnEvent(id).text = NextAction
    BY DEF OnEvent, Callback
  <1>2. HasNext BY <1>1 DEF NextAction, IsStop
  <1> QED BY ScriptLength, <1>1, <1>2 DEF HasNext, NextAction, Next1

\* The handler starts with its types,
LEMMA InitTypes == Init => HandlerTypes
  <1> SUFFICES ASSUME Init PROVE HandlerTypes OBVIOUS
  <1>1. formatted \in [1..N -> SessionIds \cup {NoId, "-"}] BY DEF Init
  <1>2. lastIndex \in 0..N BY ScriptLength DEF Init
  <1> QED BY <1>1, <1>2 DEF Init, HandlerTypes

\* every request advances within the script,
LEMMA AdvanceTyped ==
    ASSUME lastIndex \in 0..N, Advance
    PROVE  lastIndex' \in 0..N /\ lastIndex <= lastIndex'
  BY ScriptLength DEF Advance, HasNext

\* an event of the server changes the session and the script within their types,
LEMMA EventTypes ==
    ASSUME HandlerTypes, NEW id \in Answers, ReceivesEvent(id)
    PROVE  HandlerTypes'
  <1>1. UNCHANGED <<main, status>> BY DEF ReceivesEvent, mainvars
  <1>2. SessionAfter(id) \in SessionIds \cup {NoId, "bad"}
    BY DEF SessionAfter, Answers, HandlerTypes
  <1>3. lastIndex' \in 0..N /\ sessionid' \in SessionIds \cup {NoId}
    BY <1>2, AdvanceTyped DEF ReceivesEvent, HandlerTypes
  <1>4. formatted' \in [1..N -> SessionIds \cup {NoId, "-"}]
    <2>1. CASE UNCHANGED formatted BY <2>1 DEF HandlerTypes
    <2>2. CASE /\ OnEvent(id).call = "send"
               /\ formatted' = [formatted EXCEPT ![OnEvent(id).text] = SessionAfter(id)]
      BY <2>2, <1>2, FormatsItem DEF HandlerTypes
    <2> QED BY <2>1, <2>2 DEF ReceivesEvent, Formats
  <1> QED BY <1>1, <1>3, <1>4 DEF HandlerTypes

\* and no step leaves them.
LEMMA TypesStep ==
    ASSUME HandlerTypes, [Next]_vars
    PROVE  HandlerTypes'
  <1> USE DEF HandlerTypes
  <1>1. CASE SetUp \/ ShowUsage \/ MainReturns
    BY <1>1 DEF SetUp, ShowUsage, MainReturns, handlervars
  <1>2. CASE UNCHANGED <<handlervars, mainvars>>
    BY <1>2 DEF handlervars, mainvars
  <1>3. CASE Opens
    BY <1>3, AdvanceTyped DEF Opens, mainvars
  <1>4. CASE \E id \in Answers : ReceivesEvent(id)
    BY <1>4, EventTypes
  <1> QED BY <1>1, <1>2, <1>3, <1>4
          DEF Next, ClientStep, NoCallback, Environment, Ends, Receives,
              ReceivesHeartbeat, ReceivesOther, HeartbeatTimeout, Terminated, vars

-----------------------------------------------------------------------------
(* The client implements WSConnection.                                     *)

\* Every step of the client is a step of its connection, or none.
LEMMA ConnectionStep ==
    ASSUME HandlerTypes, [Next]_vars
    PROVE  [C!Next]_(C!vars)
  <1>1. CASE UNCHANGED connvars
    BY <1>1 DEF connvars, C!vars, C!netvars, C!sockvars, C!outvars, C!invars,
                C!appvars
  <1>2. CASE \E cb \in HandlerCallbacks : C!Ending(cb) \/ C!Calling(cb)
    BY <1>2 DEF C!Next, C!ThreadStep
  <1>3. CASE C!Thread \/ C!Network \/ C!Timers
    BY <1>3 DEF C!Next, C!ThreadStep
  <1>4. CASE ClientStep
    <2>1. CASE Ends BY <2>1, <1>2, CallbacksAllowed DEF Ends, HandlerTypes
    <2>2. CASE Opens
      BY <2>2, <1>2, CallbacksAllowed DEF Opens, HandlerTypes, C!Calling
    <2>3. CASE Receives
      BY <2>3, <1>2, CallbacksAllowed
         DEF Receives, ReceivesEvent, ReceivesHeartbeat, ReceivesOther,
             HandlerTypes, C!Calling
    <2>4. CASE HeartbeatTimeout
      BY <2>4, <1>2, CallbacksAllowed
         DEF HeartbeatTimeout, HandlerTypes, C!Calling
    <2>5. CASE NoCallback BY <2>5, <1>3 DEF NoCallback
    <2>6. CASE SetUp \/ ShowUsage \/ MainReturns
      BY <2>6, <1>1 DEF SetUp, ShowUsage, MainReturns
    <2> QED BY <1>4, <2>1, <2>2, <2>3, <2>4, <2>5, <2>6 DEF ClientStep
  <1>5. CASE Environment BY <1>5, <1>3 DEF Environment
  <1>6. CASE UNCHANGED vars BY <1>6, <1>1 DEF vars
  <1> QED BY <1>4, <1>5, <1>6 DEF Next, Terminated

\* The steps of the client are steps of WSConnection by the way it is put
\* together; what has to be shown is that its callbacks are of the kind that
\* WSConnection allows for.
LEMMA ConnectionRuns == Spec => C!Spec
  <1>1. Init => C!Init BY DEF Init
  <1>2. HandlerTypes /\ [Next]_vars => [C!Next]_(C!vars) BY ConnectionStep
  <1>3. HandlerTypes /\ [Next]_vars => HandlerTypes' BY TypesStep
  <1> QED BY <1>1, <1>2, <1>3, InitTypes, PTL DEF Spec, C!Spec

\* So the frames of this client are in order, its close frame is the last,
\* and so on: its connection is always in the invariant of WSConnection.
THEOREM ConnectionInvariant == Spec => []P!IInv
  <1>1. C!Init => P!IInv
    BY SameConnection, ConnectionAssumptions, P!InitInv
  <1>2. P!IInv /\ [C!Next]_(C!vars) => P!IInv'
    BY SameConnection, ConnectionAssumptions, P!InvStep
  <1> QED BY <1>1, <1>2, ConnectionRuns, PTL DEF C!Spec

-----------------------------------------------------------------------------
(* The end of the connection.                                              *)

\* The connection ends once.  The endpoint forgets it then, and if it never
\* opened, on_fail() has ended the process.
EndInv ==
    /\ ended \in {0, 1}
    /\ m_state = "CLOSED" => ended = 1
    /\ ended = 1 => m_detached /\ m_state \in {"CONNECTING", "CLOSED"}
    /\ m_detached => ended = 1
    /\ ended = 1 /\ m_state = "CONNECTING" => proc # "running"

\* A closed connection has no timer.
TimersInv == m_state = "CLOSED" => ~app_timer /\ ~m_timer

\* What has not to do with the end: the connection stays, or starts to close.
Carries ==
    /\ UNCHANGED <<m_detached, ended>>
    /\ m_state' = m_state \/ (m_state = "OPEN" /\ m_state' = "CLOSING")
    /\ m_timer' => m_timer \/ m_state' = "CLOSING"
    /\ app_timer' => app_timer

\* Only the thread acts for the connection, and only while it runs.
LEMMA CarriesSteps ==
    ASSUME C!Thread \/ C!Network \/ C!Timers, P!TypeOK
    PROVE  Carries /\ proc = "running"
  <1> USE DEF C!Alive, C!sockvars, C!appvars
  <1>1. app_timer \in BOOLEAN /\ m_timer \in BOOLEAN BY DEF P!TypeOK
  <1>2. UNCHANGED <<m_state, m_detached, m_timer, ended, app_timer>> => Carries
    BY <1>1 DEF Carries
  <1>3. CASE C!Network
    <2>1. UNCHANGED <<m_state, m_detached, m_timer, ended, app_timer>>
      BY <1>3 DEF C!Network, C!ConnectDone, C!WriteRequestDone,
           C!ReadResponseDone, C!ReadDone, C!ReadFail, C!WriteDone, C!WriteFail
    <2>2. proc = "running"
      BY <1>3 DEF C!Network, C!ConnectDone, C!WriteRequestDone,
           C!ReadResponseDone, C!ReadDone, C!ReadFail, C!WriteDone, C!WriteFail
    <2> QED BY <1>2, <2>1, <2>2
  <1>4. CASE C!CloseTimerExpires
    BY <1>1, <1>4 DEF C!CloseTimerExpires, Carries
  <1>5. CASE C!AppTimerExpires
    BY <1>1, <1>5 DEF C!AppTimerExpires, Carries
  <1>6. CASE C!Thread
    <2> USE DEF C!Runs, C!RunsOk, C!Consumes
    <2>1. CASE C!HandleSendClose
      BY <1>1, <2>1 DEF C!HandleSendClose, C!SendClose, Carries
    <2>2. CASE \E expects \in {"header", "payload", "rejected", "nothing"} :
                   C!ConsumeViolation(expects)
      BY <1>1, <2>2 DEF C!ConsumeViolation, C!SendClose, Carries
    <2>3. CASE /\ ~C!HandleSendClose
               /\ ~\E expects \in {"header", "payload", "rejected", "nothing"} :
                      C!ConsumeViolation(expects)
      <3>1. /\ UNCHANGED <<m_state, m_detached, m_timer, ended, app_timer>>
            /\ proc = "running"
        BY <1>6, <2>3
           DEF C!Thread, C!HandleConnect, C!HandleConnectThrows,
               C!HandleWriteRequest, C!HandleReadResponseThrows,
               C!HandleReadResponseRefuses,
               C!HandleReadFrame, C!ReadLoopEnds, C!ConsumeHeader,
               C!ConsumePing, C!ConsumePong, C!ConsumeClose,
               C!HandleWriteMessage, C!HandleWrite, C!HandleAborted, C!RunReturns
      <3> QED BY <1>2, <3>1
    <2> QED BY <2>1, <2>2, <2>3
  <1> QED BY <1>3, <1>4, <1>5, <1>6 DEF C!Timers

\* A step that carries the connection on keeps what is known of its end.
LEMMA CarriesInv ==
    ASSUME EndInv, TimersInv, Carries, proc = "running"
    PROVE  EndInv' /\ TimersInv'
  BY DEF EndInv, TimersInv, Carries

\* The handler at the front of `ready' is there.
LEMMA RunsIsReady ==
    ASSUME P!TypeOK, NEW h, C!Runs(h)
    PROVE  proc = "running" /\ ~busy /\ P!Any(ready, {h})
  BY SameConnection, ConnectionAssumptions, P!RunsFacts
     DEF C!Runs, P!Runs, C!Alive, P!Alive

\* While a step of the opening handshake waits, nothing has ended.
LEMMA HandshakeGoesOn ==
    ASSUME P!IInv, P!Any(ready, {"handle_connect"})
                   \/ P!Any(ready, {"handle_write_request"})
                   \/ P!Any(ready, {"handle_read_response"})
    PROVE  m_state = "CONNECTING" /\ ~m_detached /\ ~app_timer
  <1>1. P!Any(ready, P!Handshake) BY DEF P!Any, P!Handshake
  <1> QED BY <1>1 DEF P!IInv, P!Inv, P!HandshakeInv

\* terminate() on a connection that is not over: on_fail() ends the process,
\* on_close() cancels the timer.
LEMMA TerminateInv ==
    ASSUME P!IInv, EndInv, TimersInv, proc = "running",
           NEW rdy, C!Terminate(OnEnd, rdy)
    PROVE  EndInv' /\ TimersInv'
  <1>1. CASE m_state = "CLOSED"
    <2>1. C!Terminate(OnEnd, rdy) => UNCHANGED <<m_state, m_detached, m_timer, ended, proc, app_timer>>
      BY <1>1 DEF C!Terminate, C!sockvars, C!appvars
    <2> QED BY <2>1 DEF EndInv, TimersInv
  <1>2. CASE m_state # "CLOSED"
    <2>1. ended = 0 /\ ~m_detached BY <1>2 DEF EndInv
    <2>2. m_state = "CONNECTING" => ~app_timer
      BY <2>1 DEF P!IInv, P!Inv, P!ConnectingInv
    <2>3. ended' = 1 /\ m_detached' = TRUE /\ m_state' = "CLOSED" /\ m_timer' = FALSE
      BY <1>2, <2>1 DEF C!Terminate
    <2>4. app_timer' = IF OnEnd.timer = "keep" THEN app_timer
                       ELSE OnEnd.timer = "rearm"
      BY <1>2 DEF C!Terminate, C!CallbackCalls
    <2>5. ~app_timer'
      <3>1. CASE m_state = "CONNECTING"
        BY <3>1, <2>2, <2>4 DEF OnEnd, OnFail, Callback
      <3>2. CASE m_state # "CONNECTING"
        BY <3>2, <2>4 DEF OnEnd, OnClose, Callback
      <3> QED BY <3>1, <3>2
    <2> QED BY <2>3, <2>5 DEF EndInv, TimersInv
  <1> QED BY <1>1, <1>2

\* A step that ends the connection reports it, and leaves nothing to end it again.
LEMMA EndsInv ==
    ASSUME P!IInv, EndInv, TimersInv, C!Ending(OnEnd)
    PROVE  EndInv' /\ TimersInv'
  <1> USE DEF P!IInv
  <1>1. CASE C!HandleConnectFails(OnEnd)
    <2>1. m_state = "CONNECTING" /\ ~m_detached
      BY <1>1, RunsIsReady, HandshakeGoesOn DEF C!HandleConnectFails
    <2>2. ended' = 1 /\ m_detached' = TRUE /\ m_state' = "CONNECTING"
      BY <1>1, <2>1 DEF C!HandleConnectFails, EndInv
    <2>3. proc' = "handler"
      BY <1>1, <2>1 DEF C!HandleConnectFails, C!CallbackEffects, C!CallbackCalls,
                OnEnd, OnFail,
                        Callback
    <2> QED BY <2>2, <2>3 DEF EndInv, TimersInv
  <1>2. CASE \/ C!HandshakeFails(OnEnd) \/ C!HandleTerminate(OnEnd)
             \/ C!FailOnExpire(OnEnd) \/ C!HandleWriteClose(OnEnd)
    BY <1>2, TerminateInv
       DEF C!HandshakeFails, C!HandleTerminate, C!FailOnExpire,
           C!HandleWriteClose, C!RunsOk, C!Runs, C!Alive
  <1>3. CASE C!ConsumeCloseAck(OnEnd)
    BY <1>3, TerminateInv DEF C!ConsumeCloseAck, C!Consumes, C!Alive
  <1>4. CASE C!HandleReadFrameError(OnEnd)
    <2>1. CASE m_state = "CONNECTING"
      BY <1>4, <2>1
         DEF C!HandleReadFrameError, C!sockvars, C!appvars, EndInv, TimersInv
    <2>2. CASE m_state # "CONNECTING"
      BY <1>4, <2>2, TerminateInv
         DEF C!HandleReadFrameError, C!Runs, C!Alive
    <2> QED BY <2>1, <2>2
  <1>5. CASE C!HandleWriteError(OnEnd)
    <2>1. CASE m_detached
      BY <1>5, <2>1 DEF C!HandleWriteError, C!sockvars, EndInv, TimersInv
    <2>2. CASE ~m_detached
      BY <1>5, <2>2, TerminateInv DEF C!HandleWriteError, C!Runs, C!Alive
    <2> QED BY <2>1, <2>2
  <1> QED BY <1>1, <1>2, <1>3, <1>4, <1>5 DEF C!Ending

\* A callback of a connection that is not over leaves it so; the one of the
\* timer does not arm it again.
LEMMA CallsInv ==
    ASSUME P!IInv, EndInv, TimersInv, NEW cb,
           \/ C!HandleReadResponse(cb) \/ C!ConsumePayload(cb)
           \/ (C!HandleAppTimer(cb) /\ cb.timer = "keep")
    PROVE  EndInv' /\ TimersInv'
  <1> USE DEF P!IInv
  <1>1. CASE C!HandleReadResponse(cb)
    <2>1. ended = 0 /\ ~m_detached
      BY <1>1, RunsIsReady, HandshakeGoesOn DEF C!HandleReadResponse, C!RunsOk, EndInv
    <2> QED BY <1>1, <2>1 DEF C!HandleReadResponse, EndInv, TimersInv
  <1>2. CASE C!ConsumePayload(cb)
    <2>1. m_state # "CLOSED" /\ proc = "running"
      BY <1>2 DEF C!ConsumePayload, C!Consumes, C!Alive
    <2> QED BY <1>2, <2>1 DEF C!ConsumePayload, C!sockvars, EndInv, TimersInv
  <1>3. CASE C!HandleAppTimer(cb) /\ cb.timer = "keep"
    <2>1. proc = "running"
      BY <1>3 DEF C!HandleAppTimer, C!RunsOk, C!Runs, C!Alive
    <2> QED BY <1>3, <2>1
            DEF C!HandleAppTimer, C!CallbackEffects, C!CallbackCalls, C!sockvars,
                EndInv, TimersInv
  <1> QED BY <1>1, <1>2, <1>3

\* Every step keeps what is known of the end of the connection.
LEMMA EndStep ==
    ASSUME P!IInv, EndInv, TimersInv, [Next]_vars
    PROVE  EndInv' /\ TimersInv'
  <1>1. CASE UNCHANGED connvars BY <1>1 DEF connvars, EndInv, TimersInv
  <1>2. CASE NoCallback \/ Environment
    BY <1>2, CarriesSteps, CarriesInv DEF NoCallback, Environment, P!IInv
  <1>3. CASE Ends BY <1>3, EndsInv DEF Ends
  <1>4. CASE Opens \/ Receives
    BY <1>4, CallsInv
       DEF Opens, Receives, ReceivesEvent, ReceivesHeartbeat, ReceivesOther
  <1>5. CASE HeartbeatTimeout
    BY <1>5, CallsInv DEF HeartbeatTimeout, OnHeartbeatTimeout, Callback
  <1> QED BY <1>1, <1>2, <1>3, <1>4, <1>5
          DEF Next, ClientStep, SetUp, ShowUsage, MainReturns, Terminated, vars

-----------------------------------------------------------------------------
(* The session id.                                                         *)

\* What has been formatted belongs to an item already taken, and an id that
\* has been used is the one kept.
SessionInv ==
    /\ \A k \in 1..N : formatted[k] # "-" => k <= lastIndex
    /\ \A k \in 1..N : formatted[k] \in SessionIds => formatted[k] = sessionid

\* Every step keeps what is known of the session id.
LEMMA SessionStep ==
    ASSUME HandlerTypes, SessionInv, OneSession, [Next]_vars
    PROVE  SessionInv' /\ OneSession'
  <1>1. CASE UNCHANGED handlervars
    BY <1>1 DEF handlervars, SessionInv, OneSession
  <1>2. CASE Opens
    <2>1. UNCHANGED <<sessionid, formatted>> BY <1>2 DEF Opens
    <2>2. lastIndex \in Int /\ lastIndex' \in Int /\ lastIndex <= lastIndex'
      BY <1>2, AdvanceTyped, ScriptLength DEF Opens, HandlerTypes
    <2> QED BY <2>1, <2>2 DEF SessionInv, OneSession
  <1>3. ASSUME NEW id \in Answers, ReceivesEvent(id)
        PROVE  SessionInv' /\ OneSession'
    <2>1. CASE UNCHANGED formatted
      <3>1. lastIndex \in Int /\ lastIndex' \in Int /\ lastIndex <= lastIndex'
        BY <1>3, AdvanceTyped, ScriptLength
           DEF ReceivesEvent, HandlerTypes
      <3>2. sessionid # NoId => sessionid' = sessionid
        BY <1>3 DEF ReceivesEvent, SessionAfter
      <3>3. \A k \in 1..N : formatted[k] \in SessionIds => sessionid # NoId
        BY SessionAssumption DEF SessionInv
      <3> QED BY <2>1, <3>1, <3>2, <3>3, ScriptLength DEF SessionInv, OneSession
    <2>2. CASE OnEvent(id).call = "send" /\ formatted' # formatted
      <3> DEFINE k == lastIndex + 1
      <3>1. /\ HasNext /\ k \in 1..N /\ OnEvent(id).text = k
            /\ SessionAfter(id) # "bad"
        BY <2>2, FormatsItem DEF HandlerTypes
      <3>2. formatted' = [formatted EXCEPT ![k] = SessionAfter(id)]
        BY <1>3, <2>2, <3>1 DEF ReceivesEvent, Formats
      <3>3. lastIndex' = k /\ sessionid' = SessionAfter(id)
        BY <1>3, <3>1 DEF ReceivesEvent, Advance
      <3>4. \A j \in 1..N : formatted'[j] = IF j = k THEN sessionid' ELSE formatted[j]
        BY <3>1, <3>2, <3>3 DEF HandlerTypes
      <3>5. \A j \in 1..N : formatted[j] \in SessionIds => sessionid' = formatted[j]
        BY <3>3, SessionAssumption DEF SessionInv, SessionAfter
      <3>6. lastIndex \in Int /\ \A j \in 1..N : j > k => formatted[j] = "-"
        BY <3>1, ScriptLength DEF SessionInv, HandlerTypes
      <3> HIDE DEF k
      <3>7. SessionInv'
        <4>1. ASSUME NEW j \in 1..N, formatted'[j] # "-" PROVE j <= lastIndex'
          BY <4>1, <3>1, <3>3, <3>4, <3>6 DEF SessionInv, k
        <4>2. ASSUME NEW j \in 1..N, formatted'[j] \in SessionIds
              PROVE  formatted'[j] = sessionid'
          BY <4>2, <3>4, <3>5
        <4> QED BY <4>1, <4>2 DEF SessionInv
      <3>8. OneSession'
        <4> SUFFICES ASSUME NEW i \in 1..N, NEW j \in 1..N, i < j,
                            formatted'[i] \in SessionIds, formatted'[j] # "-"
                     PROVE  formatted'[j] = formatted'[i]
          BY DEF OneSession
        <4>1. i # k /\ formatted[i] = formatted'[i]
          <5>1. CASE i = k BY <5>1, <3>1, <3>4, <3>6
          <5> QED BY <5>1, <3>4
        <4>2. CASE j = k BY <4>1, <4>2, <3>4, <3>5
        <4>3. CASE j # k BY <4>1, <4>3, <3>4 DEF OneSession
        <4> QED BY <4>2, <4>3
      <3> QED BY <3>7, <3>8
    <2> QED BY <1>3, <2>1, <2>2 DEF ReceivesEvent, Formats
  <1> QED BY <1>1, <1>2, <1>3
          DEF Next, ClientStep, SetUp, ShowUsage, MainReturns, NoCallback,
              Environment, Ends, Receives, ReceivesHeartbeat, ReceivesOther,
              HeartbeatTimeout, Terminated, vars

-----------------------------------------------------------------------------

\* The invariant of a run of the client: that of its connection, the end of
\* the connection, and the session.
IInv ==
    /\ P!IInv
    /\ HandlerTypes /\ EndInv /\ TimersInv
    /\ SessionInv /\ OneSession

\* The invariant holds at the start,
LEMMA InitInv == Init => IInv
  <1> SUFFICES ASSUME Init PROVE IInv OBVIOUS
  <1>1. P!IInv
    BY SameConnection, ConnectionAssumptions, P!InitInv DEF Init
  <1>2. EndInv /\ TimersInv
    <2>1. /\ ended = 0 /\ m_state = "CONNECTING" /\ m_detached = FALSE
          /\ m_timer = FALSE /\ app_timer = FALSE
      BY DEF Init, C!Init
    <2> QED BY <2>1 DEF EndInv, TimersInv
  <1>3. SessionInv /\ OneSession
    BY SessionAssumption DEF Init, SessionInv, OneSession
  <1> QED BY <1>1, <1>2, <1>3, InitTypes DEF IInv

\* and every step keeps it.
LEMMA InvStep == IInv /\ [Next]_vars => IInv'
  <1> SUFFICES ASSUME IInv, [Next]_vars PROVE IInv' OBVIOUS
  <1>1. P!IInv'
    BY ConnectionStep, SameConnection, ConnectionAssumptions, P!InvStep DEF IInv
  <1> QED BY <1>1, TypesStep, EndStep, SessionStep DEF IInv

\* The invariant holds throughout a run of the client.
THEOREM InductiveInvariant == Spec => []IInv
  <1> QED BY InitInv, InvStep, PTL DEF Spec

\* on_fail() and on_close() are called once between them.
THEOREM ConnectionEndsOnce == Spec => []EndsOnce
  <1>1. IInv => EndsOnce BY DEF IInv, EndInv, EndsOnce
  <1> QED BY <1>1, InductiveInvariant, PTL

\* A connection that is closed keeps no timer and no step of the handshake:
\* io_service::run() returns as soon as the last operations complete.
THEOREM ClientCorrect == Spec => []ClientInv
  <1>1. IInv => TypeOK
    BY SameConnection DEF IInv, P!IInv, HandlerTypes, TypeOK
  <1>2. IInv => NothingKeepsRunning
    <2> SUFFICES ASSUME IInv, m_state = "CLOSED"
                 PROVE  ~app_timer /\ ~m_timer /\ chain = "none"
      BY DEF NothingKeepsRunning
    <2>1. chain = "none" BY DEF IInv, P!IInv, P!Inv, P!HandshakeInv
    <2> QED BY <2>1 DEF IInv, TimersInv
  <1> QED BY <1>1, <1>2, InductiveInvariant, PTL DEF ClientInv

\* The placeholders of one run are replaced by one session id.
THEOREM SessionIsOne == Spec => []OneSession
  <1>1. IInv => OneSession BY DEF IInv
  <1> QED BY <1>1, InductiveInvariant, PTL

-----------------------------------------------------------------------------
(* Recursion on the frames.  The library's induction theorems cannot be    *)
(* used here; what they are made of can: a set of naturals has a minimum.  *)

\* A set of numbers that is not empty has a least one.
LEMMA LeastNumber ==
    ASSUME NEW T \in SUBSET Nat, T # {}
    PROVE  \E x \in T : \A y \in T : x <= y
  <1> DEFINE R == {ss \in Nat \X Nat : ss[1] < ss[2]}
  <1>1. IsWellFoundedOn(OpToRel(<,Nat), Nat) BY NatLessThanWellFounded
  <1>2. OpToRel(<,Nat) = R BY DEF OpToRel
  <1>3. PICK x \in T : \A y \in T : <<y, x>> \notin R
    BY <1>1, <1>2, WFMin, ZenonT(40)
  <1>4. \A y \in T : ~(y < x)
    <2> SUFFICES ASSUME NEW y \in T, y < x PROVE FALSE OBVIOUS
    <2>1. x \in Nat /\ y \in Nat OBVIOUS
    <2> QED BY <1>3, <2>1
  <1>5. \A y \in T : x <= y
    <2> SUFFICES ASSUME NEW y \in T PROVE x <= y OBVIOUS
    <2>1. x \in Nat /\ y \in Nat OBVIOUS
    <2> QED BY <1>4, <2>1
  <1> QED BY <1>5

\* Induction on a set of numbers, which needs no operator as a parameter.
LEMMA Induction ==
    ASSUME NEW S, 0 \in S, \A n \in Nat : n \in S => n + 1 \in S
    PROVE  Nat \subseteq S
  <1> SUFFICES ASSUME Nat \ S # {} PROVE FALSE OBVIOUS
  <1>1. PICK x \in Nat \ S : \A y \in Nat \ S : x <= y
    BY LeastNumber
  <1>2. x # 0 /\ x - 1 \in Nat /\ x - 1 \in S BY <1>1
  <1>3. (x - 1) + 1 \in S BY <1>2
  <1> QED BY <1>3, <1>1

\* The defining equation of the recursive function in RequestsIn.
Upto(f, g, i) ==
    IF i = 0 THEN <<>>
    ELSE IF f[i].text \in Requests THEN Append(g[i - 1], f[i].text) ELSE g[i - 1]
Solves(g, f, n) == g = [i \in 0..n |-> Upto(f, g, i)]

\* A sequence of counts to every sequence of messages: a solution of the
\* equations of RequestsIn exists,
LEMMA SolutionExists ==
    ASSUME NEW f
    PROVE  \A n \in Nat : \E g : Solves(g, f, n)
  <1> DEFINE S == {n \in Nat : \E g : Solves(g, f, n)}
  <1>1. 0 \in S
    <2> DEFINE g == [i \in 0..0 |-> <<>>]
    <2>1. Solves(g, f, 0) BY DEF Solves, Upto
    <2> QED BY <2>1
  <1>2. ASSUME NEW n \in Nat, n \in S PROVE n + 1 \in S
    <2>1. PICK g : Solves(g, f, n) BY <1>2
    <2> DEFINE h == [i \in 0..(n + 1) |-> IF i = n + 1 THEN Upto(f, g, n + 1) ELSE g[i]]
    <2>2. \A i \in 0..(n + 1) : h[i] = Upto(f, h, i)
      <3> SUFFICES ASSUME NEW i \in 0..(n + 1) PROVE h[i] = Upto(f, h, i) OBVIOUS
      <3>1. i # 0 => h[i - 1] = g[i - 1] OBVIOUS
      <3>2. CASE i = n + 1 BY <3>1, <3>2 DEF Upto
      <3>3. CASE i # n + 1 
        <4>1. h[i] = g[i] /\ i \in 0..n BY <3>3
        <4>2. g[i] = Upto(f, g, i) BY <2>1, <4>1 DEF Solves
        <4> QED BY <3>1, <4>1, <4>2 DEF Upto
      <3> QED BY <3>2, <3>3
    <2>3. Solves(h, f, n + 1) BY <2>2 DEF Solves
    <2> QED BY <2>3
  <1> QED BY <1>1, <1>2, Induction

\* satisfies the equation at each prefix,
LEMMA SolutionAt ==
    ASSUME NEW f, NEW g, NEW n, Solves(g, f, n), NEW i \in 0..n
    PROVE  g[i] = Upto(f, g, i)
  <1>1. [j \in 0..n |-> Upto(f, g, j)][i] = Upto(f, g, i) OBVIOUS
  <1> QED BY <1>1 DEF Solves

\* is the only one,
LEMMA SolutionUnique ==
    ASSUME NEW f, NEW g, NEW e, NEW h, NEW n \in Nat, NEW m \in Nat, n <= m,
           \A i \in 1..n : f[i] = e[i],
           Solves(g, f, n), Solves(h, e, m)
    PROVE  g[n] = h[n]
  <1> DEFINE S == {i \in Nat : i <= n => g[i] = h[i]}
  <1>1. ASSUME NEW i \in 0..n
        PROVE  g[i] = Upto(f, g, i) /\ h[i] = Upto(e, h, i)
    <2>1. i \in 0..m OBVIOUS
    <2> QED BY <2>1, SolutionAt
  <1>2. 0 \in S BY <1>1 DEF Upto
  <1>3. ASSUME NEW i \in Nat, i \in S PROVE i + 1 \in S
    <2> SUFFICES ASSUME i + 1 <= n PROVE g[i + 1] = h[i + 1] OBVIOUS
    <2>1. g[i] = h[i] /\ f[i + 1] = e[i + 1] /\ i + 1 \in 0..n /\ i + 1 # 0 /\ (i + 1) - 1 = i
      BY <1>3
    <2>2. g[i + 1] = Upto(f, g, i + 1) /\ h[i + 1] = Upto(e, h, i + 1)
      BY <1>1, <2>1
    <2>3. Upto(f, g, i + 1) = Upto(e, h, i + 1) BY <2>1 DEF Upto
    <2> QED BY <2>2, <2>3
  <1>4. Nat \subseteq S BY <1>2, <1>3, Induction
  <1> QED BY <1>4

\* No frames hold no requests.
LEMMA RequestsInEmpty == RequestsIn(<<>>) = <<>>
  <1>1. PICK g : Solves(g, <<>>, 0) BY SolutionExists
  <1> DEFINE G == CHOOSE g2 : Solves(g2, <<>>, 0)
  <1>2. Solves(G, <<>>, 0) BY <1>1
  <1>3. RequestsIn(<<>>) = G[0]
    BY DEF RequestsIn, Solves, Upto
  <1>4. G[0] = <<>> BY <1>2 DEF Solves, Upto
  <1> QED BY <1>3, <1>4

\* Two sequences with the same first n elements.
SameUpTo(f, e, n) == \A i \in 1..n : f[i] = e[i]

\* A solution is extended by one equation when the sequence is by one message.
LEMMA SolutionAppend ==
    ASSUME NEW f, NEW g, NEW e, NEW h, NEW n \in Nat,
           SameUpTo(f, e, n),
           Solves(g, f, n), Solves(h, e, n + 1)
    PROVE  h[n + 1] = IF e[n + 1].text \in Requests
                      THEN Append(g[n], e[n + 1].text) ELSE g[n]
  <1>1. n + 1 \in Nat /\ n <= n + 1 OBVIOUS
  <1>2. g[n] = h[n] BY <1>1, SolutionUnique DEF SameUpTo
  <1>3. h[n + 1] = Upto(e, h, n + 1)
    <2>1. n + 1 \in 0..(n + 1) OBVIOUS
    <2> QED BY <2>1, SolutionAt
  <1>4. (n + 1) - 1 = n /\ n + 1 # 0 OBVIOUS
  <1> QED BY <1>2, <1>3, <1>4 DEF Upto

\* RequestsIn of one message more: it adds its text, if that is a request.
LEMMA RequestsInAppend ==
    ASSUME NEW M, NEW f \in Seq(M), NEW x \in M
    PROVE  RequestsIn(Append(f, x)) =
               IF x.text \in Requests THEN Append(RequestsIn(f), x.text)
               ELSE RequestsIn(f)
  <1> DEFINE e == Append(f, x)
             F == CHOOSE g : Solves(g, f, Len(f))
             E == CHOOSE g : Solves(g, e, Len(e))
  <1>1. /\ Len(f) \in Nat /\ Len(e) = Len(f) + 1 /\ e[Len(f) + 1] = x
        /\ SameUpTo(f, e, Len(f))
    BY DEF SameUpTo
  <1>2. RequestsIn(f) = F[Len(f)] /\ RequestsIn(e) = E[Len(e)]
    BY DEF RequestsIn, Solves, Upto
  <1>3. Solves(F, f, Len(f))
    <2>1. \E g : Solves(g, f, Len(f)) BY <1>1, SolutionExists
    <2> QED BY <2>1
  <1>4. Solves(E, e, Len(f) + 1)
    <2>1. \E g : Solves(g, e, Len(e))
      <3>1. Len(e) \in Nat BY <1>1
      <3> QED BY <3>1, SolutionExists
    <2>2. Solves(E, e, Len(e)) BY <2>1
    <2> QED BY <2>2, <1>1
  <1> HIDE DEF e, F, E
  <1>5. E[Len(f) + 1] = IF e[Len(f) + 1].text \in Requests
                        THEN Append(F[Len(f)], e[Len(f) + 1].text)
                        ELSE F[Len(f)]
    BY <1>1, <1>3, <1>4, SolutionAppend
  <1> QED BY <1>1, <1>2, <1>5 DEF e

-----------------------------------------------------------------------------
(* The script as it is sent.                                               *)

\* The requests are 1 to some number; nothing after a "stop" is one.
LEMMA RequestsFacts ==
    /\ Requests \subseteq 1..N
    /\ \A k \in Requests : \A j \in 1..k : j \in Requests
    /\ N > 0 => 1 \in Requests
    /\ \A i \in 2..N : Kind(i) = "stop" => \A k \in Requests : k < i
    /\ Heartbeat \notin Requests /\ NoText \notin Requests /\ Stop \notin Requests
  <1>1. Requests \subseteq 1..N /\ (N > 0 => 1 \in Requests)
    BY ScriptLength DEF Requests
  <1>2. ASSUME NEW k \in Requests, NEW j \in 1..k PROVE j \in Requests
    BY ScriptLength DEF Requests
  <1>3. ASSUME NEW i \in 2..N, Kind(i) = "stop", NEW k \in Requests PROVE k < i
    BY <1>3, ScriptLength DEF Requests
  <1>4. Heartbeat \notin Requests /\ NoText \notin Requests /\ Stop \notin Requests
    BY ScriptLength DEF Requests, Heartbeat, NoText, Stop
  <1> QED BY <1>1, <1>2, <1>3, <1>4

AllSent(c) == \A k \in Requests : k <= c

\* A log of the first p messages submitted, with the number of requests
\* among the first i of them: the requests are submitted in their order, and
\* the normal close after the last of them.
IsLog(log, cnt, p) ==
    /\ cnt \in [0..p -> Nat] /\ cnt[0] = 0
    /\ \A i \in 0..p : cnt[i] <= cnt[p]
    /\ \A i \in 1..p :
           /\ IF log[i].text \in Requests
              THEN cnt[i] = cnt[i - 1] + 1 /\ log[i].text = cnt[i]
              ELSE cnt[i] = cnt[i - 1]
           /\ log[i].op = "CLOSE_NORMAL" =>
                  log[i].text \notin Requests /\ AllSent(cnt[i - 1])

\* The next message may be m, after c requests, and there are then c2.
MayFollow(m, c, c2) ==
    /\ IF m.text \in Requests THEN c2 = c + 1 /\ m.text = c2 ELSE c2 = c
    /\ m.op = "CLOSE_NORMAL" => m.text \notin Requests /\ AllSent(c)

\* log2 is log with one message more.
Extends(log2, cnt2, log, cnt, p, m, c2) ==
    /\ IsLog(log2, cnt2, p + 1)
    /\ log2[p + 1] = m /\ cnt2[p + 1] = c2
    /\ \A i \in 1..p : log2[i] = log[i]
    /\ \A i \in 0..p : cnt2[i] = cnt[i]

\* The log of what has been submitted goes on with a message.
LEMMA LogExtended ==
    ASSUME NEW p \in Nat, NEW log, NEW cnt, IsLog(log, cnt, p),
           NEW m, NEW c2 \in Nat, MayFollow(m, cnt[p], c2)
    PROVE  \E log2, cnt2 : Extends(log2, cnt2, log, cnt, p, m, c2)
  <1> DEFINE log2 == [i \in 1..(p + 1) |-> IF i = p + 1 THEN m ELSE log[i]]
             cnt2 == [i \in 0..(p + 1) |-> IF i = p + 1 THEN c2 ELSE cnt[i]]
  <1>1. /\ log2[p + 1] = m /\ cnt2[p + 1] = c2
        /\ \A i \in 1..p : log2[i] = log[i]
        /\ \A i \in 0..p : cnt2[i] = cnt[i]
    OBVIOUS
  <1>2. cnt2 \in [0..(p + 1) -> Nat] /\ cnt2[0] = 0
    BY DEF IsLog
  <1> HIDE DEF log2, cnt2
  <1>3. ASSUME NEW i \in 1..(p + 1)
        PROVE  MayFollow(log2[i], cnt2[i - 1], cnt2[i])
    <2>1. CASE i = p + 1
      <3>1. i - 1 \in 0..p /\ i - 1 = p BY <2>1
      <3>2. log2[i] = m /\ cnt2[i] = c2 BY <2>1, <1>1
      <3>3. cnt2[i - 1] = cnt[p] BY <3>1, <1>1
      <3> QED BY <3>2, <3>3
    <2>2. CASE i # p + 1
      <3>1. i \in 1..p /\ i - 1 \in 0..p /\ i \in 0..p BY <2>2
      <3>2. log2[i] = log[i] /\ cnt2[i - 1] = cnt[i - 1] /\ cnt2[i] = cnt[i]
        BY <3>1, <1>1
      <3>3. MayFollow(log[i], cnt[i - 1], cnt[i])
        BY <3>1 DEF IsLog, MayFollow
      <3> QED BY <3>2, <3>3
    <2> QED BY <2>1, <2>2
  <1>4. ASSUME NEW i \in 0..(p + 1) PROVE cnt2[i] <= cnt2[p + 1]
    <2>1. cnt[p] \in Nat /\ cnt[p] <= c2 BY DEF IsLog, MayFollow
    <2>2. i # p + 1 => i \in 0..p /\ cnt[i] \in Nat /\ cnt[i] <= cnt[p] BY DEF IsLog
    <2> QED BY <1>1, <2>1, <2>2
  <1>5. IsLog(log2, cnt2, p + 1)
    BY <1>2, <1>3, <1>4 DEF IsLog, MayFollow
  <1> QED BY <1>1, <1>5 DEF Extends

-----------------------------------------------------------------------------
(* What each step submits.                                                 *)

\* The first action is taken when the connection opens.
StartInv ==
    /\ m_state = "CONNECTING" => lastIndex = 0
    /\ m_state = "OPEN" /\ proc = "running" => lastIndex >= 1 \/ N = 0

\* Only what the handler has taken has been submitted, and as long as the
\* connection is open, every request that it has taken.
Agrees(c) ==
    /\ c <= lastIndex
    /\ m_state = "OPEN" /\ proc = "running" =>
           \A k \in Requests : k <= lastIndex <=> k <= c

\* A close() that waits finds the script sent.
AskedLast(c) == P!CloseAsked => AllSent(c)

\* The step submits nothing, or the next message of the log.
Continues(c, c2) ==
    \/ P!SubmitsNothing /\ c2 = c
    \/ \E m : P!Submits(m) /\ MayFollow(m, c, c2)

\* A step that is not a callback: what it submits is the connection's own.
LEMMA OwnMayFollow ==
    ASSUME NEW c \in Nat, AskedLast(c), P!OwnSubmission
    PROVE  Continues(c, c) /\ AskedLast(c)'
  <1>1. AskedLast(c)' BY DEF AskedLast, P!OwnSubmission
  <1>2. ASSUME NEW op, op # "CLOSE_NORMAL" \/ AllSent(c)
        PROVE  MayFollow(P!OwnFrame(op), c, c)
    BY <1>2, RequestsFacts DEF MayFollow, P!OwnFrame
  <1>3. CASE P!SubmitsNothing BY <1>1, <1>3 DEF Continues
  <1>4. CASE \E op \in P!Ops \ {"TEXT", "CLOSE_NORMAL"} : P!Submits(P!OwnFrame(op))
    BY <1>1, <1>2, <1>4 DEF Continues
  <1>5. CASE P!CloseAsked /\ P!Submits(P!OwnFrame("CLOSE_NORMAL"))
    BY <1>1, <1>2, <1>5 DEF Continues, AskedLast
  <1> QED BY <1>3, <1>4, <1>5 DEF P!OwnSubmission

\* A callback sends a text, or nothing.
LEMMA CallMayFollow ==
    ASSUME NEW c \in Nat, NEW c2 \in Nat, NEW st, NEW cb,
           IF P!Sends(cb, st) THEN P!Submits(P!TextFrame(cb.text))
           ELSE P!SubmitsNothing,
           IF P!Sends(cb, st) /\ cb.text \in Requests
           THEN c2 = c + 1 /\ cb.text = c2 ELSE c2 = c
    PROVE  Continues(c, c2)
  <1>1. CASE P!Sends(cb, st)
    <2>1. MayFollow(P!TextFrame(cb.text), c, c2)
      BY <1>1 DEF MayFollow, P!TextFrame
    <2> QED BY <1>1, <2>1 DEF Continues
  <1>2. CASE ~P!Sends(cb, st) BY <1>2 DEF Continues
  <1> QED BY <1>1, <1>2

\* The next action, sent or not: an item that is a request is the first one
\* that has not been submitted.
LEMMA NextActionFollows ==
    ASSUME NEW c \in Nat, lastIndex \in 0..N,
           \A k \in Requests : k <= lastIndex <=> k <= c
    PROVE  /\ NextAction \in Requests =>
                  /\ NextAction = c + 1 /\ NextAction = lastIndex + 1
                  /\ HasNext
           /\ NextAction \notin Requests /\ HasNext =>
                  lastIndex + 1 \notin Requests
           /\ ~HasNext => lastIndex = N
  <1>1. lastIndex \in Nat /\ lastIndex <= N BY ScriptLength
  <1>2. ASSUME NextAction \in Requests
        PROVE  HasNext /\ NextAction = lastIndex + 1
    BY <1>2, RequestsFacts DEF NextAction, Next1
  <1>3. ASSUME NextAction \in Requests
        PROVE  NextAction = c + 1
    <2>1. lastIndex + 1 \in Requests BY <1>2, <1>3
    <2>2. ~(lastIndex + 1 <= c) BY <2>1, <1>1
    <2>3. lastIndex = 0 \/ lastIndex \in Requests
      <3>1. lastIndex # 0 => lastIndex \in 1..(lastIndex + 1) BY <1>1
      <3> QED BY <2>1, <3>1, RequestsFacts
    <2>4. lastIndex <= c BY <2>3, <1>1
    <2> QED BY <1>1, <1>2, <1>3, <2>2, <2>4
  <1>4. NextAction \notin Requests /\ HasNext => lastIndex + 1 \notin Requests
    BY DEF NextAction, Next1
  <1>5. ~HasNext => lastIndex = N BY <1>1, ScriptLength DEF HasNext
  <1> QED BY <1>2, <1>3, <1>4, <1>5


\* The action taken and the state it leaves agree on what has been sent.
LEMMA ActionTaken ==
    ASSUME NEW c \in Nat, lastIndex \in 0..N, Advance,
           \A k \in Requests : k <= lastIndex <=> k <= c
    PROVE  LET c2 == IF NextAction \in Requests THEN c + 1 ELSE c IN
           /\ c2 \in Nat
           /\ \A k \in Requests : k <= lastIndex' <=> k <= c2
           /\ NextAction \in Requests => NextAction = c2
  <1>1. lastIndex \in Nat /\ Requests \subseteq Nat
    BY ScriptLength, RequestsFacts
  <1>2. CASE NextAction \in Requests
    BY <1>1, <1>2, NextActionFollows DEF Advance
  <1>3. CASE NextAction \notin Requests /\ HasNext
    <2>1. lastIndex' = lastIndex + 1 /\ lastIndex + 1 \notin Requests
      BY <1>3, NextActionFollows DEF Advance
    <2>2. \A k \in Requests : k <= lastIndex + 1 <=> k <= lastIndex
      BY <1>1, <2>1
    <2> QED BY <1>3, <2>1, <2>2
  <1>4. CASE NextAction \notin Requests /\ ~HasNext
    BY <1>4 DEF Advance
  <1> QED BY <1>2, <1>3, <1>4

\* on_open() sends the first item.
LEMMA OpensFollows ==
    ASSUME IInv, StartInv, Opens, NEW c \in Nat,
           posted = 0 => c = 0, AskedLast(c)
    PROVE  \E c2 \in Nat :
               Continues(c, c2) /\ Agrees(c2)' /\ AskedLast(c2)' /\ UNCHANGED wire
  <1> DEFINE cb == OnOpen
  <1> PICK c2 \in Nat :
          c2 = IF ~NextActionThrows /\ NextAction \in Requests THEN c + 1 ELSE c
    OBVIOUS
  <1>1. /\ lastIndex \in 0..N /\ P!IInv
        /\ C!HandleReadResponse(cb) /\ Advance
    BY DEF IInv, HandlerTypes, Opens
  <1>2. m_state = "CONNECTING"
    BY <1>1, RunsIsReady, HandshakeGoesOn DEF C!HandleReadResponse, C!RunsOk, P!IInv
  <1>3. lastIndex = 0 /\ c = 0
    BY <1>1, <1>2 DEF StartInv, P!IInv, P!Inv, P!ConnectingInv
  <1>4. \A k \in Requests : k <= lastIndex <=> k <= c
    BY <1>3, RequestsFacts
  <1>5. /\ IF P!Sends(cb, "OPEN") THEN P!Submits(P!TextFrame(cb.text))
           ELSE P!SubmitsNothing
        /\ P!CloseAsked' => P!CloseAsked \/ cb.call = "close"
        /\ UNCHANGED wire
    <2>1. cb \in HandlerCallbacks BY <1>1, CallbacksAllowed
    <2>2. P!HandleReadResponse(cb) /\ P!Calling(cb)
      BY <1>1, SameCallbacks DEF C!Calling
    <2> HIDE DEF cb
    <2> QED BY <1>1, <2>1, <2>2, ConnectionAssumptions, P!CallingSubmits
  <1>6. cb.call # "close" /\ (NextActionThrows => cb.dies)
        /\ (P!Sends(cb, "OPEN") <=> ~NextActionThrows)
        /\ (~NextActionThrows => cb.text = NextAction)
    BY DEF OnOpen, Callback, P!Sends
  <1>7. NextActionThrows => proc' # "running"
    BY <1>1, <1>6 DEF C!HandleReadResponse, C!CallbackEffects, C!CallbackCalls
  <1>8. LET d == IF NextAction \in Requests THEN c + 1 ELSE c IN
        /\ d \in Nat
        /\ \A k \in Requests : k <= lastIndex' <=> k <= d
        /\ NextAction \in Requests => NextAction = d
    BY <1>1, <1>4, ActionTaken
  <1>9. c <= c2 OBVIOUS
  <1>10. Continues(c, c2)
    <2>1. IF P!Sends(cb, "OPEN") /\ cb.text \in Requests
          THEN c2 = c + 1 /\ cb.text = c2 ELSE c2 = c
      BY <1>6, <1>8
    <2> HIDE DEF cb
    <2> QED BY <1>5, <1>9, <2>1, CallMayFollow
  <1>11. Agrees(c2)'
    <2>1. c2 <= lastIndex'
      <3>1. lastIndex' \in 0..N BY <1>1, AdvanceTyped
      <3>2. c2 = 0 \/ (c2 \in Requests /\ c2 <= lastIndex') BY <1>3, <1>8
      <3> QED BY <3>1, <3>2, ScriptLength
    <2> QED BY <1>7, <1>8, <2>1 DEF Agrees
  <1>12. AskedLast(c2)'
    BY <1>5, <1>6, <1>9, RequestsFacts DEF AskedLast, AllSent
  <1> QED BY <1>5, <1>9, <1>10, <1>11, <1>12

\* on_message() with an event: the next item, or the close after the last.
LEMMA EventFollows ==
    ASSUME IInv, StartInv, NEW id \in Answers, ReceivesEvent(id),
           NEW c \in Nat, Agrees(c), AskedLast(c)
    PROVE  \E c2 \in Nat :
               Continues(c, c2) /\ Agrees(c2)' /\ AskedLast(c2)' /\ UNCHANGED wire
  <1> DEFINE cb == OnEvent(id)
             next == NextAction
             goes == m_state = "OPEN" /\ ~cb.dies
  <1> PICK c2 \in Nat : c2 = IF goes /\ next \in Requests THEN c + 1 ELSE c
    OBVIOUS
  <1>1. /\ lastIndex \in 0..N /\ P!IInv
        /\ C!ConsumePayload(cb)
    BY DEF IInv, HandlerTypes, ReceivesEvent
  <1>2. proc = "running" /\ m_state # "CONNECTING"
    <2>1. proc = "running" /\ busy
      BY <1>1 DEF C!ConsumePayload, C!Consumes, C!Alive
    <2> QED BY <1>1, <2>1 DEF P!IInv, P!Inv, P!ConnectingInv
  <1>3. /\ IF P!Sends(cb, m_state) THEN P!Submits(P!TextFrame(cb.text))
           ELSE P!SubmitsNothing
        /\ P!CloseAsked' => P!CloseAsked \/ (m_state = "OPEN" /\ cb.call = "close")
        /\ UNCHANGED wire
    <2>1. cb \in HandlerCallbacks BY <1>1, CallbacksAllowed
    <2>2. ~P!HandleReadResponse(cb)
      <3>1. P!HandleReadResponse(cb) => m_state = "CONNECTING"
        BY <1>1, SameCallbacks, RunsIsReady, HandshakeGoesOn
           DEF C!HandleReadResponse, C!RunsOk, P!IInv
      <3> QED BY <1>2, <3>1
    <2>3. P!Calling(cb)
      BY <1>1, SameCallbacks DEF C!Calling
    <2> HIDE DEF cb
    <2> QED BY <1>1, <2>1, <2>2, <2>3, ConnectionAssumptions, P!CallingSubmits
  <1>4. /\ m_state' = m_state
        /\ proc' = IF cb.dies THEN "handler" ELSE proc
    BY <1>1 DEF C!ConsumePayload, C!CallbackEffects, C!CallbackCalls, C!sockvars
  <1>5. ~cb.dies => /\ SessionAfter(id) # "bad" /\ ~NextActionThrows
                    /\ cb.call = IF IsStop(next) THEN "close" ELSE "send"
                    /\ ~IsStop(next) => cb.text = next
    BY DEF OnEvent, Callback
  <1>6. cb.dies => cb.call = "none" BY DEF OnEvent, Callback
  <1>7. c <= c2 OBVIOUS
  <1>8. AskedLast(c2)' \/ (P!CloseAsked' /\ m_state = "OPEN" /\ cb.call = "close")
    BY <1>3, <1>7, RequestsFacts DEF AskedLast, AllSent
  <1>9. CASE ~goes
    <2>1. ~P!Sends(cb, m_state) BY <1>6, <1>9 DEF P!Sends
    <2>2. Continues(c, c2)
      BY <1>3, <1>9, <2>1 DEF Continues
    <2>3. Agrees(c2)'
      <3>1. c <= lastIndex /\ (UNCHANGED lastIndex \/ Advance)
        BY DEF Agrees, ReceivesEvent
      <3>2. lastIndex <= lastIndex' /\ lastIndex \in Int /\ lastIndex' \in Int
        BY <1>1, <3>1, AdvanceTyped, ScriptLength
      <3> QED BY <1>4, <1>9, <3>1, <3>2 DEF Agrees
    <2>4. AskedLast(c2)' BY <1>6, <1>8, <1>9
    <2> QED BY <1>3, <1>7, <2>2, <2>3, <2>4
  <1>10. CASE goes
    <2>1. /\ Advance
          /\ \A k \in Requests : k <= lastIndex <=> k <= c
      BY <1>2, <1>5, <1>10 DEF ReceivesEvent, Agrees
    <2>2. LET d == IF NextAction \in Requests THEN c + 1 ELSE c IN
          /\ d \in Nat
          /\ \A k \in Requests : k <= lastIndex' <=> k <= d
          /\ NextAction \in Requests => NextAction = d
      BY <1>1, <2>1, ActionTaken
    <2>3. Agrees(c2)'
      <3>1. lastIndex <= lastIndex' /\ lastIndex \in Int /\ lastIndex' \in Int
        BY <1>1, <2>1, AdvanceTyped, ScriptLength
      <3>2. c2 <= lastIndex'
        <4>1. CASE next \in Requests BY <1>10, <2>2, <4>1
        <4>2. CASE next \notin Requests BY <3>1, <4>2 DEF Agrees
        <4> QED BY <4>1, <4>2
      <3> QED BY <1>10, <2>2, <3>2 DEF Agrees
    <2>4. IsStop(next) => AllSent(c) /\ next \notin Requests
      <3> SUFFICES ASSUME IsStop(next) PROVE AllSent(c) /\ next \notin Requests
        OBVIOUS
      <3>1. lastIndex \in Nat /\ lastIndex <= N /\ Requests \subseteq 1..N
        BY <1>1, ScriptLength, RequestsFacts
      <3>2. CASE ~HasNext
        <4>1. next = Stop BY <3>2 DEF NextAction
        <4>2. lastIndex = N BY <3>1, <3>2, ScriptLength DEF HasNext
        <4> QED BY <2>1, <3>1, <4>1, <4>2, ScriptLength, RequestsFacts DEF AllSent
      <3>3. CASE HasNext
        <4>1. next = lastIndex + 1 /\ next \in 1..N
          BY <3>1, <3>3, ScriptLength DEF NextAction, HasNext, Next1
        <4>2. lastIndex >= 1
          BY <1>2, <1>10, <3>1, <3>3 DEF StartInv, HasNext
        <4>3. Kind(next) = "stop" /\ next \in 2..N
          BY <3>1, <4>1, <4>2, ScriptLength DEF IsStop, Stop
        <4>4. \A k \in Requests : k < next BY <4>3, RequestsFacts
        <4>5. \A k \in Requests : k <= lastIndex BY <3>1, <4>1, <4>4
        <4>6. next \notin Requests BY <3>1, <4>1, <4>4
        <4> QED BY <2>1, <4>5, <4>6 DEF AllSent
      <3> QED BY <3>2, <3>3
    <2>5. AskedLast(c2)'
      <3>1. IsStop(next) => AllSent(c2)
        BY <1>7, <2>4, RequestsFacts DEF AllSent
      <3>2. ~IsStop(next) => cb.call # "close" BY <1>5, <1>10
      <3> QED BY <1>8, <3>1, <3>2 DEF AskedLast
    <2>6. Continues(c, c2)
      <3>1. IF P!Sends(cb, m_state) /\ cb.text \in Requests
            THEN c2 = c + 1 /\ cb.text = c2 ELSE c2 = c
        <4>1. CASE IsStop(next)
          BY <1>5, <1>10, <2>4, <4>1 DEF P!Sends
        <4>2. CASE ~IsStop(next)
          BY <1>5, <1>10, <2>2, <4>2 DEF P!Sends
        <4> QED BY <4>1, <4>2
      <3> HIDE DEF cb
      <3> QED BY <1>3, <1>7, <3>1, CallMayFollow
    <2> QED BY <1>3, <1>7, <2>3, <2>5, <2>6
  <1> QED BY <1>9, <1>10

\* Heartbeats are no requests.
LEMMA HeartbeatFollows ==
    ASSUME IInv, NEW cb \in {HeartbeatReply, Ignore, OnHeartbeatTimeout},
           C!ConsumePayload(cb) \/ C!HandleAppTimer(cb),
           UNCHANGED lastIndex, NEW c \in Nat, Agrees(c), AskedLast(c)
    PROVE  Continues(c, c) /\ Agrees(c)' /\ AskedLast(c)' /\ UNCHANGED wire
  <1>1. /\ lastIndex \in 0..N /\ P!IInv /\ cb \in HandlerCallbacks
    BY CallbacksAllowed DEF IInv, HandlerTypes
  <1>2. cb.call # "close" /\ cb.text \notin Requests
    BY RequestsFacts DEF HeartbeatReply, Ignore, OnHeartbeatTimeout, Callback
  <1>3. m_state' = m_state /\ proc = "running"
    BY DEF C!ConsumePayload, C!HandleAppTimer, C!Consumes, C!RunsOk, C!Runs,
           C!Alive, C!sockvars
  <1>4. PICK st : /\ IF P!Sends(cb, st) THEN P!Submits(P!TextFrame(cb.text))
                     ELSE P!SubmitsNothing
                  /\ P!CloseAsked' => P!CloseAsked
                  /\ UNCHANGED wire
    <2>1. P!Calling(cb) BY SameCallbacks DEF C!Calling
    <2> QED BY <1>1, <1>2, <2>1, ConnectionAssumptions, P!CallingSubmits
  <1>5. Continues(c, c) BY <1>2, <1>4, CallMayFollow
  <1>6. Agrees(c)' BY <1>3 DEF Agrees
  <1>7. AskedLast(c)' BY <1>4 DEF AskedLast
  <1> QED BY <1>4, <1>5, <1>6, <1>7

\* A step that runs none of these callbacks leaves the state of the handler
\* alone, and opens no connection.
LEMMA OwnFollows ==
    ASSUME IInv, [Next]_vars, NEW c \in Nat, Agrees(c), AskedLast(c),
           \/ UNCHANGED connvars /\ UNCHANGED lastIndex
           \/ NoCallback \/ Environment \/ Ends
    PROVE  Continues(c, c) /\ Agrees(c)' /\ AskedLast(c)'
  <1>1. P!IInv /\ P!TypeOK /\ P!WriterInv BY DEF IInv, P!IInv, P!Inv
  <1>2. CASE UNCHANGED connvars /\ UNCHANGED lastIndex
    <2>1. P!SubmitsNothing /\ (P!CloseAsked' => P!CloseAsked)
      BY <1>2 DEF connvars, P!SubmitsNothing, P!Messages, P!Elements, P!PostedIn,
             P!Posts, P!CloseAsked, P!Any
    <2> QED BY <1>2, <2>1 DEF Continues, Agrees, AskedLast, connvars
  <1>3. ASSUME P!OwnSubmission, lastIndex' = lastIndex,
               m_state' = "OPEN" /\ proc' = "running" =>
                   m_state = "OPEN" /\ proc = "running"
        PROVE  Continues(c, c) /\ Agrees(c)' /\ AskedLast(c)'
    BY <1>3, OwnMayFollow DEF Agrees
  <1>4. CASE NoCallback \/ Environment
    <2>1. CASE NoCallback
      <3>1. P!OwnSubmission
        BY <1>1, <2>1, SameThread, ConnectionAssumptions, P!ThreadSubmits
           DEF NoCallback
      <3> QED BY <1>1, <1>3, <2>1, <3>1, CarriesSteps
              DEF NoCallback, Carries, handlervars
    <2>2. CASE Environment
      <3>1. P!SubmitsNothing /\ (P!CloseAsked' => P!CloseAsked)
        BY <1>1, <2>2, SameThread, ConnectionAssumptions, P!EnvironmentSubmits
           DEF Environment
      <3>2. P!OwnSubmission BY <3>1 DEF P!OwnSubmission
      <3> QED BY <1>1, <1>3, <2>2, <3>2, CarriesSteps
              DEF Environment, Carries, handlervars
    <2> QED BY <1>4, <2>1, <2>2
  <1>5. CASE Ends
    <2>1. P!SubmitsNothing /\ (P!CloseAsked' => P!CloseAsked)
      <3>1. OnEnd \in HandlerCallbacks /\ OnEnd.call = "none"
        BY CallbacksAllowed DEF IInv, HandlerTypes, OnEnd, OnFail, OnClose, Callback
      <3>2. P!Ending(OnEnd) BY <1>5, SameCallbacks DEF Ends
      <3> QED BY <1>1, <3>1, <3>2, ConnectionAssumptions, P!EndingSubmits
    <2>2. P!OwnSubmission BY <2>1 DEF P!OwnSubmission
    <2>3. /\ proc = "running"
          /\ m_state' = m_state \/ m_state' = "CLOSED"
      BY <1>5 DEF Ends, C!Ending, C!HandleConnectFails, C!HandshakeFails,
           C!HandleReadFrameError, C!ConsumeCloseAck, C!HandleWriteClose,
           C!HandleWriteError, C!HandleTerminate, C!FailOnExpire, C!Consumes,
           C!RunsOk, C!Runs, C!Alive, C!Terminate, C!sockvars
    <2> QED BY <1>3, <1>5, <2>2, <2>3 DEF Ends, handlervars
  <1> QED BY <1>2, <1>4, <1>5

\* Whatever the step: the log goes on.
LEMMA StepFollows ==
    ASSUME IInv, StartInv, [Next]_vars,
           NEW c \in Nat, posted = 0 => c = 0, Agrees(c), AskedLast(c)
    PROVE  \E c2 \in Nat : Continues(c, c2) /\ Agrees(c2)' /\ AskedLast(c2)'
  <1>1. CASE Opens BY <1>1, OpensFollows
  <1>2. CASE \E id \in Answers : ReceivesEvent(id) BY <1>2, EventFollows
  <1>3. CASE ReceivesHeartbeat \/ ReceivesOther \/ HeartbeatTimeout
    BY <1>3, HeartbeatFollows
       DEF ReceivesHeartbeat, ReceivesOther, HeartbeatTimeout, handlervars
  <1>4. CASE \/ UNCHANGED connvars /\ UNCHANGED lastIndex
             \/ NoCallback \/ Environment \/ Ends
    BY <1>4, OwnFollows
  <1> QED BY <1>1, <1>2, <1>3, <1>4
          DEF Next, ClientStep, SetUp, ShowUsage, MainReturns, Receives,
              Terminated, vars, handlervars

\* No request goes out before the upgrade.
LEMMA StartStep ==
    ASSUME IInv, StartInv, [Next]_vars
    PROVE  StartInv'
  <1>1. lastIndex \in 0..N BY DEF IInv, HandlerTypes
  <1>2. CASE UNCHANGED lastIndex /\ (UNCHANGED connvars \/ NoCallback \/ Environment)
    <2>1. UNCHANGED <<m_state, proc>>
          \/ (Carries /\ proc = "running")
      BY <1>2, CarriesSteps DEF connvars, NoCallback, Environment, IInv, P!IInv
    <2>2. m_state' = "CONNECTING" => m_state = "CONNECTING"
      BY <2>1 DEF Carries
    <2>3. m_state' = "OPEN" /\ proc' = "running" => m_state = "OPEN" /\ proc = "running"
      BY <2>1 DEF Carries
    <2> QED BY <1>2, <2>2, <2>3 DEF StartInv
  <1>3. CASE Ends
    <2>1. /\ proc = "running" /\ lastIndex' = lastIndex
          /\ m_state' = m_state \/ m_state' = "CLOSED"
      BY <1>3 DEF Ends, C!Ending, C!HandleConnectFails, C!HandshakeFails,
           C!HandleReadFrameError, C!ConsumeCloseAck, C!HandleWriteClose,
           C!HandleWriteError, C!HandleTerminate, C!FailOnExpire, C!Consumes,
           C!RunsOk, C!Runs, C!Alive, C!Terminate, C!sockvars, handlervars
    <2> QED BY <2>1 DEF StartInv
  <1>4. CASE Opens
    <2>1. m_state' = "OPEN" /\ Advance BY <1>4 DEF Opens, C!HandleReadResponse
    <2> QED BY <1>1, <2>1, ScriptLength DEF StartInv, Advance, HasNext
  <1>5. CASE Receives \/ HeartbeatTimeout
    <2>1. /\ m_state' = m_state /\ proc = "running"
          /\ UNCHANGED lastIndex \/ (Advance /\ busy)
      BY <1>5 DEF Receives, ReceivesEvent, ReceivesHeartbeat, ReceivesOther,
           HeartbeatTimeout, C!ConsumePayload, C!HandleAppTimer, C!Consumes,
           C!RunsOk, C!Runs, C!Alive, C!sockvars, handlervars
    <2>2. m_state = "CONNECTING" => ~busy
      BY DEF IInv, P!IInv, P!Inv, P!ConnectingInv
    <2>3. Advance => lastIndex <= lastIndex' /\ lastIndex \in Int /\ lastIndex' \in Int
      BY <1>1, AdvanceTyped, ScriptLength
    <2> QED BY <2>1, <2>2, <2>3, ScriptLength DEF StartInv
  <1> QED BY <1>2, <1>3, <1>4, <1>5
          DEF Next, ClientStep, SetUp, ShowUsage, MainReturns, NoCallback,
              Environment, Terminated, vars, handlervars

-----------------------------------------------------------------------------
(* The invariant of the script.                                            *)

\* The messages under way and those that have arrived are in the log, and
\* the requests among the latter are the first ones.
Logged(log) == \A m \in P!Messages : m.n \in 1..posted /\ m = log[m.n]
Delivered(cnt) ==
    /\ Len(wire) \in 0..posted
    /\ DeliveredRequests = [k \in 1..cnt[Len(wire)] |-> k]

ScriptLog(log, cnt) ==
    /\ IsLog(log, cnt, posted) /\ Logged(log) /\ Delivered(cnt)
    /\ Agrees(cnt[posted]) /\ AskedLast(cnt[posted])

ScriptInv == StartInv /\ \E log, cnt : ScriptLog(log, cnt)

\* The next frame on the wire is the next message of the log.
LEMMA FrameDelivered ==
    ASSUME IInv, IInv', [Next]_vars, NEW log, NEW cnt,
           IsLog(log, cnt, posted), Logged(log), Delivered(cnt)
    PROVE  \/ wire' = wire
           \/ LET i == Len(wire) + 1 IN
              /\ Environment /\ C!WriteDone
              /\ Len(wire) \in Nat /\ i \in 1..posted
              /\ wire \in Seq(P!Message) /\ log[i] \in P!Message
              /\ wire' = Append(wire, log[i])
              /\ DeliveredRequests' =
                     IF log[i].text \in Requests
                     THEN Append(DeliveredRequests, log[i].text)
                     ELSE DeliveredRequests
  <1>1. P!TypeOK /\ P!WriterInv /\ P!IInv /\ P!WireInOrder'
    BY DEF IInv, P!IInv, P!Inv, P!OrderInv
  <1>2. CASE C!WriteDone /\ Environment
    <2> DEFINE x == Head(m_write_queue)
    <2>1. /\ wire' = Append(wire, x) /\ m_write_queue # <<>>
          /\ m_write_queue \in Seq(P!Message) /\ wire \in Seq(P!Message)
      BY <1>1, <1>2 DEF C!WriteDone, P!WriterInv, P!TypeOK
    <2>2. x \in P!Message /\ x \in P!Elements(m_write_queue)
      BY <2>1, P!ElementsFacts, ConnectionAssumptions
    <2>3. x.n \in 1..posted /\ x = log[x.n]
      BY <2>2 DEF Logged, P!Messages
    <2> HIDE DEF x
    <2>4. /\ Len(wire) \in Nat /\ Len(wire) + 1 \in DOMAIN wire'
          /\ wire'[Len(wire) + 1] = x
      BY <2>1, <2>2
    <2>5. x.n = Len(wire) + 1 BY <1>1, <2>4 DEF P!WireInOrder
    <2>6. DeliveredRequests' = RequestsIn(Append(wire, x))
      BY <2>1 DEF DeliveredRequests, RequestsIn, Requests
    <2>7. RequestsIn(Append(wire, x)) =
              IF x.text \in Requests THEN Append(RequestsIn(wire), x.text)
              ELSE RequestsIn(wire)
      BY <2>1, <2>2, RequestsInAppend
    <2> QED BY <1>2, <2>1, <2>2, <2>3, <2>4, <2>5, <2>6, <2>7
            DEF DeliveredRequests
  <1>3. CASE ~(C!WriteDone /\ Environment)
    <2>1. CASE Opens \/ Receives \/ HeartbeatTimeout
      BY <2>1 DEF Opens, Receives, ReceivesEvent, ReceivesHeartbeat,
           ReceivesOther, HeartbeatTimeout, C!HandleReadResponse,
           C!ConsumePayload, C!HandleAppTimer, C!outvars
    <2>2. CASE NoCallback
      BY <1>1, <2>2, SameThread, ConnectionAssumptions, P!ThreadSubmits
         DEF NoCallback
    <2>3. CASE Ends
      BY <2>3 DEF Ends, C!Ending, C!HandleConnectFails, C!HandshakeFails,
           C!HandleReadFrameError, C!ConsumeCloseAck, C!HandleWriteClose,
           C!HandleWriteError, C!HandleTerminate, C!FailOnExpire, C!outvars
    <2>4. CASE Environment
      BY <1>3, <2>4
         DEF Environment, C!Network, C!Timers, C!ConnectDone,
             C!WriteRequestDone, C!ReadResponseDone, C!ReadDone, C!ReadFail,
             C!WriteFail, C!CloseTimerExpires, C!AppTimerExpires, C!outvars
    <2>5. CASE UNCHANGED connvars BY <2>5 DEF connvars
    <2> QED BY <2>1, <2>2, <2>3, <2>4, <2>5
            DEF Next, ClientStep, SetUp, ShowUsage, MainReturns, Terminated, vars
  <1> QED BY <1>2, <1>3

\* The counts of a log are numbers.
LEMMA LogCounts ==
    ASSUME NEW p \in Nat, NEW log, NEW cnt, IsLog(log, cnt, p)
    PROVE  \A i \in 0..p : cnt[i] \in Nat
  BY DEF IsLog

\* A longer log says the same of the frames that have arrived.
LEMMA DeliveredStep ==
    ASSUME IInv, IInv', [Next]_vars, NEW log, NEW cnt, NEW cnt2,
           IsLog(log, cnt, posted), Logged(log), Delivered(cnt),
           posted' \in Nat, posted <= posted',
           \A i \in 0..posted : cnt2[i] = cnt[i]
    PROVE  Delivered(cnt2)'
  <1>0. posted \in Nat /\ \A i \in 0..posted : cnt[i] \in Nat
    BY LogCounts DEF IInv, P!IInv, P!TypeOK
  <1>1. CASE wire' = wire
    <2>1. DeliveredRequests' = DeliveredRequests
      BY <1>1 DEF DeliveredRequests, RequestsIn, Requests
    <2> QED BY <1>0, <1>1, <2>1 DEF Delivered
  <1>2. CASE wire' # wire
    <2> DEFINE i == Len(wire) + 1
    <2>1. /\ Len(wire) \in Nat /\ i \in 1..posted
          /\ wire \in Seq(P!Message) /\ log[i] \in P!Message
          /\ wire' = Append(wire, log[i])
          /\ DeliveredRequests' =
                 IF log[i].text \in Requests
                 THEN Append(DeliveredRequests, log[i].text)
                 ELSE DeliveredRequests
      BY <1>2, FrameDelivered
    <2>2. Len(wire') = i BY <2>1
    <2>3. /\ i - 1 = Len(wire)
          /\ IF log[i].text \in Requests
             THEN cnt[i] = cnt[Len(wire)] + 1 /\ log[i].text = cnt[i]
             ELSE cnt[i] = cnt[Len(wire)]
      BY <2>1 DEF IsLog
    <2>4. cnt[Len(wire)] \in Nat /\ cnt2[i] = cnt[i] /\ Len(wire') \in 0..posted'
      BY <1>0, <2>1, <2>2
    <2>5. DeliveredRequests' = [k \in 1..cnt[i] |-> k]
      <3>1. DeliveredRequests = [k \in 1..cnt[Len(wire)] |-> k] BY DEF Delivered
      <3>2. \A n \in Nat : Append([k \in 1..n |-> k], n + 1) = [k \in 1..(n + 1) |-> k]
        OBVIOUS
      <3> QED BY <2>1, <2>3, <2>4, <3>1, <3>2
    <2> QED BY <2>2, <2>4, <2>5 DEF Delivered
  <1> QED BY <1>1, <1>2

\* Every step keeps what is known of the script.
LEMMA ScriptStep ==
    ASSUME IInv, IInv', ScriptInv, [Next]_vars
    PROVE  ScriptInv'
  <1>1. StartInv' BY StartStep DEF ScriptInv
  <1>2. PICK log, cnt : ScriptLog(log, cnt) BY DEF ScriptInv
  <1>3. posted \in Nat /\ posted' \in Nat BY DEF IInv, P!IInv, P!TypeOK
  <1>4. \A i \in 0..posted : cnt[i] \in Nat
    BY <1>2, <1>3, LogCounts DEF ScriptLog
  <1>5. PICK c2 \in Nat :
            Continues(cnt[posted], c2) /\ Agrees(c2)' /\ AskedLast(c2)'
    <2>1. posted = 0 => cnt[posted] = 0 BY <1>2 DEF ScriptLog, IsLog
    <2>2. cnt[posted] \in Nat BY <1>3, <1>4
    <2> DEFINE c == cnt[posted]
    <2>3. PICK d \in Nat : d = c BY <2>2
    <2>4. Agrees(d) /\ AskedLast(d) BY <1>2, <2>3 DEF ScriptLog
    <2>5. posted = 0 => d = 0 BY <2>1, <2>3
    <2>6. \E c2 \in Nat : Continues(d, c2) /\ Agrees(c2)' /\ AskedLast(c2)'
      BY <2>4, <2>5, StepFollows DEF ScriptInv
    <2> QED BY <2>3, <2>6
  <1>6. CASE P!SubmitsNothing /\ c2 = cnt[posted]
    <2>1. posted' = posted /\ Logged(log)'
      BY <1>2, <1>6 DEF P!SubmitsNothing, ScriptLog, Logged
    <2>2. IsLog(log, cnt, posted') /\ cnt[posted'] = c2
      BY <1>2, <1>6, <2>1 DEF ScriptLog
    <2>3. Delivered(cnt)'
      BY <1>2, <1>3, <2>1, DeliveredStep DEF ScriptLog
    <2>4. Agrees(cnt[posted])' /\ AskedLast(cnt[posted])'
      BY <1>5, <2>2 DEF Agrees, AskedLast
    <2>5. ScriptLog(log, cnt)' BY <2>1, <2>2, <2>3, <2>4 DEF ScriptLog
    <2> QED BY <1>1, <2>5 DEF ScriptInv
  <1>7. CASE \E m : P!Submits(m) /\ MayFollow(m, cnt[posted], c2)
    <2>1. PICK m : P!Submits(m) /\ MayFollow(m, cnt[posted], c2) BY <1>7
    <2>2. posted' = posted + 1 /\ m.n = posted + 1 BY <2>1 DEF P!Submits
    <2>3. PICK p \in Nat : p = posted BY <1>3
    <2>4. IsLog(log, cnt, p) /\ MayFollow(m, cnt[p], c2)
      BY <1>2, <2>1, <2>3 DEF ScriptLog
    <2>5. PICK log2, cnt2 : Extends(log2, cnt2, log, cnt, p, m, c2)
      BY <2>4, LogExtended
    <2>6. IsLog(log2, cnt2, posted') /\ cnt2[posted'] = c2
      BY <2>2, <2>3, <2>5 DEF Extends
    <2>7. Logged(log2)'
      <3>1. ASSUME NEW x \in P!Messages'
            PROVE  x.n \in 1..posted' /\ x = log2[x.n]
        <4>1. x \in P!Messages \/ x = m BY <2>1 DEF P!Submits
        <4>2. CASE x = m BY <1>3, <2>2, <2>3, <2>5, <4>2 DEF Extends
        <4>3. CASE x \in P!Messages
          <5>1. x.n \in 1..p /\ x = log[x.n]
            BY <1>2, <2>3, <4>3 DEF ScriptLog, Logged
          <5> QED BY <1>3, <2>2, <2>3, <2>5, <5>1 DEF Extends
        <4> QED BY <4>1, <4>2, <4>3
      <3> QED BY <3>1 DEF Logged
    <2>8. Delivered(cnt2)'
      <3>1. posted <= posted' /\ \A i \in 0..posted : cnt2[i] = cnt[i]
        BY <1>3, <2>2, <2>3, <2>5 DEF Extends
      <3> QED BY <1>2, <1>3, <3>1, DeliveredStep DEF ScriptLog
    <2>9. Agrees(cnt2[posted])' /\ AskedLast(cnt2[posted])'
      BY <1>5, <2>6 DEF Agrees, AskedLast
    <2>10. ScriptLog(log2, cnt2)' BY <2>6, <2>7, <2>8, <2>9 DEF ScriptLog
    <2> QED BY <1>1, <2>10 DEF ScriptInv
  <1> QED BY <1>5, <1>6, <1>7 DEF Continues

\* The log starts empty.
LEMMA ScriptStarts == Init => ScriptInv
  <1> SUFFICES ASSUME Init PROVE ScriptInv OBVIOUS
  <1>1. /\ posted = 0 /\ m_state = "CONNECTING" /\ lastIndex = 0
        /\ ready = <<>> /\ m_write_queue = <<>> /\ wire = <<>>
    BY DEF Init, C!Init
  <1> DEFINE log == <<>>
             cnt == [i \in 0..0 |-> 0]
  <1>2. IsLog(log, cnt, posted) BY <1>1 DEF IsLog
  <1>3. Logged(log) /\ ~P!CloseAsked
    BY <1>1 DEF Logged, P!Messages, P!Elements, P!PostedIn, P!Posts,
                P!CloseAsked, P!Any
  <1>4. Delivered(cnt)
    <2>1. <<>> = [k \in 1..0 |-> k] OBVIOUS
    <2>2. Len(wire) = 0 /\ cnt[0] = 0 BY <1>1
    <2>3. DeliveredRequests = <<>> BY <1>1, RequestsInEmpty DEF DeliveredRequests
    <2> HIDE DEF cnt
    <2> QED BY <1>1, <2>1, <2>2, <2>3 DEF Delivered
  <1>5. Agrees(cnt[posted]) /\ AskedLast(cnt[posted]) /\ StartInv
    BY <1>1, <1>3 DEF Agrees, AskedLast, StartInv
  <1> QED BY <1>2, <1>3, <1>4, <1>5 DEF ScriptInv, ScriptLog

-----------------------------------------------------------------------------
(* The client implements ScriptRun.                                        *)

\* A normal close on the wire is the end: the close that waits to be
\* acknowledged by the writer is still being handled.
LEMMA NothingAfterClose ==
    ASSUME IInv, OnWire("CLOSE_NORMAL"), C!WriteDone
    PROVE  FALSE
  <1>1. PICK i \in DOMAIN wire : wire[i].op = "CLOSE_NORMAL" BY DEF OnWire
  <1>2. /\ P!CloseIsLast /\ P!WriterInv
        /\ wire # <<>> /\ wire[Len(wire)].op \in P!CloseOps =>
               m_state = "CLOSED" \/ P!Written
    BY DEF IInv, P!IInv, P!Inv, P!CloseInv
  <1>3. i = Len(wire) /\ wire # <<>> /\ wire[Len(wire)].op \in P!CloseOps
    BY <1>1, <1>2 DEF P!CloseIsLast, P!CloseOps
  <1>4. P!Written => writes = 0
    BY <1>2 DEF P!Written, P!Has, P!Any, P!WriterInv
  <1> QED BY <1>2, <1>3, <1>4 DEF C!WriteDone

\* The promise of the run starts where the client does.
LEMMA RunStarts == Init => Run!Init
  <1> SUFFICES ASSUME Init PROVE Run!Init OBVIOUS
  <1>1. wire = <<>> /\ main = "start" BY DEF Init, C!Init
  <1> QED BY <1>1, RequestsInEmpty DEF Run!Init, DeliveredRequests, OnWire

\* As long as the frames on the wire stay, so does what has been delivered.
LEMMA WireStays ==
    ASSUME wire' = wire
    PROVE  DeliveredRequests' = DeliveredRequests
           /\ OnWire("CLOSE_NORMAL")' = OnWire("CLOSE_NORMAL")
  BY DEF DeliveredRequests, RequestsIn, Requests, OnWire

\* Every step of the client is a step of the promise, or none.
LEMMA PromiseStep ==
    ASSUME IInv, IInv', ScriptInv, [Next]_vars
    PROVE  [Run!Next]_(Run!run)
  <1> DEFINE result == IF main \in {"start", "run"} THEN "running"
                       ELSE IF status = 0 THEN "success" ELSE "failure"
             closed == OnWire("CLOSE_NORMAL")
  <1>1. CASE wire' = wire /\ result' = result
    BY <1>1, WireStays DEF Run!run
  <1>2. CASE SetUp \/ ShowUsage \/ MainReturns
    <2>1. wire' = wire BY <1>2 DEF SetUp, ShowUsage, MainReturns, connvars
    <2>2. result = "running" /\ result' \in {"running", "success", "failure"}
      BY <1>2 DEF SetUp, ShowUsage, MainReturns
    <2> QED BY <1>1, <2>1, <2>2, WireStays DEF Run!Next, Run!Finish
  <1>3. CASE ~(SetUp \/ ShowUsage \/ MainReturns)
    <2>1. UNCHANGED <<main, status>>
      BY <1>3 DEF Next, ClientStep, NoCallback, Environment, Ends, Opens,
           Receives, ReceivesEvent, ReceivesHeartbeat, ReceivesOther,
           HeartbeatTimeout, Terminated, vars, mainvars
    <2>2. result' = result BY <2>1
    <2>3. CASE wire' # wire
      <3>1. PICK log, cnt : ScriptLog(log, cnt) BY DEF ScriptInv
      <3> DEFINE i == Len(wire) + 1
      <3>2. /\ Environment /\ C!WriteDone
            /\ Len(wire) \in Nat /\ i \in 1..posted
            /\ wire \in Seq(P!Message) /\ log[i] \in P!Message
            /\ wire' = Append(wire, log[i])
            /\ DeliveredRequests' =
                   IF log[i].text \in Requests
                   THEN Append(DeliveredRequests, log[i].text)
                   ELSE DeliveredRequests
        BY <2>3, <3>1, FrameDelivered DEF ScriptLog
      <3>3. result = "running" BY <3>2 DEF Environment
      <3>4. ~closed BY <3>2, NothingAfterClose
      <3>5. closed' <=> log[i].op = "CLOSE_NORMAL"
        <4> HIDE DEF i
        <4>1. /\ Len(wire) \in Nat /\ DOMAIN wire' = 1..(Len(wire) + 1)
              /\ \A j \in DOMAIN wire : wire'[j] = wire[j]
              /\ wire'[Len(wire) + 1] = log[i] /\ DOMAIN wire = 1..Len(wire)
          BY <3>2
        <4> QED BY <3>4, <4>1 DEF OnWire
      <3>6. closed \in BOOLEAN /\ closed' \in BOOLEAN BY DEF OnWire
      <3>7. /\ i - 1 = Len(wire) /\ cnt[Len(wire)] \in Nat
            /\ log[i].text \in Requests =>
                   log[i].text = cnt[Len(wire)] + 1
            /\ log[i].op = "CLOSE_NORMAL" =>
                   log[i].text \notin Requests /\ AllSent(cnt[Len(wire)])
        <4>1. posted \in Nat /\ IsLog(log, cnt, posted)
          BY <3>1 DEF ScriptLog, IInv, P!IInv, P!TypeOK
        <4> QED BY <3>2, <4>1, LogCounts DEF IsLog
      <3>8. Len(DeliveredRequests) = cnt[Len(wire)]
        BY <3>1, <3>7 DEF ScriptLog, Delivered
      <3> HIDE DEF i, closed
      <3>9. CASE log[i].text \in Requests
        <4>1. closed' = closed BY <3>4, <3>5, <3>7, <3>9, <3>6
        <4> QED BY <2>2, <3>2, <3>3, <3>4, <3>7, <3>8, <3>9, <4>1
                DEF Run!Next, Run!Deliver, closed
      <3>10. CASE log[i].op = "CLOSE_NORMAL"
        <4>1. closed' = TRUE BY <3>5, <3>10, <3>6
        <4> QED BY <2>2, <3>2, <3>3, <3>4, <3>7, <3>8, <3>10, <4>1
                DEF Run!Next, Run!Close, closed, AllSent
      <3>11. CASE log[i].text \notin Requests /\ log[i].op # "CLOSE_NORMAL"
        <4>1. closed' = closed BY <3>4, <3>5, <3>11, <3>6
        <4> QED BY <2>2, <3>2, <3>11, <4>1 DEF Run!run, closed
      <3> QED BY <3>9, <3>10, <3>11
    <2> QED BY <1>1, <2>2, <2>3
  <1> QED BY <1>2, <1>3

\* The requests of the file reach the server in their order, each once and
\* none left out; the normal close comes after the last of them, and nothing
\* after the close: for every script, handler state, network and server.
THEOREM ImplementsScriptRun == Spec => KeepsScript
  <1>1. IInv /\ ScriptInv /\ [Next]_vars => IInv' /\ ScriptInv'
    BY InvStep, ScriptStep
  <1>2. IInv /\ ScriptInv /\ IInv' /\ [Next]_vars => [Run!Next]_(Run!run)
    BY PromiseStep
  <1>3. Init => IInv /\ ScriptInv /\ Run!Init
    BY InitInv, ScriptStarts, RunStarts
  <1> QED BY <1>1, <1>2, <1>3, PTL DEF Spec, KeepsScript, Run!Spec

-----------------------------------------------------------------------------
(* A run against the server it is meant for.                               *)

\* The server and the network do nothing that the client's environment may
\* not do.
LEMMA ServerIsEnvironment ==
    ASSUME ServerStep \/ Silence
    PROVE  Environment
  <1>1. 0 \in 0..MaxChunk BY ClientBoundsAssumption
  <1>2. C!Network \/ C!Timers
    BY <1>1 DEF ServerStep, Silence, Accepts, Serves, Breaks, C!Network, C!Timers
  <1> QED BY <1>2 DEF ServerStep, Silence, Environment

\* A step of the run is a step of the client.
LEMMA RunIsClientStep ==
    ASSUME [RunNext]_vars
    PROVE  [Next]_vars
  <1>1. CASE ServerStep \/ Silence
    BY <1>1, ServerIsEnvironment DEF Next
  <1>2. CASE Answered
    BY <1>2 DEF Answered, Next, ClientStep, NoCallback, C!Thread, Receives, Answers
  <1>3. CASE RunStep /\ ~Answered
    BY <1>3 DEF RunStep, Next, ClientStep
  <1> QED BY <1>1, <1>2, <1>3 DEF RunNext, Next

\* So a run implements the client, and through it ScriptRun and WSConnection.
THEOREM RunIsClient == RunSpec => Spec
  <1> QED BY RunIsClientStep, PTL DEF RunSpec, Spec

-----------------------------------------------------------------------------
(* Pacing.                                                                 *)

\* Each item but the first has cost a whole event, two pieces of input, and
\* a header that has been read is one more; what waits in the buffer has not
\* been used for any.
Paid(buffer, expects, items, input) ==
    /\ buffer <= input
    /\ buffer + 2 * items <= input + 2
    /\ expects = "payload" =>
           buffer + 1 <= input /\ buffer + 1 + 2 * items <= input + 2

InputInv == Paid(m_buf, processor, lastIndex, received)

\* The thread's steps that consume no input, and the environment's, which
\* deliver it.
LEMMA InputDelivered ==
    ASSUME P!TypeOK, P!TypeOK', lastIndex \in Nat, InputInv,
           \/ NoCallback /\ m_buf' >= m_buf
           \/ ServerStep \/ Silence
    PROVE  InputInv'
  <1>0. m_buf \in Nat /\ m_buf' \in Nat /\ received \in Nat /\ received' \in Nat
    BY DEF P!TypeOK
  <1>1. CASE NoCallback /\ m_buf' >= m_buf
    <2>1. ~(m_buf' = m_buf - 1) BY <1>0, <1>1
    <2>2. UNCHANGED <<m_buf, processor, received, lastIndex>>
      BY <1>1, <2>1
         DEF NoCallback, C!Thread, C!HandleConnect, C!HandleConnectThrows,
             C!HandleWriteRequest, C!HandleReadResponseThrows,
             C!HandleReadResponseRefuses,
             C!HandleReadFrame, C!ReadLoopEnds, C!ConsumeHeader,
             C!ConsumePing, C!ConsumePong, C!ConsumeClose,
             C!ConsumeViolation, C!Consumes, C!HandleWriteMessage,
             C!HandleWrite, C!HandleSendClose, C!HandleAborted,
             C!RunReturns, C!invars, handlervars
    <2> QED BY <2>2 DEF InputInv
  <1>2. CASE ServerStep \/ Silence
    <2>1. /\ UNCHANGED <<processor, lastIndex>>
          /\ \/ UNCHANGED <<m_buf, received>>
             \/ \E k \in 0..MaxChunk : m_buf' = m_buf + k /\ received' = received + k
      <3>1. 0 \in 0..MaxChunk /\ 1..MaxChunk \subseteq 0..MaxChunk
        BY ClientBoundsAssumption
      <3> QED BY <1>2, <3>1
              DEF ServerStep, Silence, Accepts, Serves, Breaks, C!ConnectDone,
                  C!WriteRequestDone, C!ReadResponseDone, C!ReadDone,
                  C!ReadFail, C!WriteDone, C!WriteFail, C!AppTimerExpires,
                  C!invars, handlervars
    <2>2. \A k \in Nat : Paid(m_buf + k, processor, lastIndex, received + k)
      BY <1>0 DEF InputInv, Paid
    <2>3. Paid(m_buf, processor, lastIndex, received) BY DEF InputInv
    <2>4. Paid(m_buf', processor, lastIndex, received')
      <3>1. 0..MaxChunk \subseteq Nat BY ClientBoundsAssumption
      <3>2. CASE UNCHANGED <<m_buf, received>> BY <2>3, <3>2
      <3>3. ASSUME NEW k \in 0..MaxChunk, m_buf' = m_buf + k, received' = received + k
            PROVE  Paid(m_buf', processor, lastIndex, received')
        BY <2>2, <3>1, <3>3
      <3> QED BY <2>1, <3>2, <3>3
    <2> QED BY <2>1, <2>4 DEF InputInv
  <1> QED BY <1>1, <1>2

\* Input is used up only by what it completes, and answered by one request.
LEMMA InputStep ==
    ASSUME IInv, IInv', StartInv, InputInv, [RunNext]_vars
    PROVE  InputInv'
  <1>0. /\ P!TypeOK /\ P!TypeOK' /\ lastIndex \in Nat
        /\ m_buf \in Nat /\ m_buf' \in Nat /\ received \in Nat /\ received' \in Nat
    BY ScriptLength DEF IInv, P!IInv, HandlerTypes, P!TypeOK
  <1>1. CASE UNCHANGED <<m_buf, processor, received, lastIndex>>
    BY <1>1 DEF InputInv
  <1>2. CASE Ends
    <2>1. /\ UNCHANGED <<processor, received, lastIndex>>
          /\ m_buf' = m_buf \/ m_buf' = m_buf - 1
      BY <1>2 DEF Ends, C!Ending, C!HandleConnectFails, C!HandshakeFails,
           C!HandleReadFrameError, C!ConsumeCloseAck, C!HandleWriteClose,
           C!HandleWriteError, C!HandleTerminate, C!FailOnExpire,
           C!Consumes, C!invars, handlervars
    <2>2. \A b \in {m_buf, m_buf - 1} : Paid(b, processor, lastIndex, received)
      BY <1>0 DEF InputInv, Paid
    <2> QED BY <2>1, <2>2 DEF InputInv
  <1>3. CASE Answered
    <2>1. CASE C!ConsumeHeader /\ UNCHANGED handlervars
      <3>1. m_buf' = m_buf - 1 /\ UNCHANGED <<received, lastIndex>>
        BY <2>1 DEF C!ConsumeHeader, C!Consumes, handlervars
      <3>2. Paid(m_buf - 1, processor', lastIndex, received)
        BY <1>0 DEF InputInv, Paid
      <3> QED BY <3>1, <3>2 DEF InputInv
    <2>2. CASE \E id \in SessionIds : ReceivesEvent(id)
      <3>1. /\ m_buf' = m_buf - 1 /\ received' = received
            /\ processor = "payload" /\ processor' = "header"
            /\ Advance \/ UNCHANGED lastIndex
        BY <2>2 DEF ReceivesEvent, C!ConsumePayload, C!Consumes
      <3>2. lastIndex' \in {lastIndex, lastIndex + 1}
        BY <3>1 DEF Advance
      <3>3. \A l \in {lastIndex, lastIndex + 1} :
                Paid(m_buf - 1, "header", l, received)
        BY <1>0, <3>1 DEF InputInv, Paid
      <3> QED BY <3>1, <3>2, <3>3 DEF InputInv
    <2> QED BY <1>3, <2>1, <2>2 DEF Answered
  <1>4. CASE Opens
    <2>1. m_state = "CONNECTING"
      BY <1>4, RunsIsReady, HandshakeGoesOn
         DEF Opens, C!HandleReadResponse, C!RunsOk, IInv, P!IInv
    <2>2. lastIndex = 0 /\ processor = "header"
      BY <2>1 DEF StartInv, IInv, P!IInv, P!Inv, P!ConnectingInv
    <2>3. UNCHANGED <<m_buf, processor, received>> /\ lastIndex' \in {0, 1}
      BY <1>4, <2>2 DEF Opens, C!HandleReadResponse, C!invars, Advance
    <2>4. \A l \in {0, 1} : Paid(m_buf, "header", l, received)
      BY <1>0, <2>2 DEF InputInv, Paid
    <2> QED BY <2>2, <2>3, <2>4 DEF InputInv
  <1>5. CASE (NoCallback /\ m_buf' >= m_buf) \/ ServerStep \/ Silence
    BY <1>0, <1>5, InputDelivered
  <1>6. CASE HeartbeatTimeout
    BY <1>1, <1>6 DEF HeartbeatTimeout, C!HandleAppTimer, C!invars, handlervars
  <1>7. CASE SetUp \/ MainReturns \/ UNCHANGED vars
    BY <1>1, <1>7 DEF SetUp, MainReturns, vars, connvars, handlervars
  <1> QED BY <1>2, <1>3, <1>4, <1>5, <1>6, <1>7
          DEF RunNext, RunStep, Terminated

\* The requests on the wire are among those the handler has taken.
LEMMA TakenFirst ==
    ASSUME IInv, ScriptInv
    PROVE  Len(DeliveredRequests) \in Nat /\ Len(DeliveredRequests) <= lastIndex
  <1>1. PICK log, cnt : ScriptLog(log, cnt) BY DEF ScriptInv
  <1>2. posted \in Nat /\ lastIndex \in Nat
    BY ScriptLength DEF IInv, P!IInv, P!TypeOK, HandlerTypes
  <1>3. IsLog(log, cnt, posted) BY <1>1 DEF ScriptLog
  <1>4. Len(wire) \in 0..posted BY <1>1 DEF ScriptLog, Delivered
  <1>5. \A i \in 0..posted : cnt[i] \in Nat BY <1>2, <1>3, LogCounts
  <1>6. cnt[posted] \in Nat BY <1>2, <1>5
  <1>7. cnt[posted] <= lastIndex BY <1>1 DEF ScriptLog, Agrees
  <1>8. cnt[Len(wire)] \in Nat /\ cnt[Len(wire)] <= cnt[posted]
    BY <1>3, <1>4, <1>5 DEF IsLog
  <1>9. Len(DeliveredRequests) = cnt[Len(wire)]
    BY <1>1, <1>8 DEF ScriptLog, Delivered
  <1> QED BY <1>2, <1>6, <1>7, <1>8, <1>9

\* A request goes out only after whole events for all requests before it.
THEOREM RequestsArePaced == RunSpec => []Paced
  <1>1. Init => IInv /\ ScriptInv /\ InputInv
    <2>1. Init => InputInv BY DEF Init, C!Init, InputInv, Paid
    <2> QED BY <2>1, InitInv, ScriptStarts
  <1>2. IInv /\ ScriptInv /\ InputInv /\ [RunNext]_vars
            => IInv' /\ ScriptInv' /\ InputInv'
    <2> SUFFICES ASSUME IInv, ScriptInv, InputInv, [RunNext]_vars
                 PROVE  IInv' /\ ScriptInv' /\ InputInv'
      OBVIOUS
    <2>1. [Next]_vars BY RunIsClientStep
    <2>2. IInv' BY <2>1, InvStep
    <2> QED BY <2>1, <2>2, ScriptStep, InputStep DEF ScriptInv
  <1>3. IInv /\ ScriptInv /\ InputInv => Paced
    <2> SUFFICES ASSUME IInv, ScriptInv, InputInv PROVE Paced OBVIOUS
    <2>1. /\ m_buf \in Nat /\ received \in Nat /\ lastIndex \in Nat
      BY ScriptLength DEF IInv, P!IInv, P!TypeOK, HandlerTypes
    <2>2. 2 * lastIndex <= received + 2 BY <2>1 DEF InputInv, Paid
    <2>3. lastIndex <= 1 + received \div 2 BY <2>1, <2>2
    <2>4. Len(DeliveredRequests) \in Nat /\ Len(DeliveredRequests) <= lastIndex
      BY TakenFirst
    <2> QED BY <2>1, <2>3, <2>4 DEF Paced
  <1> QED BY <1>1, <1>2, <1>3, PTL DEF RunSpec

=============================================================================
