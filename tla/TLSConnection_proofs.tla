------------------------ MODULE TLSConnection_proofs -------------------------
(***************************************************************************)
(* Proofs about TLSConnection, for every handler and every value of the    *)
(* bounds: nothing is said before TLS, shutdown() is called once, and but  *)
(* for the steps of TLS itself the connection is that of WSConnection.     *)
(***************************************************************************)
EXTENDS TLSConnection, WSConnection_proofs

-----------------------------------------------------------------------------
(* The inductive invariant.                                                *)

\* Nothing but the TLS handshake has happened on the connection.
Untouched ==
    /\ m_state = "CONNECTING" /\ m_detached = FALSE /\ chain = "none"
    /\ app_timer = FALSE /\ m_timer = FALSE
    /\ reads = 0 /\ writes = 0 /\ busy = FALSE
    /\ processor = "header" /\ m_write_state = "IDLE" /\ m_write_queue = <<>>
    /\ wire = <<>> /\ posted = 0 /\ proc = "running"
    /\ m_buf \in Nat /\ received \in Nat /\ ended \in Nat

\* The TLS handshake is outstanding, or handle_init() waits to hear of it.
Securing ==
    /\ Untouched
    /\ \/ tls = "handshake" /\ ready = <<>>
       \/ tls = "completed" /\ ready = <<HandleInit("ok")>>
       \/ tls = "failed" /\ ready = <<HandleInit("error")>>

\* At any other time the connection is one of WSConnection.
Settled == IInv /\ tls \in {"none", "completed", "failed"}

\* Without a TLS handshake that has succeeded the connection is at its first
\* step, or it is at an end.
Unsaid ==
    tls # "completed" =>
        /\ m_state \in {"CONNECTING", "CLOSED"}
        /\ chain \in {"connect", "none"} /\ writes = 0 /\ wire = <<>>
        /\ \/ Securing
           \/ chain = "connect" \/ Any(ready, {"handle_connect"})
           \/ m_detached \/ ~Alive

\* A connection is closed by a shutdown() that has returned, and the handler
\* that waits for one will close it.
OnceInv ==
    /\ blocked \in BOOLEAN
    /\ shutdowns = IF blocked \/ m_state = "CLOSED" THEN 1 ELSE 0
    /\ blocked => Alive /\ (TerminateDue \/ CloseAckPossible)

TLSIInv == (Settled \/ Securing) /\ Unsaid /\ OnceInv

-----------------------------------------------------------------------------
(* The mapping to WSConnection.                                            *)

\* While the connection is settled the mapping is the identity.
SettledMapped == PlainReady = ready /\ PlainChain = chain

\* In a settled connection the mapping changes nothing,
LEMMA SettledIsMapped == Settled => SettledMapped
  <1> SUFFICES ASSUME Settled PROVE SettledMapped
    OBVIOUS
  <1>1. /\ ready \in Seq(Handlers) /\ tls # "handshake"
    BY DEF Settled, IInv, TypeOK
  <1>2. \A x \in Handlers : x.h # "handle_init"
    BY DEF Handlers, HandlerNames
  <1>3. ready # <<>> => Head(ready) \in Handlers
    BY <1>1
  <1>4. ~Secured
    BY <1>2, <1>3 DEF Secured, HandleInit, Completion
  <1>5. \A i \in DOMAIN ready : PlainHandler(ready[i]) = ready[i]
    BY <1>1, <1>2 DEF PlainHandler
  <1>6. ready = [i \in DOMAIN ready |-> ready[i]]
    BY <1>1
  <1>7. PlainReady = ready
    BY <1>4, <1>5, <1>6 DEF PlainReady
  <1> QED BY <1>1, <1>4, <1>7 DEF PlainChain, SettledMapped

\* after a step as before it.
LEMMA SettledIsMappedNext == Settled' => SettledMapped'
  BY SettledIsMapped, PTL

\* So a settled connection is in the invariant of the plain one.
LEMMA SettledIsPlain ==
    /\ Settled => PlainReady = ready /\ PlainChain = chain
    /\ Settled' => PlainReady' = ready' /\ PlainChain' = chain'
  BY SettledIsMapped, SettledIsMappedNext DEF SettledMapped

SecuringMapped ==
    \/ /\ tls = "handshake" /\ ready = <<>>
       /\ PlainReady = <<>> /\ PlainChain = "write_request"
    \/ /\ tls = "completed" /\ ready = <<HandleInit("ok")>>
       /\ PlainReady = <<>> /\ PlainChain = "write_request"
    \/ /\ tls = "failed" /\ ready = <<HandleInit("error")>>
       /\ PlainReady = <<Completion("handle_write_request", "error")>>
       /\ PlainChain = "none"

\* While TLS is begun the mapping has the request being written.
LEMMA SecuringMaps == Securing => SecuringMapped
  <1> SUFFICES ASSUME Securing PROVE SecuringMapped
    OBVIOUS
  <1>1. CASE tls = "handshake" /\ ready = <<>>
    <2>1. ~Secured
      BY <1>1 DEF Secured
    <2>2. PlainReady = <<>>
      BY <1>1, <2>1 DEF PlainReady
    <2> QED BY <1>1, <2>2 DEF PlainChain, SecuringMapped
  <1>2. CASE tls = "completed" /\ ready = <<HandleInit("ok")>>
    <2>1. Secured /\ Tail(ready) = <<>>
      BY <1>2 DEF Secured
    <2>2. PlainReady = <<>>
      BY <2>1 DEF PlainReady
    <2> QED BY <1>2, <2>1, <2>2 DEF PlainChain, SecuringMapped
  <1>3. CASE tls = "failed" /\ ready = <<HandleInit("error")>>
    <2> DEFINE x == HandleInit("error")
               y == Completion("handle_write_request", "error")
    <2>1. ~Secured /\ chain = "none"
      BY <1>3 DEF Secured, HandleInit, Completion, Securing, Untouched
    <2>2. PlainHandler(x) = y
      BY DEF PlainHandler, HandleInit, Completion
    <2> HIDE DEF x, y
    <2>3. DOMAIN ready = {1} /\ ready[1] = x
      BY <1>3 DEF x
    <2>4. [i \in DOMAIN ready |-> PlainHandler(ready[i])] = <<y>>
      BY <2>2, <2>3
    <2>5. PlainReady = <<y>>
      BY <2>1, <2>4 DEF PlainReady
    <2> QED BY <1>3, <2>1, <2>5 DEF PlainChain, SecuringMapped, y
  <1> QED BY <1>1, <1>2, <1>3 DEF Securing

\* While TLS is being begun the mapping shows the upgrade being written.
LEMMA SecuringMapsNext == Securing' => SecuringMapped'
  BY SecuringMaps, PTL

\* Then handle_init() is the only handler there is.
LEMMA SecuringHead ==
    ASSUME Securing, ready # <<>>
    PROVE  /\ Tail(ready) = <<>>
           /\ Head(ready).h = "handle_init"
           /\ tls = IF Head(ready).ec = "ok" THEN "completed" ELSE "failed"
           /\ Head(ready).ec \in {"ok", "error"}
  <1>1. PICK ec \in {"ok", "error"} :
            /\ ready = <<HandleInit(ec)>>
            /\ tls = IF ec = "ok" THEN "completed" ELSE "failed"
    BY DEF Securing
  <1>2. Head(ready) = HandleInit(ec) /\ Tail(ready) = <<>>
    BY <1>1
  <1>3. HandleInit(ec).ec = ec /\ HandleInit(ec).h = "handle_init"
    BY DEF HandleInit, Completion
  <1> QED BY <1>1, <1>2, <1>3

\* Where the mapping is the identity, before a step and after it, the step is
\* one of WSConnection.
LEMMA SettledStepIsPlain ==
    ASSUME PlainReady = ready, PlainChain = chain,
           PlainReady' = ready', PlainChain' = chain'
    PROVE  Next => Plain!Next
  <1> USE DEF Plain!Alive, Alive, Plain!netvars, netvars, Plain!sockvars,
              sockvars, Plain!outvars, outvars, Plain!invars, invars,
              Plain!appvars, appvars, Plain!Completion, Completion,
              Plain!WriteMessage, WriteMessage, Plain!NoMessage, NoMessage,
              Plain!CloseOps, CloseOps, Plain!Runs, Runs, Plain!RunsOk, RunsOk,
              Plain!Consumes, Consumes
  <1>1. Network => Plain!Network
    BY DEF Network, Plain!Network, ConnectDone, Plain!ConnectDone,
           WriteRequestDone, Plain!WriteRequestDone, ReadResponseDone,
           Plain!ReadResponseDone, ReadDone, Plain!ReadDone,
           ReadFail, Plain!ReadFail, WriteDone, Plain!WriteDone,
           WriteFail, Plain!WriteFail
  <1>2. Timers => Plain!Timers
    BY DEF Timers, Plain!Timers, CloseTimerExpires, Plain!CloseTimerExpires,
           AppTimerExpires, Plain!AppTimerExpires
  <1>3. Thread => Plain!Thread
    BY DEF Thread, Plain!Thread,
           HandleConnect, Plain!HandleConnect,
           HandleConnectThrows, Plain!HandleConnectThrows,
           HandleWriteRequest, Plain!HandleWriteRequest,
           HandleReadResponseThrows, Plain!HandleReadResponseThrows,
           HandleReadResponseRefuses, Plain!HandleReadResponseRefuses,
           HandleReadFrame, Plain!HandleReadFrame, ReadOn, Plain!ReadOn,
           ReadLoopEnds, Plain!ReadLoopEnds,
           ConsumeHeader, Plain!ConsumeHeader, ConsumePing, Plain!ConsumePing,
           ConsumePong, Plain!ConsumePong, ConsumeClose, Plain!ConsumeClose,
           ConsumeViolation, Plain!ConsumeViolation,
           SendClose, Plain!SendClose,
           HandleWriteMessage, Plain!HandleWriteMessage, Write, Plain!Write,
           HandleWrite, Plain!HandleWrite,
           HandleSendClose, Plain!HandleSendClose,
           HandleAborted, Plain!HandleAborted, NoWork, Plain!NoWork,
           RunReturns, Plain!RunReturns
  <1>4. ASSUME NEW cb \in Behaviours PROVE Ending(cb) => Plain!Ending(cb)
    <2> USE DEF AppendIf, Plain!AppendIf, Sends, Plain!Sends,
                CallbackReady, Plain!CallbackReady,
                CallbackEffects, Plain!CallbackEffects,
                CallbackCalls, Plain!CallbackCalls
    <2> QED
      BY DEF Ending, Plain!Ending, Terminate, Plain!Terminate,
             HandleConnectFails, Plain!HandleConnectFails,
             HandshakeFails, Plain!HandshakeFails,
             HandleReadFrameError, Plain!HandleReadFrameError,
             ConsumeCloseAck, Plain!ConsumeCloseAck,
             HandleWriteClose, Plain!HandleWriteClose,
             HandleWriteError, Plain!HandleWriteError,
             HandleTerminate, Plain!HandleTerminate,
             FailOnExpire, Plain!FailOnExpire
  <1>5. ASSUME NEW cb \in Behaviours PROVE Calling(cb) => Plain!Calling(cb)
    BY DEF AppendIf, Plain!AppendIf, Sends, Plain!Sends,
           CallbackReady, Plain!CallbackReady,
           CallbackEffects, Plain!CallbackEffects,
           CallbackCalls, Plain!CallbackCalls,
           Calling, Plain!Calling, HandleReadResponse,
           Plain!HandleReadResponse, ConsumePayload, Plain!ConsumePayload,
           HandleAppTimer, Plain!HandleAppTimer
  <1>6. Ended => Plain!Ended
    BY DEF Ended, Plain!Ended, vars, Plain!vars
  <1>7. ThreadStep => Plain!ThreadStep
    BY <1>3, <1>4, <1>5 DEF ThreadStep, Plain!ThreadStep
  <1> QED BY <1>1, <1>2, <1>6, <1>7 DEF Next, Plain!Next

-----------------------------------------------------------------------------
(* The opening of the connection, where nothing else goes on.              *)

\* While the opening handshake has an operation outstanding the queue is
\* empty, and while it has a handler waiting it holds that one alone.
LEMMA Opening ==
    ASSUME IInv, chain # "none" \/ Any(ready, Handshake)
    PROVE  /\ m_state = "CONNECTING" /\ ~m_detached
           /\ ~app_timer /\ ~m_timer /\ reads = 0 /\ writes = 0 /\ ~busy
           /\ processor = "header" /\ m_write_state = "IDLE"
           /\ m_write_queue = <<>> /\ wire = <<>> /\ posted = 0
           /\ chain # "none" => ready = <<>>
           /\ chain = "none" => Len(ready) = 1
  <1>1. /\ m_state = "CONNECTING" /\ ~m_detached
        /\ ~app_timer /\ ~Any(ready, OfHandler)
        /\ AtMostOne(ready, Handshake)
        /\ chain # "none" => ~Any(ready, Handshake)
    BY DEF IInv, Inv, HandshakeInv
  <1>2. /\ ~m_timer /\ reads = 0 /\ writes = 0 /\ ~busy
        /\ processor = "header" /\ m_write_state = "IDLE"
        /\ m_write_queue = <<>> /\ wire = <<>> /\ posted = 0
        /\ ~Any(ready, Session)
    BY <1>1 DEF IInv, Inv, ConnectingInv
  <1>3. ready \in Seq(Handlers)
    BY DEF IInv, TypeOK
  <1>4. \A i \in DOMAIN ready : ready[i].h \in HandlerNames
    <2>1. \A x \in Handlers : x.h \in HandlerNames
      BY DEF Handlers
    <2> QED BY <1>3, <2>1
  <1>5. HandlerNames \subseteq Handshake \cup OfHandler \cup Session
    BY DEF HandlerNames, Handshake, OfHandler, Session, Alarm, Writing,
           Reading, Expiry
  <1>6. \A i \in DOMAIN ready : ready[i].h \in Handshake
    BY <1>1, <1>2, <1>4, <1>5 DEF Any
  <1>7. \A i, j \in DOMAIN ready : i = j
    BY <1>1, <1>6 DEF AtMostOne
  <1>8. ASSUME chain # "none" PROVE ready = <<>>
    <2>1. DOMAIN ready = {}
      BY <1>1, <1>6, <1>8 DEF Any
    <2> QED BY <1>3, <2>1
  <1>9. ASSUME chain = "none" PROVE Len(ready) = 1
    <2>1. DOMAIN ready # {}
      BY <1>9 DEF Any
    <2>2. DOMAIN ready = 1..Len(ready) /\ Len(ready) \in Nat
      BY <1>3
    <2>3. Len(ready) > 1 => 1 \in DOMAIN ready /\ 2 \in DOMAIN ready
      BY <2>2
    <2> QED BY <1>7, <2>1, <2>2, <2>3
  <1> QED BY <1>1, <1>2, <1>8, <1>9

\* When no session goes on and at most handle_connect() or handle_init()
\* waits, the thread has hardly a step to take.
LEMMA ThreadOpening ==
    ASSUME ~busy,
           ready # <<>> => Head(ready).h \in {"handle_connect", "handle_init"}
    PROVE  /\ Thread =>
                  \/ RunReturns
                  \/ Runs("handle_connect")
                     /\ (HandleConnect \/ HandleConnectThrows)
           /\ \A cb : Ending(cb) =>
                  Runs("handle_connect") /\ HandleConnectFails(cb)
           /\ \A cb : ~Calling(cb)
  <1>1. ASSUME Thread
        PROVE  \/ RunReturns
               \/ Runs("handle_connect") /\ (HandleConnect \/ HandleConnectThrows)
    BY <1>1 DEF Thread, HandleConnect, HandleConnectThrows,
           HandleWriteRequest, HandleReadResponseThrows,
           HandleReadResponseRefuses, HandleReadFrame,
           ReadLoopEnds, Consumes, ConsumeHeader, ConsumePing, ConsumePong,
           ConsumeClose, ConsumeViolation, HandleWriteMessage, HandleWrite,
           HandleSendClose, HandleAborted, Runs, RunsOk
  <1>2. ASSUME NEW cb, Ending(cb)
        PROVE  Runs("handle_connect") /\ HandleConnectFails(cb)
    BY <1>2 DEF Ending, HandleConnectFails, HandshakeFails,
           HandleReadFrameError, ConsumeCloseAck, Consumes, HandleWriteClose,
           HandleWriteError, HandleTerminate, FailOnExpire, Runs, RunsOk
  <1>3. ASSUME NEW cb, Calling(cb) PROVE FALSE
    BY <1>3 DEF Calling, HandleReadResponse, ConsumePayload, Consumes,
           HandleAppTimer, Runs, RunsOk
  <1> QED BY <1>1, <1>2, <1>3

\* And the environment can only complete an operation of the handshake.
LEMMA EnvironmentOpening ==
    ASSUME reads = 0, writes = 0, ~m_timer, ~app_timer, Network \/ Timers
    PROVE  /\ chain # "none"
           /\ chain = "connect" =>
                  \E ec \in {"ok", "error", "unknown"} : ConnectDone(ec)
  BY DEF Network, Timers, ConnectDone, WriteRequestDone, ReadResponseDone,
         ReadDone, ReadFail, WriteDone, WriteFail, CloseTimerExpires,
         AppTimerExpires

\* A step of the https run is a step of WSConnection or one of TLS.
LEMMA TLSSteps ==
    ASSUME TLSNext
    PROVE  \/ ShutdownBegins
           \/ /\ ~blocked /\ UNCHANGED <<blocked, shutdowns>>
              /\ \/ StartHandshake
                 \/ HandleSocketInit /\ UNCHANGED tls
                 \/ \E ec \in {"ok", "error"} : HandshakeDone(ec)
                 \/ AsWithPlain
                 \/ (Network \/ Timers) /\ UNCHANGED tls
           \/ TLSEnded
           \/ \E cb \in Behaviours : ShutdownReturns(cb)
  BY DEF TLSNext, TLSThread, TLSEnvironment

\* What each step of TLS starts from.
LEMMA SecuringSteps ==
    ASSUME Securing, TLSNext
    PROVE  \/ ShutdownBegins \/ TLSEnded
           \/ /\ ~blocked /\ UNCHANGED <<blocked, shutdowns>>
              /\ \/ HandleSocketInit /\ UNCHANGED tls
                 \/ \E ec \in {"ok", "error"} : HandshakeDone(ec)
           \/ \E cb \in Behaviours :
                  /\ HandleSocketInitFails(cb)
                  /\ blocked /\ blocked' = FALSE /\ UNCHANGED <<tls, shutdowns>>
  <1>1. /\ ready # <<>> => Head(ready).h = "handle_init"
        /\ ready = <<>> => tls = "handshake"
    BY DEF Securing, HandleInit, Completion
  <1>2. ~busy /\ reads = 0 /\ writes = 0 /\ ~m_timer /\ ~app_timer
        /\ chain = "none"
    BY DEF Securing, Untouched
  <1>3. ~(Network \/ Timers)
    BY <1>2, EnvironmentOpening
  <1>4. ~Runs("handle_connect")
    BY <1>1 DEF Runs
  <1>5. ~StartHandshake
    BY <1>4 DEF StartHandshake, RunsOk
  <1>6. \A cb : ~Ending(cb) /\ ~Calling(cb)
    BY <1>1, <1>2, <1>4, ThreadOpening
  <1>7. Thread => NoWork /\ tls = "handshake"
    <2>1. Thread => RunReturns
      BY <1>1, <1>2, <1>4, ThreadOpening
    <2> QED BY <1>1, <2>1 DEF RunReturns, NoWork
  <1>8. ~AsWithPlain
    BY <1>6, <1>7 DEF AsWithPlain, EndsWithoutShutdown
  <1> QED BY TLSSteps, <1>3, <1>5, <1>6, <1>8 DEF ShutdownReturns

-----------------------------------------------------------------------------
(* Every step keeps the connection settled, or securing.                   *)

\* Neither before its session nor after it has the connection anything to do.
Resting ==
    /\ ready = <<>> /\ ~m_timer /\ reads = 0 /\ writes = 0 /\ ~busy
    /\ processor = "header" /\ m_write_state = "IDLE" /\ m_write_queue = <<>>
    /\ wire = <<>> /\ posted = 0
    /\ \/ chain = "write_request" /\ m_state = "CONNECTING" /\ ~m_detached
          /\ ~app_timer
       \/ chain = "none" /\ m_state = "CLOSED"
    /\ proc \in {"running", "handler"} /\ app_timer \in BOOLEAN
    /\ busy \in BOOLEAN /\ m_timer \in BOOLEAN /\ m_detached \in BOOLEAN
    /\ m_buf \in Nat /\ received \in Nat /\ ended \in Nat

\* A connection without anything outstanding is in the invariant,
LEMMA RestingInv == Resting => IInv
  <1> SUFFICES ASSUME Resting PROVE IInv
    OBVIOUS
  <1>1. TypeOK
    <2>1. /\ ready \in Seq(Handlers) /\ m_write_queue \in Seq(Message)
          /\ wire \in Seq(Message)
      BY DEF Resting
    <2> QED BY <2>1 DEF Resting, TypeOK
  <1>2. \A H : ~Any(ready, H)
    BY DEF Resting, Any
  <1>3. /\ AtMostOne(ready, Handshake)
        /\ AtMostOne(ready, Writing) /\ AtMostOne(ready, Reading)
        /\ ~Written /\ Numbers(ready) = {} /\ Increasing(ready)
    BY <1>2, NoneAtMostOne, NoSession DEF Written
  <1>4. HandshakeInv /\ ConnectingInv /\ DetachedInv /\ DeadlineInv
    BY <1>2, <1>3
       DEF Resting, HandshakeInv, ConnectingInv, DetachedInv, DeadlineInv
  <1>5. WriterInv /\ FrontInv /\ CloseInv
    BY <1>2, <1>3 DEF Resting, WriterInv, FrontInv, CloseInv, CloseIsLast
  <1>6. OrderInv
    <2>1. Done = 0
      BY <1>3 DEF Resting, Done
    <2> QED BY <1>3, <2>1 DEF Resting, OrderInv, WireInOrder
  <1>7. ReaderInv
    BY <1>2, <1>3 DEF Resting, ReaderInv
  <1> QED BY <1>1, <1>4, <1>5, <1>6, <1>7 DEF IInv, Inv

\* after a step as before it.
LEMMA RestingNext == Resting' => IInv'
  BY RestingInv, PTL

\* A handler that runs is in the queue.
LEMMA RunsIsAny ==
    ASSUME IInv, NEW h, Runs(h)
    PROVE  /\ h \in HandlerNames
           /\ \A H : h \in H => Any(ready, H)
           /\ ready \in Seq(Handlers) /\ ready # <<>> /\ Head(ready).h = h
  <1>1. ready \in Seq(Handlers) /\ ready # <<>> /\ Head(ready).h = h
    BY DEF IInv, TypeOK, Runs
  <1>2. \A x \in Handlers : x.h \in HandlerNames
    BY DEF Handlers
  <1>3. 1 \in DOMAIN ready /\ ready[1].h = h /\ Head(ready) \in Handlers
    BY <1>1
  <1> QED BY <1>1, <1>2, <1>3 DEF Any

\* A queue of one handler is empty without it.
LEMMA SingleTail ==
    ASSUME NEW s \in Seq(Handlers), s # <<>>
    PROVE  Len(s) = 1 => Tail(s) = <<>>
  <1> DEFINE t == Tail(s)
  <1>1. /\ t \in Seq(Handlers) /\ Len(s) \in Nat /\ Len(s) > 0
        /\ DOMAIN t = 1..(Len(s) - 1)
    OBVIOUS
  <1> HIDE DEF t
  <1>2. Len(s) = 1 => t = <<>>
    BY <1>1
  <1> QED BY <1>2 DEF t

\* handle_connect() finds nothing but itself, and begins TLS.
LEMMA BeginsTLS ==
    ASSUME Settled, StartHandshake
    PROVE  Securing'
  <1>0. IInv
    BY DEF Settled
  <1>1. RunsOk("handle_connect") /\ Runs("handle_connect")
    BY DEF StartHandshake, RunsOk
  <1>2. Any(ready, Handshake) /\ ready \in Seq(Handlers)
    BY <1>0, <1>1, RunsIsAny DEF Handshake
  <1>3. chain = "none"
    BY <1>0, <1>2 DEF IInv, Inv, HandshakeInv
  <1>4. Tail(ready) = <<>>
    <2>1. Len(ready) = 1
      BY <1>0, <1>2, <1>3, Opening
    <2>2. ready # <<>>
      BY <1>0, <1>1, RunsIsAny
    <2> QED BY <1>2, <2>1, <2>2, SingleTail
  <1>5. Untouched
    BY <1>0, <1>1, <1>2, <1>3, Opening
       DEF Untouched, Runs, Alive, IInv, TypeOK
  <1>6. Untouched'
    BY <1>5 DEF Untouched, StartHandshake, netvars, sockvars, outvars,
                      invars, appvars
  <1> QED BY <1>4, <1>6 DEF Securing, StartHandshake

\* A settled connection takes a step of WSConnection, or begins TLS.
LEMMA SettledStep ==
    ASSUME Settled, TLSNext
    PROVE  \/ StartHandshake /\ Securing'
           \/ /\ UNCHANGED <<vars, tls>> \/ (Next /\ UNCHANGED tls)
              /\ Settled'
  <1>1. IInv /\ tls # "handshake"
    BY DEF Settled
  <1>2. StartHandshake => Securing'
    BY BeginsTLS
  <1>3. ~Runs("handle_init")
    BY <1>1, RunsIsAny DEF HandlerNames
  <1>4. /\ ~HandleSocketInit /\ \A ec : ~HandshakeDone(ec)
        /\ \A cb : ~HandleSocketInitFails(cb)
    BY <1>1, <1>3 DEF HandleSocketInit, RunsOk, HandshakeDone,
                      HandleSocketInitFails
  <1>5. \/ StartHandshake
        \/ UNCHANGED <<vars, tls>>
        \/ Next /\ UNCHANGED tls
    <2>1. AsWithPlain => Next /\ UNCHANGED tls
      BY DEF AsWithPlain, EndsWithoutShutdown, Next, ThreadStep
    <2>2. Network \/ Timers => Next
      BY DEF Next
    <2>3. \A cb \in Behaviours : ShutdownReturns(cb) => Next /\ UNCHANGED tls
      BY <1>4 DEF ShutdownReturns, Next, ThreadStep
    <2>4. ShutdownBegins \/ TLSEnded => UNCHANGED <<vars, tls>>
      BY DEF ShutdownBegins, TLSEnded, tlsvars, Ended
    <2> QED BY <1>4, <2>1, <2>2, <2>3, <2>4, TLSSteps
  <1>6. ASSUME UNCHANGED tls, [Next]_vars PROVE Settled'
    BY <1>1, <1>6, InvStep DEF Settled
  <1> QED BY <1>2, <1>5, <1>6

\* While TLS is begun the connection goes on with that, or is settled again.
LEMMA SecuringStep ==
    ASSUME Securing, TLSNext
    PROVE  \/ UNCHANGED <<vars, tls>>
           \/ \E ec \in {"ok", "error"} : HandshakeDone(ec) /\ Securing'
           \/ /\ Settled' /\ UNCHANGED tls /\ ready' = <<>>
              /\ \/ HandleSocketInit
                 \/ blocked /\ \E cb \in Behaviours : HandleSocketInitFails(cb)
  <1> USE DEF netvars, sockvars, outvars, invars, appvars
  <1>1. ASSUME ShutdownBegins \/ TLSEnded PROVE UNCHANGED <<vars, tls>>
    BY <1>1 DEF ShutdownBegins, TLSEnded, tlsvars, Ended
  <1>2. ASSUME NEW ec \in {"ok", "error"}, HandshakeDone(ec)
        PROVE  Securing'
    <2>1. tls = "handshake" /\ ready = <<>>
      BY <1>2, SecuringMaps DEF HandshakeDone, SecuringMapped
    <2>2. Untouched'
      BY <1>2 DEF HandshakeDone, Securing, Untouched
    <2>3. ready' = <<HandleInit(ec)>>
      BY <1>2, <2>1 DEF HandshakeDone
    <2> QED BY <1>2, <2>2, <2>3 DEF HandshakeDone, Securing
  <1>3. ASSUME HandleSocketInit, UNCHANGED tls
        PROVE  Settled' /\ ready' = <<>>
    <2>1. ready # <<>> /\ Head(ready).ec = "ok"
      BY <1>3 DEF HandleSocketInit, RunsOk, Runs
    <2>2. tls = "completed" /\ Tail(ready) = <<>>
      BY <2>1, SecuringHead
    <2>3. Resting'
      BY <1>3, <2>2 DEF HandleSocketInit, Securing, Untouched, Resting
    <2> QED BY <1>3, <2>2, <2>3, RestingNext DEF Settled, HandleSocketInit
  <1>4. ASSUME NEW cb \in Behaviours, HandleSocketInitFails(cb), UNCHANGED tls
        PROVE  Settled' /\ ready' = <<>>
    <2>1. ready # <<>> /\ Head(ready).ec = "error"
      BY <1>4 DEF HandleSocketInitFails, Runs
    <2>2. tls = "failed" /\ Tail(ready) = <<>>
      BY <2>1, SecuringHead
    <2>3. /\ m_timer' = FALSE /\ m_state' = "CLOSED" /\ ended' = ended + 1
          /\ m_detached' = TRUE /\ ready' = <<>>
          /\ CallbackCalls(cb, "CLOSED") /\ proc' \in {proc, "handler"}
      BY <1>4, <2>2 DEF HandleSocketInitFails, Terminate, CallbackReady, Sends,
             AppendIf, Securing, Untouched
    <2>4. /\ posted' = 0 /\ app_timer' \in BOOLEAN
          /\ proc' \in {"running", "handler"}
      <3>1. (cb.timer = "rearm") \in BOOLEAN
        OBVIOUS
      <3> QED BY <2>3, <3>1 DEF CallbackCalls, Sends, Securing, Untouched
    <2>5. m_timer' \in BOOLEAN /\ m_detached' \in BOOLEAN
      <3>1. m_timer' \in BOOLEAN BY <2>3
      <3>2. m_detached' \in BOOLEAN BY <2>3
      <3> QED BY <3>1, <3>2
    <2>6. Resting'
      <3>1. /\ busy' = FALSE /\ reads' = 0 /\ writes' = 0 /\ chain' = "none"
            /\ processor' = "header" /\ m_write_state' = "IDLE"
            /\ m_write_queue' = <<>> /\ wire' = <<>>
            /\ m_buf' \in Nat /\ received' \in Nat
        BY <1>4 DEF HandleSocketInitFails, Securing, Untouched
      <3>2. ended' \in Nat
        BY <2>3 DEF Securing, Untouched
      <3>3. ~busy' /\ busy' \in BOOLEAN
        BY <3>1
      <3>4. ~m_timer'
        BY <2>3
      <3> QED BY <2>3, <2>4, <2>5, <3>1, <3>2, <3>3, <3>4 DEF Resting
    <2> QED BY <1>4, <2>2, <2>3, <2>6, RestingNext DEF Settled
  <1> QED BY <1>1, <1>2, <1>3, <1>4, SecuringSteps

-----------------------------------------------------------------------------
(* Nothing is said before TLS.                                             *)

\* The steps of WSConnection that an https run takes.
PlainStep ==
    \/ AsWithPlain \/ Network \/ Timers
    \/ \E cb \in Behaviours : Ending(cb)

\* The steps taken over from WSConnection keep the invariant.
LEMMA PlainSteps ==
    ASSUME Settled, TLSNext
    PROVE  \/ StartHandshake
           \/ UNCHANGED <<vars, tls>>
           \/ PlainStep /\ UNCHANGED tls
  <1>1. ~Runs("handle_init") /\ tls # "handshake"
    BY RunsIsAny DEF Settled, HandlerNames
  <1>2. /\ ~HandleSocketInit /\ \A ec : ~HandshakeDone(ec)
        /\ \A cb : ~HandleSocketInitFails(cb)
    BY <1>1 DEF HandleSocketInit, RunsOk, HandshakeDone, HandleSocketInitFails
  <1>3. \A cb \in Behaviours : ShutdownReturns(cb) => PlainStep /\ UNCHANGED tls
    BY <1>2 DEF ShutdownReturns, PlainStep
  <1>4. ShutdownBegins \/ TLSEnded => UNCHANGED <<vars, tls>>
    BY DEF ShutdownBegins, TLSEnded, tlsvars, Ended
  <1>5. AsWithPlain => PlainStep /\ UNCHANGED tls
    BY DEF AsWithPlain, PlainStep
  <1> QED BY <1>2, <1>3, <1>4, <1>5, TLSSteps DEF PlainStep

\* While the first step of the connection is awaited it is the only one.
LEMMA AwaitedStep ==
    ASSUME Settled, PlainStep,
           chain = "connect" \/ Any(ready, {"handle_connect"})
    PROVE  \/ UNCHANGED <<chain, m_state, writes, wire>> /\ (m_detached' \/ ~Alive')
           \/ /\ chain' = "none" /\ Any(ready', {"handle_connect"})
              /\ UNCHANGED <<m_state, writes, wire>>
  <1>1. IInv
    BY DEF Settled
  <1>2. Any(ready, {"handle_connect"}) => Any(ready, Handshake)
    BY DEF Any, Handshake
  <1>3. /\ ~busy /\ reads = 0 /\ writes = 0 /\ ~m_timer /\ ~app_timer
        /\ chain # "none" => ready = <<>>
        /\ chain = "none" => Len(ready) = 1
    BY <1>1, <1>2, Opening
  <1>4. ready \in Seq(Handlers)
    BY <1>1 DEF IInv, TypeOK
  <1>5. Any(ready, {"handle_connect"}) =>
            chain = "none" /\ Head(ready).h = "handle_connect"
    <2>1. Any(ready, {"handle_connect"}) => chain = "none"
      BY <1>1, <1>2 DEF IInv, Inv, HandshakeInv
    <2>2. ASSUME Len(ready) = 1, Any(ready, {"handle_connect"})
          PROVE  Head(ready).h = "handle_connect"
      <3>1. PICK i \in DOMAIN ready : ready[i].h = "handle_connect"
        BY <2>2 DEF Any
      <3>2. i = 1 /\ Head(ready) = ready[1]
        BY <1>4, <2>2, <3>1
      <3> QED BY <3>1, <3>2
    <2> QED BY <1>3, <2>1, <2>2
  <1>6. ready # <<>> => Head(ready).h = "handle_connect"
    BY <1>3, <1>5
  <1>7. ASSUME Network \/ Timers
        PROVE  /\ chain' = "none" /\ Any(ready', {"handle_connect"})
               /\ UNCHANGED <<m_state, writes, wire>>
    <2>1. chain # "none" /\ chain = "connect"
      BY <1>3, <1>5, <1>7, EnvironmentOpening
    <2>2. PICK ec \in {"ok", "error", "unknown"} : ConnectDone(ec)
      BY <1>3, <1>7, <2>1, EnvironmentOpening
    <2>3. Any(ready', {"handle_connect"})
      BY <1>1, <2>2, CompletionAppended
         DEF ConnectDone, HandlerNames, Errors, IInv
    <2> QED BY <2>2, <2>3 DEF ConnectDone, sockvars, outvars
  <1>8. /\ Thread =>
               \/ RunReturns
               \/ Runs("handle_connect") /\ (HandleConnect \/ HandleConnectThrows)
        /\ \A cb : Ending(cb) =>
               Runs("handle_connect") /\ HandleConnectFails(cb)
        /\ \A cb : ~Calling(cb)
    BY <1>3, <1>6, ThreadOpening
  <1>9. \A cb : HandleConnectFails(cb) =>
            UNCHANGED <<chain, m_state, writes, wire>> /\ m_detached'
    BY DEF HandleConnectFails, netvars, outvars
  <1>10. HandleConnectThrows \/ RunReturns =>
            UNCHANGED <<chain, m_state, writes, wire>> /\ ~Alive'
    BY DEF HandleConnectThrows, RunReturns, netvars, sockvars, outvars, Alive
  <1>11. AsWithPlain =>
             \/ RunReturns \/ HandleConnectThrows
             \/ \E cb \in Behaviours : HandleConnectFails(cb)
    <2>1. HandleConnect => RunsOk("handle_connect")
      BY DEF HandleConnect
    <2> QED BY <1>8, <2>1 DEF AsWithPlain, EndsWithoutShutdown
  <1> QED BY <1>7, <1>8, <1>9, <1>10, <1>11 DEF PlainStep

\* A connection that the endpoint has given up says nothing any more.
LEMMA DetachedStep ==
    ASSUME Settled, PlainStep, m_detached, writes = 0,
           m_state \in {"CONNECTING", "CLOSED"}
    PROVE  m_detached' /\ UNCHANGED <<chain, writes, wire>>
  <1> USE DEF netvars, sockvars, outvars, invars, appvars
  <1>1. IInv
    BY DEF Settled
  <1>2. chain = "none" /\ ~Any(ready, Handshake)
    BY <1>1 DEF IInv, Inv, HandshakeInv
  <1>3. \A h \in Handshake : ~Runs(h)
    BY <1>1, <1>2, RunsIsAny
  <1>4. /\ ~Runs("handle_connect") /\ ~Runs("handle_write_request")
        /\ ~Runs("handle_read_response")
    BY <1>3 DEF Handshake
  <1>5. ASSUME Network \/ Timers
        PROVE  m_detached' /\ UNCHANGED <<chain, writes, wire>>
    <2>1. \A ec : ~ConnectDone(ec) /\ ~WriteRequestDone(ec)
      BY <1>2 DEF ConnectDone, WriteRequestDone
    <2>2. \A ec, k : ~ReadResponseDone(ec, k)
      BY <1>2 DEF ReadResponseDone
    <2>3. ~WriteDone /\ ~WriteFail
      BY DEF WriteDone, WriteFail
    <2> QED BY <1>5, <2>1, <2>2, <2>3 DEF Network, Timers, ReadDone, ReadFail,
                                          CloseTimerExpires, AppTimerExpires
  <1>6. ASSUME Thread
        PROVE  m_detached' /\ UNCHANGED <<chain, writes, wire>>
    BY <1>4, <1>6 DEF Thread, HandleConnect, HandleConnectThrows, RunsOk,
           HandleWriteRequest, HandleReadResponseThrows,
           HandleReadResponseRefuses, HandleReadFrame,
           ReadLoopEnds, ConsumeHeader, ConsumePing, ConsumePong,
           ConsumeClose, ConsumeViolation, HandleWriteMessage, HandleWrite,
           HandleSendClose, HandleAborted, RunReturns
  <1>7. ASSUME NEW cb, Ending(cb)
        PROVE  m_detached' /\ UNCHANGED <<chain, writes, wire>>
    BY <1>4, <1>7 DEF Ending, HandleConnectFails, HandshakeFails,
           HandleReadFrameError, ConsumeCloseAck, HandleWriteClose,
           HandleWriteError, HandleTerminate, FailOnExpire, Terminate
  <1>8. ASSUME NEW cb, Calling(cb)
        PROVE  m_detached' /\ UNCHANGED <<chain, writes, wire>>
    BY <1>4, <1>8 DEF Calling, HandleReadResponse, ConsumePayload,
           HandleAppTimer, RunsOk
  <1> QED BY <1>5, <1>6, <1>7, <1>8
          DEF PlainStep, AsWithPlain, EndsWithoutShutdown

\* An ended process takes no step.
LEMMA AliveSteps == PlainStep => Alive
  BY DEF PlainStep, AsWithPlain, EndsWithoutShutdown, Network, Timers,
         ConnectDone, WriteRequestDone, ReadResponseDone, ReadDone, ReadFail,
         WriteDone, WriteFail, CloseTimerExpires, AppTimerExpires,
         Thread, HandleConnect, HandleConnectThrows, Runs, RunsOk,
         HandleWriteRequest, HandleReadResponseThrows,
         HandleReadResponseRefuses, HandleReadFrame,
         ReadLoopEnds, Consumes, ConsumeHeader, ConsumePing, ConsumePong,
         ConsumeClose, ConsumeViolation, HandleWriteMessage, HandleWrite,
         HandleSendClose, HandleAborted, RunReturns, Ending,
         HandleConnectFails, HandshakeFails, HandleReadFrameError,
         ConsumeCloseAck, HandleWriteClose, HandleWriteError,
         HandleTerminate, FailOnExpire, Calling, HandleReadResponse,
         ConsumePayload, HandleAppTimer

\* Nothing is said by a step before TLS.
LEMMA UnsaidStep ==
    ASSUME TLSIInv, TLSNext
    PROVE  Unsaid'
  <1>1. ASSUME UNCHANGED <<vars, tls>> PROVE Unsaid'
    <2> USE <1>1 DEF vars, netvars, sockvars, outvars, invars, appvars
    <2>1. Securing => Securing'
      BY DEF Securing, Untouched
    <2>2. Alive' <=> Alive
      BY DEF Alive
    <2> QED BY <2>1, <2>2 DEF TLSIInv, Unsaid
  <1>2. ASSUME Securing'
        PROVE  Unsaid'
    BY <1>2 DEF Unsaid, Securing, Untouched
  <1>3. CASE Securing
    <2>1. ASSUME Settled', UNCHANGED tls, HandleSocketInit
          PROVE  Unsaid'
      <3>1. Head(ready).ec = "ok" /\ ready # <<>>
        BY <2>1 DEF HandleSocketInit, RunsOk, Runs
      <3>2. tls = "completed"
        BY <1>3, <3>1, SecuringHead
      <3> QED BY <2>1, <3>2 DEF Unsaid
    <2>2. ASSUME NEW cb \in Behaviours, HandleSocketInitFails(cb), Settled'
          PROVE  Unsaid'
      <3>1. m_state' = "CLOSED" /\ m_detached' = TRUE
        BY <1>3, <2>2
           DEF HandleSocketInitFails, Terminate, Securing, Untouched
      <3>2. chain' = "none" /\ writes' = 0 /\ wire' = <<>>
        BY <1>3, <2>2 DEF HandleSocketInitFails, Securing, Untouched, netvars,
                          outvars
      <3>3. m_detached'
        BY <3>1
      <3> QED BY <3>1, <3>2, <3>3 DEF Unsaid
    <2> QED BY <1>1, <1>2, <1>3, <2>1, <2>2, SecuringStep
  <1>4. CASE Settled /\ ~Securing
    <2>1. CASE PlainStep /\ UNCHANGED tls /\ Settled' /\ tls # "completed"
      <3>1. /\ m_state \in {"CONNECTING", "CLOSED"}
            /\ chain \in {"connect", "none"} /\ writes = 0 /\ wire = <<>>
            /\ \/ chain = "connect" \/ Any(ready, {"handle_connect"})
               \/ m_detached
        BY <1>4, <2>1, AliveSteps DEF TLSIInv, Unsaid
      <3>2. CASE chain = "connect" \/ Any(ready, {"handle_connect"})
        <4>1. \/ UNCHANGED <<chain, m_state, writes, wire>>
                 /\ (m_detached' \/ ~Alive')
              \/ /\ chain' = "none" /\ Any(ready', {"handle_connect"})
                 /\ UNCHANGED <<m_state, writes, wire>>
          BY <1>4, <2>1, <3>2, AwaitedStep
        <4> QED BY <3>1, <4>1 DEF Unsaid
      <3>3. CASE m_detached
        <4>1. m_detached' /\ UNCHANGED <<chain, writes, wire>>
          BY <1>4, <2>1, <3>1, <3>3, DetachedStep
        <4>2. m_state' \in States /\ ~(m_state' \in {"OPEN", "CLOSING"})
          BY <2>1, <4>1 DEF Settled, IInv, TypeOK, Inv, DetachedInv, States
        <4>3. m_state' \in {"CONNECTING", "CLOSED"}
          BY <4>2 DEF States
        <4> QED BY <3>1, <4>1, <4>3 DEF Unsaid
      <3> QED BY <3>1, <3>2, <3>3
    <2>2. CASE UNCHANGED tls /\ tls = "completed"
      BY <2>2 DEF Unsaid
    <2>3. \/ StartHandshake /\ Securing'
          \/ UNCHANGED <<vars, tls>>
          \/ PlainStep /\ UNCHANGED tls /\ Settled'
      <3>1. \/ StartHandshake /\ Securing'
            \/ UNCHANGED <<vars, tls>>
            \/ Settled'
        BY <1>4, SettledStep
      <3>2. \/ StartHandshake
            \/ UNCHANGED <<vars, tls>>
            \/ PlainStep /\ UNCHANGED tls
        BY <1>4, PlainSteps
      <3>3. StartHandshake => Securing'
        BY <1>4, BeginsTLS
      <3> QED BY <3>1, <3>2, <3>3
    <2> QED BY <1>1, <1>2, <2>1, <2>2, <2>3
  <1> QED BY <1>3, <1>4 DEF TLSIInv

-----------------------------------------------------------------------------
(* shutdown() is called once.                                              *)

\* Unless shutdown() has been called the connection is not closed.
LEMMA OpenStays ==
    ASSUME Settled, AsWithPlain \/ Network \/ Timers
    PROVE  m_state' = "CLOSED" <=> m_state = "CLOSED"
  <1> USE DEF sockvars
  <1>1. Runs("handle_read_response") => m_state = "CONNECTING"
    <2>1. Runs("handle_read_response") => Any(ready, Handshake)
      BY RunsIsAny DEF Settled, Handshake
    <2> QED BY <2>1 DEF Settled, IInv, Inv, HandshakeInv
  <1>2. ASSUME Network \/ Timers PROVE m_state' = m_state
    BY <1>2 DEF Network, Timers, ConnectDone, WriteRequestDone,
           ReadResponseDone, ReadDone, ReadFail, WriteDone, WriteFail,
           CloseTimerExpires, AppTimerExpires
  <1>3. ASSUME Thread
        PROVE  m_state' = m_state \/ (m_state = "OPEN" /\ m_state' = "CLOSING")
    BY <1>3 DEF Thread, HandleConnect, HandleConnectThrows,
           HandleWriteRequest, HandleReadResponseThrows,
           HandleReadResponseRefuses, HandleReadFrame,
           ReadLoopEnds, ConsumeHeader, ConsumePing, ConsumePong,
           ConsumeClose, ConsumeViolation, SendClose, HandleWriteMessage,
           HandleWrite, HandleSendClose, HandleAborted, RunReturns
  <1>4. ASSUME NEW cb, Calling(cb)
        PROVE  m_state' = m_state \/ (m_state = "CONNECTING" /\ m_state' = "OPEN")
    BY <1>1, <1>4 DEF Calling, HandleReadResponse, ConsumePayload,
           HandleAppTimer, RunsOk
  <1>5. ASSUME NEW cb, EndsWithoutShutdown(cb) PROVE m_state' = m_state
    <2>1. CASE m_state = "CLOSED"
      BY <1>5, <2>1 DEF EndsWithoutShutdown, Ending, HandleConnectFails,
             HandshakeFails, HandleReadFrameError, ConsumeCloseAck,
             HandleWriteClose, HandleWriteError, HandleTerminate,
             FailOnExpire, Terminate
    <2>2. CASE m_state # "CLOSED"
      BY <1>5, <2>2 DEF EndsWithoutShutdown, TerminateDue, Ending,
             HandleConnectFails, HandshakeFails, HandleReadFrameError,
             ConsumeCloseAck, Consumes, HandleWriteClose, HandleWriteError,
             HandleTerminate, FailOnExpire
    <2> QED BY <2>1, <2>2
  <1> QED BY <1>2, <1>3, <1>4, <1>5 DEF AsWithPlain

\* The handler that waits for shutdown() closes the connection.
LEMMA WaitCloses ==
    ASSUME Settled, TerminateDue \/ CloseAckPossible, NEW cb, Ending(cb)
    PROVE  m_state' = "CLOSED"
  <1>1. Runs("handle_write") /\ m_state # "CLOSED" => ~m_detached
    <2>1. ASSUME Runs("handle_write"), m_state # "CLOSED" PROVE ~m_detached
      <3>1. Any(ready, Writing) /\ m_state \in States
        BY <2>1, RunsIsAny DEF Settled, Writing, IInv, TypeOK, States
      <3>2. m_state # "CONNECTING"
        BY <3>1 DEF Settled, IInv, Inv, WriterInv, ConnectingInv
      <3> QED BY <2>1, <3>1, <3>2 DEF Settled, IInv, Inv, DetachedInv, States
    <2> QED BY <2>1
  <1>2. \A c, r : Terminate(c, r) => m_state' = "CLOSED"
    BY DEF Terminate, sockvars
  <1>3. CASE CloseAckPossible
    BY <1>2, <1>3 DEF CloseAckPossible, Ending, HandleConnectFails,
           HandshakeFails, HandleReadFrameError, ConsumeCloseAck,
           HandleWriteClose, HandleWriteError, HandleTerminate, FailOnExpire,
           Runs, RunsOk
  <1>4. CASE TerminateDue
    BY <1>1, <1>2, <1>4 DEF TerminateDue, Ending, HandleConnectFails,
           HandshakeFails, HandleReadFrameError, ConsumeCloseAck, Consumes,
           HandleWriteClose, HandleWriteError, HandleTerminate, FailOnExpire,
           Runs, RunsOk
  <1> QED BY <1>3, <1>4

\* A step calls shutdown() only when it has not been called.
LEMMA OnceStep ==
    ASSUME TLSIInv, TLSNext
    PROVE  OnceInv'
  <1> USE DEF sockvars
  <1>1. /\ blocked \in BOOLEAN
        /\ shutdowns = IF blocked \/ m_state = "CLOSED" THEN 1 ELSE 0
        /\ blocked => Alive /\ (TerminateDue \/ CloseAckPossible)
    BY DEF TLSIInv, OnceInv
  <1>2. CASE ShutdownBegins
    <2>1. /\ ~blocked /\ m_state # "CLOSED" /\ m_state' = m_state
          /\ blocked' = TRUE /\ shutdowns' = shutdowns + 1
      BY <1>2 DEF ShutdownBegins, TerminateDue, CloseAckPossible, vars
    <2>2. Alive' /\ (TerminateDue' \/ CloseAckPossible')
      BY <1>2 DEF ShutdownBegins, TerminateDue, CloseAckPossible, vars,
             appvars, invars, outvars, Alive, Runs, RunsOk
    <2>3. shutdowns' = 1 /\ blocked' \in BOOLEAN /\ blocked'
      <3>1. shutdowns' = 1
        BY <1>1, <2>1
      <3>2. blocked' \in BOOLEAN /\ blocked'
        BY <2>1
      <3> QED BY <3>1, <3>2
    <2> QED BY <2>2, <2>3 DEF OnceInv
  <1>3. CASE TLSEnded
    <2>1. ~blocked /\ ~blocked' /\ blocked' \in BOOLEAN
      BY <1>1, <1>3 DEF TLSEnded, Ended, tlsvars
    <2>2. m_state' = m_state /\ shutdowns' = shutdowns
      BY <1>3 DEF TLSEnded, Ended, vars, tlsvars
    <2> QED BY <1>1, <2>1, <2>2 DEF OnceInv
  <1>4. ASSUME ~blocked, UNCHANGED <<blocked, shutdowns>>,
               m_state' = "CLOSED" <=> m_state = "CLOSED"
        PROVE  OnceInv'
    <2>1. blocked' \in BOOLEAN /\ ~blocked'
      BY <1>1, <1>4
    <2> QED BY <1>1, <1>4, <2>1 DEF OnceInv
  <1>5. ASSUME NEW cb \in Behaviours, ShutdownReturns(cb),
               m_state' = "CLOSED"
        PROVE  OnceInv'
    <2>1. shutdowns' = 1
      BY <1>1, <1>5 DEF ShutdownReturns
    <2>2. blocked' \in BOOLEAN /\ ~blocked'
      BY <1>5 DEF ShutdownReturns
    <2> QED BY <1>5, <2>1, <2>2 DEF OnceInv
  <1>6. StartHandshake \/ HandleSocketInit \/ (\E ec : HandshakeDone(ec))
            => m_state' = m_state
    BY DEF StartHandshake, HandleSocketInit, HandshakeDone
  <1>7. CASE Settled
    <2>1. ~Runs("handle_init")
      BY <1>7, RunsIsAny DEF Settled, HandlerNames
    <2>2. \A cb \in Behaviours : ShutdownReturns(cb) => m_state' = "CLOSED"
      BY <1>1, <1>7, <2>1, WaitCloses DEF ShutdownReturns, HandleSocketInitFails
    <2> QED BY <1>2, <1>3, <1>4, <1>5, <1>6, <1>7, <2>2, OpenStays, TLSSteps
  <1>8. CASE Securing
    <2>1. \A cb : HandleSocketInitFails(cb) => m_state' = "CLOSED"
      BY DEF HandleSocketInitFails, Terminate
    <2>2. ASSUME NEW cb \in Behaviours, HandleSocketInitFails(cb),
                 blocked, blocked' = FALSE, UNCHANGED <<tls, shutdowns>>
          PROVE  OnceInv'
      <3>1. m_state' = "CLOSED" /\ shutdowns' = 1
        BY <1>1, <2>1, <2>2
      <3>2. blocked' \in BOOLEAN /\ ~blocked'
        BY <2>2
      <3> QED BY <3>1, <3>2 DEF OnceInv
    <2> QED BY <1>2, <1>3, <1>4, <1>6, <1>8, <2>2, SecuringSteps
  <1> QED BY <1>7, <1>8 DEF TLSIInv

-----------------------------------------------------------------------------
(* The theorems.                                                           *)

\* The invariant holds at the start,
LEMMA TLSInitInv == TLSInit => TLSIInv
  <1> SUFFICES ASSUME TLSInit PROVE TLSIInv
    OBVIOUS
  <1>1. Settled
    BY InitInv DEF TLSInit, Settled
  <1>2. Unsaid
    BY DEF TLSInit, Init, Unsaid
  <1>3. OnceInv
    <2>1. blocked = FALSE /\ shutdowns = 0 /\ m_state = "CONNECTING"
      BY DEF TLSInit, Init
    <2>2. blocked \in BOOLEAN
      BY <2>1
    <2> QED BY <2>1, <2>2 DEF OnceInv
  <1> QED BY <1>1, <1>2, <1>3 DEF TLSIInv

\* and every step keeps it.
LEMMA TLSInvStep == TLSIInv /\ [TLSNext]_<<vars, tlsvars>> => TLSIInv'
  <1> SUFFICES ASSUME TLSIInv, [TLSNext]_<<vars, tlsvars>> PROVE TLSIInv'
    OBVIOUS
  <1>1. CASE TLSNext
    <2>1. (Settled \/ Securing)'
      <3>1. ASSUME Securing, UNCHANGED <<vars, tls>> PROVE Securing'
        BY <3>1 DEF Securing, Untouched, vars, netvars, sockvars, outvars,
                    invars, appvars
      <3> QED BY <1>1, <3>1, SettledStep, SecuringStep DEF TLSIInv
    <2> QED BY <1>1, <2>1, UnsaidStep, OnceStep DEF TLSIInv
  <1>2. CASE UNCHANGED <<vars, tlsvars>>
    <2> USE <1>2 DEF tlsvars, netvars, sockvars, outvars, invars, appvars
    <2>1. Securing => Securing'
      BY DEF Securing, Untouched, vars
    <2>2. Settled => Settled'
      <3>1. UNCHANGED vars /\ tls' = tls
        OBVIOUS
      <3> QED BY <3>1, InvStep DEF Settled
    <2>3. Unsaid'
      BY <2>1 DEF TLSIInv, Unsaid, vars, Alive
    <2>4. OnceInv'
      BY DEF TLSIInv, OnceInv, vars, TerminateDue, CloseAckPossible, Alive,
             Runs, RunsOk
    <2> QED BY <2>1, <2>2, <2>3, <2>4 DEF TLSIInv
  <1> QED BY <1>1, <1>2

\* An https run is always in one of two phases, TLS being begun or a
\* connection of WSConnection, and at most one shutdown() is waited for.
THEOREM TLSInductiveInvariant == TLSSpec => []TLSIInv
  BY TLSInitInv, TLSInvStep, PTL DEF TLSSpec

\* Nothing is said on the connection, not even the upgrade asked for, before
\* the TLS handshake has succeeded, for any handler and however the completion
\* of the handshake interleaves with the other handlers.
THEOREM NothingBeforeTLS == TLSSpec => []TLSFirst
  <1>1. TLSIInv => TLSFirst
    BY DEF TLSIInv, Unsaid, TLSFirst
  <1> QED BY <1>1, TLSInductiveInvariant, PTL

\* shutdown() is called at most once, although several handlers may be on
\* their way to terminate(), and no connection is closed without it.
THEOREM ShutdownIsOnce == TLSSpec => []TLSInv
  <1>1. TLSIInv => TLSInv
    <2> SUFFICES ASSUME TLSIInv PROVE TLSInv
      OBVIOUS
    <2>1. ShutdownOnce
      <3>1. TerminateDue \/ CloseAckPossible => m_state # "CLOSED"
        BY DEF TerminateDue, CloseAckPossible
      <3> QED BY <3>1 DEF TLSIInv, OnceInv, ShutdownOnce
    <2>2. \A i \in DOMAIN ready :
              \/ ready[i] \in Handlers
              \/ ready[i].h = "handle_init" /\ tls \in {"completed", "failed"}
      <3>1. CASE Settled
        BY <3>1 DEF Settled, IInv, TypeOK
      <3>2. CASE Securing
        <4> SUFFICES ASSUME NEW i \in DOMAIN ready
                     PROVE  /\ ready[i].h = "handle_init"
                            /\ tls \in {"completed", "failed"}
          OBVIOUS
        <4>1. PICK ec \in {"ok", "error"} :
                  ready = <<HandleInit(ec)>> /\ tls \in {"completed", "failed"}
          BY <3>2 DEF Securing
        <4>2. ready[i] = HandleInit(ec)
          BY <4>1
        <4> QED BY <4>1, <4>2 DEF HandleInit, Completion
      <3> QED BY <3>1, <3>2 DEF TLSIInv
    <2>3. /\ tls \in {"none", "handshake", "completed", "failed"}
          /\ blocked \in BOOLEAN /\ shutdowns \in Nat
      BY DEF TLSIInv, OnceInv, Settled, Securing
    <2> QED BY <2>1, <2>2, <2>3 DEF TLSInv, TLSTypeOK
  <1> QED BY <1>1, TLSInductiveInvariant, PTL

\* What WSConnection promises of the frames, of the close frame, of the writer
\* and the reader, and of the deadline of a closing connection holds over TLS
\* as well.
THEOREM TLSConnectionCorrect ==
    TLSSpec => [](/\ WireInOrder /\ CloseIsLast /\ OneWriter /\ OneReader
                  /\ ClosingHasDeadline)
  <1>1. ASSUME Settled
        PROVE  /\ WireInOrder /\ CloseIsLast /\ OneWriter /\ OneReader
               /\ ClosingHasDeadline
    <2>1. IInv
      BY <1>1 DEF Settled
    <2>2. WireInOrder /\ CloseIsLast /\ OneWriter
      BY <2>1 DEF IInv, Inv, OrderInv, CloseInv, WriterInv, OneWriter
    <2> QED BY <2>1, <2>2, ReaderInvariant, DeadlineInvariant
  <1>2. ASSUME Securing
        PROVE  /\ WireInOrder /\ CloseIsLast /\ OneWriter /\ OneReader
               /\ ClosingHasDeadline
    <2>1. /\ m_state = "CONNECTING" /\ reads = 0 /\ writes = 0 /\ ~busy
          /\ wire = <<>>
      BY <1>2 DEF Securing, Untouched
    <2>2. Waiting("handle_read_frame") = {}
      <3>1. \A i \in DOMAIN ready : ready[i].h = "handle_init"
        <4> SUFFICES ASSUME NEW i \in DOMAIN ready
                     PROVE  ready[i].h = "handle_init"
          OBVIOUS
        <4>1. PICK ec \in {"ok", "error"} : ready = <<HandleInit(ec)>>
          BY <1>2 DEF Securing
        <4>2. ready[i] = HandleInit(ec)
          BY <4>1
        <4> QED BY <4>2 DEF HandleInit, Completion
      <3> QED BY <3>1 DEF Waiting
    <2>3. OneReader
      <3>1. 1..reads = {}
        BY <2>1
      <3> QED BY <2>1, <2>2, <3>1 DEF OneReader
    <2> QED BY <2>1, <2>3 DEF WireInOrder, CloseIsLast, OneWriter,
                              ClosingHasDeadline
  <1>3. TLSIInv => /\ WireInOrder /\ CloseIsLast /\ OneWriter /\ OneReader
                   /\ ClosingHasDeadline
    BY <1>1, <1>2 DEF TLSIInv
  <1> QED BY <1>3, TLSInductiveInvariant, PTL

\* A step that TLS takes is the step that it stands for, or none.
LEMMA SecuringStepIsPlain ==
    ASSUME Securing, TLSNext
    PROVE  [Plain!Next]_(Plain!vars)
  <1> USE DEF netvars, sockvars, outvars, invars, appvars,
              Plain!netvars, Plain!sockvars, Plain!outvars, Plain!invars,
              Plain!appvars
  <1>1. ASSUME UNCHANGED <<vars, tls>> PROVE UNCHANGED Plain!vars
    <2>1. UNCHANGED <<ready, tls, chain>>
      BY <1>1 DEF vars
    <2>2. PlainReady' = PlainReady /\ PlainChain' = PlainChain
      BY <2>1 DEF PlainReady, PlainChain, Secured
    <2> QED BY <1>1, <2>2 DEF vars, Plain!vars
  <1>2. ASSUME NEW ec \in {"ok", "error"}, HandshakeDone(ec), Securing'
        PROVE  UNCHANGED Plain!vars \/ Plain!WriteRequestDone("error")
    <2>1. /\ tls = "handshake" /\ ready = <<>> /\ Alive
          /\ PlainReady = <<>> /\ PlainChain = "write_request"
      BY <1>2, SecuringMaps DEF HandshakeDone, SecuringMapped
    <2>2. tls' = IF ec = "ok" THEN "completed" ELSE "failed"
      BY <1>2 DEF HandshakeDone
    <2>3. SecuringMapped'
      BY <1>2, SecuringMapsNext
    <2>4. CASE ec = "ok"
      <3>1. PlainReady' = <<>> /\ PlainChain' = "write_request"
        BY <2>2, <2>3, <2>4 DEF SecuringMapped
      <3> QED BY <1>2, <2>1, <3>1 DEF HandshakeDone, Plain!vars
    <2>5. CASE ec = "error"
      <3>1. /\ PlainReady' = <<Completion("handle_write_request", "error")>>
            /\ PlainChain' = "none"
        BY <2>2, <2>3, <2>5 DEF SecuringMapped
      <3>2. PlainReady' = Append(PlainReady, Completion("handle_write_request", "error"))
        <4> DEFINE x == Completion("handle_write_request", "error")
        <4>1. PlainReady' = <<x>> /\ PlainReady = <<>>
          BY <2>1, <3>1
        <4> HIDE DEF x
        <4>2. PlainReady' = Append(PlainReady, x)
          BY <4>1
        <4> QED BY <4>2 DEF x
      <3> QED BY <1>2, <2>1, <3>1, <3>2
              DEF HandshakeDone, Plain!WriteRequestDone, Plain!Alive, Alive,
                  Plain!Completion, Completion, Plain!NoMessage, NoMessage
    <2> QED BY <2>4, <2>5
  <1>3. ASSUME Settled', UNCHANGED tls, ready' = <<>>, HandleSocketInit
        PROVE  UNCHANGED Plain!vars
    <2>1. ready # <<>> /\ Head(ready).ec = "ok"
      BY <1>3 DEF HandleSocketInit, RunsOk, Runs
    <2>2. tls = "completed"
      BY <2>1, SecuringHead
    <2>3. PlainReady = <<>> /\ PlainChain = "write_request"
      BY <2>2, SecuringMaps DEF SecuringMapped
    <2>4. PlainReady' = <<>> /\ PlainChain' = "write_request"
      BY <1>3, SettledIsPlain DEF HandleSocketInit
    <2> QED BY <1>3, <2>3, <2>4 DEF HandleSocketInit, Plain!vars
  <1>4. ASSUME NEW cb \in Behaviours, Settled', UNCHANGED tls, ready' = <<>>,
               HandleSocketInitFails(cb)
        PROVE  Plain!HandshakeFails(cb)
    <2>1. ready # <<>> /\ Head(ready).ec = "error" /\ Alive /\ ~busy
          /\ Terminate(cb, Tail(ready)) /\ UNCHANGED <<netvars, outvars, invars>>
      BY <1>4 DEF HandleSocketInitFails, Runs
    <2>2. tls = "failed" /\ Tail(ready) = <<>>
      BY <2>1, SecuringHead
    <2>3. /\ PlainReady = <<Completion("handle_write_request", "error")>>
          /\ PlainChain = "none" /\ chain = "none"
      BY <2>2, SecuringMaps DEF SecuringMapped, Securing, Untouched
    <2>4. PlainReady' = ready' /\ PlainChain' = chain'
      BY <1>4, SettledIsPlain
    <2>5. Plain!Runs("handle_write_request") /\ Head(PlainReady).ec = "error"
          /\ Tail(PlainReady) = <<>>
      <3> DEFINE x == Completion("handle_write_request", "error")
      <3>1. x.h = "handle_write_request" /\ x.ec = "error"
        BY DEF Completion
      <3> HIDE DEF x
      <3>2. PlainReady = <<x>>
        BY <2>3 DEF x
      <3>3. Head(PlainReady) = x /\ Tail(PlainReady) = <<>> /\ PlainReady # <<>>
        BY <3>2
      <3> QED BY <2>1, <3>1, <3>3 DEF Plain!Runs, Plain!Alive, Alive
    <2>6. Plain!Terminate(cb, <<>>)
      BY <2>1, <2>2, <2>4
         DEF Terminate, Plain!Terminate, CallbackReady, Plain!CallbackReady,
             CallbackCalls, Plain!CallbackCalls, Sends, Plain!Sends,
             AppendIf, Plain!AppendIf, Completion, Plain!Completion,
             NoMessage, Plain!NoMessage, WriteMessage, Plain!WriteMessage
    <2> QED BY <2>1, <2>3, <2>4, <2>5, <2>6 DEF Plain!HandshakeFails
  <1>5. Plain!WriteRequestDone("error") => Plain!Next
    BY DEF Plain!Next, Plain!Network
  <1>6. \A cb \in Behaviours : Plain!HandshakeFails(cb) => Plain!Next
    BY DEF Plain!Next, Plain!ThreadStep, Plain!Ending
  <1> QED BY <1>1, <1>2, <1>3, <1>4, <1>5, <1>6, SecuringStep

\* The TLS handshake begins as the write of the request does.
LEMMA BeginsTLSIsPlain ==
    ASSUME Settled, StartHandshake
    PROVE  Plain!Next
  <1>1. PlainReady = ready /\ PlainChain = chain
    BY SettledIsPlain
  <1>2. tls' = "handshake" /\ Securing'
    BY BeginsTLS DEF StartHandshake
  <1>3. PlainReady' = <<>> /\ PlainChain' = "write_request" /\ ready' = <<>>
    BY <1>2, SecuringMapsNext DEF SecuringMapped
  <1>4. Plain!HandleConnect
    BY <1>1, <1>3
       DEF StartHandshake, Plain!HandleConnect, RunsOk, Plain!RunsOk,
           Runs, Plain!Runs, Alive, Plain!Alive, netvars, sockvars, outvars,
           invars, appvars, Plain!sockvars, Plain!outvars, Plain!invars,
           Plain!appvars
  <1> QED BY <1>4 DEF Plain!Next, Plain!ThreadStep, Plain!Thread

\* The connection of an https run is one of an http run, with a slow write of
\* the request for the TLS handshake, and slow handlers for the shutdown().
THEOREM TLSImplementsPlain == TLSSpec => ImplementsPlain
  <1>1. TLSInit => Plain!Init
    <2> SUFFICES ASSUME TLSInit PROVE Plain!Init
      OBVIOUS
    <2>1. PlainReady = ready /\ PlainChain = chain
      BY InitInv, SettledIsPlain DEF TLSInit, Settled
    <2> QED BY <2>1 DEF TLSInit, Init, Plain!Init
  <1>2. TLSIInv /\ [TLSNext]_<<vars, tlsvars>> => [Plain!Next]_(Plain!vars)
    <2> SUFFICES ASSUME TLSIInv, [TLSNext]_<<vars, tlsvars>>
                 PROVE  [Plain!Next]_(Plain!vars)
      OBVIOUS
    <2>1. ASSUME UNCHANGED <<vars, tls>> PROVE UNCHANGED Plain!vars
      <3> USE DEF netvars, sockvars, outvars, invars, appvars,
                  Plain!netvars, Plain!sockvars, Plain!outvars, Plain!invars,
                  Plain!appvars
      <3>1. UNCHANGED <<ready, tls, chain>>
        BY <2>1 DEF vars
      <3>2. PlainReady' = PlainReady /\ PlainChain' = PlainChain
        BY <3>1 DEF PlainReady, PlainChain, Secured
      <3> QED BY <2>1, <3>2 DEF vars, Plain!vars
    <2>2. CASE Settled /\ TLSNext
      <3>1. ASSUME Next, Settled' PROVE Plain!Next
        <4>1. PlainReady = ready /\ PlainChain = chain
          BY <2>2, SettledIsPlain
        <4>2. PlainReady' = ready' /\ PlainChain' = chain'
          BY <3>1, SettledIsPlain
        <4> QED BY <3>1, <4>1, <4>2, SettledStepIsPlain
      <3>2. StartHandshake => Plain!Next
        BY <2>2, BeginsTLSIsPlain
      <3> QED BY <2>1, <2>2, <3>1, <3>2, SettledStep
    <2>3. CASE Securing /\ TLSNext
      BY <2>3, SecuringStepIsPlain
    <2>4. CASE UNCHANGED <<vars, tlsvars>>
      BY <2>1, <2>4 DEF tlsvars
    <2> QED BY <2>2, <2>3, <2>4 DEF TLSIInv
  <1> QED BY <1>1, <1>2, TLSInductiveInvariant, PTL
          DEF TLSSpec, ImplementsPlain, Plain!Spec

=============================================================================
