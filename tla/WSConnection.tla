---------------------------- MODULE WSConnection ----------------------------
(***************************************************************************)
(* The client side of one WebSocket++ connection and the io_service that   *)
(* runs it: src/parts/websocketpp/src/connection.hpp, roles/client.hpp and *)
(* sockets/plain.hpp.                                                      *)
(*                                                                         *)
(* One thread runs io_service::run().  It takes the completion handlers of *)
(* `ready' in FIFO order (the strand changes nothing with one thread) and  *)
(* runs each to its end before the next; handle_read_frame is the only     *)
(* one that is split, one step per piece of input it consumes.  Between    *)
(* any two steps the network may complete an outstanding operation and a   *)
(* timer may expire, which appends a handler to `ready'.                   *)
(*                                                                         *)
(* The user's handler object is a parameter: every callback is a record    *)
(* that says what it does to the connection and to its own deadline timer, *)
(* and any record of Behaviours is possible at any callback.  A module     *)
(* about a particular handler says which one it is.                        *)
(***************************************************************************)
EXTENDS Integers, Sequences

CONSTANTS
    Text,        \* the texts the handler may pass to send()
    NoText,      \* the text of a message that carries none
    MaxPieces,   \* bound: pieces of input the peer ever delivers
    MaxChunk,    \* bound: pieces one read may deliver
    MaxPosted,   \* bound: messages submitted when the handler's timer expires
                 \* before the connection is closed
    Behaviours   \* what the callbacks of the handler may do

ASSUME TextAssumption == NoText \notin Text
ASSUME BoundsAssumption ==
    MaxPieces \in Nat /\ MaxChunk \in Nat /\ MaxPosted \in Nat

VARIABLES
    proc,          \* the process: running, or how it ended
    ready,         \* completion handlers io_service::run() has still to run
    busy,          \* TRUE inside the loop of handle_read_frame
    chain,         \* the outstanding operation of the opening handshake
    reads,         \* outstanding async_reads of frame data
    writes,        \* outstanding async_writes of frames
    app_timer,     \* the handler's deadline_timer has a wait outstanding
    m_state,       \* session::state of the connection
    m_detached,    \* the endpoint has forgotten the connection
    m_timer,       \* the close timer has a wait outstanding
    m_write_state, \* IDLE or WRITING
    m_write_queue, \* messages to write, the one being written first
    m_buf,         \* pieces of input read and not consumed
    processor,     \* what the frame processor expects next
    posted,        \* history: messages submitted for writing
    wire,          \* history: frames written completely, in order
    received,      \* history: pieces of input delivered
    ended          \* history: calls of on_fail and on_close

netvars  == <<chain, reads, writes>>
sockvars == <<m_state, m_detached, m_timer, ended>>
outvars  == <<m_write_state, m_write_queue, wire>>
invars   == <<busy, m_buf, processor, received>>
appvars  == <<proc, app_timer, posted>>
vars     == <<ready, netvars, sockvars, outvars, invars, appvars>>

-----------------------------------------------------------------------------
(* Data.                                                                   *)

CloseOps == {"CLOSE_NORMAL", "CLOSE_VIOLATION", "CLOSE_ACK"}
Ops      == {"NONE", "TEXT", "PONG"} \cup CloseOps

\* A prepared frame: its opcode (a close frame with the reason it is sent
\* for), its text, and its place among the messages submitted.
Message == [op : Ops, text : Text \cup {NoText}, n : Nat]
NoMessage == [op |-> "NONE", text |-> NoText, n |-> 0]

Errors == {"ok", "error", "unknown", "reset", "aborted"}

HandlerNames ==
    {"handle_connect", "handle_write_request", "handle_read_response",
     "handle_read_frame", "write_message", "handle_write",
     "send_close", "terminate", "fail_on_expire", "app_timer"}

\* A completion handler with the arguments bound to it.
Handlers == [h : HandlerNames, ec : Errors, msg : Message]

Completion(h, ec) == [h |-> h, ec |-> ec, msg |-> NoMessage]
WriteMessage(op, text, n) ==
    [h |-> "write_message", ec |-> "ok",
     msg |-> [op |-> op, text |-> text, n |-> n]]

\* What a callback of the user's handler does: the one call it makes on the
\* connection, what it does to its own timer before that, and whether it
\* leaves by exit(1) or an exception that main() turns into status 1.
Callbacks == [call : {"none", "close"}, text : {NoText},
              timer : {"keep", "rearm", "cancel"}, dies : BOOLEAN]
             \cup
             [call : {"send"}, text : Text,
              timer : {"keep", "rearm", "cancel"}, dies : BOOLEAN]

ASSUME BehavioursAssumption == Behaviours \subseteq Callbacks

AppendIf(c, s, x) == IF c THEN Append(s, x) ELSE s

-----------------------------------------------------------------------------
(* connection::send and connection::close as callbacks reach them, and the *)
(* handler's timer.  rdy is `ready' as the calling handler has left it, st *)
(* the connection's state at the time of the call.                         *)

Sends(cb, st) == st = "OPEN" /\ cb.call = "send"

CallbackReady(cb, rdy, st) ==
    LET cancelled == AppendIf(app_timer /\ cb.timer # "keep", rdy,
                              Completion("app_timer", "aborted"))
        sent == AppendIf(Sends(cb, st), cancelled,
                         WriteMessage("TEXT", cb.text, posted + 1))
        closed == AppendIf(st = "OPEN" /\ cb.call = "close", sent,
                           Completion("send_close", "ok"))
    IN  AppendIf(st = "CONNECTING" /\ ~m_detached /\ cb.call = "close", closed,
                 Completion("terminate", "ok"))

CallbackCalls(cb, st) ==
    /\ posted' = IF Sends(cb, st) THEN posted + 1 ELSE posted
    /\ app_timer' = IF cb.timer = "keep" THEN app_timer
                    ELSE cb.timer = "rearm"

CallbackEffects(cb, st) ==
    /\ CallbackCalls(cb, st)
    /\ proc' = IF cb.dies THEN "handler" ELSE proc

\* Wrong variant: terminate() without its early return.
TerminateTwice(cb, rdy) ==
    /\ m_timer' = FALSE /\ m_state' = "CLOSED"
    /\ ended' = ended + 1 /\ m_detached' = TRUE
    /\ ready' = CallbackReady(cb, rdy, "CLOSED")
    /\ CallbackEffects(cb, "CLOSED")

\* terminate(): cb is on_fail for a connection that never opened, on_close
\* otherwise.  log_close_result() throws if the endpoint has given up the
\* connection before.
Terminate(cb, rdy) ==
    IF m_state = "CLOSED"
    THEN ready' = rdy /\ UNCHANGED <<sockvars, appvars>>
    ELSE /\ m_timer' = FALSE
         /\ m_state' = "CLOSED"
         /\ ended' = ended + 1
         /\ m_detached' = TRUE
         /\ ready' = CallbackReady(cb,
                         AppendIf(m_timer, rdy,
                                  Completion("fail_on_expire", "aborted")),
                         "CLOSED")
         /\ CallbackCalls(cb, "CLOSED")
         /\ proc' = CASE cb.dies                -> "handler"
                      [] ~cb.dies /\ m_detached -> "log_close_result"
                      [] OTHER                  -> proc

\* Wrong variant: send_close() that starts no timer.
SendCloseNoTimer(op, rdy) ==
    IF m_detached \/ m_state # "OPEN"
    THEN ready' = rdy /\ UNCHANGED <<m_state, m_timer, posted>>
    ELSE /\ m_state' = "CLOSING" /\ m_timer' = m_timer
         /\ posted' = posted + 1
         /\ ready' = Append(rdy, WriteMessage(op, NoText, posted + 1))

\* send_close(), called directly by the read loop or posted by close().
SendClose(op, rdy) ==
    IF m_detached \/ m_state # "OPEN"
    THEN ready' = rdy /\ UNCHANGED <<m_state, m_timer, posted>>
    ELSE /\ m_state' = "CLOSING"
         /\ m_timer' = TRUE
         /\ posted' = posted + 1
         /\ ready' = Append(rdy, WriteMessage(op, NoText, posted + 1))

\* Wrong variant: write() that does not look whether a write is under way.
WriteAnyway(queue, state) ==
    IF queue # <<>>
    THEN m_write_state' = "WRITING" /\ writes' = writes + 1
    ELSE m_write_state' = state /\ writes' = writes

\* write(): start on the front of the queue if no write is under way.
Write(queue, state) ==
    IF state = "IDLE" /\ queue # <<>>
    THEN m_write_state' = "WRITING" /\ writes' = writes + 1
    ELSE m_write_state' = state /\ writes' = writes

-----------------------------------------------------------------------------
(* The network and the timers.                                             *)

Alive == proc = "running"

\* The operation of the opening handshake completes.
ConnectDone(ec) ==
    /\ Alive /\ chain = "connect"
    /\ chain' = "none"
    /\ ready' = Append(ready, Completion("handle_connect", ec))
    /\ UNCHANGED <<reads, writes, sockvars, outvars, invars, appvars>>

WriteRequestDone(ec) ==
    /\ Alive /\ chain = "write_request"
    /\ chain' = "none"
    /\ ready' = Append(ready, Completion("handle_write_request", ec))
    /\ UNCHANGED <<reads, writes, sockvars, outvars, invars, appvars>>

\* "unknown" stands for a response that is not the upgrade asked for, "reset"
\* for an upgrade after which the peer resets the connection at once.  The read
\* goes up to the blank line and may bring some frame data with it.
ReadResponseDone(ec, k) ==
    /\ Alive /\ chain = "read_response"
    /\ received + k <= MaxPieces
    /\ chain' = "none"
    /\ m_buf' = m_buf + k /\ received' = received + k
    /\ ready' = Append(ready, Completion("handle_read_response", ec))
    /\ UNCHANGED <<reads, writes, sockvars, outvars, busy, processor, appvars>>

\* A read of frame data completes with k pieces of input, or fails.
ReadDone(k) ==
    /\ Alive /\ reads > 0
    /\ received + k <= MaxPieces
    /\ reads' = reads - 1
    /\ m_buf' = m_buf + k /\ received' = received + k
    /\ ready' = Append(ready, Completion("handle_read_frame", "ok"))
    /\ UNCHANGED <<chain, writes, sockvars, outvars, busy, processor, appvars>>

ReadFail ==
    /\ Alive /\ reads > 0
    /\ reads' = reads - 1
    /\ ready' = Append(ready, Completion("handle_read_frame", "error"))
    /\ UNCHANGED <<chain, writes, sockvars, outvars, invars, appvars>>

\* The frame at the front of the queue is written; not after the shutdown of
\* the socket, when the write can only fail.
WriteDone ==
    /\ Alive /\ writes > 0 /\ m_state # "CLOSED"
    /\ writes' = writes - 1
    /\ wire' = Append(wire, Head(m_write_queue))
    /\ ready' = Append(ready, Completion("handle_write", "ok"))
    /\ UNCHANGED <<chain, reads, sockvars, m_write_state, m_write_queue,
                   invars, appvars>>

WriteFail ==
    /\ Alive /\ writes > 0
    /\ writes' = writes - 1
    /\ ready' = Append(ready, Completion("handle_write", "error"))
    /\ UNCHANGED <<chain, reads, sockvars, outvars, invars, appvars>>

\* One second after send_close().
CloseTimerExpires ==
    /\ Alive /\ m_timer
    /\ m_timer' = FALSE
    /\ ready' = Append(ready, Completion("fail_on_expire", "ok"))
    /\ UNCHANGED <<netvars, m_state, m_detached, ended, outvars, invars,
                   appvars>>

AppTimerExpires ==
    /\ Alive /\ app_timer
    /\ m_state # "CLOSED" => posted < MaxPosted
    /\ app_timer' = FALSE
    /\ ready' = Append(ready, Completion("app_timer", "ok"))
    /\ UNCHANGED <<netvars, sockvars, outvars, invars, proc, posted>>

Network ==
    \/ \E ec \in {"ok", "error", "unknown"} : ConnectDone(ec)
    \/ \E ec \in {"ok", "error"} : WriteRequestDone(ec)
    \/ \E ec \in {"ok", "error", "unknown", "reset"}, k \in 0..MaxChunk :
           ReadResponseDone(ec, k)
    \/ \E k \in 1..MaxChunk : ReadDone(k)
    \/ ReadFail \/ WriteDone \/ WriteFail

Timers == CloseTimerExpires \/ AppTimerExpires

-----------------------------------------------------------------------------
(* The opening handshake.                                                  *)

\* The thread runs the handler at the front of `ready'.
Runs(h) == Alive /\ ~busy /\ ready # <<>> /\ Head(ready).h = h
RunsOk(h) == Runs(h) /\ Head(ready).ec = "ok"

\* start() and, through handle_socket_init(), write_request(): the plain
\* socket needs no initialisation of its own.
HandleConnect ==
    /\ RunsOk("handle_connect")
    /\ ready' = Tail(ready)
    /\ chain' = "write_request"
    /\ UNCHANGED <<reads, writes, sockvars, outvars, invars, appvars>>

\* An error the code lists: on_fail() and remove_connection().
HandleConnectFails(cb) ==
    /\ Runs("handle_connect") /\ Head(ready).ec = "error"
    /\ ready' = CallbackReady(cb, Tail(ready), m_state)
    /\ CallbackEffects(cb, m_state)
    /\ ended' = ended + 1
    /\ m_detached' = TRUE
    /\ UNCHANGED <<netvars, m_state, m_timer, outvars, invars>>

\* Any other error: throw "client error", which nothing catches.
HandleConnectThrows ==
    /\ Runs("handle_connect") /\ Head(ready).ec = "unknown"
    /\ ready' = Tail(ready)
    /\ proc' = "client_error"
    /\ UNCHANGED <<netvars, sockvars, outvars, invars, app_timer, posted>>

HandleWriteRequest ==
    /\ RunsOk("handle_write_request")
    /\ ready' = Tail(ready)
    /\ chain' = "read_response"
    /\ UNCHANGED <<reads, writes, sockvars, outvars, invars, appvars>>

\* handle_write_request() and handle_read_response() given an error.
HandshakeFails(cb) ==
    /\ Runs("handle_write_request") \/ Runs("handle_read_response")
    /\ Head(ready).ec = "error"
    /\ Terminate(cb, Tail(ready))
    /\ UNCHANGED <<netvars, outvars, invars>>

\* The upgrade: on_open(), then the first handle_read_frame() is posted.
HandleReadResponse(cb) ==
    /\ RunsOk("handle_read_response")
    /\ m_state' = "OPEN"
    /\ ready' = Append(CallbackReady(cb, Tail(ready), "OPEN"),
                       Completion("handle_read_frame", "ok"))
    /\ CallbackEffects(cb, "OPEN")
    /\ UNCHANGED <<netvars, m_detached, m_timer, ended, outvars, invars>>

\* log_open_result() asks for the address of the peer, which throws when the
\* peer has reset the connection in the meantime; nothing catches that.
HandleReadResponseThrows ==
    /\ Runs("handle_read_response") /\ Head(ready).ec = "reset"
    /\ ready' = Tail(ready)
    /\ proc' = "log_open_result"
    /\ UNCHANGED <<netvars, sockvars, outvars, invars, app_timer, posted>>

\* Not the upgrade asked for: it is logged and nothing else happens.
HandleReadResponseRefuses ==
    /\ Runs("handle_read_response") /\ Head(ready).ec = "unknown"
    /\ ready' = Tail(ready)
    /\ UNCHANGED <<netvars, sockvars, outvars, invars, appvars>>

-----------------------------------------------------------------------------
(* handle_read_frame().                                                    *)

HandleReadFrame ==
    /\ RunsOk("handle_read_frame")
    /\ ready' = Tail(ready)
    /\ busy' = (m_state \in {"OPEN", "CLOSING"})
    /\ UNCHANGED <<netvars, sockvars, outvars, m_buf, processor, received,
                   appvars>>

HandleReadFrameError(cb) ==
    /\ Runs("handle_read_frame") /\ Head(ready).ec = "error"
    /\ IF m_state = "CONNECTING"
       THEN ready' = Tail(ready) /\ UNCHANGED <<sockvars, appvars>>
       ELSE Terminate(cb, Tail(ready))
    /\ UNCHANGED <<netvars, outvars, invars>>

\* Wrong variant: no read in the middle of a message.
ReadOnBetweenMessages(state, expects) ==
    /\ busy' = FALSE
    /\ reads' = IF state # "CLOSED" /\ expects = "header"
                THEN reads + 1 ELSE reads

\* The end of the loop: read on unless the processor asks for no bytes.
ReadOn(state, expects) ==
    /\ busy' = FALSE
    /\ reads' = IF state # "CLOSED" /\ expects # "nothing"
                THEN reads + 1 ELSE reads

ReadLoopEnds ==
    /\ Alive /\ busy
    /\ m_state = "CLOSED" \/ m_buf = 0
    /\ ReadOn(m_state, processor)
    /\ UNCHANGED <<ready, chain, writes, sockvars, outvars, m_buf, processor,
                   received, appvars>>

\* Wrong variant: the loop does not look whether m_buf is empty.
ConsumesAnyway(states) ==
    /\ Alive /\ busy /\ m_state # "CLOSED"
    /\ processor \in states
    /\ m_buf' = m_buf - 1
    /\ received' = received

\* m_processor->consume() turns the next piece of input into something the
\* processor can make of it in its present state.
Consumes(states) ==
    /\ Alive /\ busy
    /\ m_state # "CLOSED" /\ m_buf > 0
    /\ processor \in states
    /\ m_buf' = m_buf - 1
    /\ received' = received

\* The header of a new data message: get_data_message() throws unless OPEN,
\* and what it throws is no processor::exception.
ConsumeHeader ==
    /\ Consumes({"header"})
    /\ IF m_state = "OPEN" /\ ~m_detached
       THEN processor' = "payload" /\ UNCHANGED proc
       ELSE proc' = "get_data_message" /\ UNCHANGED processor
    /\ UNCHANGED <<ready, netvars, sockvars, outvars, busy, app_timer, posted>>

\* The last byte of a data message: process_data(), on_message().
ConsumePayload(cb) ==
    /\ Consumes({"payload"})
    /\ processor' = "header"
    /\ ready' = CallbackReady(cb, ready, m_state)
    /\ CallbackEffects(cb, m_state)
    /\ UNCHANGED <<netvars, sockvars, outvars, busy>>

\* Control frames, which may come between the fragments of a message.
ConsumePing ==
    /\ Consumes({"header", "payload"})
    /\ IF m_state = "OPEN" /\ ~m_detached
       THEN /\ posted' = posted + 1
            /\ ready' = Append(ready, WriteMessage("PONG", NoText, posted + 1))
       ELSE UNCHANGED <<posted, ready>>
    /\ UNCHANGED <<netvars, sockvars, outvars, busy, processor, proc,
                   app_timer>>

ConsumePong ==
    /\ Consumes({"header", "payload"})
    /\ UNCHANGED <<ready, netvars, sockvars, outvars, busy, processor, appvars>>

\* The peer initiates the close: send_close_ack() leaves the state OPEN.
ConsumeClose ==
    /\ Consumes({"header", "payload"})
    /\ m_state = "OPEN"
    /\ posted' = posted + 1
    /\ ready' = Append(ready, WriteMessage("CLOSE_ACK", NoText, posted + 1))
    /\ UNCHANGED <<netvars, sockvars, outvars, busy, processor, proc,
                   app_timer>>

ConsumeCloseAck(cb) ==
    /\ Consumes({"header", "payload"})
    /\ m_state = "CLOSING"
    /\ Terminate(cb, ready)
    /\ UNCHANGED <<netvars, outvars, busy, processor>>

\* A processor::exception: send_close() and out of the loop.  A bad header is
\* dropped; bytes of a bad payload go on being rejected; a message found bad
\* at its end leaves the processor asking for no more bytes.
ConsumeViolation(expects) ==
    /\ \/ Consumes({"header", "payload"}) /\ expects \in {processor, "nothing"}
       \/ Consumes({"payload", "rejected"}) /\ expects = "rejected"
    /\ processor' = expects
    /\ SendClose("CLOSE_VIOLATION", ready)
    /\ ReadOn(m_state', expects)
    /\ UNCHANGED <<chain, writes, m_detached, ended, outvars, proc, app_timer>>

-----------------------------------------------------------------------------
(* Writing.                                                                *)

\* Wrong variant: a message is dropped while another one is written.
HandleWriteMessageIfIdle ==
    /\ Runs("write_message")
    /\ ready' = Tail(ready)
    /\ IF m_state \in {"OPEN", "CLOSING"} /\ m_write_state = "IDLE"
       THEN /\ m_write_queue' = Append(m_write_queue, Head(ready).msg)
            /\ Write(m_write_queue', m_write_state)
       ELSE UNCHANGED <<m_write_queue, m_write_state, writes>>
    /\ UNCHANGED <<chain, reads, sockvars, wire, invars, appvars>>

HandleWriteMessage ==
    /\ Runs("write_message")
    /\ ready' = Tail(ready)
    /\ IF m_state \in {"OPEN", "CLOSING"}
       THEN /\ m_write_queue' = Append(m_write_queue, Head(ready).msg)
            /\ Write(m_write_queue', m_write_state)
       ELSE UNCHANGED <<m_write_queue, m_write_state, writes>>
    /\ UNCHANGED <<chain, reads, sockvars, wire, invars, appvars>>

\* Wrong variant: on to the next frame after a close frame too.
HandleWriteAny ==
    /\ RunsOk("handle_write") /\ m_write_queue # <<>>
    /\ ready' = Tail(ready)
    /\ m_write_queue' = Tail(m_write_queue)
    /\ Write(m_write_queue', "IDLE")
    /\ UNCHANGED <<chain, reads, sockvars, wire, invars, appvars>>

\* A frame other than a close frame has been written: on to the next one.
HandleWrite ==
    /\ RunsOk("handle_write")
    /\ m_write_queue # <<>> => Head(m_write_queue).op \notin CloseOps
    /\ ready' = Tail(ready)
    /\ IF m_write_queue = <<>>
       THEN UNCHANGED <<m_write_queue, m_write_state, writes>>
       ELSE /\ m_write_queue' = Tail(m_write_queue)
            /\ IF m_state \in {"OPEN", "CLOSING"}
               THEN Write(m_write_queue', "IDLE")
               ELSE m_write_state' = "IDLE" /\ writes' = writes
    /\ UNCHANGED <<chain, reads, sockvars, wire, invars, appvars>>

\* A close frame, ours or the acknowledgement, has been written.
HandleWriteClose(cb) ==
    /\ RunsOk("handle_write")
    /\ m_write_queue # <<>> /\ Head(m_write_queue).op \in CloseOps
    /\ m_write_queue' = Tail(m_write_queue)
    /\ m_write_state' = "IDLE"
    /\ Terminate(cb, Tail(ready))
    /\ UNCHANGED <<netvars, wire, invars>>

\* The write failed: log_error(), which throws once the connection is
\* detached, then terminate().
HandleWriteError(cb) ==
    /\ Runs("handle_write") /\ Head(ready).ec = "error"
    /\ IF m_detached
       THEN /\ proc' = "log_error"
            /\ ready' = Tail(ready)
            /\ UNCHANGED <<sockvars, app_timer, posted>>
       ELSE Terminate(cb, Tail(ready))
    /\ UNCHANGED <<netvars, outvars, invars>>

-----------------------------------------------------------------------------
(* Closing, the handler's timer and the end of the process.                *)

HandleSendClose ==
    /\ Runs("send_close")
    /\ SendClose("CLOSE_NORMAL", Tail(ready))
    /\ UNCHANGED <<netvars, m_detached, ended, outvars, invars, proc,
                   app_timer>>

\* Posted by close() when the connection never opened.
HandleTerminate(cb) ==
    /\ Runs("terminate")
    /\ Terminate(cb, Tail(ready))
    /\ UNCHANGED <<netvars, outvars, invars>>

\* Wrong variant: the expiry is dropped while a write is outstanding.
FailOnExpireIfIdle(cb) ==
    /\ RunsOk("fail_on_expire")
    /\ IF writes = 0 THEN Terminate(cb, Tail(ready))
       ELSE ready' = Tail(ready) /\ UNCHANGED <<sockvars, appvars>>
    /\ UNCHANGED <<netvars, outvars, invars>>

FailOnExpire(cb) ==
    /\ RunsOk("fail_on_expire")
    /\ Terminate(cb, Tail(ready))
    /\ UNCHANGED <<netvars, outvars, invars>>

\* A cancelled wait of either timer.
HandleAborted ==
    /\ Runs("fail_on_expire") \/ Runs("app_timer")
    /\ Head(ready).ec = "aborted"
    /\ ready' = Tail(ready)
    /\ UNCHANGED <<netvars, sockvars, outvars, invars, appvars>>

HandleAppTimer(cb) ==
    /\ RunsOk("app_timer")
    /\ ready' = CallbackReady(cb, Tail(ready), m_state)
    /\ CallbackEffects(cb, m_state)
    /\ UNCHANGED <<netvars, sockvars, outvars, invars>>

\* io_service::run() returns when nothing is outstanding, and main() with it.
NoWork == /\ ready = <<>> /\ ~busy
          /\ chain = "none" /\ reads = 0 /\ writes = 0
          /\ ~m_timer /\ ~app_timer

RunReturns ==
    /\ Alive /\ NoWork
    /\ proc' = "returned"
    /\ UNCHANGED <<ready, netvars, sockvars, outvars, invars, app_timer,
                   posted>>

Ended == ~Alive /\ UNCHANGED vars

-----------------------------------------------------------------------------

Init ==
    /\ proc = "running" /\ ready = <<>> /\ busy = FALSE
    /\ chain = "connect" /\ reads = 0 /\ writes = 0
    /\ app_timer = FALSE /\ posted = 0
    /\ m_state = "CONNECTING" /\ m_detached = FALSE /\ m_timer = FALSE
    /\ ended = 0
    /\ m_write_state = "IDLE" /\ m_write_queue = <<>> /\ wire = <<>>
    /\ m_buf = 0 /\ processor = "header" /\ received = 0

\* The steps of the thread that call no method of the user's handler.
Thread ==
    \/ HandleConnect \/ HandleConnectThrows
    \/ HandleWriteRequest
    \/ HandleReadResponseThrows \/ HandleReadResponseRefuses
    \/ HandleReadFrame \/ ReadLoopEnds
    \/ ConsumeHeader \/ ConsumePing \/ ConsumePong \/ ConsumeClose
    \/ \E expects \in {"header", "payload", "rejected", "nothing"} :
           ConsumeViolation(expects)
    \/ HandleWriteMessage \/ HandleWrite
    \/ HandleSendClose \/ HandleAborted
    \/ RunReturns

\* The steps that call on_fail() or on_close().
Ending(cb) ==
    \/ HandleConnectFails(cb) \/ HandshakeFails(cb)
    \/ HandleReadFrameError(cb) \/ ConsumeCloseAck(cb)
    \/ HandleWriteClose(cb) \/ HandleWriteError(cb)
    \/ HandleTerminate(cb) \/ FailOnExpire(cb)

\* The steps that call on_open(), on_message() or the timer's callback.
Calling(cb) ==
    \/ HandleReadResponse(cb)
    \/ ConsumePayload(cb)
    \/ HandleAppTimer(cb)

ThreadStep == Thread \/ \E cb \in Behaviours : Ending(cb) \/ Calling(cb)

Next == ThreadStep \/ Network \/ Timers \/ Ended

Spec == Init /\ [][Next]_vars

\* The thread runs, timers expire, and operations on a socket that has been
\* shut down complete.  Nothing is assumed of the peer.
Fairness ==
    /\ WF_vars(ThreadStep)
    /\ WF_vars(CloseTimerExpires)
    /\ WF_vars(m_state = "CLOSED" /\ ReadFail)
    /\ WF_vars(m_state = "CLOSED" /\ WriteFail)

FairSpec == Spec /\ Fairness

-----------------------------------------------------------------------------
(* Properties.                                                             *)

TypeOK ==
    /\ proc \in {"running", "returned", "handler", "client_error",
                 "log_open_result", "get_data_message", "log_error",
                 "log_close_result"}
    /\ ready \in Seq(Handlers)
    /\ busy \in BOOLEAN
    /\ chain \in {"connect", "write_request", "read_response", "none"}
    /\ reads \in Nat /\ writes \in Nat
    /\ app_timer \in BOOLEAN
    /\ m_state \in {"CONNECTING", "OPEN", "CLOSING", "CLOSED"}
    /\ m_detached \in BOOLEAN /\ m_timer \in BOOLEAN
    /\ m_write_state \in {"IDLE", "WRITING"}
    /\ m_write_queue \in Seq(Message)
    /\ m_buf \in Nat
    /\ processor \in {"header", "payload", "rejected", "nothing"}
    /\ posted \in Nat /\ received \in Nat /\ ended \in Nat
    /\ wire \in Seq(Message)

\* How many handlers called h wait in `ready'.
Waiting(h) == {i \in DOMAIN ready : ready[i].h = h}

\* The wire carries the messages in the order they were submitted with
\* send(), pong(), send_close() and send_close_ack(), none twice and none
\* skipped: the posts, the write queue and the writer lose no frame.
WireInOrder == \A i \in DOMAIN wire : wire[i].n = i

\* A close frame is the last frame on the wire, and there is at most one,
\* although a close() of ours may cross any number of closes of the peer.
CloseIsLast ==
    \A i \in DOMAIN wire : wire[i].op \in CloseOps => i = Len(wire)

\* At most one async_write is outstanding, and its frame is still at the
\* front of the queue: m_write_buf points into that frame.
OneWriter ==
    /\ writes <= 1
    /\ writes = 1 => m_write_state = "WRITING" /\ m_write_queue # <<>>

\* An open connection always has exactly one reader: a read outstanding, its
\* handler waiting, or the loop of handle_read_frame running.
OneReader ==
    LET readers == {"outstanding"} \X (1..reads)
                   \cup {"waiting"} \X Waiting("handle_read_frame")
                   \cup {"running"} \X (IF busy THEN {1} ELSE {})
    IN  /\ \A r1, r2 \in readers : r1 = r2
        /\ Alive /\ m_state = "OPEN" => readers # {}

\* A closing connection has its deadline: the close timer runs, or its
\* expiry waits to be handled.
ClosingHasDeadline ==
    Alive /\ m_state = "CLOSING" =>
        m_timer \/ \E i \in DOMAIN ready :
                       ready[i].h = "fail_on_expire" /\ ready[i].ec = "ok"

\* A connection that starts to close is closed, whatever the peer does.
ClosingEnds == m_state = "CLOSING" ~> (m_state = "CLOSED" \/ ~Alive)

=============================================================================
