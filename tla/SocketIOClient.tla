--------------------------- MODULE SocketIOClient ---------------------------
(***************************************************************************)
(* One run of `websocketclient': main() of src/src/websocketclient.cpp,    *)
(* the handler object of src/src/socketio/SocketIOHandler.hpp and the      *)
(* script of src/src/sequence/ActionSequence.cpp, on top of the connection *)
(* of WSConnection.  Every action is a step of the connection with the     *)
(* callback this handler makes of it, together with what the callback does *)
(* to the handler's own state, so that every behaviour is, between         *)
(* endpoint.run() and its end, a behaviour of WSConnection.                *)
(*                                                                         *)
(* The script is given by the kind of each of its items:                   *)
(*   "plain"        a text with nothing to replace                         *)
(*   "placeholder"  a text with %1%                                        *)
(*   "badformat"    a text boost::format refuses                           *)
(*   "stop"         the text "stop"                                        *)
(*   "nottext"      an array or object, which asString() refuses           *)
(* A text on the wire is named by the item it comes from: item k is the    *)
(* number k, "2::" is Heartbeat, and the text "stop" that nextAction()     *)
(* makes up when no item is left is Stop.                                  *)
(***************************************************************************)
EXTENDS Integers, Sequences, FiniteSets

CONSTANTS Script, SessionIds, MaxPieces, MaxChunk, MaxPosted

ItemKinds == {"plain", "placeholder", "badformat", "stop", "nottext"}

ASSUME ScriptAssumption == Script \in Seq(ItemKinds)

\* The session id of a handler that has not found one.
NoId == ""

ASSUME SessionAssumption == SessionIds \cap {NoId, "bad", "-"} = {}
ASSUME ClientBoundsAssumption ==
    MaxPieces \in Nat /\ MaxChunk \in Nat /\ MaxPosted \in Nat

N         == Len(Script)
Heartbeat == 0
Stop      == N + 1
NoText    == -1
Texts     == 0..(N + 1)

\* What the callbacks below can be, taken together.
HandlerCallbacks ==
    [call : {"none", "close"}, text : {NoText},
     timer : {"keep", "rearm", "cancel"}, dies : BOOLEAN]
    \cup
    [call : {"send"}, text : Texts,
     timer : {"keep", "rearm", "cancel"}, dies : BOOLEAN]

VARIABLES
    proc, ready, busy, chain, reads, writes, app_timer,
    m_state, m_detached, m_timer, m_write_state, m_write_queue,
    m_buf, processor, posted, wire, received, ended,
    main,          \* where main() is
    status,        \* the exit status of the process; 1 is any but 0
    lastIndex,     \* ActionSequence::_lastIndex
    sessionid,     \* SocketIOHandler::sessionid
    formatted      \* history: the session id put into each item sent

C == INSTANCE WSConnection
         WITH Text <- Texts, Behaviours <- HandlerCallbacks

connvars    == <<proc, ready, busy, chain, reads, writes, app_timer,
                 m_state, m_detached, m_timer, m_write_state, m_write_queue,
                 m_buf, processor, posted, wire, received, ended>>
handlervars == <<lastIndex, sessionid, formatted>>
mainvars    == <<main, status>>
vars        == <<connvars, handlervars, mainvars>>

-----------------------------------------------------------------------------
(* ActionSequence.                                                         *)

HasNext == lastIndex < N
Next1   == lastIndex + 1
Kind(k) == Script[k]

\* nextAction() leaves by an exception on an item that is no text.
NextActionThrows == HasNext /\ Kind(Next1) = "nottext"

\* What nextAction() returns: an item, or the text "stop".
NextAction == IF HasNext THEN Next1 ELSE Stop

\* Wrong variant: the item before the end is taken for the end.
IsStopEarly(t) == t = Stop \/ (t \in 1..N /\ (t = N \/ Kind(t + 1) = "stop"))

IsStop(t) == t = Stop \/ (t \in 1..N /\ Kind(t) = "stop")

\* Wrong variant: the index never moves.
AdvanceNot == UNCHANGED lastIndex

Advance == lastIndex' = IF HasNext THEN lastIndex + 1 ELSE lastIndex

-----------------------------------------------------------------------------
(* The callbacks of SocketIOHandler.                                       *)

Callback(call, text, timer, dies) ==
    [call |-> call, text |-> text, timer |-> timer, dies |-> dies]

OnFail  == Callback("none", NoText, "keep", TRUE)

\* Wrong variant: on_close() that leaves the timer armed.
OnCloseKeeping == Callback("none", NoText, "keep", FALSE)

OnClose == Callback("none", NoText, "cancel", FALSE)

\* What terminate() calls in the present state.
OnEnd == IF m_state = "CONNECTING" THEN OnFail ELSE OnClose

\* on_open(): a new timer is armed, the first action sent as it is.
OnOpen == IF NextActionThrows
          THEN Callback("none", NoText, "rearm", TRUE)
          ELSE Callback("send", NextAction, "rearm", FALSE)

\* on_message(): heartbeats are answered and other texts ignored; an event,
\* "5::", is taken as the answer to the last action and asks for the next.
HeartbeatReply == Callback("send", Heartbeat, "rearm", FALSE)
Ignore         == Callback("none", NoText, "rearm", FALSE)

\* The answer carries id, NoId if _parse_session_id() finds none; "bad" is
\* an answer on which it throws or stops at an assertion.
Answers == SessionIds \cup {NoId, "bad"}

\* Wrong variant: every answer replaces the session id.
SessionAfterAny(id) == id

SessionAfter(id) == IF sessionid = NoId THEN id ELSE sessionid

OnEvent(id) ==
    LET next == NextAction IN
    IF SessionAfter(id) = "bad" \/ NextActionThrows
    THEN Callback("none", NoText, "rearm", TRUE)
    ELSE IF IsStop(next)
    THEN Callback("close", NoText, "rearm", FALSE)
    ELSE IF Kind(next) = "badformat"
    THEN Callback("none", NoText, "rearm", TRUE)
    ELSE Callback("send", next, "rearm", FALSE)

\* Wrong variants: the timer is armed again even when the connection is
\* closed; silence is taken for an answer.
OnHeartbeatTimeoutAgain == Callback("send", Heartbeat, "rearm", FALSE)
OnHeartbeatTimeoutNext  == Callback("send", NextAction, "keep", FALSE)

\* _on_heartbeat_timeout(): the timer is not armed again.
OnHeartbeatTimeout == Callback("send", Heartbeat, "keep", FALSE)

\* boost::format replaces %1% by the session id.
Formats(id, cb) ==
    IF cb.call = "send" /\ m_state = "OPEN" /\ Kind(cb.text) = "placeholder"
    THEN formatted' = [formatted EXCEPT ![cb.text] = SessionAfter(id)]
    ELSE UNCHANGED formatted

-----------------------------------------------------------------------------
(* main().                                                                 *)

\* Wrong arguments, or a URI that is neither http nor https.
ShowUsage ==
    /\ main = "start"
    /\ main' = "usage" /\ status' = 0
    /\ UNCHANGED <<connvars, handlervars>>

\* loadToken() and endpoint.connect(): exit(1), an exception, or on to run().
SetUp ==
    /\ main = "start"
    /\ \/ main' = "run" /\ UNCHANGED status
       \/ main' = "failed" /\ status' = 1
    /\ UNCHANGED <<connvars, handlervars>>

MainReturns ==
    /\ main = "run" /\ proc # "running"
    /\ main' = "exited"
    /\ status' = IF proc = "returned" THEN 0 ELSE 1
    /\ UNCHANGED <<connvars, handlervars>>

-----------------------------------------------------------------------------
(* Steps of the connection, each with the callback it makes.               *)

NoCallback ==
    /\ main = "run"
    /\ C!Thread
    /\ UNCHANGED <<handlervars, mainvars>>

Environment ==
    /\ main = "run"
    /\ C!Network \/ C!Timers
    /\ UNCHANGED <<handlervars, mainvars>>

Ends ==
    /\ main = "run"
    /\ C!Ending(OnEnd)
    /\ UNCHANGED <<handlervars, mainvars>>

Opens ==
    /\ main = "run"
    /\ C!HandleReadResponse(OnOpen)
    /\ Advance
    /\ UNCHANGED <<sessionid, formatted, mainvars>>

ReceivesEvent(id) ==
    /\ main = "run"
    /\ C!ConsumePayload(OnEvent(id))
    /\ IF SessionAfter(id) = "bad"
       THEN UNCHANGED <<sessionid, lastIndex>>
       ELSE sessionid' = SessionAfter(id) /\ Advance
    /\ Formats(id, OnEvent(id))
    /\ UNCHANGED mainvars

ReceivesHeartbeat ==
    /\ main = "run"
    /\ C!ConsumePayload(HeartbeatReply)
    /\ UNCHANGED <<handlervars, mainvars>>

ReceivesOther ==
    /\ main = "run"
    /\ C!ConsumePayload(Ignore)
    /\ UNCHANGED <<handlervars, mainvars>>

HeartbeatTimeout ==
    /\ main = "run"
    /\ C!HandleAppTimer(OnHeartbeatTimeout)
    /\ UNCHANGED <<handlervars, mainvars>>

Terminated == main \in {"usage", "failed", "exited"} /\ UNCHANGED vars

-----------------------------------------------------------------------------

Init ==
    /\ C!Init
    /\ main = "start" /\ status = 0
    /\ lastIndex = 0 /\ sessionid = NoId
    /\ formatted = [k \in 1..N |-> "-"]

Receives ==
    \/ \E id \in Answers : ReceivesEvent(id)
    \/ ReceivesHeartbeat \/ ReceivesOther

ClientStep ==
    \/ SetUp \/ ShowUsage \/ MainReturns
    \/ NoCallback \/ Ends \/ Opens \/ Receives \/ HeartbeatTimeout

Next == ClientStep \/ Environment \/ Terminated

Spec == Init /\ [][Next]_vars

\* As in WSConnection: the process runs, its close timer expires, and a
\* socket that is shut down completes what is outstanding on it.
Fairness ==
    /\ WF_vars(ClientStep)
    /\ WF_vars(Environment /\ C!CloseTimerExpires)
    /\ WF_vars(Environment /\ m_state = "CLOSED" /\ C!ReadFail)
    /\ WF_vars(Environment /\ m_state = "CLOSED" /\ C!WriteFail)

FairSpec == Spec /\ Fairness

-----------------------------------------------------------------------------
(* Properties.                                                             *)

TypeOK ==
    /\ C!TypeOK
    /\ main \in {"start", "run", "usage", "failed", "exited"}
    /\ status \in {0, 1}
    /\ lastIndex \in 0..N
    /\ sessionid \in SessionIds \cup {NoId}
    /\ formatted \in [1..N -> SessionIds \cup {NoId, "-"}]

\* The items the script asks to send: those before the first "stop", which
\* is only looked for from the second item on.
Requests == {k \in 1..N : \A j \in 2..k : Kind(j) # "stop"}

\* The requests among some frames, in the order of the frames.
RequestsIn(frames) ==
    LET upto[i \in 0..Len(frames)] ==
            IF i = 0 THEN <<>>
            ELSE IF frames[i].text \in Requests
            THEN Append(upto[i - 1], frames[i].text)
            ELSE upto[i - 1]
    IN  upto[Len(frames)]

\* The requests that have been written to the wire.
DeliveredRequests == RequestsIn(wire)

OnWire(op) == \E i \in DOMAIN wire : wire[i].op = op

Run == INSTANCE ScriptRun
           WITH delivered <- DeliveredRequests,
                closed    <- OnWire("CLOSE_NORMAL"),
                result    <- IF main \in {"start", "run"} THEN "running"
                             ELSE IF status = 0 THEN "success" ELSE "failure"

\* Whatever heartbeats, closes, failures and timeouts come between, and
\* however the frames queue up, the client keeps the promise of ScriptRun:
\* requests arrive in order, none is lost or repeated on the way, and the
\* normal close comes after all of them and is the end.
KeepsScript == Run!Spec

\* All placeholders are replaced by the id of one session once there is one.
OneSession ==
    \A j, k \in 1..N :
        j < k /\ formatted[j] \in SessionIds /\ formatted[k] # "-" =>
            formatted[k] = formatted[j]

\* on_fail() and on_close() are called once between them, and only for a
\* connection that is over, although a drop, a failed write, the close
\* timer, a close frame and our own close may all be waiting to end it.
EndsOnce ==
    /\ ended <= 1
    /\ m_state = "CLOSED" => ended = 1
    /\ ended = 1 => m_detached /\ m_state \in {"CONNECTING", "CLOSED"}

\* A closed connection leaves nothing that would keep run() from returning:
\* both timers are off for good and no step of the handshake is outstanding,
\* whichever callbacks ran or wait to run when it was closed.
NothingKeepsRunning ==
    m_state = "CLOSED" => ~app_timer /\ ~m_timer /\ chain = "none"

\* The variables have their types, and nothing keeps run() going once the
\* connection is closed.
ClientInv == TypeOK /\ NothingKeepsRunning

\* Once the connection closes, the process exits, whatever the peer does.
ClosedExits == m_state \in {"CLOSING", "CLOSED"} ~> main = "exited"

\* SocketIOHandler.hpp:216: an open connection is watched all the time.
AlwaysWatched ==
    m_state = "OPEN" /\ proc = "running" =>
        app_timer \/ \E i \in DOMAIN ready : ready[i].h = "app_timer"
                                             /\ ready[i].ec = "ok"

\* README.md:24: "the stresstest will execute all these requests".
SuccessMeansAllSent ==
    main = "exited" /\ status = 0 => Len(DeliveredRequests) = Cardinality(Requests)

\* connection.hpp:716: handle_read_frame() is "valid for states OPEN and
\* CLOSING": input that arrives while closing does not end the process.
ReadsWhileClosing == proc # "get_data_message"

\* connection.hpp:1138: handle_write() is "Valid from OPEN and CLOSING,
\* ignored otherwise": a write that fails after the end does no harm.
WriteErrorsIgnored == proc # "log_error"

=============================================================================
