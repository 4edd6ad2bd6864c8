----------------------- MODULE WSConnectionInvariant ------------------------
(***************************************************************************)
(* The inductive invariant of WSConnection: why its safety properties hold *)
(* after any number of steps, for any handler and any bounds.  The queue   *)
(* of completion handlers is looked at through a few views only: whether   *)
(* it holds a handler of some names, whether it holds more than one, and   *)
(* the numbers of the messages that its write_message handlers carry.      *)
(***************************************************************************)
EXTENDS WSConnection

Any(s, H) == \E i \in DOMAIN s : s[i].h \in H
Has(s, H, ec) == \E i \in DOMAIN s : s[i].h \in H /\ s[i].ec = ec
AtMostOne(s, H) ==
    \A i, j \in DOMAIN s : s[i].h \in H /\ s[j].h \in H => i = j

Posts(s) == {i \in DOMAIN s : s[i].h = "write_message"}
Numbers(s) == {s[i].msg.n : i \in Posts(s)}
Increasing(s) == \A i, j \in Posts(s) : i < j => s[i].msg.n < s[j].msg.n

Handshake == {"handle_connect", "handle_write_request", "handle_read_response"}
Writing   == {"handle_write"}
Reading   == {"handle_read_frame"}
Expiry    == {"fail_on_expire"}
Session   == Writing \cup Reading \cup Expiry \cup {"write_message", "send_close"}
Alarm     == {"app_timer"}
OfHandler == Alarm \cup {"terminate"}

-----------------------------------------------------------------------------

\* The opening handshake is one thread of operations, and while it goes on
\* nothing else does.
HandshakeInv ==
    /\ AtMostOne(ready, Handshake)
    /\ chain # "none" => ~Any(ready, Handshake)
    /\ chain # "none" \/ Any(ready, Handshake) =>
           /\ m_state = "CONNECTING" /\ ~m_detached
           /\ ~app_timer /\ ~Any(ready, OfHandler)

ConnectingInv ==
    m_state = "CONNECTING" =>
        /\ ~m_timer /\ reads = 0 /\ writes = 0 /\ ~busy
        /\ processor = "header"
        /\ m_write_state = "IDLE" /\ m_write_queue = <<>>
        /\ wire = <<>> /\ posted = 0
        /\ ~Any(ready, Session)
        /\ app_timer \/ Any(ready, Alarm) => m_detached

DetachedInv == m_state \in {"OPEN", "CLOSING"} => ~m_detached

\* One write at a time, in one of two phases: outstanding, or completed with
\* handle_write() still to run.
WriterInv ==
    /\ writes \in {0, 1}
    /\ AtMostOne(ready, Writing)
    /\ Any(ready, Writing) => writes = 0
    /\ writes = 1 \/ Any(ready, Writing) =>
           m_write_state = "WRITING" /\ m_write_queue # <<>>

\* In the second phase the frame is on the wire and still in the queue.
Written == Has(ready, Writing, "ok")
FrontInv == Written => wire # <<>> /\ wire[Len(wire)] = Head(m_write_queue)

CloseInv ==
    /\ CloseIsLast
    /\ wire # <<>> /\ wire[Len(wire)].op \in CloseOps =>
           m_state = "CLOSED" \/ Written

\* Every message submitted is on the wire, in the queue or in a post, and
\* the numbers run on through the three.
Done == IF Written THEN Len(wire) - 1 ELSE Len(wire)
OrderInv ==
    /\ WireInOrder
    /\ m_state # "CLOSED" =>
           /\ \A j \in DOMAIN m_write_queue : m_write_queue[j].n = Done + j
           /\ Done + Len(m_write_queue) <= posted
           /\ Numbers(ready) = (Done + Len(m_write_queue) + 1)..posted
           /\ Increasing(ready)

DeadlineInv == m_state = "CLOSING" => m_timer \/ Has(ready, Expiry, "ok")

\* One reader at a time, in one of three phases.
ReaderInv ==
    /\ reads \in {0, 1}
    /\ AtMostOne(ready, Reading)
    /\ Any(ready, Reading) => reads = 0 /\ ~busy
    /\ busy => reads = 0
    /\ m_state = "OPEN" => processor \in {"header", "payload"}
    /\ Alive /\ m_state = "OPEN" => reads = 1 \/ busy \/ Any(ready, Reading)

Inv ==
    /\ HandshakeInv /\ ConnectingInv /\ DetachedInv
    /\ WriterInv /\ FrontInv /\ CloseInv /\ OrderInv
    /\ DeadlineInv /\ ReaderInv

\* The connection is always in a state that the phases above describe: the
\* handshake, the reader, the writer, the numbering of the messages and the
\* close timer never contradict each other, whatever completes when.
IInv == TypeOK /\ Inv

=============================================================================
