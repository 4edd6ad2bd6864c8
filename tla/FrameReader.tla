----------------------------- MODULE FrameReader ----------------------------
(***************************************************************************)
(* How a connection makes messages of the bytes of its socket: the loop of *)
(* handle_read_frame() in connection.hpp, processor::hybi, the header      *)
(* parser hybi_header, message::data and message::control.                 *)
(*                                                                         *)
(* The peer's bytes are counted, not spelled: m_buf says how many are      *)
(* there, and frame and owed, which no code sees, whose bytes they are.    *)
(* The bytes of a text are chosen when they are read.  A header is read in *)
(* as many parts as the socket delivers, a payload byte by byte; between   *)
(* two calls of async_read one thread does it all.  The model ends with    *)
(* the first frame that is refused: the connection then closes, and what   *)
(* the reader makes of the bytes behind is not tied to frames any more.    *)
(***************************************************************************)
EXTENDS FrameFormat, Sequences, Utf8Validator

CONSTANTS
    Frames,            \* the frames the peer may send
    NoFrame,
    Nothing,           \* a null pointer to a message
    Bytes,             \* the bytes of texts
    m_read_threshold,
    UInt64,            \* uint64_t counts modulo this
    MaxSegment         \* bound: how many bytes one read can bring

ASSUME ReaderAssumption ==
    /\ Frames \subseteq Frame /\ NoFrame \notin Frames
    /\ Bytes \subseteq 0..255
    /\ m_read_threshold \in Nat \ {0} /\ MaxSegment \in Nat
    /\ m_read_threshold <= MaxSegment
    /\ UInt64 \in Nat /\ UInt64 > PAYLOAD_SIZE_MAX

\* A length fits the form it is sent in, and none is announced that makes the
\* size of its message wrap.
ASSUME FramesAssumption ==
    \A f \in Frames :
        /\ f.form = 7 => f.size <= PAYLOAD_SIZE_BASIC
        /\ f.form = 16 => f.size <= PAYLOAD_SIZE_EXTENDED
        /\ f.size + PAYLOAD_SIZE_MAX < UInt64

VARIABLES
    \* The peer and the socket.
    frame,             \* the frame at the reader's position, or NoFrame
    owed,              \* how many bytes of it are still to be consumed
    arrived,           \* bytes that have come in while a read is outstanding
    wanted,            \* transfer_at_least of the outstanding read; 0: none
    m_buf,             \* the size of the read buffer
    \* hybi_header
    header,            \* m_state
    m_bytes_needed,
    \* hybi
    m_state,
    m_payload_left,
    m_data_message,    \* Nothing, or a message as far as it has been read
    m_control_message,
    \* What came of it.
    handed,            \* the message the last frame completed, or Nothing
    violation,         \* the check that threw a processor::exception
    character          \* history: the bytes of the text's unfinished character

wirevars == <<frame, owed>>
socketvars == <<arrived, wanted, m_buf>>
headervars == <<header, m_bytes_needed>>
messagevars == <<m_data_message, m_control_message>>
vars == <<wirevars, socketvars, headervars, m_state, m_payload_left,
          messagevars, handed, violation, character>>

Violations == {"basic header", "extended header", "sequence", "too big",
               "text", "close code", "close reason"}

\* masking_index: below 0 when the bytes are taken as they are.
Message == [op : {"TEXT", "BINARY"}, size : 0..PAYLOAD_SIZE_MAX,
            masking_index : -2..3, utf8 : 0..8]
Control == [op : Opcodes, size : 0..PAYLOAD_SIZE_BASIC,
            masking_index : -1..PAYLOAD_SIZE_BASIC]
Handed == [op : Opcodes, size : 0..PAYLOAD_SIZE_MAX]

ASSUME NothingAssumption == Nothing \notin Message \cup Control \cup Handed

\* Type invariant: all variables, with masking indices and validator states
\* in the ranges of their arrays.
TypeOK ==
    /\ frame \in Frames \cup {NoFrame} /\ owed \in Nat
    /\ arrived \in 0..MaxSegment /\ m_buf \in 0..MaxSegment
    /\ wanted \in 0..m_read_threshold
    /\ header \in {"BASIC", "EXTENDED", "READY"} /\ m_bytes_needed \in 0..12
    /\ m_state \in {"READ_HEADER", "READ_PAYLOAD"} /\ m_payload_left \in Nat
    /\ m_data_message \in Message \cup {Nothing}
    /\ m_control_message \in Control \cup {Nothing}
    /\ handed \in Handed \cup {Nothing}
    /\ violation \in Violations \cup {"none"}
    /\ character \in Seq(Bytes) /\ Len(character) <= 4

\* handle_read_response() calls handle_read_frame() with what came behind the
\* response.
Init ==
    /\ frame = NoFrame /\ owed = 0
    /\ arrived = 0 /\ wanted = 0 /\ m_buf \in 0..MaxSegment
    /\ header = "BASIC" /\ m_bytes_needed = BASIC_HEADER_LENGTH
    /\ m_state = "READ_HEADER" /\ m_payload_left = 0
    /\ m_data_message = Nothing /\ m_control_message = Nothing
    /\ handed = Nothing /\ violation = "none" /\ character = <<>>

-----------------------------------------------------------------------------
(* The socket.                                                             *)

\* A byte of the peer comes in.
Arrive ==
    /\ wanted > 0 /\ arrived < MaxSegment
    /\ arrived' = arrived + 1
    /\ UNCHANGED <<wirevars, wanted, m_buf, headervars, m_state,
                   m_payload_left, messagevars, handed, violation, character>>

\* async_read completes: handle_read_frame() starts.
HandleReadFrame ==
    /\ wanted > 0 /\ arrived >= wanted
    /\ wanted' = 0 /\ arrived' = 0 /\ m_buf' = arrived
    /\ UNCHANGED <<wirevars, headervars, m_state, m_payload_left, messagevars,
                   handed, violation, character>>

Running == wanted = 0 /\ violation = "none"

\* The next byte in m_buf is the first of a frame.
NextFrame ==
    /\ Running /\ m_buf > 0 /\ frame = NoFrame
    /\ frame' \in Frames /\ owed' = Length(frame')
    /\ handed' = Nothing
    /\ UNCHANGED <<socketvars, headervars, m_state, m_payload_left,
                   messagevars, violation, character>>

get_bytes_needed ==
    IF m_state = "READ_HEADER" THEN m_bytes_needed ELSE m_payload_left

-----------------------------------------------------------------------------
(* The ends of a frame.                                                    *)

Take(n) ==
    /\ m_buf >= n
    /\ m_buf' = m_buf - n
    /\ owed' = owed - n
    /\ UNCHANGED <<arrived, wanted>>

\* An exception leaves consume(): a header that is complete is reset.
Refuse(v) ==
    /\ violation' = v
    /\ UNCHANGED <<frame, handed>>

reset ==
    /\ m_state' = "READ_HEADER"
    /\ header' = "BASIC" /\ m_bytes_needed' = BASIC_HEADER_LENGTH

\* Wrong variant: the message under way is dropped with the control frame.
ControlFrameDropping(msg) ==
    \/ /\ reset
       /\ frame' = NoFrame /\ m_payload_left' = 0
       /\ m_control_message' = Nothing /\ m_data_message' = Nothing
       /\ handed' = [op |-> msg.op, size |-> msg.size]
       /\ UNCHANGED <<violation, character>>

\* process_frame() of a control frame with complete(), then the loop hands
\* the message over and resets the processor.
ControlFrame(msg) ==
    \/ /\ msg.op = "CLOSE" => msg.size # 1
       /\ reset
       /\ frame' = NoFrame /\ m_payload_left' = 0
       /\ m_control_message' = Nothing
       /\ handed' = [op |-> msg.op, size |-> msg.size]
       /\ UNCHANGED <<m_data_message, violation, character>>
    \/ /\ msg.op = "CLOSE"
       /\ \/ msg.size >= 1 /\ Refuse("close code")
          \/ msg.size > 2 /\ Refuse("close reason")
       /\ header' = "BASIC" /\ m_bytes_needed' = BASIC_HEADER_LENGTH
       /\ m_payload_left' = 0
       /\ m_control_message' = msg
       /\ UNCHANGED <<m_state, m_data_message, character>>

\* process_frame() of a data frame, likewise.
DataFrame(msg, unfinished) ==
    /\ header' = "BASIC" /\ m_bytes_needed' = BASIC_HEADER_LENGTH
    /\ m_payload_left' = 0
    /\ character' = unfinished
    /\ UNCHANGED m_control_message
    /\ \/ /\ frame.fin
          /\ msg.op = "TEXT" => msg.utf8 = UTF8_ACCEPT
          /\ m_state' = "READ_HEADER" /\ frame' = NoFrame
          /\ handed' = [op |-> msg.op, size |-> msg.size]
          /\ m_data_message' = Nothing
          /\ UNCHANGED violation
       \/ /\ frame.fin
          /\ msg.op = "TEXT" /\ msg.utf8 # UTF8_ACCEPT
          /\ Refuse("text")
          /\ m_data_message' = msg
          /\ UNCHANGED m_state
       \/ /\ ~frame.fin
          /\ m_state' = "READ_HEADER" /\ frame' = NoFrame
          /\ m_data_message' = msg
          /\ UNCHANGED <<handed, violation>>

-----------------------------------------------------------------------------
(* The header.                                                             *)

\* hybi_header::consume() gets fewer bytes than it needs.
HeaderPart ==
    /\ Running /\ frame # NoFrame /\ m_state = "READ_HEADER"
    /\ m_buf > 0 /\ m_buf < m_bytes_needed
    /\ Take(m_buf)
    /\ m_bytes_needed' = m_bytes_needed - m_buf
    /\ UNCHANGED <<frame, header, m_state, m_payload_left, messagevars,
                   handed, violation, character>>

HeaderBytes(state) ==
    /\ Running /\ frame # NoFrame /\ m_state = "READ_HEADER"
    /\ header = state
    /\ Take(m_bytes_needed)

BasicHeaderRefused ==
    /\ HeaderBytes("BASIC")
    /\ ~BasicHeaderValid(frame)
    /\ Refuse("basic header")
    /\ m_bytes_needed' = get_header_len(frame) - BASIC_HEADER_LENGTH
    /\ UNCHANGED <<header, m_state, m_payload_left, messagevars, character>>

\* Wrong variant: the bytes already there are asked for again.
BasicHeaderWhole ==
    /\ HeaderBytes("BASIC")
    /\ BasicHeaderValid(frame)
    /\ get_header_len(frame) > BASIC_HEADER_LENGTH
    /\ header' = "EXTENDED"
    /\ m_bytes_needed' = get_header_len(frame)
    /\ UNCHANGED <<frame, m_state, m_payload_left, messagevars, handed,
                   violation, character>>

BasicHeader ==
    /\ HeaderBytes("BASIC")
    /\ BasicHeaderValid(frame)
    /\ get_header_len(frame) > BASIC_HEADER_LENGTH
    /\ header' = "EXTENDED"
    /\ m_bytes_needed' = get_header_len(frame) - BASIC_HEADER_LENGTH
    /\ UNCHANGED <<frame, m_state, m_payload_left, messagevars, handed,
                   violation, character>>

ExtendedHeaderRefused ==
    /\ HeaderBytes("EXTENDED")
    /\ ~MinimallyEncoded(frame)
    /\ Refuse("extended header")
    /\ m_bytes_needed' = 0
    /\ UNCHANGED <<header, m_state, m_payload_left, messagevars, character>>

\* The header is complete, in either state of its parser.
HeaderReady ==
    \/ /\ HeaderBytes("BASIC")
       /\ BasicHeaderValid(frame)
       /\ get_header_len(frame) = BASIC_HEADER_LENGTH
    \/ HeaderBytes("EXTENDED") /\ MinimallyEncoded(frame)

ExpectPayload ==
    /\ m_state' = "READ_PAYLOAD" /\ m_payload_left' = frame.size
    /\ header' = "READY" /\ m_bytes_needed' = 0
    /\ UNCHANGED <<frame, handed, violation, character>>

\* process_control_header()
ControlHeader ==
    LET msg == [op |-> frame.op, size |-> 0,
                masking_index |-> IF frame.masking = "key" THEN 0 ELSE -1]
    IN /\ HeaderReady /\ is_control(frame.op)
       /\ IF frame.size = 0
          THEN ControlFrame(msg)
          ELSE /\ ExpectPayload
               /\ m_control_message' = msg
               /\ UNCHANGED m_data_message

\* process_data_header(): a message begins, or goes on.
NewMessage(op) ==
    [op |-> op, size |-> 0, masking_index |-> -1, utf8 |-> UTF8_ACCEPT]

\* Wrong variant: the masking index runs on from one fragment to the next.
set_masking_key_once(msg) ==
    IF msg.masking_index >= 0 THEN msg
    ELSE [msg EXCEPT !.masking_index = IF frame.masking = "key" THEN 0 ELSE -2]

set_masking_key(msg) ==
    [msg EXCEPT !.masking_index = IF frame.masking = "key" THEN 0 ELSE -2]

DataHeader ==
    LET msg == IF m_data_message = Nothing THEN NewMessage(frame.op)
               ELSE m_data_message
    IN /\ HeaderReady /\ ~is_control(frame.op)
       /\ (frame.op = "CONTINUATION") <=> (m_data_message # Nothing)
       /\ IF frame.size = 0
          THEN DataFrame(msg, character)
          ELSE /\ ExpectPayload
               /\ m_data_message' = set_masking_key(msg)
               /\ UNCHANGED m_control_message

\* Wrong variant: the message under way is given up at once.
DataHeaderRefusedForgets ==
    /\ HeaderReady /\ ~is_control(frame.op)
    /\ ~((frame.op = "CONTINUATION") <=> (m_data_message # Nothing))
    /\ Refuse("sequence")
    /\ header' = "BASIC" /\ m_bytes_needed' = BASIC_HEADER_LENGTH
    /\ m_data_message' = Nothing
    /\ UNCHANGED <<m_state, m_payload_left, m_control_message, character>>

DataHeaderRefused ==
    /\ HeaderReady /\ ~is_control(frame.op)
    /\ ~((frame.op = "CONTINUATION") <=> (m_data_message # Nothing))
    /\ Refuse("sequence")
    /\ header' = "BASIC" /\ m_bytes_needed' = BASIC_HEADER_LENGTH
    /\ UNCHANGED <<m_state, m_payload_left, messagevars, character>>

-----------------------------------------------------------------------------
(* The payload.                                                            *)

InPayload(control) ==
    /\ Running /\ m_state = "READ_PAYLOAD" /\ is_control(frame.op) = control

\* data::process_payload() looks at the size before it reads.
TooBig == /\ InPayload(FALSE)
          /\ (m_data_message.size + m_payload_left) % UInt64 > PAYLOAD_SIZE_MAX

MessageTooBig ==
    /\ TooBig
    /\ Refuse("too big")
    /\ header' = "BASIC" /\ m_bytes_needed' = BASIC_HEADER_LENGTH
    /\ UNCHANGED <<owed, socketvars, m_state, m_payload_left, messagevars,
                   character>>

ControlCharacter ==
    LET msg == [m_control_message EXCEPT
                   !.size = @ + 1,
                   !.masking_index = IF @ >= 0 THEN @ + 1 ELSE @]
    IN /\ InPayload(TRUE)
       /\ Take(1)
       /\ IF m_payload_left = 1
          THEN ControlFrame(msg)
          ELSE /\ m_control_message' = msg
               /\ m_payload_left' = m_payload_left - 1
               /\ UNCHANGED <<frame, headervars, m_state, m_data_message,
                              handed, violation, character>>

\* Wrong variant: only frames that say TEXT are looked at.
process_character_by_frame(byte) ==
    [m_data_message EXCEPT
        !.size = @ + 1,
        !.masking_index = IF @ >= 0 THEN (@ + 1) % 4 ELSE @,
        !.utf8 = IF frame.op = "TEXT" THEN decode(@, byte) ELSE @]

\* process_character(): the message with one byte more.
process_character(byte) ==
    [m_data_message EXCEPT
        !.size = @ + 1,
        !.masking_index = IF @ >= 0 THEN (@ + 1) % 4 ELSE @,
        !.utf8 = IF m_data_message.op = "TEXT" THEN decode(@, byte) ELSE @]

\* The text's unfinished character with one byte more.
Unfinished(byte) ==
    IF IsCharacter(Append(character, byte)) THEN <<>>
    ELSE Append(character, byte)

DataCharacter(byte) ==
    LET msg == process_character(byte)
        text == IF msg.op = "TEXT" THEN Unfinished(byte) ELSE <<>>
    IN /\ InPayload(FALSE) /\ ~TooBig
       /\ msg.utf8 # UTF8_REJECT
       /\ Take(1)
       /\ IF m_payload_left = 1
          THEN DataFrame(msg, text)
          ELSE /\ m_data_message' = msg
               /\ m_payload_left' = m_payload_left - 1
               /\ character' = text
               /\ UNCHANGED <<frame, headervars, m_state, m_control_message,
                              handed, violation>>

DataCharacterRefused(byte) ==
    LET msg == process_character(byte)
    IN /\ InPayload(FALSE) /\ ~TooBig
       /\ msg.utf8 = UTF8_REJECT
       /\ Take(1)
       /\ Refuse("text")
       /\ character' = Append(character, byte)
       /\ m_data_message' = [m_data_message EXCEPT
                                !.utf8 = msg.utf8,
                                !.masking_index = msg.masking_index]
       /\ header' = "BASIC" /\ m_bytes_needed' = BASIC_HEADER_LENGTH
       /\ UNCHANGED <<m_state, m_payload_left, m_control_message>>

\* Wrong variant: the threshold is asked for when less is missing.
AtLeastThreshold(needed) == m_read_threshold

AtLeast(needed) ==
    IF needed < m_read_threshold THEN needed ELSE m_read_threshold

\* The buffer is used up: the next async_read.
ReadOn ==
    /\ Running /\ m_buf = 0 /\ ~TooBig
    /\ wanted' = AtLeast(get_bytes_needed)
    /\ UNCHANGED <<wirevars, arrived, m_buf, headervars, m_state,
                   m_payload_left, messagevars, handed, violation, character>>

\* The first violation: the model ends.
Ended == violation # "none" /\ UNCHANGED vars

-----------------------------------------------------------------------------
Thread ==
    \/ HandleReadFrame \/ NextFrame \/ HeaderPart
    \/ BasicHeader \/ BasicHeaderRefused \/ ExtendedHeaderRefused
    \/ ControlHeader \/ DataHeader \/ DataHeaderRefused
    \/ MessageTooBig \/ ControlCharacter
    \/ \E byte \in Bytes : DataCharacter(byte) \/ DataCharacterRefused(byte)
    \/ ReadOn

Next == Arrive \/ Thread \/ Ended

Spec == Init /\ [][Next]_vars

\* The peer finishes a frame it has begun; it need not send another.
FrameGoesOn == Arrive /\ frame # NoFrame /\ arrived < owed

FairSpec == Spec /\ WF_vars(Thread) /\ WF_vars(FrameGoesOn)

-----------------------------------------------------------------------------
(* Properties.                                                             *)

\* The parser and the wire agree on where the frame ends, in each state of
\* the header parser and of the payload, however the bytes came in parts.
InStep ==
    violation = "none" =>
        \/ /\ frame = NoFrame /\ owed = 0
           /\ m_state = "READ_HEADER" /\ header = "BASIC"
           /\ m_bytes_needed = BASIC_HEADER_LENGTH
        \/ /\ frame # NoFrame /\ owed > 0 /\ m_state = "READ_HEADER"
           /\ LET before == IF header = "BASIC" THEN BASIC_HEADER_LENGTH
                            ELSE get_header_len(frame)
              IN owed = Length(frame) - before + m_bytes_needed
        \/ /\ frame # NoFrame /\ owed > 0 /\ m_state = "READ_PAYLOAD"
           /\ owed = m_payload_left

\* The variables have their types, and parser and wire stay in step: the
\* reader never takes a byte of one frame for a byte of another.
ReaderInv == TypeOK /\ InStep

\* Each payload byte is unmasked with the byte of the key it was masked with:
\* the index starts anew with each frame, and only there.
Unmasked ==
    violation = "none" /\ m_state = "READ_PAYLOAD" =>
        LET msg == IF is_control(frame.op) THEN m_control_message
                   ELSE m_data_message
        IN IF frame.masking = "key"
           THEN msg.masking_index % 4 = (frame.size - m_payload_left) % 4
                /\ msg.masking_index >= 0
           ELSE msg.masking_index < 0

\* The text read so far is a sequence of whole characters and perhaps the
\* beginning of one, over all its fragments; only bytes with which no
\* character goes on, and a last frame that cuts one short, are refused.
TextIsUtf8 ==
    /\ IF violation = "none" /\ m_data_message # Nothing
       THEN m_data_message.op = "TEXT" =>
           /\ (m_data_message.utf8 = UTF8_ACCEPT) <=> (character = <<>>)
           /\ character # <<>> => Begins(character)
       ELSE violation = "none" => character = <<>>
    /\ violation = "text" =>
           /\ character # <<>>
           /\ Begins(character) => owed = 0 /\ frame.fin

\* No frame that this library writes itself, for a message that is not too
\* large for its kind, is refused by the parser of headers.
WritesWhatItReads ==
    violation \in {"basic header", "extended header"} =>
        ~ \E op \in Opcodes, masking \in Maskings :
              /\ BasicHeaderValid(prepare_frame(op, masking, frame.size))
              /\ frame = prepare_frame(op, masking, frame.size)

\* The fragments of the message under way before the present frame.
Fragments ==
    LET inside == m_state = "READ_PAYLOAD" /\ ~is_control(frame.op)
        first == inside /\ frame.op # "CONTINUATION"
        read == IF inside THEN frame.size - m_payload_left ELSE 0
    IN IF m_data_message = Nothing \/ first
       THEN Nothing
       ELSE [op |-> m_data_message.op, size |-> m_data_message.size - read]

Stream == INSTANCE MessageStream
              WITH message <- Fragments, refused <- violation # "none"

\* However the bytes are cut into reads, the messages handed over are those of
\* the peer's frames, put together again, and only what breaks the rules of
\* the protocol is refused.
StreamSpec == Stream!Spec

\* What WSConnection calls processor.
Expects ==
    IF get_bytes_needed = 0 THEN "nothing"
    ELSE IF violation # "none" /\ m_state = "READ_PAYLOAD" THEN "rejected"
    ELSE IF m_data_message # Nothing THEN "payload"
    ELSE "header"

\* The processor goes only from one expectation to another that WSConnection
\* lets it have: hybi does nothing to the connection that its model leaves out.
ExpectsAsInConnection ==
    [][IF violation' = violation
       THEN \/ Expects' = Expects
            \/ Expects = "header" /\ Expects' = "payload"
            \/ /\ Expects = "payload" /\ Expects' = "header"
               /\ handed' # Nothing /\ ~is_control(handed'.op)
       ELSE \/ Expects' \in {Expects, "nothing"}
            \/ Expects = "payload" /\ Expects' = "rejected"]_vars

\* A frame the peer has begun is handled to its end, without another frame
\* having to come: no read waits for more bytes than this one still has.
FramesEnd == frame # NoFrame ~> frame = NoFrame \/ violation # "none"
=============================================================================
