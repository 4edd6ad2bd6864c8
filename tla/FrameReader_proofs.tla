--------------------------- MODULE FrameReader_proofs ------------------------
(***************************************************************************)
(* Proofs about the reader of a connection: the parser and the wire agree  *)
(* at every byte however they are cut into reads, and what is handed over  *)
(* is the stream of the peer's messages.                                   *)
(***************************************************************************)
EXTENDS FrameReader, Utf8Validator_proofs, TLAPS

-----------------------------------------------------------------------------
(* The inductive invariant.                                                *)

\* The header is being read, and nothing of a payload is known yet.
AtHeader(state) ==
    /\ m_state = "READ_HEADER" /\ header = state
    /\ m_payload_left = 0 /\ m_control_message = Nothing

\* No frame is under way.
Between ==
    /\ AtHeader("BASIC") /\ m_bytes_needed = BASIC_HEADER_LENGTH
    /\ frame = NoFrame /\ owed = 0

\* The two bytes that every header begins with are being read.
InBasic ==
    /\ AtHeader("BASIC") /\ m_bytes_needed \in 1..BASIC_HEADER_LENGTH
    /\ frame \in Frames
    /\ owed = Length(frame) - BASIC_HEADER_LENGTH + m_bytes_needed

\* The length and the key behind them are being read.
InExtended ==
    /\ AtHeader("EXTENDED")
    /\ m_bytes_needed \in 1..get_header_len(frame) - BASIC_HEADER_LENGTH
    /\ frame \in Frames /\ BasicHeaderValid(frame)
    /\ owed = frame.size + m_bytes_needed

\* A valid header has been read, and some of the payload is missing.
AtPayload ==
    /\ m_state = "READ_PAYLOAD" /\ header = "READY" /\ m_bytes_needed = 0
    /\ frame \in Frames /\ BasicHeaderValid(frame) /\ MinimallyEncoded(frame)
    /\ m_payload_left \in 1..frame.size /\ owed = m_payload_left

\* How many bytes of the frame's payload have been read.
Done == frame.size - m_payload_left

\* The control message is what has been read of its frame,
InControl ==
    /\ AtPayload /\ is_control(frame.op)
    /\ m_control_message =
           [op |-> frame.op, size |-> Done,
            masking_index |-> IF frame.masking = "key" THEN Done ELSE -1]

\* and the data message ends with what has been read of its frame.
InData ==
    /\ AtPayload /\ ~is_control(frame.op)
    /\ m_control_message = Nothing /\ m_data_message \in Message
    /\ m_data_message.masking_index =
           IF frame.masking = "key" THEN Done % 4 ELSE -2
    /\ m_data_message.size >= Done
    /\ frame.op # "CONTINUATION" => /\ m_data_message.op = frame.op
                                    /\ m_data_message.size = Done

\* Where the parser stands in the peer's frame, and what it has of it.
Position == Between \/ InBasic \/ InExtended \/ InControl \/ InData

\* The validator is where the unfinished character leads it.
Validated(msg, c) ==
    /\ msg.op = "TEXT" => /\ Open(c) /\ msg.utf8 = StateOf(c)
                          /\ c # <<>> => msg.size > 0
    /\ msg.op = "BINARY" => c = <<>> /\ msg.utf8 = UTF8_ACCEPT

\* A message and its unfinished character belong together.
TextState ==
    IF m_data_message = Nothing THEN character = <<>>
    ELSE Validated(m_data_message, character)

\* What each refusal is for.
Refused ==
    /\ wanted = 0 /\ frame \in Frames
    /\ violation = "basic header" => ~BasicHeaderValid(frame)
    /\ violation = "extended header" => ~MinimallyEncoded(frame)
    /\ violation = "text" => /\ character # <<>>
                             /\ Begins(character) => owed = 0 /\ frame.fin

\* The inductive invariant.
FrameInv ==
    /\ TypeOK
    /\ IF violation = "none" THEN Position /\ TextState ELSE Refused

-----------------------------------------------------------------------------
(* Facts about frames, messages and the socket.                            *)

\* The fields of a header, and how long it is.
FrameFacts(f) ==
    /\ f \in Frame /\ f # NoFrame /\ f.size \in Nat
    /\ f.op \in Opcodes /\ f.fin \in BOOLEAN
    /\ get_header_len(f) \in 2..14
    /\ Length(f) = get_header_len(f) + f.size
    /\ f.form = 7 => f.size <= PAYLOAD_SIZE_BASIC
    /\ f.size + PAYLOAD_SIZE_MAX < UInt64

\* A frame of the peer has the fields of a frame, and is longer than its payload.
LEMMA FrameIs == ASSUME NEW f \in Frames PROVE FrameFacts(f)
<1>1. f \in Frame /\ f # NoFrame
  BY ReaderAssumption
<1>2. /\ f.size \in Nat /\ f.op \in Opcodes /\ f.fin \in BOOLEAN
      /\ f.form \in {7, 16, 64}
  BY <1>1 DEF Frame
<1>3. get_header_len(f) \in 2..14
  BY <1>2 DEF get_header_len, BASIC_HEADER_LENGTH
<1> QED BY <1>1, <1>2, <1>3, FramesAssumption DEF FrameFacts, Length

\* The bytes of texts are bytes.
LEMMA BytesAre == Seq(Bytes) \subseteq Seq(Byte) /\ Bytes \subseteq Byte
<1>1. Bytes \subseteq Byte
  BY ReaderAssumption DEF Byte
<1>2. ASSUME NEW s \in Seq(Bytes) PROVE s \in Seq(Byte)
  <2>1. s \in [1..Len(s) -> Bytes] /\ Len(s) \in Nat
    OBVIOUS
  <2>2. s \in [1..Len(s) -> Byte]
    BY <2>1, <1>1
  <2> QED BY <2>1, <2>2
<1> QED BY <1>1, <1>2

\* Behind an unfinished character the decoder neither accepts nor rejects.
LEMMA StateRange ==
  ASSUME NEW c \in Seq(Byte), Open(c)
  PROVE  /\ StateOf(c) \in 0..8 /\ StateOf(c) # UTF8_REJECT
         /\ StateOf(c) = UTF8_ACCEPT <=> c = <<>>
         /\ Len(c) <= 3
<1>1. CASE c = <<>>
  BY <1>1 DEF StateOf, UTF8_REJECT, UTF8_ACCEPT
<1>2. CASE c # <<>> 
  <2>1. c[1] \in Byte /\ Head(c) = c[1] /\ Len(c) \in Nat /\ Len(c) # 0
    BY <1>2
  <2>2. Possible(Lead(c[1]), Len(c), First(c)) /\ Len(c) # Lead(c[1])
    BY <2>1, <1>2, BeginsIs, LengthOf DEF Open, IsCharacter
  <2>3. Len(c) <= Lead(c[1])
    BY <2>2 DEF Possible
  <2>4. Lead(c[1]) \in 0..4
    BY <2>1, LeadIs
  <2> DEFINE n == Len(c)  m == Lead(c[1])
  <2> HIDE DEF n, m
  <2>5. n \in Nat /\ n # 0 /\ n <= m /\ n # m /\ m \in 0..4
    BY <2>1, <2>2, <2>3, <2>4 DEF n, m
  <2>6. m - n + 1 \in 2..8 /\ n <= 3
    BY <2>5
  <2>7. FirstState(c[1]) \in 2..8
    BY DEF FirstState
  <2>8. StateOf(c) \in 2..8
    BY <1>2, <2>6, <2>7 DEF StateOf, n, m
  <2> QED BY <2>6, <2>8, <1>2 DEF UTF8_REJECT, UTF8_ACCEPT, n
<1> QED BY <1>1, <1>2

\* No number below the modulus wraps.
LEMMA ModSmall == \A x, n \in Nat : x < n => x % n = x
OBVIOUS

\* What happens to the socket in each step but those of the socket.
SocketStays == wanted' = wanted /\ arrived' = arrived /\ m_buf' \in 0..MaxSegment

\* Messages have the type of what is handed over.
LEMMA HandedIs ==
  ASSUME NEW op \in Opcodes, NEW size \in 0..PAYLOAD_SIZE_MAX
  PROVE  [op |-> op, size |-> size] \in Handed
BY DEF Handed

\* Fields of messages; none is a null pointer.
LEMMA NothingIs ==
    /\ \A m \in Message : m # Nothing /\ m.op \in {"TEXT", "BINARY"}
          /\ m.op \in Opcodes /\ m.size \in 0..PAYLOAD_SIZE_MAX
          /\ m.size \in Nat /\ m.utf8 \in 0..8 /\ m.masking_index \in -2..3
    /\ \A m \in Control : m # Nothing /\ m.op \in Opcodes
          /\ m.size \in 0..PAYLOAD_SIZE_BASIC /\ m.size \in 0..PAYLOAD_SIZE_MAX
          /\ m.size \in Nat
    /\ \A m \in Handed : m # Nothing
<1>1. \A m \in Message : m # Nothing /\ m.op \in {"TEXT", "BINARY"}
          /\ m.op \in Opcodes /\ m.size \in 0..PAYLOAD_SIZE_MAX
          /\ m.size \in Nat /\ m.utf8 \in 0..8 /\ m.masking_index \in -2..3
  BY NothingAssumption, LimitsAssumption DEF Message, Opcodes
<1>2. \A m \in Control : m # Nothing /\ m.op \in Opcodes
          /\ m.size \in 0..PAYLOAD_SIZE_BASIC /\ m.size \in 0..PAYLOAD_SIZE_MAX
          /\ m.size \in Nat
  BY NothingAssumption, LimitsAssumption DEF Control
<1> QED BY <1>1, <1>2, NothingAssumption

\* The end of a control frame keeps the invariant.
LEMMA ControlEnds ==
  ASSUME FrameInv, violation = "none", wanted = 0,
         frame \in Frames, is_control(frame.op),
         NEW msg \in Control, msg.op = frame.op,
         owed' = 0, SocketStays, ControlFrame(msg)
  PROVE  FrameInv'
<1>0. TypeOK /\ TextState
  BY DEF FrameInv
<1>1. CASE /\ reset
           /\ frame' = NoFrame /\ m_payload_left' = 0
           /\ m_control_message' = Nothing
           /\ handed' = [op |-> msg.op, size |-> msg.size]
           /\ UNCHANGED <<m_data_message, violation, character>>
  <2>1. handed' \in Handed
    BY <1>1, NothingIs, HandedIs
  <2>2. TypeOK'
    BY <1>0, <1>1, <2>1 DEF TypeOK, reset, BASIC_HEADER_LENGTH, SocketStays
  <2>3. Between'
    BY <1>1 DEF Between, AtHeader, reset
  <2>4. TextState'
    BY <1>0, <1>1 DEF TextState
  <2> QED BY <1>1, <2>2, <2>3, <2>4 DEF FrameInv, Position
<1>2. CASE /\ msg.op = "CLOSE"
           /\ \/ msg.size >= 1 /\ Refuse("close code")
              \/ msg.size > 2 /\ Refuse("close reason")
           /\ header' = "BASIC" /\ m_bytes_needed' = BASIC_HEADER_LENGTH
           /\ m_payload_left' = 0
           /\ m_control_message' = msg
           /\ UNCHANGED <<m_state, m_data_message, character>>
  <2>1. /\ violation' \in {"close code", "close reason"}
        /\ UNCHANGED <<frame, handed>>
    BY <1>2 DEF Refuse
  <2>2. TypeOK'
    <3>1. m_state' = m_state /\ m_data_message' = m_data_message
          /\ character' = character /\ handed' = handed /\ frame' = frame
          /\ violation' \in Violations /\ m_control_message' \in Control
      BY <1>2, <2>1 DEF Violations
    <3>2. header' = "BASIC" /\ m_bytes_needed' = 2 /\ m_payload_left' = 0
      BY <1>2 DEF BASIC_HEADER_LENGTH
    <3> QED BY <1>0, <3>1, <3>2 DEF TypeOK, BASIC_HEADER_LENGTH, SocketStays
  <2>3. Refused'
    BY <2>1 DEF Refused, SocketStays
  <2> QED BY <2>1, <2>2, <2>3 DEF FrameInv
<1> QED BY <1>1, <1>2 DEF ControlFrame

\* The end of a data frame keeps the invariant.
LEMMA DataEnds ==
  ASSUME FrameInv, violation = "none", wanted = 0,
         frame \in Frames, m_control_message = Nothing,
         NEW msg \in Message, NEW c \in Seq(Bytes), Validated(msg, c),
         owed' = 0, SocketStays, DataFrame(msg, c)
  PROVE  FrameInv'
<1>0. TypeOK /\ c \in Seq(Byte)
  BY BytesAre DEF FrameInv
<1>a. /\ header' = "BASIC" /\ m_bytes_needed' = BASIC_HEADER_LENGTH
      /\ m_payload_left' = 0
      /\ character' = c
      /\ UNCHANGED m_control_message
  BY DEF DataFrame
<1>b. msg.op = "TEXT" => (msg.utf8 = UTF8_ACCEPT <=> c = <<>>) /\ Len(c) <= 3
  BY <1>0, StateRange DEF Validated
<1>c. msg.op = "BINARY" => c = <<>> /\ Len(c) <= 3
  BY DEF Validated
<1>d. character' \in Seq(Bytes) /\ Len(character') <= 4
  <2>1. Len(c) <= 3 /\ Len(c) \in Nat
    BY <1>b, <1>c, NothingIs
  <2> QED BY <2>1, <1>a
<1>1. CASE /\ frame.fin
           /\ msg.op = "TEXT" => msg.utf8 = UTF8_ACCEPT
           /\ m_state' = "READ_HEADER" /\ frame' = NoFrame
           /\ handed' = [op |-> msg.op, size |-> msg.size]
           /\ m_data_message' = Nothing
           /\ UNCHANGED violation
  <2>1. handed' \in Handed
    BY <1>1, NothingIs, HandedIs
  <2>2. TypeOK'
    BY <1>0, <1>1, <1>a, <1>d, <2>1 DEF TypeOK, BASIC_HEADER_LENGTH,
       SocketStays
  <2>3. Between'
    BY <1>1, <1>a DEF Between, AtHeader
  <2>4. TextState'
    BY <1>1, <1>a, <1>b, <1>c, NothingIs DEF TextState
  <2> QED BY <1>1, <2>2, <2>3, <2>4 DEF FrameInv, Position
<1>2. CASE /\ frame.fin
           /\ msg.op = "TEXT" /\ msg.utf8 # UTF8_ACCEPT
           /\ Refuse("text")
           /\ m_data_message' = msg
           /\ UNCHANGED m_state
  <2>1. violation' = "text" /\ UNCHANGED <<frame, handed>>
    BY <1>2 DEF Refuse
  <2>2. TypeOK'
    BY <1>0, <1>2, <1>a, <1>d, <2>1 DEF TypeOK, BASIC_HEADER_LENGTH,
       SocketStays, Violations
  <2>3. Refused'
    BY <1>2, <1>a, <1>b, <2>1 DEF Refused, SocketStays
  <2> QED BY <2>1, <2>2, <2>3 DEF FrameInv
<1>3. CASE /\ ~frame.fin
           /\ m_state' = "READ_HEADER" /\ frame' = NoFrame
           /\ m_data_message' = msg
           /\ UNCHANGED <<handed, violation>>
  <2>2. TypeOK'
    BY <1>0, <1>3, <1>a, <1>d DEF TypeOK, BASIC_HEADER_LENGTH, SocketStays
  <2>3. Between'
    BY <1>3, <1>a DEF Between, AtHeader
  <2>4. TextState'
    BY <1>3, <1>a, NothingIs DEF TextState, Validated
  <2> QED BY <1>3, <2>2, <2>3, <2>4 DEF FrameInv, Position
<1> QED BY <1>1, <1>2, <1>3 DEF DataFrame

-----------------------------------------------------------------------------
(* Steps of the socket and of the header.                                  *)

\* The read threshold and the bound of a read.
LEMMA SegmentIs ==
    /\ m_read_threshold \in Nat /\ m_read_threshold > 0
    /\ MaxSegment \in Nat /\ m_read_threshold <= MaxSegment
BY ReaderAssumption

\* A step of the socket alone keeps the invariant.
LEMMA Goes ==
  ASSUME FrameInv, UNCHANGED <<wirevars, headervars, m_state, m_payload_left,
                               messagevars, handed, violation, character>>,
         violation = "none",
         arrived' \in 0..MaxSegment, m_buf' \in 0..MaxSegment,
         wanted' \in 0..m_read_threshold
  PROVE  FrameInv'
<1>1. TypeOK'
  BY DEF FrameInv, TypeOK, wirevars, headervars, messagevars
<1>2. Position'
  BY DEF FrameInv, Position, Between, InBasic, InExtended, InControl, InData,
         AtHeader, AtPayload, Done, wirevars, headervars, messagevars
<1>3. TextState'
  BY DEF FrameInv, TextState, messagevars
<1> QED BY <1>1, <1>2, <1>3 DEF FrameInv

\* A byte that comes in keeps the invariant.
LEMMA ArriveInv == ASSUME FrameInv, Arrive PROVE FrameInv'
<1>1. violation = "none"
  <2>1. wanted > 0 /\ wanted \in 0..m_read_threshold
    BY DEF FrameInv, TypeOK, Arrive
  <2>2. wanted # 0
    BY <2>1, SegmentIs
  <2> QED BY <2>2 DEF FrameInv, Refused
<1>2. /\ arrived' \in 0..MaxSegment /\ m_buf' \in 0..MaxSegment
      /\ wanted' \in 0..m_read_threshold
  <2>1. /\ arrived \in 0..MaxSegment /\ arrived < MaxSegment
        /\ arrived' = arrived + 1 /\ wanted' = wanted /\ m_buf' = m_buf
    BY DEF FrameInv, TypeOK, Arrive
  <2> QED BY <2>1, SegmentIs DEF FrameInv, TypeOK
<1> QED BY <1>1, <1>2, Goes DEF Arrive

\* The end of a read keeps the invariant.
LEMMA HandleReadFrameInv == ASSUME FrameInv, HandleReadFrame PROVE FrameInv'
<1>1. violation = "none"
  <2>1. wanted > 0 /\ wanted \in 0..m_read_threshold
    BY DEF FrameInv, TypeOK, HandleReadFrame
  <2>2. wanted # 0
    BY <2>1, SegmentIs
  <2> QED BY <2>2 DEF FrameInv, Refused
<1>2. /\ arrived' \in 0..MaxSegment /\ m_buf' \in 0..MaxSegment
      /\ wanted' \in 0..m_read_threshold
  <2>1. arrived' = 0 /\ wanted' = 0 /\ m_buf' = arrived
    BY DEF HandleReadFrame
  <2> QED BY <2>1, SegmentIs DEF FrameInv, TypeOK
<1> QED BY <1>1, <1>2, Goes DEF HandleReadFrame

\* The reader always waits for something: no read of 0 bytes is started.
LEMMA NeededIs ==
  ASSUME FrameInv, violation = "none"
  PROVE  get_bytes_needed \in Nat \ {0}
<1>1. TypeOK /\ Position
  BY DEF FrameInv
<1>2. frame \in Frames => FrameFacts(frame)
  BY FrameIs
<1>3. CASE Between \/ InBasic
  BY <1>1, <1>3 DEF Between, InBasic, AtHeader, get_bytes_needed, TypeOK,
     BASIC_HEADER_LENGTH
<1>4. CASE InExtended
  BY <1>1, <1>2, <1>4 DEF InExtended, AtHeader, get_bytes_needed, TypeOK,
     BASIC_HEADER_LENGTH, FrameFacts
<1>5. CASE InControl \/ InData
  BY <1>1, <1>2, <1>5 DEF InControl, InData, AtPayload, get_bytes_needed,
     TypeOK, FrameFacts
<1> QED BY <1>1, <1>3, <1>4, <1>5 DEF Position

\* The start of a read keeps the invariant.
LEMMA ReadOnInv == ASSUME FrameInv, ReadOn PROVE FrameInv'
<1>1. violation = "none"
  BY DEF ReadOn, Running
<1>2. /\ arrived' \in 0..MaxSegment /\ m_buf' \in 0..MaxSegment
  BY DEF FrameInv, TypeOK, ReadOn
<1>3. wanted' \in 0..m_read_threshold
  <2> DEFINE n == get_bytes_needed
  <2>1. n \in Nat
    BY <1>1, NeededIs
  <2>2. wanted' = IF n < m_read_threshold THEN n ELSE m_read_threshold
    BY DEF ReadOn, AtLeast
  <2> HIDE DEF n
  <2> QED BY <2>1, <2>2, ReaderAssumption
<1> QED BY <1>1, <1>2, <1>3, Goes DEF ReadOn

\* The first byte of a frame keeps the invariant.
LEMMA NextFrameInv == ASSUME FrameInv, NextFrame PROVE FrameInv'
<1>1. violation = "none" /\ TypeOK /\ Between /\ TextState
  <2>1. \A f \in Frames : f # NoFrame
    BY ReaderAssumption
  <2> QED BY <2>1 DEF FrameInv, NextFrame, Running, Position, InBasic,
             InExtended,
               InControl, InData, AtPayload
<1>2. FrameFacts(frame') /\ frame' \in Frames
  BY FrameIs DEF NextFrame
<1>3. TypeOK'
  <2>1. owed' \in Nat /\ handed' = Nothing
    BY <1>2 DEF NextFrame, FrameFacts
  <2>2. UNCHANGED <<socketvars, headervars, m_state, m_payload_left,
                    messagevars, violation, character>>
    BY DEF NextFrame
  <2> QED BY <1>1, <1>2, <2>1, <2>2 DEF TypeOK, socketvars, headervars,
             messagevars
<1>4. InBasic'
  BY <1>1, <1>2 DEF InBasic, Between, AtHeader, NextFrame, FrameFacts,
     headervars, messagevars, BASIC_HEADER_LENGTH
<1>5. TextState'
  BY <1>1 DEF TextState, NextFrame, messagevars
<1> QED BY <1>1, <1>3, <1>4, <1>5 DEF FrameInv, Position, NextFrame

\* Bytes taken from the buffer leave the rest of the socket alone.
LEMMA TakeStays ==
  ASSUME FrameInv, NEW n \in Nat, Take(n)
  PROVE  SocketStays
<1>1. m_buf \in 0..MaxSegment /\ m_buf >= n /\ m_buf' = m_buf - n
  BY DEF FrameInv, TypeOK, Take
<1>2. m_buf' \in 0..MaxSegment
  BY <1>1, SegmentIs
<1> QED BY <1>2 DEF Take, SocketStays

\* A part of a header keeps the invariant.
LEMMA HeaderPartInv == ASSUME FrameInv, HeaderPart PROVE FrameInv'
<1>1. violation = "none" /\ wanted = 0 /\ TypeOK /\ TextState /\ SocketStays
  <2>1. m_buf \in Nat
    BY ReaderAssumption DEF FrameInv, TypeOK
  <2> QED BY <2>1, TakeStays DEF FrameInv, HeaderPart, Running
<1>2. InBasic \/ InExtended
  BY <1>1 DEF FrameInv, HeaderPart, Position, Between, InControl, InData,
     AtPayload
<1>3. FrameFacts(frame) /\ frame \in Frames
  BY <1>2, FrameIs DEF InBasic, InExtended
<1>4. /\ m_bytes_needed' = m_bytes_needed - m_buf /\ owed' = owed - m_buf
      /\ 0 < m_buf /\ m_buf < m_bytes_needed /\ m_buf \in Nat
      /\ m_bytes_needed \in 0..12
      /\ UNCHANGED <<frame, header, m_state, m_payload_left, messagevars,
                   handed, violation, character>>
  BY <1>1, ReaderAssumption DEF HeaderPart, Take, TypeOK
<1>5. m_bytes_needed' \in 1..m_bytes_needed /\ m_bytes_needed' \in 0..12
  BY <1>4
<1>6. CASE InBasic
  <2>1. InBasic'
    BY <1>3, <1>4, <1>5, <1>6 DEF InBasic, AtHeader, messagevars, FrameFacts,
       BASIC_HEADER_LENGTH
  <2>2. owed' \in Nat
    BY <2>1, <1>3, <1>4 DEF InBasic, FrameFacts, BASIC_HEADER_LENGTH
  <2>3. TypeOK'
    BY <1>1, <1>3, <1>4, <1>5, <2>2 DEF TypeOK, messagevars, SocketStays
  <2>4. TextState'
    BY <1>1, <1>4 DEF TextState, messagevars
  <2> QED BY <1>1, <1>4, <2>1, <2>3, <2>4 DEF FrameInv, Position
<1>7. CASE InExtended
  <2>0. get_header_len(frame') = get_header_len(frame) /\ frame' = frame
    BY <1>4
  <2>1. InExtended'
    <3>1. m_bytes_needed' \in 1..get_header_len(frame) - BASIC_HEADER_LENGTH
      BY <1>3, <1>4, <1>5, <1>7 DEF InExtended, FrameFacts, BASIC_HEADER_LENGTH
    <3>2. owed' = frame.size + m_bytes_needed'
      BY <1>3, <1>4, <1>7 DEF InExtended, FrameFacts
    <3> QED BY <3>1, <3>2, <2>0, <1>4, <1>7
               DEF InExtended, AtHeader, messagevars
  <2>2. owed' \in Nat
    BY <2>1, <2>0, <1>3, <1>5 DEF InExtended, FrameFacts
  <2>3. TypeOK'
    BY <1>1, <1>3, <1>4, <1>5, <2>2 DEF TypeOK, messagevars, SocketStays
  <2>4. TextState'
    BY <1>1, <1>4 DEF TextState, messagevars
  <2> QED BY <1>1, <1>4, <2>1, <2>3, <2>4 DEF FrameInv, Position
<1> QED BY <1>2, <1>6, <1>7

\* A complete header, in either state of its parser.
HeaderDone ==
    /\ violation = "none" /\ wanted = 0 /\ TypeOK /\ TextState /\ SocketStays
    /\ frame \in Frames /\ FrameFacts(frame)
    /\ m_state = "READ_HEADER" /\ m_payload_left = 0
    /\ m_control_message = Nothing
    /\ owed' \in Nat

\* What is known when a part of the header is complete, and what is still owed.
LEMMA HeaderBytesIs ==
  ASSUME FrameInv, NEW state \in {"BASIC", "EXTENDED"}, HeaderBytes(state)
  PROVE  /\ HeaderDone
         /\ state = "BASIC" => /\ InBasic
                               /\ owed' = get_header_len(frame) - 2 + frame.size
         /\ state = "EXTENDED" => InExtended /\ owed' = frame.size
<1>1. violation = "none" /\ wanted = 0 /\ TypeOK /\ TextState
  BY DEF FrameInv, HeaderBytes, Running
<1>2. m_bytes_needed \in Nat /\ SocketStays /\ owed' = owed - m_bytes_needed
  <2>1. m_bytes_needed \in Nat
    BY <1>1 DEF TypeOK
  <2> QED BY <2>1, TakeStays DEF HeaderBytes, Take
<1>3. /\ state = "BASIC" => InBasic
      /\ state = "EXTENDED" => InExtended
  BY <1>1 DEF FrameInv, HeaderBytes, Position, Between, InBasic, InExtended,
              AtHeader, InControl, InData, AtPayload
<1>4. /\ frame \in Frames /\ FrameFacts(frame)
      /\ m_state = "READ_HEADER" /\ m_payload_left = 0
      /\ m_control_message = Nothing
  BY <1>3, FrameIs DEF InBasic, InExtended, AtHeader
<1>5. CASE state = "BASIC"
  <2>1. owed' = get_header_len(frame) - 2 + frame.size
    BY <1>2, <1>3, <1>4, <1>5 DEF InBasic, FrameFacts, BASIC_HEADER_LENGTH
  <2>2. owed' \in Nat
    BY <2>1, <1>4 DEF FrameFacts
  <2> QED BY <1>1, <1>2, <1>3, <1>4, <1>5, <2>1, <2>2 DEF HeaderDone
<1>6. CASE state = "EXTENDED"
  <2>1. owed' = frame.size
    BY <1>2, <1>3, <1>4, <1>6 DEF InExtended, FrameFacts
  <2>2. owed' \in Nat
    BY <2>1, <1>4 DEF FrameFacts
  <2> QED BY <1>1, <1>2, <1>3, <1>4, <1>6, <2>1, <2>2 DEF HeaderDone
<1> QED BY <1>5, <1>6

\* A complete header is valid, and only the payload is still owed.
LEMMA HeaderReadyIs ==
  ASSUME FrameInv, HeaderReady
  PROVE  /\ HeaderDone /\ owed' = frame.size
         /\ BasicHeaderValid(frame) /\ MinimallyEncoded(frame)
<1>1. CASE /\ HeaderBytes("BASIC")
           /\ BasicHeaderValid(frame)
           /\ get_header_len(frame) = BASIC_HEADER_LENGTH
  <2>1. HeaderDone /\ owed' = get_header_len(frame) - 2 + frame.size
    BY <1>1, HeaderBytesIs
  <2>2. owed' = frame.size /\ frame.form = 7
    <3>1. frame \in Frame /\ frame.size \in Nat
      BY <2>1 DEF HeaderDone, FrameFacts
    <3>2. frame.form = 7
      BY <1>1, <3>1 DEF get_header_len, BASIC_HEADER_LENGTH, Frame
    <3> QED BY <1>1, <2>1, <3>1, <3>2 DEF BASIC_HEADER_LENGTH
  <2>3. MinimallyEncoded(frame)
    BY <2>2 DEF MinimallyEncoded
  <2> QED BY <1>1, <2>1, <2>2, <2>3
<1>2. CASE HeaderBytes("EXTENDED") /\ MinimallyEncoded(frame)
  <2>1. HeaderDone /\ InExtended /\ owed' = frame.size
    BY <1>2, HeaderBytesIs
  <2> QED BY <1>2, <2>1 DEF InExtended
<1> QED BY <1>1, <1>2 DEF HeaderReady

\* The steps that refuse a frame without regard to its bytes.
LEMMA RefusalInv ==
  ASSUME FrameInv, violation = "none", wanted = 0, SocketStays,
         frame \in Frames, NEW v \in {"basic header", "extended header", "sequence", "too big"},
         violation' = v,
         v = "basic header" => ~BasicHeaderValid(frame),
         v = "extended header" => ~MinimallyEncoded(frame),
         header' \in {"BASIC", "EXTENDED"}, m_bytes_needed' \in 0..12,
         owed' \in Nat,
         UNCHANGED <<frame, handed, m_state, m_payload_left, messagevars,
                     character>>
  PROVE  FrameInv'
<1>1. TypeOK'
  BY DEF FrameInv, TypeOK, SocketStays, messagevars, Violations
<1>2. Refused'
  BY DEF Refused, SocketStays
<1> QED BY <1>1, <1>2 DEF FrameInv

\* The refusal of the basic header keeps the invariant.
LEMMA BasicHeaderRefusedInv ==
  ASSUME FrameInv, BasicHeaderRefused PROVE FrameInv'
<1>1. HeaderDone /\ InBasic
  BY HeaderBytesIs DEF BasicHeaderRefused
<1>2. m_bytes_needed' \in 0..12
  <2>1. m_bytes_needed' = get_header_len(frame) - 2
    BY DEF BasicHeaderRefused, BASIC_HEADER_LENGTH
  <2>2. get_header_len(frame) \in 2..14
    BY <1>1 DEF HeaderDone, FrameFacts
  <2> QED BY <2>1, <2>2
<1>3. header' = "BASIC"
  BY <1>1 DEF BasicHeaderRefused, InBasic, AtHeader
<1> QED BY <1>1, <1>2, <1>3, RefusalInv DEF BasicHeaderRefused, HeaderDone,
           Refuse

\* The refusal of the extended header keeps the invariant.
LEMMA ExtendedHeaderRefusedInv ==
  ASSUME FrameInv, ExtendedHeaderRefused PROVE FrameInv'
<1>1. HeaderDone /\ InExtended
  BY HeaderBytesIs DEF ExtendedHeaderRefused
<1>2. m_bytes_needed' \in 0..12 /\ header' = "EXTENDED"
  <2>1. m_bytes_needed' = 0 /\ header' = header
    BY DEF ExtendedHeaderRefused
  <2> QED BY <1>1, <2>1 DEF InExtended, AtHeader
<1> QED BY <1>1, <1>2, RefusalInv DEF ExtendedHeaderRefused, HeaderDone, Refuse

\* The refusal of a frame out of sequence keeps the invariant.
LEMMA DataHeaderRefusedInv ==
  ASSUME FrameInv, DataHeaderRefused PROVE FrameInv'
<1>1. HeaderDone
  BY HeaderReadyIs DEF DataHeaderRefused
<1>2. m_bytes_needed' \in 0..12 /\ header' = "BASIC"
  BY DEF DataHeaderRefused, BASIC_HEADER_LENGTH
<1> QED BY <1>1, <1>2, RefusalInv DEF DataHeaderRefused, HeaderDone, Refuse

\* The refusal of a message for its size keeps the invariant.
LEMMA MessageTooBigInv ==
  ASSUME FrameInv, MessageTooBig PROVE FrameInv'
<1>1. violation = "none" /\ wanted = 0 /\ frame \in Frames
  <2>1. Running /\ m_state = "READ_PAYLOAD"
    BY DEF MessageTooBig, TooBig, InPayload
  <2> QED BY <2>1 DEF Running, FrameInv, Position, Between, InBasic,
             InExtended,
                     AtHeader, InControl, InData, AtPayload
<1>2. SocketStays /\ owed' \in Nat
  <2>1. UNCHANGED <<owed, arrived, wanted, m_buf>>
    BY DEF MessageTooBig, socketvars
  <2> QED BY <2>1 DEF FrameInv, TypeOK, SocketStays
<1>3. m_bytes_needed' \in 0..12 /\ header' = "BASIC"
  <2>1. m_bytes_needed' = 2 /\ header' = "BASIC"
    BY DEF MessageTooBig, BASIC_HEADER_LENGTH
  <2> QED BY <2>1
<1> QED BY <1>1, <1>2, <1>3, RefusalInv DEF MessageTooBig, Refuse

\* The complete basic header keeps the invariant.
LEMMA BasicHeaderInv ==
  ASSUME FrameInv, BasicHeader PROVE FrameInv'
<1>1. HeaderDone /\ InBasic /\ owed' = get_header_len(frame) - 2 + frame.size
  BY HeaderBytesIs DEF BasicHeader
<1>2. /\ m_bytes_needed' = get_header_len(frame) - 2
      /\ get_header_len(frame) > 2 /\ header' = "EXTENDED"
      /\ UNCHANGED <<frame, m_state, m_payload_left, messagevars, handed,
                     violation, character>>
      /\ BasicHeaderValid(frame)
  BY DEF BasicHeader, BASIC_HEADER_LENGTH
<1>3. m_bytes_needed' \in 1..get_header_len(frame) - 2 /\ m_bytes_needed' \in 0..12
  BY <1>1, <1>2 DEF HeaderDone, FrameFacts
<1>4. owed' = frame.size + m_bytes_needed'
  BY <1>1, <1>2 DEF HeaderDone, FrameFacts
<1>5. TypeOK'
  BY <1>1, <1>2, <1>3 DEF TypeOK, HeaderDone, SocketStays, messagevars
<1>6. InExtended'
  BY <1>1, <1>2, <1>3, <1>4 DEF InExtended, HeaderDone, AtHeader, messagevars,
     BASIC_HEADER_LENGTH
<1>7. TextState'
  BY <1>1, <1>2 DEF TextState, HeaderDone, messagevars
<1> QED BY <1>1, <1>2, <1>5, <1>6, <1>7 DEF FrameInv, Position, HeaderDone

\* The complete header of a control frame keeps the invariant.
LEMMA ControlHeaderInv ==
  ASSUME FrameInv, ControlHeader PROVE FrameInv'
<1> DEFINE msg == [op |-> frame.op, size |-> 0,
                   masking_index |-> IF frame.masking = "key" THEN 0 ELSE -1]
<1>1. /\ HeaderDone /\ owed' = frame.size
      /\ BasicHeaderValid(frame) /\ MinimallyEncoded(frame)
      /\ is_control(frame.op)
  BY HeaderReadyIs DEF ControlHeader
<1>2. msg \in Control /\ msg.op = frame.op /\ msg.size = 0
  BY <1>1, LimitsAssumption DEF Control, HeaderDone, FrameFacts
<1>3. CASE frame.size = 0
  <2>1. ControlFrame(msg) /\ owed' = 0
    BY <1>1, <1>3 DEF ControlHeader
  <2> HIDE DEF msg
  <2> QED BY <1>1, <1>2, <2>1, ControlEnds DEF HeaderDone
<1>4. CASE frame.size # 0
  <2>1. /\ ExpectPayload /\ m_control_message' = msg
        /\ m_data_message' = m_data_message
    BY <1>4 DEF ControlHeader
  <2>2. /\ m_state' = "READ_PAYLOAD" /\ m_payload_left' = frame.size
        /\ header' = "READY" /\ m_bytes_needed' = 0
        /\ frame' = frame /\ handed' = handed /\ violation' = violation
        /\ character' = character
    BY <2>1 DEF ExpectPayload
  <2>3. frame.size \in Nat /\ frame.size # 0
    BY <1>1, <1>4 DEF HeaderDone, FrameFacts
  <2>4. TypeOK'
    <3> HIDE DEF msg
    <3> QED BY <1>1, <1>2, <2>1, <2>2, <2>3 DEF TypeOK, HeaderDone, SocketStays
  <2>5. AtPayload' /\ Done' = 0
    BY <1>1, <2>2, <2>3 DEF AtPayload, Done, HeaderDone, BasicHeaderValid,
       MinimallyEncoded
  <2>6. InControl'
    BY <1>1, <2>1, <2>2, <2>5 DEF InControl
  <2>7. TextState'
    BY <1>1, <2>1, <2>2 DEF TextState, HeaderDone
  <2> QED BY <1>1, <2>2, <2>4, <2>6, <2>7 DEF FrameInv, Position, HeaderDone
<1> QED BY <1>3, <1>4

\* The operation codes of data frames that are not refused.
LEMMA DataOps ==
  ASSUME NEW f \in Frames, BasicHeaderValid(f), ~is_control(f.op)
  PROVE  f.op \in {"CONTINUATION", "TEXT", "BINARY"}
BY FrameIs DEF FrameFacts, BasicHeaderValid, is_control, reserved, Opcodes

\* A new message is an empty message.
LEMMA NewMessageIs ==
  ASSUME NEW op \in {"TEXT", "BINARY"}
  PROVE  /\ NewMessage(op) \in Message
         /\ NewMessage(op).op = op /\ NewMessage(op).size = 0
         /\ NewMessage(op).utf8 = UTF8_ACCEPT
BY LimitsAssumption DEF NewMessage, Message, UTF8_ACCEPT

\* A new key leaves a message as it is but for its index.
LEMMA KeyIs ==
  ASSUME NEW msg \in Message
  PROVE  /\ set_masking_key(msg) \in Message
         /\ set_masking_key(msg).op = msg.op
         /\ set_masking_key(msg).size = msg.size
         /\ set_masking_key(msg).utf8 = msg.utf8
         /\ set_masking_key(msg).masking_index =
                IF frame.masking = "key" THEN 0 ELSE -2
BY DEF set_masking_key, Message

\* The message that a data frame begins or goes on with.
LEMMA HeaderMessage ==
  ASSUME HeaderDone, BasicHeaderValid(frame), ~is_control(frame.op),
         (frame.op = "CONTINUATION") <=> (m_data_message # Nothing)
  PROVE  LET msg == IF m_data_message = Nothing THEN NewMessage(frame.op)
                    ELSE m_data_message
         IN /\ msg \in Message /\ Validated(msg, character)
            /\ frame.op # "CONTINUATION" => msg.op = frame.op /\ msg.size = 0
            /\ m_data_message = Nothing => msg.utf8 = UTF8_ACCEPT
<1> DEFINE msg == IF m_data_message = Nothing THEN NewMessage(frame.op)
                  ELSE m_data_message
<1>1. /\ HeaderDone
      /\ (frame.op = "CONTINUATION") <=> (m_data_message # Nothing)
  OBVIOUS
<1>2. frame.op \in {"CONTINUATION", "TEXT", "BINARY"}
  BY DataOps DEF HeaderDone
<1>3. /\ msg \in Message /\ Validated(msg, character)
      /\ frame.op # "CONTINUATION" => msg.op = frame.op /\ msg.size = 0
      /\ m_data_message = Nothing => msg.utf8 = UTF8_ACCEPT
  <2>1. CASE m_data_message = Nothing
    <3>1. frame.op \in {"TEXT", "BINARY"} /\ msg = NewMessage(frame.op)
      BY <1>1, <1>2, <2>1
    <3>2. character = <<>>
      BY <1>1, <2>1 DEF HeaderDone, TextState
    <3> HIDE DEF msg
    <3> QED BY <3>1, <3>2, NewMessageIs DEF Validated, Open, StateOf
  <2>2. CASE m_data_message # Nothing
    <3>1. msg = m_data_message /\ frame.op = "CONTINUATION" /\ msg \in Message
      BY <1>1, <2>2 DEF HeaderDone, TypeOK
    <3> HIDE DEF msg
    <3> QED BY <1>1, <3>1, <2>2 DEF HeaderDone, TextState
  <2> QED BY <2>1, <2>2
<1> QED BY <1>3

\* The complete header of a data frame keeps the invariant.
LEMMA DataHeaderInv ==
  ASSUME FrameInv, DataHeader PROVE FrameInv'
<1> DEFINE msg == IF m_data_message = Nothing THEN NewMessage(frame.op)
                  ELSE m_data_message
<1>1. /\ HeaderDone /\ owed' = frame.size
      /\ BasicHeaderValid(frame) /\ MinimallyEncoded(frame)
      /\ ~is_control(frame.op)
      /\ (frame.op = "CONTINUATION") <=> (m_data_message # Nothing)
  BY HeaderReadyIs DEF DataHeader
<1>3. /\ msg \in Message /\ Validated(msg, character)
      /\ frame.op # "CONTINUATION" => msg.op = frame.op /\ msg.size = 0
  BY <1>1, HeaderMessage
<1>4. CASE frame.size = 0
  <2>1. DataFrame(msg, character) /\ owed' = 0
    BY <1>1, <1>4 DEF DataHeader
  <2>2. character \in Seq(Bytes)
    BY <1>1 DEF HeaderDone, TypeOK
  <2> HIDE DEF msg
  <2> QED BY <1>1, <1>3, <2>1, <2>2, DataEnds DEF HeaderDone
<1>5. CASE frame.size # 0
  <2>1. /\ ExpectPayload /\ m_data_message' = set_masking_key(msg)
        /\ m_control_message' = m_control_message
    BY <1>5 DEF DataHeader
  <2> HIDE DEF msg
  <2>2. /\ m_state' = "READ_PAYLOAD" /\ m_payload_left' = frame.size
        /\ header' = "READY" /\ m_bytes_needed' = 0
        /\ frame' = frame /\ handed' = handed /\ violation' = violation
        /\ character' = character
    BY <2>1 DEF ExpectPayload
  <2>3. frame.size \in Nat /\ frame.size # 0
    BY <1>1, <1>5 DEF HeaderDone, FrameFacts
  <2>8. /\ m_data_message' \in Message
        /\ m_data_message'.op = msg.op /\ m_data_message'.size = msg.size
        /\ m_data_message'.utf8 = msg.utf8
        /\ m_data_message'.masking_index =
               IF frame.masking = "key" THEN 0 ELSE -2
    BY <2>1, <1>3, KeyIs
  <2>4. TypeOK'
    BY <1>1, <2>1, <2>2, <2>3, <2>8 DEF TypeOK, HeaderDone, SocketStays
  <2>5. AtPayload' /\ Done' = 0
    BY <1>1, <2>2, <2>3 DEF AtPayload, Done, HeaderDone, BasicHeaderValid,
       MinimallyEncoded
  <2>6. InData'
    <3>1. msg.size \in Nat
      BY <1>3, NothingIs
    <3> QED BY <1>1, <1>3, <2>1, <2>2, <2>5, <2>8, <3>1 DEF InData, HeaderDone
  <2>7. TextState'
    BY <1>3, <2>2, <2>8, NothingIs DEF TextState, Validated
  <2> QED BY <1>1, <2>2, <2>4, <2>6, <2>7 DEF FrameInv, Position, HeaderDone
<1> QED BY <1>4, <1>5

-----------------------------------------------------------------------------
(* Steps of the payload.                                                   *)

\* What is known in a payload.
PayloadFacts ==
    /\ violation = "none" /\ wanted = 0 /\ TypeOK /\ TextState
    /\ frame \in Frames /\ FrameFacts(frame) /\ AtPayload
    /\ m_payload_left \in Nat /\ m_payload_left # 0
    /\ m_payload_left <= frame.size

\* The kind of the frame says which of the messages a payload belongs to.
LEMMA InPayloadIs ==
  ASSUME FrameInv, NEW control \in BOOLEAN, InPayload(control)
  PROVE  /\ PayloadFacts
         /\ IF control THEN InControl ELSE InData
<1>1. violation = "none" /\ wanted = 0 /\ TypeOK /\ TextState
  BY DEF FrameInv, InPayload, Running
<1>2. m_state = "READ_PAYLOAD" /\ is_control(frame.op) = control
  BY DEF InPayload
<1>3. InControl \/ InData
  BY <1>1, <1>2 DEF FrameInv, Position, Between, InBasic, InExtended, AtHeader
<1>4. IF control THEN InControl ELSE InData
  BY <1>2, <1>3 DEF InControl, InData
<1>5. AtPayload /\ frame \in Frames /\ FrameFacts(frame)
  BY <1>3, FrameIs DEF InControl, InData, AtPayload
<1>6. m_payload_left \in 1..frame.size /\ frame.size \in Nat
  BY <1>5 DEF AtPayload, FrameFacts
<1>7. m_payload_left \in Nat /\ m_payload_left # 0 /\ m_payload_left <= frame.size
  BY <1>6
<1> QED BY <1>1, <1>4, <1>5, <1>7 DEF PayloadFacts

\* The control message with one byte more.
WithByte == [m_control_message EXCEPT
                !.size = @ + 1,
                !.masking_index = IF @ >= 0 THEN @ + 1 ELSE @]

\* A byte more of a control message keeps to its frame.
LEMMA ControlProcessed ==
  ASSUME PayloadFacts, InControl
  PROVE  /\ WithByte \in Control /\ WithByte.op = frame.op /\ WithByte.size = Done + 1
         /\ WithByte = [op |-> frame.op, size |-> Done + 1,
                   masking_index |-> IF frame.masking = "key" THEN Done + 1 ELSE -1]
         /\ m_payload_left = 1 => WithByte.size = frame.size
         /\ frame.size \in Nat
<1>1. PayloadFacts /\ InControl
  OBVIOUS
<1>3. frame.size <= PAYLOAD_SIZE_BASIC /\ frame.size \in Nat
  BY <1>1 DEF PayloadFacts, FrameFacts, AtPayload, InControl, BasicHeaderValid
<1>4. /\ WithByte = [op |-> frame.op, size |-> Done + 1,
                masking_index |-> IF frame.masking = "key" THEN Done + 1 ELSE -1]
      /\ Done \in 0..frame.size - 1
  <2>1. m_control_message =
           [op |-> frame.op, size |-> Done,
            masking_index |-> IF frame.masking = "key" THEN Done ELSE -1]
    BY <1>1 DEF InControl
  <2>2. Done \in 0..frame.size - 1
    BY <1>1, <1>3 DEF PayloadFacts, Done
  <2>3. Done \in Nat
    BY <2>2, <1>3
  <2> DEFINE m == m_control_message
             k == IF m.masking_index >= 0 THEN m.masking_index + 1
                  ELSE m.masking_index
  <2>4. k = IF frame.masking = "key" THEN Done + 1 ELSE -1
    <3> HIDE DEF Done
    <3>1. m.masking_index = IF frame.masking = "key" THEN Done ELSE -1
      BY <2>1
    <3> QED BY <2>3, <3>1
  <2>5. m.op = frame.op /\ m.size = Done /\ WithByte = [m EXCEPT !.size = m.size + 1,
                                                           !.masking_index = k]
    BY <2>1 DEF WithByte
  <2> HIDE DEF Done, k
  <2>6. WithByte = [op |-> frame.op, size |-> Done + 1, masking_index |-> k]
    BY <2>1, <2>5
  <2> QED BY <2>2, <2>4, <2>6
<1>5. WithByte \in Control /\ WithByte.op = frame.op
  <2>1. Done + 1 \in 0..PAYLOAD_SIZE_BASIC /\ frame.op \in Opcodes
    BY <1>1, <1>3, <1>4, LimitsAssumption DEF PayloadFacts, FrameFacts
  <2> HIDE DEF Done
  <2> QED BY <1>4, <2>1, LimitsAssumption DEF Control
<1>6. WithByte.size = Done + 1
  <2> HIDE DEF Done
  <2> QED BY <1>4
<1>7. m_payload_left = 1 => Done + 1 = frame.size
  BY <1>1, <1>3 DEF PayloadFacts, Done
<1> QED BY <1>3, <1>4, <1>5, <1>6, <1>7

\* A byte of a control frame keeps the invariant.
LEMMA ControlCharacterInv ==
  ASSUME FrameInv, ControlCharacter PROVE FrameInv'
<1> DEFINE msg == [m_control_message EXCEPT
                      !.size = @ + 1,
                      !.masking_index = IF @ >= 0 THEN @ + 1 ELSE @]
<1>1. PayloadFacts /\ InControl
  BY InPayloadIs DEF ControlCharacter
<1>2. SocketStays /\ owed' = m_payload_left - 1
  BY <1>1, TakeStays DEF ControlCharacter, Take, PayloadFacts, AtPayload
<1>3. frame.size \in Nat
  BY <1>1 DEF PayloadFacts, FrameFacts
<1>4. /\ msg = [op |-> frame.op, size |-> Done + 1,
                masking_index |-> IF frame.masking = "key" THEN Done + 1 ELSE -1]
      /\ msg \in Control /\ msg.op = frame.op
  BY <1>1, ControlProcessed DEF WithByte
<1>6. CASE m_payload_left = 1
  <2>1. ControlFrame(msg) /\ owed' = 0 /\ is_control(frame.op)
    BY <1>1, <1>2, <1>6 DEF ControlCharacter, InControl
  <2> HIDE DEF msg
  <2> QED BY <1>1, <1>2, <1>4, <2>1, ControlEnds DEF PayloadFacts
<1>7. CASE m_payload_left # 1
  <2>1. /\ m_control_message' = msg
        /\ m_payload_left' = m_payload_left - 1
        /\ UNCHANGED <<frame, headervars, m_state, m_data_message,
                       handed, violation, character>>
    BY <1>7 DEF ControlCharacter
  <2> HIDE DEF msg
  <2>2. /\ m_payload_left' \in 1..frame.size /\ owed' = m_payload_left'
        /\ Done' = Done + 1 /\ owed' \in Nat
    BY <1>1, <1>2, <1>3, <1>7, <2>1 DEF PayloadFacts, Done
  <2>3. TypeOK'
    BY <1>1, <1>2, <1>4, <2>1, <2>2 DEF PayloadFacts, TypeOK, SocketStays,
       headervars
  <2>4. AtPayload'
    BY <1>1, <2>1, <2>2 DEF PayloadFacts, AtPayload, headervars,
       BasicHeaderValid, MinimallyEncoded
  <2>5. InControl'
    BY <1>1, <1>4, <2>1, <2>2, <2>4 DEF InControl
  <2>6. TextState'
    BY <1>1, <2>1 DEF PayloadFacts, TextState
  <2> QED BY <1>1, <2>1, <2>3, <2>5, <2>6 DEF FrameInv, Position, PayloadFacts
<1> QED BY <1>6, <1>7

\* No size of a message that is not too big wraps or passes the limit.
LEMMA NotTooBig ==
  ASSUME PayloadFacts, InData, ~TooBig, InPayload(FALSE)
  PROVE  /\ m_data_message \in Message /\ m_data_message.size \in Nat
         /\ m_data_message.size + m_payload_left <= PAYLOAD_SIZE_MAX
<1> DEFINE s == m_data_message.size
<1>1. m_data_message \in Message /\ s \in 0..PAYLOAD_SIZE_MAX
  BY NothingIs DEF InData
<1>2. (s + m_payload_left) % UInt64 <= PAYLOAD_SIZE_MAX
  <2>1. ~((s + m_payload_left) % UInt64 > PAYLOAD_SIZE_MAX)
    BY DEF TooBig
  <2>2. s \in Nat /\ m_payload_left \in Nat /\ UInt64 \in Nat /\ UInt64 > 0
        /\ PAYLOAD_SIZE_MAX \in Nat
    BY <1>1, LimitsAssumption, ReaderAssumption DEF PayloadFacts
  <2> HIDE DEF s
  <2>3. (s + m_payload_left) % UInt64 \in Int
    BY <2>2
  <2> QED BY <2>1, <2>2, <2>3
<1>3. s + m_payload_left < UInt64 /\ s + m_payload_left \in Nat /\ UInt64 \in Nat
  <2>1. frame.size + PAYLOAD_SIZE_MAX < UInt64 /\ m_payload_left \in Nat
        /\ m_payload_left <= frame.size /\ frame.size \in Nat
    BY DEF PayloadFacts, FrameFacts
  <2>2. UInt64 \in Nat /\ PAYLOAD_SIZE_MAX \in Nat
    BY LimitsAssumption, ReaderAssumption
  <2> HIDE DEF s
  <2> QED BY <1>1, <2>1, <2>2
<1>4. (s + m_payload_left) % UInt64 = s + m_payload_left
  <2> HIDE DEF s
  <2> QED BY <1>3, ModSmall
<1> QED BY <1>1, <1>2, <1>4, NothingIs

\* What process_character() makes of a message that is not too big.
Processed(byte) ==
    LET msg == process_character(byte) IN
    /\ msg.op = m_data_message.op
    /\ msg.size = m_data_message.size + 1
    /\ msg.masking_index = IF m_data_message.masking_index >= 0
                           THEN (m_data_message.masking_index + 1) % 4
                           ELSE m_data_message.masking_index
    /\ msg.utf8 = IF m_data_message.op = "TEXT"
                  THEN decode(m_data_message.utf8, byte)
                  ELSE m_data_message.utf8
    /\ msg = [op |-> msg.op, size |-> msg.size,
              masking_index |-> msg.masking_index, utf8 |-> msg.utf8]

\* process_character(), field by field.
LEMMA ProcessedIs ==
  ASSUME m_data_message \in Message, NEW byte
  PROVE  Processed(byte)
<1> DEFINE m == m_data_message
           i == IF m.masking_index >= 0 THEN (m.masking_index + 1) % 4
                ELSE m.masking_index
           u == IF m.op = "TEXT" THEN decode(m.utf8, byte) ELSE m.utf8
<1>1. m = [op |-> m.op, size |-> m.size,
           masking_index |-> m.masking_index, utf8 |-> m.utf8]
  BY DEF Message
<1>2. process_character(byte)
        = [m EXCEPT !.size = m.size + 1, !.masking_index = i, !.utf8 = u]
  BY DEF process_character
<1> HIDE DEF i, u
<1>3. process_character(byte) =
          [op |-> m.op, size |-> m.size + 1, masking_index |-> i, utf8 |-> u]
  BY <1>1, <1>2
<1> QED BY <1>3 DEF Processed, i, u

\* A byte that is not refused leaves a message and the text's next beginning.
LEMMA CharacterKept ==
  ASSUME PayloadFacts, InData, ~TooBig, InPayload(FALSE), NEW byte \in Bytes,
         NEW msg, msg = process_character(byte),
         NEW text, text = IF msg.op = "TEXT" THEN Unfinished(byte) ELSE <<>>,
         msg.utf8 # UTF8_REJECT
  PROVE  /\ msg \in Message /\ msg.op = m_data_message.op
         /\ msg.size = m_data_message.size + 1
         /\ text \in Seq(Bytes) /\ Validated(msg, text)
<1>1. /\ m_data_message \in Message /\ m_data_message.size \in Nat
      /\ m_data_message.size + m_payload_left <= PAYLOAD_SIZE_MAX
      /\ m_payload_left \in Nat /\ m_payload_left # 0
  BY NotTooBig DEF PayloadFacts
<1>2. /\ m_data_message.op \in {"TEXT", "BINARY"}
      /\ m_data_message.masking_index \in -2..3
      /\ m_data_message.utf8 \in 0..8
      /\ m_data_message # Nothing
  BY <1>1, NothingIs
<1>3. /\ msg.op = m_data_message.op
      /\ msg.size = m_data_message.size + 1
      /\ msg.masking_index = IF m_data_message.masking_index >= 0
                             THEN (m_data_message.masking_index + 1) % 4
                             ELSE m_data_message.masking_index
      /\ msg.utf8 = IF m_data_message.op = "TEXT"
                    THEN decode(m_data_message.utf8, byte)
                    ELSE m_data_message.utf8
      /\ msg = [op |-> msg.op, size |-> msg.size,
                masking_index |-> msg.masking_index, utf8 |-> msg.utf8]
  BY <1>1, ProcessedIs DEF Processed
<1>4. Validated(m_data_message, character)
  BY <1>2 DEF PayloadFacts, TextState
<1>5. character \in Seq(Bytes) /\ character \in Seq(Byte) /\ byte \in Byte
  BY BytesAre DEF PayloadFacts, TypeOK
<1>6. msg.size \in 0..PAYLOAD_SIZE_MAX /\ msg.size > 0 /\ msg.masking_index \in -2..3
  <2>1. msg.size \in 0..PAYLOAD_SIZE_MAX /\ msg.size > 0
    BY <1>1, <1>3, LimitsAssumption
  <2> DEFINE i == m_data_message.masking_index
  <2>2. i \in -2..3 /\ msg.masking_index = IF i >= 0 THEN (i + 1) % 4 ELSE i
    BY <1>2, <1>3
  <2> HIDE DEF i
  <2>3. msg.masking_index \in -2..3
    BY <2>2
  <2> QED BY <2>1, <2>3
<1>7. CASE m_data_message.op = "TEXT"
  <2> DEFINE d == Append(character, byte)
  <2>1. Open(character) /\ m_data_message.utf8 = StateOf(character)
    BY <1>4, <1>7 DEF Validated
  <2>2. Decoded(character, byte)
    BY <1>5, <2>1, DecodeStep
  <2>3. /\ msg.utf8 = IF IsCharacter(d) THEN UTF8_ACCEPT ELSE StateOf(d)
        /\ Begins(d)
        /\ text = IF IsCharacter(d) THEN <<>> ELSE d
    <3>1. msg.utf8 = decode(StateOf(character), byte)
      BY <1>3, <1>7, <2>1
    <3>2. text = IF IsCharacter(d) THEN <<>> ELSE d
      BY <1>3, <1>7 DEF Unfinished
    <3>3. /\ decode(StateOf(character), byte) = UTF8_REJECT <=> ~Begins(d)
          /\ decode(StateOf(character), byte) =
                 IF IsCharacter(d) THEN UTF8_ACCEPT
                 ELSE IF Begins(d) THEN StateOf(d) ELSE UTF8_REJECT
      BY <2>2 DEF Decoded
    <3> HIDE DEF d
    <3> QED BY <3>1, <3>2, <3>3
  <2>4. d \in Seq(Bytes) /\ d \in Seq(Byte)
    BY <1>5
  <2> HIDE DEF d
  <2>5. Open(text) /\ msg.utf8 = StateOf(text) /\ text \in Seq(Bytes)
    <3>1. CASE IsCharacter(d)
      <4>1. text = <<>> /\ msg.utf8 = UTF8_ACCEPT
        BY <2>3, <3>1
      <4>2. StateOf(<<>>) = UTF8_ACCEPT /\ Open(<<>>)
        BY DEF StateOf, Open
      <4>3. <<>> \in Seq(Bytes)
        OBVIOUS
      <4>4. msg.utf8 = StateOf(text) /\ Open(text)
        BY <4>1, <4>2
      <4> QED BY <4>1, <4>3, <4>4
    <3>2. CASE ~IsCharacter(d)
      <4>1. text = d /\ msg.utf8 = StateOf(d)
        BY <2>3, <3>2
      <4> QED BY <2>3, <2>4, <3>2, <4>1 DEF Open
    <3> QED BY <3>1, <3>2
  <2>6. text \in Seq(Byte)
    BY <2>5, BytesAre
  <2>7. msg.utf8 \in 0..8
    BY <2>5, <2>6, StateRange
  <2>8. msg \in Message
    BY <1>2, <1>3, <1>6, <2>7 DEF Message
  <2> QED BY <1>3, <1>6, <1>7, <2>5, <2>8 DEF Validated
<1>8. CASE m_data_message.op = "BINARY"
  <2>1. text = <<>> /\ msg.utf8 = UTF8_ACCEPT
    BY <1>3, <1>4, <1>8 DEF Validated
  <2>2. msg \in Message
    BY <1>2, <1>3, <1>6, <2>1 DEF Message, UTF8_ACCEPT
  <2> QED BY <1>3, <1>8, <2>1, <2>2 DEF Validated
<1> QED BY <1>2, <1>7, <1>8

\* A byte of a data frame keeps the invariant.
LEMMA DataCharacterInv ==
  ASSUME FrameInv, NEW byte \in Bytes, DataCharacter(byte) PROVE FrameInv'
<1> DEFINE msg == process_character(byte)
           text == IF msg.op = "TEXT" THEN Unfinished(byte) ELSE <<>>
<1>0. InPayload(FALSE) /\ ~TooBig /\ msg.utf8 # UTF8_REJECT /\ Take(1)
  BY DEF DataCharacter
<1>1. PayloadFacts /\ InData
  BY <1>0, InPayloadIs
<1>2. SocketStays /\ owed' = m_payload_left - 1
  BY <1>0, <1>1, TakeStays DEF Take, PayloadFacts, AtPayload
<1>3. /\ msg \in Message /\ msg.op = m_data_message.op
      /\ msg.size = m_data_message.size + 1
      /\ text \in Seq(Bytes) /\ Validated(msg, text)
  BY <1>0, <1>1, CharacterKept
<1>4. m_control_message = Nothing /\ m_data_message \in Message
  BY <1>1 DEF InData
<1>5. msg.masking_index = IF m_data_message.masking_index >= 0
                          THEN (m_data_message.masking_index + 1) % 4
                          ELSE m_data_message.masking_index
  BY <1>4, ProcessedIs DEF Processed
<1>6. CASE m_payload_left = 1
  <2>1. DataFrame(msg, text) /\ owed' = 0
    BY <1>2, <1>6 DEF DataCharacter
  <2> HIDE DEF msg, text
  <2> QED BY <1>1, <1>2, <1>3, <1>4, <2>1, DataEnds DEF PayloadFacts
<1>7. CASE m_payload_left # 1
  <2>1. /\ m_data_message' = msg
        /\ m_payload_left' = m_payload_left - 1
        /\ character' = text
        /\ UNCHANGED <<frame, headervars, m_state, m_control_message,
                       handed, violation>>
    BY <1>7 DEF DataCharacter
  <2> HIDE DEF msg, text
  <2>2. /\ m_payload_left' \in 1..frame.size /\ owed' = m_payload_left'
        /\ Done' = Done + 1 /\ owed' \in Nat /\ Done \in Nat
    BY <1>1, <1>2, <1>7, <2>1 DEF PayloadFacts, FrameFacts, Done
  <2>8. Len(text) <= 4
    <3>1. text \in Seq(Byte)
      BY <1>3, BytesAre
    <3>2. msg.op = "TEXT" => Len(text) <= 3
      BY <1>3, <3>1, StateRange DEF Validated
    <3>3. msg.op = "BINARY" => Len(text) = 0
      BY <1>3 DEF Validated
    <3>4. msg.op \in {"TEXT", "BINARY"} /\ Len(text) \in Nat
      BY <1>3, NothingIs
    <3> QED BY <3>2, <3>3, <3>4
  <2>3. TypeOK'
    BY <1>1, <1>2, <1>3, <2>1, <2>2, <2>8
       DEF PayloadFacts, TypeOK, SocketStays, headervars
  <2>4. AtPayload'
    BY <1>1, <2>1, <2>2 DEF PayloadFacts, AtPayload, headervars,
       BasicHeaderValid, MinimallyEncoded
  <2>5. InData'
    <3>1. /\ m_data_message.masking_index =
                 IF frame.masking = "key" THEN Done % 4 ELSE -2
          /\ m_data_message.size >= Done
          /\ frame.op # "CONTINUATION" => /\ m_data_message.op = frame.op
                                          /\ m_data_message.size = Done
          /\ ~is_control(frame.op)
      BY <1>1 DEF InData
    <3>2. m_data_message.size \in Nat
      BY <1>4, NothingIs
    <3>3. msg.masking_index = IF frame.masking = "key" THEN (Done + 1) % 4 ELSE -2
      <4>1. CASE frame.masking = "key"
        <5>1. Done % 4 >= 0 /\ ((Done % 4) + 1) % 4 = (Done + 1) % 4
          <6> HIDE DEF Done
          <6> QED BY <2>2
        <5> QED BY <4>1, <5>1, <3>1, <1>5
      <4>2. CASE frame.masking # "key"
        BY <4>2, <3>1, <1>5
      <4> QED BY <4>1, <4>2
    <3>4. msg.size >= Done + 1
      BY <1>3, <2>2, <3>1, <3>2
    <3>5. frame.op # "CONTINUATION" => msg.op = frame.op /\ msg.size = Done + 1
      BY <1>3, <3>1
    <3> QED BY <1>3, <1>4, <2>1, <2>2, <2>4, <3>1, <3>3, <3>4, <3>5 DEF InData
  <2>6. TextState'
    BY <1>3, <2>1, NothingIs DEF TextState, Validated
  <2> QED BY <1>1, <2>1, <2>3, <2>5, <2>6 DEF FrameInv, Position, PayloadFacts
<1> QED BY <1>6, <1>7

\* The message is one even when a byte of it has been refused.
LEMMA DataCharacterRefusedMessage ==
  ASSUME FrameInv, NEW byte \in Bytes, DataCharacterRefused(byte), PayloadFacts, InData
  PROVE  m_data_message' \in Message
<1> DEFINE msg == process_character(byte)
<1>3. m_data_message \in Message /\ m_data_message.masking_index \in -2..3
  BY NothingIs DEF InData
<1>4. msg.masking_index = IF m_data_message.masking_index >= 0
                          THEN (m_data_message.masking_index + 1) % 4
                          ELSE m_data_message.masking_index
  BY <1>3, ProcessedIs DEF Processed
<1>9. /\ m_data_message' = [m_data_message EXCEPT
                                !.utf8 = msg.utf8,
                                !.masking_index = msg.masking_index]
      /\ msg.utf8 = UTF8_REJECT
  BY DEF DataCharacterRefused
<1> HIDE DEF msg
<1>1. msg.masking_index \in -2..3
  <2> DEFINE i == m_data_message.masking_index
  <2>1. i \in -2..3 /\ msg.masking_index = IF i >= 0 THEN (i + 1) % 4 ELSE i
    BY <1>3, <1>4
  <2> HIDE DEF i
  <2> QED BY <2>1
<1>2. msg.utf8 \in 0..8
  BY <1>9 DEF UTF8_REJECT
<1> QED BY <1>1, <1>2, <1>3, <1>9 DEF Message

\* The refusal of a byte keeps the invariant.
LEMMA DataCharacterRefusedInv ==
  ASSUME FrameInv, NEW byte \in Bytes, DataCharacterRefused(byte) PROVE FrameInv'
<1> DEFINE msg == process_character(byte)
<1>0. InPayload(FALSE) /\ ~TooBig /\ msg.utf8 = UTF8_REJECT /\ Take(1)
  BY DEF DataCharacterRefused
<1>1. PayloadFacts /\ InData
  BY <1>0, InPayloadIs
<1>2. SocketStays /\ owed' = m_payload_left - 1 /\ owed' \in Nat
  BY <1>0, <1>1, TakeStays DEF Take, PayloadFacts, AtPayload
<1>3. /\ m_data_message \in Message /\ m_data_message.op \in {"TEXT", "BINARY"}
      /\ m_data_message # Nothing /\ m_data_message.masking_index \in -2..3
  BY <1>1, NothingIs DEF InData
<1>4. /\ msg.utf8 = IF m_data_message.op = "TEXT"
                    THEN decode(m_data_message.utf8, byte)
                    ELSE m_data_message.utf8
      /\ msg.masking_index = IF m_data_message.masking_index >= 0
                          THEN (m_data_message.masking_index + 1) % 4
                          ELSE m_data_message.masking_index
  BY <1>3, ProcessedIs DEF Processed
<1>5. Validated(m_data_message, character)
  BY <1>1, <1>3 DEF PayloadFacts, TextState
<1>6. character \in Seq(Bytes) /\ character \in Seq(Byte) /\ byte \in Byte
  BY <1>1, BytesAre DEF PayloadFacts, TypeOK
<1>7. m_data_message.op = "TEXT"
  BY <1>0, <1>3, <1>4, <1>5 DEF Validated, UTF8_ACCEPT, UTF8_REJECT
<1>8. Open(character) /\ ~Begins(Append(character, byte)) /\ Len(character) <= 3
  <2>1. Open(character) /\ m_data_message.utf8 = StateOf(character)
    BY <1>5, <1>7 DEF Validated
  <2>2. Decoded(character, byte)
    BY <1>6, <2>1, DecodeStep
  <2> QED BY <1>0, <1>4, <1>6, <1>7, <2>1, <2>2, StateRange DEF Decoded
<1>9. /\ violation' = "text" /\ frame' = frame /\ handed' = handed
      /\ character' = Append(character, byte)
      /\ m_data_message' = [m_data_message EXCEPT
                                !.utf8 = msg.utf8,
                                !.masking_index = msg.masking_index]
      /\ header' = "BASIC" /\ m_bytes_needed' = 2
      /\ UNCHANGED <<m_state, m_payload_left, m_control_message>>
  BY DEF DataCharacterRefused, Refuse, BASIC_HEADER_LENGTH
<1> HIDE DEF msg
<1>10. m_data_message' \in Message
  BY <1>1, DataCharacterRefusedMessage
<1>11. /\ character' \in Seq(Bytes) /\ Len(character') <= 4 /\ character' # <<>>
       /\ ~Begins(character')
  BY <1>6, <1>8, <1>9
<1>12. TypeOK'
  BY <1>1, <1>2, <1>9, <1>10, <1>11 DEF PayloadFacts, TypeOK, SocketStays,
     Violations
<1>13. Refused'
  BY <1>1, <1>2, <1>9, <1>11 DEF Refused, SocketStays, PayloadFacts
<1> QED BY <1>9, <1>12, <1>13 DEF FrameInv

\* The reader starts between two frames.
LEMMA FrameInvInit == Init => FrameInv
<1> SUFFICES ASSUME Init PROVE FrameInv
  OBVIOUS
<1>1. TypeOK
  BY SegmentIs DEF Init, TypeOK, BASIC_HEADER_LENGTH
<1>2. Between /\ TextState
  BY DEF Init, Between, AtHeader, TextState
<1> QED BY <1>1, <1>2 DEF Init, FrameInv, Position

\* Every step of the reader keeps its invariant.
LEMMA FrameInvNext == FrameInv /\ [Next]_vars => FrameInv'
<1> SUFFICES ASSUME FrameInv, [Next]_vars PROVE FrameInv'
  OBVIOUS
<1>1. CASE Arrive
  BY <1>1, ArriveInv
<1>2. CASE HandleReadFrame
  BY <1>2, HandleReadFrameInv
<1>3. CASE NextFrame
  BY <1>3, NextFrameInv
<1>4. CASE HeaderPart
  BY <1>4, HeaderPartInv
<1>5. CASE BasicHeader
  BY <1>5, BasicHeaderInv
<1>6. CASE BasicHeaderRefused
  BY <1>6, BasicHeaderRefusedInv
<1>7. CASE ExtendedHeaderRefused
  BY <1>7, ExtendedHeaderRefusedInv
<1>8. CASE ControlHeader
  BY <1>8, ControlHeaderInv
<1>9. CASE DataHeader
  BY <1>9, DataHeaderInv
<1>10. CASE DataHeaderRefused
  BY <1>10, DataHeaderRefusedInv
<1>11. CASE MessageTooBig
  BY <1>11, MessageTooBigInv
<1>12. CASE ControlCharacter
  BY <1>12, ControlCharacterInv
<1>13. ASSUME NEW byte \in Bytes, DataCharacter(byte)
       PROVE  FrameInv'
  BY <1>13, DataCharacterInv
<1>14. ASSUME NEW byte \in Bytes, DataCharacterRefused(byte)
       PROVE  FrameInv'
  BY <1>14, DataCharacterRefusedInv
<1>15. CASE ReadOn
  BY <1>15, ReadOnInv
<1>16. CASE UNCHANGED vars
  <2>1. UNCHANGED <<frame, owed, arrived, wanted, m_buf, header, m_bytes_needed,
                    m_state, m_payload_left, m_data_message, m_control_message,
                    handed, violation, character>>
    BY <1>16 DEF vars, wirevars, socketvars, headervars, messagevars
  <2>2. TypeOK' <=> TypeOK
    BY <2>1 DEF TypeOK
  <2>3. Position' <=> Position
    BY <2>1 DEF Position, Between, InBasic, InExtended, InControl, InData,
       AtHeader, AtPayload, Done
  <2>4. /\ TextState' <=> TextState
        /\ Refused' <=> Refused
    BY <2>1 DEF TextState, Refused
  <2> QED BY <2>1, <2>2, <2>3, <2>4 DEF FrameInv
<1> QED BY <1>1, <1>2, <1>3, <1>4, <1>5, <1>6, <1>7, <1>8, <1>9, <1>10, <1>11,
           <1>12, <1>13, <1>14, <1>15, <1>16 DEF Next, Thread, Ended

-----------------------------------------------------------------------------
(* What follows of the invariant.                                          *)

\* Parser and wire are in step,
LEMMA InvReaderInv == FrameInv => ReaderInv
<1> SUFFICES ASSUME FrameInv PROVE ReaderInv
  OBVIOUS
<1>1. TypeOK
  BY DEF FrameInv
<1>2. ASSUME violation = "none" PROVE InStep
  <2>1. Position
    BY <1>2 DEF FrameInv
  <2>2. \A f \in Frames : FrameFacts(f)
    BY FrameIs
  <2>3. CASE Between
    BY <2>3 DEF Between, AtHeader, InStep
  <2>4. CASE InBasic
    <3>1. owed > 0 /\ frame # NoFrame /\ frame \in Frames
      BY <2>2, <2>4 DEF InBasic, FrameFacts, BASIC_HEADER_LENGTH
    <3> QED BY <2>4, <3>1 DEF InBasic, AtHeader, InStep
  <2>5. CASE InExtended
    <3>1. FrameFacts(frame)
      BY <2>2, <2>5 DEF InExtended
    <3>2. m_bytes_needed \in Nat /\ m_bytes_needed > 0
      BY <2>5, <3>1 DEF InExtended, FrameFacts, BASIC_HEADER_LENGTH
    <3>3. owed > 0
      BY <2>5, <3>1, <3>2 DEF InExtended, FrameFacts
    <3>4. owed = Length(frame) - get_header_len(frame) + m_bytes_needed
      BY <2>5, <3>1, <3>2 DEF InExtended, FrameFacts
    <3> QED BY <2>5, <3>1, <3>3, <3>4 DEF InExtended, AtHeader, InStep,
               FrameFacts
  <2>6. CASE AtPayload
    <3>1. FrameFacts(frame)
      BY <2>2, <2>6 DEF AtPayload
    <3>2. owed > 0 /\ owed = m_payload_left
      BY <2>6, <3>1 DEF AtPayload, FrameFacts
    <3> QED BY <2>6, <3>1, <3>2 DEF AtPayload, InStep, FrameFacts
  <2> QED BY <2>1, <2>3, <2>4, <2>5, <2>6 DEF Position, InControl, InData
<1> QED BY <1>1, <1>2 DEF ReaderInv, InStep

\* the index into the key belongs to the byte that is read,
LEMMA InvUnmasked == FrameInv => Unmasked
<1> SUFFICES ASSUME FrameInv, violation = "none", m_state = "READ_PAYLOAD"
             PROVE  Unmasked
  BY DEF Unmasked
<1>1. InControl \/ InData
  BY DEF FrameInv, Position, Between, InBasic, InExtended, AtHeader
<1>2. Done \in Nat
  <2>1. AtPayload /\ FrameFacts(frame)
    BY <1>1, FrameIs DEF InControl, InData, AtPayload
  <2> QED BY <2>1 DEF AtPayload, FrameFacts, Done
<1>3. CASE InControl
  <2>1. is_control(frame.op) /\ m_control_message.masking_index =
            IF frame.masking = "key" THEN Done ELSE -1
    BY <1>3 DEF InControl
  <2> QED BY <1>2, <2>1 DEF Unmasked, Done
<1>4. CASE InData
  <2>1. ~is_control(frame.op) /\ m_data_message.masking_index =
            IF frame.masking = "key" THEN Done % 4 ELSE -2
    BY <1>4 DEF InData
  <2>2. (Done % 4) % 4 = Done % 4 /\ Done % 4 >= 0
    <3> HIDE DEF Done
    <3> QED BY <1>2
  <2> QED BY <2>1, <2>2 DEF Unmasked, Done
<1> QED BY <1>1, <1>3, <1>4

\* the text is whole characters and the beginning of one,
LEMMA InvTextIsUtf8 == FrameInv => TextIsUtf8
<1> SUFFICES ASSUME FrameInv PROVE TextIsUtf8
  OBVIOUS
<1>1. violation = "text" => /\ character # <<>>
                            /\ Begins(character) => owed = 0 /\ frame.fin
  BY DEF FrameInv, Refused
<1>2. violation = "none" /\ m_data_message = Nothing => character = <<>>
  BY DEF FrameInv, TextState
<1>3. ASSUME violation = "none", m_data_message # Nothing, m_data_message.op = "TEXT"
      PROVE  /\ m_data_message.utf8 = UTF8_ACCEPT <=> character = <<>>
             /\ character # <<>> => Begins(character)
  <2>1. Open(character) /\ m_data_message.utf8 = StateOf(character)
    BY <1>3 DEF FrameInv, TextState, Validated
  <2>2. character \in Seq(Byte)
    BY BytesAre DEF FrameInv, TypeOK
  <2> QED BY <2>1, <2>2, StateRange DEF Open
<1> QED BY <1>1, <1>2, <1>3 DEF TextIsUtf8

\* A header that this library writes has the shortest form of its length.
LEMMA PreparedIs ==
  ASSUME NEW op, NEW masking, NEW size \in Nat
  PROVE  MinimallyEncoded(prepare_frame(op, masking, size))
<1>1. CASE size <= PAYLOAD_SIZE_BASIC
  BY <1>1, LimitsAssumption DEF MinimallyEncoded, prepare_frame,
     set_payload_size
<1>2. CASE size \in PAYLOAD_SIZE_BASIC + 1 .. PAYLOAD_SIZE_EXTENDED
  BY <1>2, LimitsAssumption DEF MinimallyEncoded, prepare_frame,
     set_payload_size
<1>3. CASE size > PAYLOAD_SIZE_EXTENDED
  BY <1>3, LimitsAssumption DEF MinimallyEncoded, prepare_frame,
     set_payload_size
<1> QED BY <1>1, <1>2, <1>3, LimitsAssumption

\* and what the library writes is not refused by its own parser.
LEMMA InvWrites == FrameInv => WritesWhatItReads
<1> SUFFICES ASSUME FrameInv, NEW op \in Opcodes, NEW masking \in Maskings,
                    violation \in {"basic header", "extended header"},
                    BasicHeaderValid(prepare_frame(op, masking, frame.size)),
                    frame = prepare_frame(op, masking, frame.size)
             PROVE  FALSE
  BY DEF WritesWhatItReads
<1>1. violation = "extended header" /\ ~MinimallyEncoded(frame)
  BY DEF FrameInv, Refused
<1>2. frame \in Frames
  BY DEF FrameInv, Refused
<1> QED BY <1>1, <1>2, FrameIs, PreparedIs DEF FrameFacts

\* The reader knows, at every byte, where in the peer's frame it is and what of
\* the message, the key and the text lies behind it: processor::hybi with its
\* header parser, message::data, message::control and the validator.
THEOREM FrameInvariant == Spec => []FrameInv
BY FrameInvInit, FrameInvNext, PTL DEF Spec

-----------------------------------------------------------------------------
(* The stream of messages.                                                 *)

\* A message as the abstract reader knows it.
Whole(msg) == IF msg = Nothing THEN Nothing ELSE [op |-> msg.op, size |-> msg.size]

\* Outside a data payload all of the message are earlier fragments.
LEMMA FragmentsAtHeader ==
  ASSUME TypeOK, m_state = "READ_HEADER" \/ (frame \in Frames /\ is_control(frame.op))
  PROVE  Fragments = Whole(m_data_message)
<1>1. m_data_message # Nothing => m_data_message.size \in Nat
  BY NothingIs DEF TypeOK
<1>2. m_data_message # Nothing => m_data_message.size - 0 = m_data_message.size
  BY <1>1
<1> QED BY <1>2 DEF Fragments, Whole

\* In a data payload the earlier fragments are what is not of this frame.
LEMMA FragmentsInData ==
  ASSUME InData
  PROVE  Fragments = IF frame.op = "CONTINUATION"
                     THEN [op |-> m_data_message.op,
                           size |-> m_data_message.size - Done]
                     ELSE Nothing
<1>1. m_data_message # Nothing /\ m_state = "READ_PAYLOAD" /\ ~is_control(frame.op)
  BY NothingIs DEF InData, AtPayload
<1> QED BY <1>1 DEF Fragments, Done

\* Reader and stream mean the same by the format of a frame.
LEMMA SameFormat ==
    \A f : /\ Stream!BasicHeaderValid(f) <=> BasicHeaderValid(f)
           /\ Stream!MinimallyEncoded(f) <=> MinimallyEncoded(f)
           /\ Stream!is_control(f.op) <=> is_control(f.op)
BY DEF Stream!BasicHeaderValid, BasicHeaderValid, Stream!MinimallyEncoded,
       MinimallyEncoded, Stream!is_control, is_control, Stream!reserved, reserved

\* What a step of the reader is to the abstract reader.
Stutters == /\ frame' = frame /\ Fragments' = Fragments
            /\ handed' = handed /\ violation' = violation

\* A stutter of the stream.
LEMMA StutterMaps == Stutters => UNCHANGED Stream!stream
BY DEF Stutters, Stream!stream

\* A frame begins,
BeginsFrame == /\ violation = "none" /\ frame = NoFrame
           /\ frame' \in Frames /\ handed' = Nothing
           /\ Fragments' = Fragments /\ violation' = violation

\* The step of the stream that begins a frame,
LEMMA BeginMaps == BeginsFrame => Stream!Begin
BY DEF BeginsFrame, Stream!Begin

\* is refused for a rule it breaks or can break,
Refuses == /\ violation = "none" /\ frame # NoFrame
           /\ ~Stream!Legal(frame) \/ Stream!HasRules(frame)
           /\ violation' # "none"
           /\ frame' = frame /\ Fragments' = Fragments /\ handed' = handed

\* that refuses one,
LEMMA RefuseMaps == Refuses => Stream!Refuse
<1> SUFFICES ASSUME Refuses PROVE Stream!Refuse
  OBVIOUS
<1>1. (violation' # "none") = TRUE
  BY DEF Refuses
<1> QED BY <1>1 DEF Refuses, Stream!Refuse

\* ends as a control frame,
Controls == /\ violation = "none" /\ frame # NoFrame
            /\ Stream!Legal(frame) /\ is_control(frame.op)
            /\ frame' = NoFrame
            /\ handed' = [op |-> frame.op, size |-> frame.size]
            /\ Fragments' = Fragments /\ violation' = violation

\* that ends a control frame,
LEMMA ControlMaps == Controls => Stream!Control
BY DEF Controls, Stream!Control, Stream!is_control, is_control

\* ends its message,
EndsMessage == /\ violation = "none" /\ frame # NoFrame
               /\ Stream!Legal(frame) /\ ~is_control(frame.op) /\ frame.fin
               /\ frame' = NoFrame /\ Fragments' = Nothing
               /\ handed' = Stream!With(frame) /\ violation' = violation

\* that ends a message,
LEMMA MessageMaps == EndsMessage => Stream!Message
BY DEF EndsMessage, Stream!Message, Stream!is_control, is_control

\* or ends as a fragment.
EndsFragment == /\ violation = "none" /\ frame # NoFrame
                /\ Stream!Legal(frame) /\ ~is_control(frame.op) /\ ~frame.fin
                /\ frame' = NoFrame /\ Fragments' = Stream!With(frame)
                /\ handed' = handed /\ violation' = violation

\* that ends a fragment.
LEMMA FragmentMaps == EndsFragment => Stream!Fragment
BY DEF EndsFragment, Stream!Fragment, Stream!is_control, is_control

\* A step is one of these.
Mapped == Stutters \/ BeginsFrame \/ Refuses \/ Controls \/ EndsMessage \/ EndsFragment

\* Each of them is a step of the stream, or a stutter.
LEMMA MappedSteps == Mapped => [Stream!Next]_Stream!stream
BY StutterMaps, BeginMaps, RefuseMaps, ControlMaps, MessageMaps, FragmentMaps
   DEF Mapped, Stream!Next

\* The stream starts where the reader does.
LEMMA StreamInit == Init => Stream!Init
<1> SUFFICES ASSUME Init PROVE Stream!Init
  OBVIOUS
<1>1. Fragments = Nothing /\ frame = NoFrame /\ handed = Nothing
  BY DEF Init, Fragments
<1>2. (violation # "none") = FALSE
  BY DEF Init
<1> QED BY <1>1, <1>2 DEF Stream!Init

\* The rules of the stream in the words of the reader,
LEMMA LegalIs ==
    \A f : Stream!Legal(f) <=>
        /\ BasicHeaderValid(f) /\ MinimallyEncoded(f)
        /\ f.op = "CLOSE" => f.size # 1
        /\ ~is_control(f.op) =>
               /\ (f.op = "CONTINUATION") <=> (Fragments # Nothing)
               /\ Stream!With(f).size <= PAYLOAD_SIZE_MAX
BY SameFormat DEF Stream!Legal

\* and which frames have rules for their bytes.
LEMMA RulesAre ==
    \A f : Stream!HasRules(f) <=>
        IF is_control(f.op) THEN f.op = "CLOSE" /\ f.size > 1
        ELSE Stream!With(f).op = "TEXT" /\ Stream!With(f).size > 0
BY SameFormat DEF Stream!HasRules

\* A message under way is no null pointer to the abstract reader either.
LEMMA WholeIs ==
  ASSUME NEW op \in Opcodes, NEW size \in 0..PAYLOAD_SIZE_MAX
  PROVE  [op |-> op, size |-> size] # Nothing
BY HandedIs, NothingIs

\* The end of a control frame, in the stream.
LEMMA ControlEndsMapped ==
  ASSUME TypeOK, violation = "none", FrameFacts(frame), frame \in Frames,
         is_control(frame.op), BasicHeaderValid(frame), MinimallyEncoded(frame),
         NEW msg \in Control, msg.op = frame.op, msg.size = frame.size,
         TypeOK', ControlFrame(msg)
  PROVE  Mapped
<1>1. Fragments = Whole(m_data_message)
  BY FragmentsAtHeader
<1>2. frame # NoFrame /\ frame.size \in Nat
  BY DEF FrameFacts
<1>3. CASE /\ msg.op = "CLOSE" => msg.size # 1
           /\ reset
           /\ frame' = NoFrame /\ m_payload_left' = 0
           /\ m_control_message' = Nothing
           /\ handed' = [op |-> msg.op, size |-> msg.size]
           /\ UNCHANGED <<m_data_message, violation, character>>
  <2>1. Fragments' = Whole(m_data_message')
    BY <1>3, FragmentsAtHeader DEF reset, Fragments, Whole, TypeOK
  <2>2. Fragments' = Fragments
    BY <1>1, <1>3, <2>1
  <2>3. Stream!Legal(frame)
    BY <1>3, LegalIs
  <2> QED BY <1>2, <1>3, <2>2, <2>3 DEF Mapped, Controls
<1>4. CASE /\ msg.op = "CLOSE"
           /\ \/ msg.size >= 1 /\ Refuse("close code")
              \/ msg.size > 2 /\ Refuse("close reason")
           /\ header' = "BASIC" /\ m_bytes_needed' = BASIC_HEADER_LENGTH
           /\ m_payload_left' = 0
           /\ m_control_message' = msg
           /\ UNCHANGED <<m_state, m_data_message, character>>
  <2>1. /\ violation' # "none" /\ frame' = frame /\ handed' = handed
        /\ frame.op = "CLOSE" /\ frame.size >= 1
    <3>1. /\ violation' \in {"close code", "close reason"}
          /\ frame' = frame /\ handed' = handed
      BY <1>4 DEF Refuse
    <3>2. msg.size >= 1 \/ msg.size > 2
      BY <1>4
    <3>3. frame.size >= 1
      BY <1>2, <3>2
    <3>4. frame.op = "CLOSE"
      BY <1>4
    <3> QED BY <3>1, <3>3, <3>4
  <2>2. Fragments' = Fragments
    <3>1. /\ m_data_message' = m_data_message /\ frame' = frame
          /\ is_control(frame'.op)
      BY <1>4, <2>1
    <3>2. Fragments' = Whole(m_data_message')
      BY <3>1, NothingIs, SMTT(30) DEF Fragments, Whole, TypeOK
    <3> QED BY <1>1, <3>1, <3>2
  <2>3. ~Stream!Legal(frame) \/ Stream!HasRules(frame)
    BY <1>2, <2>1, LegalIs, RulesAre
  <2> QED BY <1>2, <2>1, <2>2, <2>3 DEF Mapped, Refuses
<1> QED BY <1>3, <1>4 DEF ControlFrame

\* The end of a data frame, in the stream.
LEMMA DataEndsMapped ==
  ASSUME TypeOK, violation = "none", FrameFacts(frame), frame \in Frames,
         ~is_control(frame.op), BasicHeaderValid(frame), MinimallyEncoded(frame),
         NEW msg \in Message, NEW c, Validated(msg, c), c \in Seq(Byte),
         (frame.op = "CONTINUATION") <=> (Fragments # Nothing),
         Stream!With(frame) = [op |-> msg.op, size |-> msg.size],
         violation' = "text" => Fragments' = Fragments,
         TypeOK', DataFrame(msg, c)
  PROVE  Mapped
<1>1. /\ msg.size \in 0..PAYLOAD_SIZE_MAX /\ msg.size \in Nat /\ msg # Nothing
      /\ frame # NoFrame
  BY NothingIs DEF FrameFacts
<1>2. Stream!Legal(frame)
  <2>1. Stream!With(frame).size <= PAYLOAD_SIZE_MAX
    BY <1>1, LimitsAssumption
  <2>2. frame.op # "CLOSE"
    BY DEF is_control
  <2> QED BY <2>1, <2>2, LegalIs
<1>3. CASE /\ frame.fin
           /\ m_state' = "READ_HEADER" /\ frame' = NoFrame
           /\ handed' = [op |-> msg.op, size |-> msg.size]
           /\ m_data_message' = Nothing
           /\ UNCHANGED violation
  <2>1. Fragments' = Nothing
    BY <1>3 DEF Fragments
  <2> QED BY <1>1, <1>2, <1>3, <2>1 DEF Mapped, EndsMessage
<1>4. CASE /\ frame.fin
           /\ msg.op = "TEXT" /\ msg.utf8 # UTF8_ACCEPT
           /\ Refuse("text")
  <2>1. violation' = "text" /\ frame' = frame /\ handed' = handed
    BY <1>4 DEF Refuse
  <2>2. msg.size > 0
    BY <1>4 DEF Validated, StateOf
  <2>3. Stream!HasRules(frame)
    BY <1>4, <2>2, RulesAre
  <2> QED BY <1>1, <2>1, <2>3 DEF Mapped, Refuses
<1>5. CASE /\ ~frame.fin
           /\ m_state' = "READ_HEADER" /\ frame' = NoFrame
           /\ m_data_message' = msg
           /\ UNCHANGED <<handed, violation>>
  <2>1. Fragments' = [op |-> msg.op, size |-> msg.size - 0]
    BY <1>1, <1>5 DEF Fragments
  <2>2. Fragments' = Stream!With(frame)
    BY <1>1, <2>1
  <2> QED BY <1>1, <1>2, <1>5, <2>2 DEF Mapped, EndsFragment
<1> QED BY <1>3, <1>4, <1>5 DEF DataFrame

\* A message with the frame whose header is complete.
LEMMA WithAtHeader ==
  ASSUME HeaderDone, FrameFacts(frame), NEW m,
         m = IF m_data_message = Nothing THEN NewMessage(frame.op) ELSE m_data_message,
         m \in Message, frame.op # "CONTINUATION" => m.op = frame.op /\ m.size = 0,
         (frame.op = "CONTINUATION") <=> (m_data_message # Nothing)
  PROVE  /\ Stream!With(frame) = [op |-> m.op, size |-> m.size + frame.size]
         /\ (frame.op = "CONTINUATION") <=> (Fragments # Nothing)
<1>1. Fragments = Whole(m_data_message)
  BY FragmentsAtHeader DEF HeaderDone
<1>2. m.size \in Nat /\ m.size \in 0..PAYLOAD_SIZE_MAX /\ m.op \in Opcodes
      /\ frame.size \in Nat
  BY NothingIs DEF FrameFacts
<1>3. CASE m_data_message = Nothing
  <2>1. Fragments = Nothing /\ m.op = frame.op /\ m.size = 0
    BY <1>1, <1>3 DEF Whole
  <2> QED BY <1>2, <1>3, <2>1 DEF Stream!With
<1>4. CASE m_data_message # Nothing
  <2>1. Fragments = [op |-> m.op, size |-> m.size]
    BY <1>1, <1>4 DEF Whole
  <2>2. Fragments # Nothing
    BY <1>2, <2>1, WholeIs
  <2> QED BY <1>2, <1>4, <2>1, <2>2 DEF Stream!With
<1> QED BY <1>3, <1>4

\* A message with the frame whose payload is being read.
LEMMA WithInData ==
  ASSUME PayloadFacts, InData
  PROVE  /\ Stream!With(frame) =
                [op |-> m_data_message.op,
                 size |-> m_data_message.size + m_payload_left]
         /\ (frame.op = "CONTINUATION") <=> (Fragments # Nothing)
<1>1. /\ m_data_message \in Message /\ m_data_message.size \in 0..PAYLOAD_SIZE_MAX
      /\ m_data_message.size \in Nat /\ m_data_message.op \in Opcodes
      /\ frame.size \in Nat /\ m_payload_left \in Nat
      /\ m_payload_left <= frame.size
  BY NothingIs DEF InData, PayloadFacts, FrameFacts
<1>2. m_data_message.size >= Done /\ Done \in Nat /\ Done = frame.size - m_payload_left
  BY <1>1 DEF InData, Done
<1>3. CASE frame.op = "CONTINUATION"
  <2>1. Fragments = [op |-> m_data_message.op, size |-> m_data_message.size - Done]
    BY <1>3, FragmentsInData
  <2>2. m_data_message.size - Done \in 0..PAYLOAD_SIZE_MAX
    <3> HIDE DEF Done
    <3> QED BY <1>1, <1>2, LimitsAssumption
  <2>3. Fragments # Nothing
    BY <1>1, <2>1, <2>2, WholeIs
  <2>4. m_data_message.size - Done + frame.size = m_data_message.size + m_payload_left
    BY <1>1, <1>2
  <2> QED BY <1>3, <2>1, <2>3, <2>4 DEF Stream!With
<1>4. CASE frame.op # "CONTINUATION"
  <2>1. Fragments = Nothing
    BY <1>4, FragmentsInData
  <2>2. m_data_message.op = frame.op /\ m_data_message.size = Done
    BY <1>4 DEF InData
  <2>3. m_data_message.size + m_payload_left = frame.size
    BY <1>1, <1>2, <2>2
  <2> QED BY <1>4, <2>1, <2>2, <2>3 DEF Stream!With
<1> QED BY <1>3, <1>4

\* The stream knows nothing of the socket,
LEMMA SocketMapped ==
  ASSUME FrameInv, Arrive \/ HandleReadFrame \/ ReadOn PROVE Mapped
<1>1. UNCHANGED <<wirevars, m_state, m_payload_left, messagevars, handed, violation>>
  BY DEF Arrive, HandleReadFrame, ReadOn
<1> QED BY <1>1 DEF Mapped, Stutters, Fragments, wirevars, messagevars

\* begins a frame with its first byte,
LEMMA NextFrameMapped == ASSUME FrameInv, NextFrame PROVE Mapped
<1>1. violation = "none" /\ TypeOK /\ frame = NoFrame /\ m_state = "READ_HEADER"
  <2>1. \A f \in Frames : f # NoFrame
    BY ReaderAssumption
  <2> QED BY <2>1 DEF FrameInv, NextFrame, Running, Position, Between, InBasic,
               InExtended, AtHeader, InControl, InData, AtPayload
<1>2. /\ frame' \in Frames /\ handed' = Nothing
      /\ UNCHANGED <<m_state, messagevars, violation>>
  BY DEF NextFrame
<1>3. Fragments' = Fragments
  BY <1>1, <1>2 DEF Fragments, messagevars
<1> QED BY <1>1, <1>2, <1>3 DEF Mapped, BeginsFrame

\* and has its fragments through the header.
LEMMA HeaderStays ==
  ASSUME HeaderDone \/ m_state = "READ_HEADER",
         UNCHANGED <<frame, m_state, m_data_message>>
  PROVE  Fragments' = Fragments
BY DEF HeaderDone, Fragments

\* A part of a header, in the stream.
LEMMA HeaderPartMapped == ASSUME FrameInv, HeaderPart \/ BasicHeader PROVE Mapped
<1>1. /\ m_state = "READ_HEADER"
      /\ UNCHANGED <<frame, m_state, m_data_message, handed, violation>>
  BY DEF HeaderPart, BasicHeader, HeaderBytes, messagevars
<1> QED BY <1>1, HeaderStays DEF Mapped, Stutters

\* The refusal of a header, in the stream.
LEMMA HeaderRefusedMapped ==
  ASSUME FrameInv, BasicHeaderRefused \/ ExtendedHeaderRefused PROVE Mapped
<1>1. HeaderDone
  BY HeaderBytesIs DEF BasicHeaderRefused, ExtendedHeaderRefused
<1>2. ~BasicHeaderValid(frame) \/ ~MinimallyEncoded(frame)
  BY DEF BasicHeaderRefused, ExtendedHeaderRefused
<1>3. /\ violation' # "none"
      /\ UNCHANGED <<frame, m_state, m_data_message, handed>>
  BY DEF BasicHeaderRefused, ExtendedHeaderRefused, Refuse, messagevars
<1> QED BY <1>1, <1>2, <1>3, HeaderStays, LegalIs
        DEF Mapped, Refuses, HeaderDone, FrameFacts

\* The refusal of a frame out of sequence, in the stream.
LEMMA DataHeaderRefusedMapped ==
  ASSUME FrameInv, DataHeaderRefused PROVE Mapped
<1>1. HeaderDone
  BY HeaderReadyIs DEF DataHeaderRefused
<1>2. /\ violation' # "none" /\ ~is_control(frame.op)
      /\ UNCHANGED <<frame, m_state, m_data_message, handed>>
      /\ ~((frame.op = "CONTINUATION") <=> (m_data_message # Nothing))
  BY DEF DataHeaderRefused, Refuse, messagevars
<1>3. (Fragments # Nothing) <=> (m_data_message # Nothing)
  <2>1. Fragments = Whole(m_data_message)
    BY <1>1, FragmentsAtHeader DEF HeaderDone
  <2>2. m_data_message # Nothing => m_data_message \in Message
    BY <1>1 DEF HeaderDone, TypeOK
  <2> QED BY <2>1, <2>2, NothingIs, WholeIs DEF Whole
<1>4. ~Stream!Legal(frame)
  BY <1>2, <1>3, LegalIs
<1> QED BY <1>1, <1>2, <1>4, HeaderStays
           DEF Mapped, Refuses, HeaderDone, FrameFacts

\* The complete header of a control frame, in the stream.
LEMMA ControlHeaderMapped ==
  ASSUME FrameInv, ControlHeader PROVE Mapped
<1> DEFINE msg == [op |-> frame.op, size |-> 0,
                   masking_index |-> IF frame.masking = "key" THEN 0 ELSE -1]
<1>1. /\ HeaderDone /\ BasicHeaderValid(frame) /\ MinimallyEncoded(frame)
      /\ is_control(frame.op)
  BY HeaderReadyIs DEF ControlHeader
<1>2. msg \in Control /\ msg.op = frame.op /\ msg.size = 0
  BY <1>1, LimitsAssumption DEF Control, HeaderDone, FrameFacts
<1>3. TypeOK'
  BY ControlHeaderInv DEF FrameInv
<1>4. CASE frame.size = 0
  <2>1. ControlFrame(msg)
    BY <1>4 DEF ControlHeader
  <2> HIDE DEF msg
  <2> QED BY <1>1, <1>2, <1>3, <1>4, <2>1, ControlEndsMapped DEF HeaderDone
<1>5. CASE frame.size # 0
  <2>1. UNCHANGED <<frame, m_data_message, handed, violation>>
    BY <1>5 DEF ControlHeader, ExpectPayload
  <2>2. Fragments' = Fragments
    BY <1>1, <2>1 DEF Fragments, HeaderDone
  <2> QED BY <2>1, <2>2 DEF Mapped, Stutters
<1> QED BY <1>4, <1>5

\* A byte of a control frame, in the stream.
LEMMA ControlCharacterMapped ==
  ASSUME FrameInv, ControlCharacter PROVE Mapped
<1> DEFINE msg == [m_control_message EXCEPT
                      !.size = @ + 1,
                      !.masking_index = IF @ >= 0 THEN @ + 1 ELSE @]
<1>1. PayloadFacts /\ InControl /\ is_control(frame.op)
  BY InPayloadIs DEF ControlCharacter, InControl
<1>2. TypeOK'
  BY ControlCharacterInv DEF FrameInv
<1>3. CASE m_payload_left # 1
  <2>1. UNCHANGED <<frame, m_data_message, handed, violation>>
    BY <1>3 DEF ControlCharacter
  <2>2. Fragments' = Fragments
    BY <1>1, <2>1 DEF Fragments
  <2> QED BY <2>1, <2>2 DEF Mapped, Stutters
<1>4. CASE m_payload_left = 1
  <2>1. ControlFrame(msg)
    BY <1>4 DEF ControlCharacter
  <2>2. msg \in Control /\ msg.op = frame.op /\ msg.size = frame.size
    BY <1>1, <1>4, ControlProcessed DEF WithByte
  <2> HIDE DEF msg
  <2> QED BY <1>1, <1>2, <2>1, <2>2, ControlEndsMapped
          DEF PayloadFacts, AtPayload
<1> QED BY <1>3, <1>4

\* The complete header of a data frame, in the stream.
LEMMA DataHeaderMapped ==
  ASSUME FrameInv, DataHeader PROVE Mapped
<1> DEFINE msg == IF m_data_message = Nothing THEN NewMessage(frame.op)
                  ELSE m_data_message
<1>1. /\ HeaderDone
      /\ BasicHeaderValid(frame) /\ MinimallyEncoded(frame)
      /\ ~is_control(frame.op)
      /\ (frame.op = "CONTINUATION") <=> (m_data_message # Nothing)
  BY HeaderReadyIs DEF DataHeader
<1>2. /\ msg \in Message /\ Validated(msg, character)
      /\ frame.op # "CONTINUATION" => msg.op = frame.op /\ msg.size = 0
      /\ m_data_message = Nothing => msg.utf8 = UTF8_ACCEPT
  BY <1>1, HeaderMessage
<1>3. TypeOK'
  BY DataHeaderInv DEF FrameInv
<1>4. CASE frame.size = 0
  <2>1. DataFrame(msg, character)
    BY <1>4 DEF DataHeader
  <2>2. /\ Stream!With(frame) = [op |-> msg.op, size |-> msg.size + frame.size]
        /\ (frame.op = "CONTINUATION") <=> (Fragments # Nothing)
    <3>1. FrameFacts(frame)
      BY <1>1 DEF HeaderDone
    <3> QED BY <1>1, <1>2, <3>1, WithAtHeader
  <2>3. character \in Seq(Byte)
    BY <1>1, BytesAre DEF HeaderDone, TypeOK
  <2>4. violation' = "text" => Fragments' = Fragments
    <3> SUFFICES ASSUME violation' = "text" PROVE Fragments' = Fragments
      OBVIOUS
    <3>1. msg.utf8 # UTF8_ACCEPT /\ m_data_message' = msg /\ UNCHANGED <<frame, m_state>>
      BY <1>1, <2>1 DEF DataFrame, Refuse, HeaderDone
    <3>2. m_data_message' = m_data_message
      BY <1>2, <3>1
    <3> QED BY <1>1, <3>1, <3>2, HeaderStays
  <2> HIDE DEF msg
  <2>5. msg.size + frame.size = msg.size
    BY <1>2, <1>4, NothingIs
  <2> QED BY <1>1, <1>2, <1>3, <2>1, <2>2, <2>3, <2>4, <2>5, DataEndsMapped
          DEF HeaderDone
<1>5. CASE frame.size # 0
  <2>1. /\ UNCHANGED <<frame, handed, violation>>
        /\ m_state' = "READ_PAYLOAD" /\ m_payload_left' = frame.size
        /\ m_data_message' = set_masking_key(msg)
    BY <1>5 DEF DataHeader, ExpectPayload
  <2>2. Fragments = Whole(m_data_message)
    BY <1>1, FragmentsAtHeader DEF HeaderDone
  <2>3. m_data_message' \in Message /\ m_data_message'.op = msg.op
        /\ m_data_message'.size = msg.size
    <3> HIDE DEF msg
    <3> QED BY <1>2, <2>1, KeyIs
  <2>4. CASE frame.op = "CONTINUATION"
    <3>1. Fragments = [op |-> msg.op, size |-> msg.size]
      BY <1>1, <2>2, <2>4 DEF Whole
    <3>2. frame.size - frame.size = 0 /\ msg.size - 0 = msg.size
      <4> HIDE DEF msg
      <4> QED BY <1>1, <1>2, NothingIs DEF HeaderDone, FrameFacts
    <3> HIDE DEF msg
    <3>3. Fragments' = [op |-> msg.op, size |-> msg.size]
      BY <1>1, <2>1, <2>3, <2>4, <3>2, NothingIs DEF Fragments
    <3> QED BY <2>1, <3>1, <3>3 DEF Mapped, Stutters
  <2>5. CASE frame.op # "CONTINUATION"
    <3>1. Fragments = Nothing
      BY <1>1, <2>2, <2>5 DEF Whole
    <3>2. Fragments' = Nothing
      BY <1>1, <2>1, <2>5 DEF Fragments
    <3> QED BY <2>1, <3>1, <3>2 DEF Mapped, Stutters
  <2> QED BY <2>4, <2>5
<1> QED BY <1>4, <1>5

\* The refusal of a message for its size, in the stream.
LEMMA MessageTooBigMapped ==
  ASSUME FrameInv, MessageTooBig PROVE Mapped
<1>1. PayloadFacts /\ InData /\ ~is_control(frame.op) /\ TooBig
  BY InPayloadIs DEF MessageTooBig, TooBig, InData
<1>2. UNCHANGED <<frame, m_state, m_data_message, m_payload_left, handed>>
      /\ violation' = "too big"
  BY DEF MessageTooBig, Refuse, messagevars
<1>3. Fragments' = Fragments
  BY <1>2 DEF Fragments
<1>4. m_data_message.size + m_payload_left > PAYLOAD_SIZE_MAX
  <2> DEFINE s == m_data_message.size
  <2>1. (s + m_payload_left) % UInt64 > PAYLOAD_SIZE_MAX
    BY <1>1 DEF TooBig
  <2>2. s \in 0..PAYLOAD_SIZE_MAX /\ PAYLOAD_SIZE_MAX \in Nat
    BY <1>1, NothingIs, LimitsAssumption DEF InData
  <2>3. frame.size + PAYLOAD_SIZE_MAX < UInt64 /\ m_payload_left \in Nat
        /\ m_payload_left <= frame.size /\ frame.size \in Nat /\ UInt64 \in Nat
    BY <1>1, ReaderAssumption DEF PayloadFacts, FrameFacts
  <2> HIDE DEF s
  <2>4. s + m_payload_left \in Nat /\ s + m_payload_left < UInt64
    BY <2>2, <2>3
  <2>5. (s + m_payload_left) % UInt64 = s + m_payload_left
    BY <2>3, <2>4, ModSmall
  <2>6. s + m_payload_left > PAYLOAD_SIZE_MAX
    BY <2>1, <2>5
  <2> QED BY <2>6 DEF s
<1>5. ~(Stream!With(frame).size <= PAYLOAD_SIZE_MAX)
  <2>1. Stream!With(frame).size = m_data_message.size + m_payload_left
    BY <1>1, WithInData
  <2> DEFINE t == m_data_message.size + m_payload_left
  <2>2. t \in Nat /\ PAYLOAD_SIZE_MAX \in Nat
    BY <1>1, NothingIs, LimitsAssumption DEF InData, PayloadFacts
  <2>3. t > PAYLOAD_SIZE_MAX
    BY <1>4
  <2> HIDE DEF t
  <2>4. ~(t <= PAYLOAD_SIZE_MAX)
    BY <2>2, <2>3
  <2> QED BY <2>1, <2>4 DEF t
<1>6. ~Stream!Legal(frame)
  BY <1>1, <1>5, LegalIs
<1> QED BY <1>1, <1>2, <1>3, <1>6 DEF Mapped, Refuses, PayloadFacts, FrameFacts

\* A byte read leaves the size of the fragments before as it is.
LEMMA OneMore ==
  ASSUME NEW p \in Nat, NEW q \in Nat, NEW r \in Nat
  PROVE  (p + 1) - (q - (r - 1)) = p - (q - r)
OBVIOUS

\* A byte of a data frame, in the stream.
LEMMA DataCharacterMapped ==
  ASSUME FrameInv, NEW byte \in Bytes, DataCharacter(byte) PROVE Mapped
<1> DEFINE msg == process_character(byte)
           text == IF msg.op = "TEXT" THEN Unfinished(byte) ELSE <<>>
<1>0. InPayload(FALSE) /\ ~TooBig /\ msg.utf8 # UTF8_REJECT
  BY DEF DataCharacter
<1>1. PayloadFacts /\ InData
  BY <1>0, InPayloadIs
<1>2. /\ BasicHeaderValid(frame) /\ MinimallyEncoded(frame)
      /\ ~is_control(frame.op) /\ frame.size \in Nat /\ m_payload_left \in Nat
      /\ m_data_message \in Message /\ m_state = "READ_PAYLOAD"
      /\ m_data_message # Nothing /\ m_data_message.size \in Nat
  BY <1>1, NothingIs DEF PayloadFacts, FrameFacts, InData, AtPayload
<1>3. /\ msg \in Message /\ msg.op = m_data_message.op
      /\ msg.size = m_data_message.size + 1 /\ msg # Nothing
      /\ text \in Seq(Bytes) /\ Validated(msg, text)
  BY <1>0, <1>1, CharacterKept, NothingIs
<1>4. TypeOK'
  BY DataCharacterInv DEF FrameInv
<1>5. Fragments = IF frame.op = "CONTINUATION"
                  THEN [op |-> m_data_message.op,
                        size |-> m_data_message.size - Done]
                  ELSE Nothing
  BY <1>1, FragmentsInData
<1>6. ASSUME frame' = frame, m_state' = m_state, m_data_message' = msg,
             m_payload_left' = m_payload_left - 1
      PROVE  Fragments' = Fragments
  <2>1. Fragments' = IF frame.op = "CONTINUATION"
                     THEN [op |-> msg.op,
                           size |-> msg.size - (frame.size - (m_payload_left - 1))]
                     ELSE Nothing
    <3> HIDE DEF msg
    <3> QED BY <1>2, <1>3, <1>6 DEF Fragments
  <2>2. msg.size - (frame.size - (m_payload_left - 1)) = m_data_message.size - Done
    <3> DEFINE p == m_data_message.size
               q == frame.size
               r == m_payload_left
    <3>1. p \in Nat /\ q \in Nat /\ r \in Nat /\ msg.size = p + 1
      BY <1>2, <1>3
    <3>2. Done = q - r
      BY DEF Done
    <3> HIDE DEF msg, p, q, r
    <3>3. (p + 1) - (q - (r - 1)) = p - (q - r)
      BY <3>1, OneMore
    <3> QED BY <3>1, <3>2, <3>3 DEF p, q, r
  <2> HIDE DEF msg, Done
  <2> QED BY <1>3, <1>5, <2>1, <2>2
<1>7. CASE m_payload_left = 1
  <2>1. DataFrame(msg, text)
    BY <1>7 DEF DataCharacter
  <2> HIDE DEF msg, text
  <2>2. /\ Stream!With(frame) = [op |-> msg.op, size |-> msg.size]
        /\ (frame.op = "CONTINUATION") <=> (Fragments # Nothing)
    BY <1>1, <1>3, <1>7, WithInData
  <2>3. text \in Seq(Byte)
    BY <1>3, BytesAre
  <2>4. violation' = "text" => Fragments' = Fragments
    <3>1. violation' = "text" => /\ frame' = frame /\ m_state' = m_state
                                 /\ m_data_message' = msg
      BY <1>1, <2>1 DEF DataFrame, Refuse, PayloadFacts
    <3>2. m_payload_left' = m_payload_left - 1
      BY <1>7, <2>1 DEF DataFrame
    <3> QED BY <3>1, <3>2, <1>6
  <2> QED BY <1>1, <1>2, <1>3, <1>4, <2>1, <2>2, <2>3, <2>4, DataEndsMapped
          DEF PayloadFacts
<1>8. CASE m_payload_left # 1
  <2>1. /\ m_data_message' = msg
        /\ m_payload_left' = m_payload_left - 1
        /\ UNCHANGED <<frame, m_state, handed, violation>>
    BY <1>8 DEF DataCharacter
  <2> HIDE DEF msg
  <2> QED BY <1>6, <2>1 DEF Mapped, Stutters
<1> QED BY <1>7, <1>8

\* The refusal of a byte of text, in the stream.
LEMMA DataCharacterRefusedMapped ==
  ASSUME FrameInv, NEW byte \in Bytes, DataCharacterRefused(byte) PROVE Mapped
<1> DEFINE msg == process_character(byte)
<1>0. InPayload(FALSE) /\ ~TooBig /\ msg.utf8 = UTF8_REJECT
  BY DEF DataCharacterRefused
<1>1. PayloadFacts /\ InData
  BY <1>0, InPayloadIs
<1>2. /\ ~is_control(frame.op) /\ m_state = "READ_PAYLOAD"
      /\ m_data_message \in Message /\ m_data_message # Nothing
      /\ m_data_message.op \in {"TEXT", "BINARY"} /\ m_data_message.size \in Nat
      /\ m_payload_left \in Nat /\ m_payload_left # 0
  BY <1>1, NothingIs DEF InData, PayloadFacts, AtPayload
<1>3. m_data_message.op = "TEXT"
  <2>1. Validated(m_data_message, character)
    BY <1>1, <1>2 DEF PayloadFacts, TextState
  <2>2. msg.utf8 = IF m_data_message.op = "TEXT"
                   THEN decode(m_data_message.utf8, byte)
                   ELSE m_data_message.utf8
    BY <1>2, ProcessedIs DEF Processed
  <2> QED BY <1>0, <1>2, <2>1, <2>2 DEF Validated, UTF8_ACCEPT, UTF8_REJECT
<1>4. /\ violation' = "text" /\ UNCHANGED <<frame, handed, m_state, m_payload_left>>
      /\ m_data_message' = [m_data_message EXCEPT
                                !.utf8 = msg.utf8,
                                !.masking_index = msg.masking_index]
  BY DEF DataCharacterRefused, Refuse
<1> HIDE DEF msg
<1>5. /\ m_data_message'.op = m_data_message.op
      /\ m_data_message'.size = m_data_message.size
      /\ m_data_message' # Nothing
  <2>1. TypeOK' /\ TypeOK
    BY DataCharacterRefusedInv DEF FrameInv
  <2>2. /\ m_data_message'.op = m_data_message.op
        /\ m_data_message'.size = m_data_message.size
    BY <1>2, <1>4 DEF Message
  <2>3. m_data_message' \in Message
    BY <1>1, DataCharacterRefusedMessage
  <2> QED BY <2>2, <2>3, NothingIs
<1>6. Fragments' = Fragments
  BY <1>2, <1>4, <1>5 DEF Fragments
<1>7. Stream!HasRules(frame)
  <2>1. Stream!With(frame).op = "TEXT"
        /\ Stream!With(frame).size = m_data_message.size + m_payload_left
    BY <1>1, <1>3, WithInData
  <2>2. m_data_message.size + m_payload_left > 0
    BY <1>2
  <2> QED BY <1>2, <2>1, <2>2, RulesAre
<1> QED BY <1>1, <1>4, <1>6, <1>7 DEF Mapped, Refuses, PayloadFacts, FrameFacts

\* Every step of the reader is a step of the stream of messages, or none.
LEMMA NextMapped == FrameInv /\ [Next]_vars => Mapped
<1> SUFFICES ASSUME FrameInv, [Next]_vars PROVE Mapped
  OBVIOUS
<1>1. CASE Arrive \/ HandleReadFrame \/ ReadOn
  BY <1>1, SocketMapped
<1>2. CASE NextFrame
  BY <1>2, NextFrameMapped
<1>3. CASE HeaderPart \/ BasicHeader
  BY <1>3, HeaderPartMapped
<1>4. CASE BasicHeaderRefused \/ ExtendedHeaderRefused
  BY <1>4, HeaderRefusedMapped
<1>5. CASE ControlHeader
  BY <1>5, ControlHeaderMapped
<1>6. CASE DataHeader
  BY <1>6, DataHeaderMapped
<1>7. CASE DataHeaderRefused
  BY <1>7, DataHeaderRefusedMapped
<1>8. CASE MessageTooBig
  BY <1>8, MessageTooBigMapped
<1>9. CASE ControlCharacter
  BY <1>9, ControlCharacterMapped
<1>10. ASSUME NEW byte \in Bytes, DataCharacter(byte) PROVE Mapped
  BY <1>10, DataCharacterMapped
<1>11. ASSUME NEW byte \in Bytes, DataCharacterRefused(byte) PROVE Mapped
  BY <1>11, DataCharacterRefusedMapped
<1>12. CASE UNCHANGED vars
  <2>1. UNCHANGED <<frame, m_state, m_payload_left, m_data_message, handed, violation>>
    BY <1>12 DEF vars, wirevars, messagevars
  <2>2. Fragments' = Fragments
    BY <2>1 DEF Fragments
  <2> QED BY <2>1, <2>2 DEF Mapped, Stutters
<1> QED BY <1>1, <1>2, <1>3, <1>4, <1>5, <1>6, <1>7, <1>8, <1>9, <1>10, <1>11,
           <1>12 DEF Next, Thread, Ended

-----------------------------------------------------------------------------
(* What the connection sees of the processor.                              *)

\* A step that refuses nothing ends a message under way only by handing it over.
KeepsMessage ==
    /\ violation' = violation
    /\ m_data_message # Nothing /\ m_data_message' = Nothing =>
           handed' # Nothing /\ ~is_control(handed'.op)

\* Where a refusal leaves the processor.
StopsReading ==
    /\ violation = "none" /\ violation' # "none"
    /\ \/ m_state' = "READ_HEADER" /\ m_data_message' = m_data_message
       \/ m_state' = "READ_PAYLOAD" /\ m_payload_left' = 0
       \/ m_state' = "READ_PAYLOAD" /\ m_data_message # Nothing

\* While nothing is refused the processor asks for bytes.
LEMMA ExpectsIs ==
  FrameInv => (violation = "none" =>
                   Expects = IF m_data_message # Nothing THEN "payload" ELSE "header")
<1> SUFFICES ASSUME FrameInv, violation = "none"
             PROVE  Expects = IF m_data_message # Nothing THEN "payload" ELSE "header"
  OBVIOUS
<1>1. get_bytes_needed # 0
  BY NeededIs
<1> QED BY <1>1 DEF Expects

\* The end of a data frame, for the connection.
LEMMA DataEndsExpected ==
  ASSUME violation = "none", NEW msg \in Message, NEW c, DataFrame(msg, c),
         \/ m_state = "READ_PAYLOAD"
         \/ /\ m_state = "READ_HEADER"
            /\ msg = m_data_message \/ msg.utf8 = UTF8_ACCEPT
  PROVE  KeepsMessage \/ StopsReading
<1>1. msg \in Message /\ msg # Nothing /\ msg.op \in {"TEXT", "BINARY"}
      /\ msg.op \in Opcodes /\ msg.size \in 0..PAYLOAD_SIZE_MAX
  BY NothingIs
<1>2. CASE /\ handed' = [op |-> msg.op, size |-> msg.size]
           /\ UNCHANGED violation
  <2>1. handed' # Nothing
    BY <1>1, <1>2, WholeIs
  <2>2. ~is_control(handed'.op)
    BY <1>1, <1>2 DEF is_control
  <2> QED BY <1>2, <2>1, <2>2 DEF KeepsMessage
<1>3. CASE /\ msg.op = "TEXT" /\ msg.utf8 # UTF8_ACCEPT
           /\ Refuse("text")
           /\ m_data_message' = msg
           /\ UNCHANGED m_state
  <2>1. violation' # "none" /\ m_payload_left' = 0
    BY <1>3 DEF Refuse, DataFrame
  <2> QED BY <1>3, <2>1 DEF StopsReading
<1>4. CASE m_data_message' = msg /\ UNCHANGED violation
  BY <1>1, <1>4 DEF KeepsMessage
<1> QED BY <1>2, <1>3, <1>4 DEF DataFrame

\* The end of a control frame, for the connection.
LEMMA ControlEndsExpected ==
  ASSUME violation = "none", NEW msg, ControlFrame(msg),
         m_state = "READ_PAYLOAD" \/ msg.size = 0
  PROVE  KeepsMessage \/ StopsReading
<1>1. CASE m_data_message' = m_data_message /\ violation' = violation
  BY <1>1 DEF KeepsMessage
<1>2. CASE /\ msg.size >= 1 \/ msg.size > 2
           /\ violation' \in {"close code", "close reason"}
           /\ m_payload_left' = 0 /\ m_state' = m_state
  <2>1. msg.size # 0
    <3>1. ~(0 >= 1) /\ ~(0 > 2)
      OBVIOUS
    <3> QED BY <1>2, <3>1, Zenon
  <2>2. violation' # "none"
    BY <1>2
  <2> QED BY <1>2, <2>1, <2>2 DEF StopsReading
<1> QED BY <1>1, <1>2 DEF ControlFrame, Refuse

\* Every step of the reader, for the connection.
LEMMA NextExpected ==
  ASSUME FrameInv, Next, ~Ended PROVE KeepsMessage \/ StopsReading
<1>1. CASE Arrive \/ HandleReadFrame \/ ReadOn \/ NextFrame \/ HeaderPart \/ BasicHeader
  <2>1. m_data_message' = m_data_message /\ violation' = violation
    BY <1>1 DEF Arrive, HandleReadFrame, ReadOn, NextFrame, HeaderPart,
       BasicHeader, messagevars
  <2> QED BY <2>1 DEF KeepsMessage
<1>2. CASE BasicHeaderRefused \/ ExtendedHeaderRefused \/ DataHeaderRefused
  <2>1. HeaderDone
    BY <1>2, HeaderBytesIs, HeaderReadyIs
       DEF BasicHeaderRefused, ExtendedHeaderRefused, DataHeaderRefused
  <2>2. violation' # "none" /\ m_state' = m_state /\ m_data_message' = m_data_message
    BY <1>2 DEF BasicHeaderRefused, ExtendedHeaderRefused, DataHeaderRefused,
       Refuse, messagevars
  <2> QED BY <2>1, <2>2 DEF StopsReading, HeaderDone
<1>3. CASE ControlHeader
  <2>1. HeaderDone
    BY <1>3, HeaderReadyIs DEF ControlHeader
  <2>2. CASE frame.size = 0
    <3> DEFINE msg == [op |-> frame.op, size |-> 0,
                       masking_index |-> IF frame.masking = "key" THEN 0 ELSE -1]
    <3>1. ControlFrame(msg) /\ msg.size = 0
      BY <1>3, <2>2 DEF ControlHeader
    <3> HIDE DEF msg
    <3> QED BY <2>1, <3>1, ControlEndsExpected DEF HeaderDone
  <2>3. CASE frame.size # 0
    BY <1>3, <2>3 DEF ControlHeader, ExpectPayload, KeepsMessage
  <2> QED BY <2>2, <2>3
<1>4. CASE DataHeader
  <2> DEFINE msg == IF m_data_message = Nothing THEN NewMessage(frame.op)
                    ELSE m_data_message
  <2>1. /\ HeaderDone /\ BasicHeaderValid(frame) /\ ~is_control(frame.op)
        /\ (frame.op = "CONTINUATION") <=> (m_data_message # Nothing)
    BY <1>4, HeaderReadyIs DEF DataHeader
  <2>2. msg \in Message /\ (m_data_message = Nothing => msg.utf8 = UTF8_ACCEPT)
    BY <2>1, HeaderMessage
  <2>3. CASE frame.size = 0
    <3>1. DataFrame(msg, character)
      BY <1>4, <2>3 DEF DataHeader
    <3>2. msg = m_data_message \/ msg.utf8 = UTF8_ACCEPT
      BY <2>2
    <3> HIDE DEF msg
    <3> QED BY <2>1, <2>2, <3>1, <3>2, DataEndsExpected DEF HeaderDone
  <2>4. CASE frame.size # 0
    <3>1. m_data_message' = set_masking_key(msg) /\ violation' = violation
      BY <1>4, <2>4 DEF DataHeader, ExpectPayload
    <3> HIDE DEF msg
    <3>2. m_data_message' # Nothing
      BY <2>2, <3>1, KeyIs, NothingIs
    <3> QED BY <3>1, <3>2 DEF KeepsMessage
  <2> QED BY <2>3, <2>4
<1>5. CASE MessageTooBig
  <2>1. PayloadFacts /\ InData
    BY <1>5, InPayloadIs DEF MessageTooBig, TooBig
  <2>2. violation' # "none" /\ m_state' = m_state
    BY <1>5 DEF MessageTooBig, Refuse
  <2> QED BY <2>1, <2>2, NothingIs DEF StopsReading, PayloadFacts, InData,
             AtPayload
<1>6. CASE ControlCharacter
  <2> DEFINE msg == [m_control_message EXCEPT
                        !.size = @ + 1,
                        !.masking_index = IF @ >= 0 THEN @ + 1 ELSE @]
  <2>1. PayloadFacts /\ InControl
    BY <1>6, InPayloadIs DEF ControlCharacter
  <2>2. CASE m_payload_left = 1
    <3>1. ControlFrame(msg)
      BY <1>6, <2>2 DEF ControlCharacter
    <3> HIDE DEF msg
    <3> QED BY <2>1, <3>1, ControlEndsExpected
               DEF PayloadFacts, InControl, AtPayload
  <2>3. CASE m_payload_left # 1
    BY <1>6, <2>3 DEF ControlCharacter, KeepsMessage
  <2> QED BY <2>2, <2>3
<1>7. ASSUME NEW byte \in Bytes, DataCharacter(byte)
      PROVE  KeepsMessage \/ StopsReading
  <2> DEFINE msg == process_character(byte)
             text == IF msg.op = "TEXT" THEN Unfinished(byte) ELSE <<>>
  <2>0. InPayload(FALSE) /\ ~TooBig /\ msg.utf8 # UTF8_REJECT
    BY <1>7 DEF DataCharacter
  <2>1. PayloadFacts /\ InData
    BY <2>0, InPayloadIs
  <2>2. msg \in Message
    BY <1>7, <2>0, <2>1, CharacterKept
  <2>3. CASE m_payload_left = 1
    <3>1. DataFrame(msg, text)
      BY <1>7, <2>3 DEF DataCharacter
    <3> HIDE DEF msg, text
    <3> QED BY <2>1, <2>2, <3>1, DataEndsExpected
               DEF PayloadFacts, InData, AtPayload
  <2>4. CASE m_payload_left # 1
    <3>1. m_data_message' = msg /\ violation' = violation
      BY <1>7, <2>4 DEF DataCharacter
    <3> HIDE DEF msg
    <3> QED BY <2>2, <3>1, NothingIs DEF KeepsMessage
  <2> QED BY <2>3, <2>4
<1>8. ASSUME NEW byte \in Bytes, DataCharacterRefused(byte)
      PROVE  KeepsMessage \/ StopsReading
  <2>1. PayloadFacts /\ InData
    BY <1>8, InPayloadIs DEF DataCharacterRefused
  <2>2. violation' # "none" /\ m_state' = m_state
    BY <1>8 DEF DataCharacterRefused, Refuse
  <2> QED BY <2>1, <2>2, NothingIs DEF StopsReading, PayloadFacts, InData,
             AtPayload
<1> QED BY <1>1, <1>2, <1>3, <1>4, <1>5, <1>6, <1>7, <1>8 DEF Next, Thread

\* What a step may change in what the connection expects.
ExpectsStep ==
    IF violation' = violation
    THEN \/ Expects' = Expects
         \/ Expects = "header" /\ Expects' = "payload"
         \/ /\ Expects = "payload" /\ Expects' = "header"
            /\ handed' # Nothing /\ ~is_control(handed'.op)
    ELSE \/ Expects' \in {Expects, "nothing"}
         \/ Expects = "payload" /\ Expects' = "rejected"

\* Every step of the reader is one the connection knows.
LEMMA NextExpects == FrameInv /\ FrameInv' /\ [Next]_vars => [ExpectsStep]_vars
<1> SUFFICES ASSUME FrameInv, FrameInv', Next PROVE ExpectsStep \/ UNCHANGED vars
  OBVIOUS
<1>1. CASE Ended
  BY <1>1 DEF Ended
<1>2. violation = "none" =>
          Expects = IF m_data_message # Nothing THEN "payload" ELSE "header"
  BY ExpectsIs
<1>3. (FrameInv => (violation = "none" =>
                   Expects = IF m_data_message # Nothing THEN "payload" ELSE "header"))'
  BY ExpectsIs, PTL
<1>4. ASSUME ~Ended, KeepsMessage PROVE ExpectsStep
  <2>1. violation = "none" /\ violation' = "none"
    <3>1. violation = "none"
      <4>1. SUFFICES ASSUME violation # "none" PROVE FALSE
        OBVIOUS
      <4>2. wanted = 0
        BY <4>1 DEF FrameInv, Refused
      <4>3. ~Running /\ ~(wanted > 0)
        BY <4>1, <4>2 DEF Running
      <4> QED BY <1>4, <4>3 DEF Next, Thread, Arrive, HandleReadFrame,
                 NextFrame,
                HeaderPart, BasicHeader, BasicHeaderRefused, ExtendedHeaderRefused,
                HeaderBytes, ControlHeader, DataHeader, DataHeaderRefused, HeaderReady,
                MessageTooBig, TooBig, InPayload, ControlCharacter, DataCharacter,
                DataCharacterRefused, ReadOn
    <3> QED BY <1>4, <3>1 DEF KeepsMessage
  <2>2. Expects' = IF m_data_message' # Nothing THEN "payload" ELSE "header"
    BY <1>3, <2>1
  <2> QED BY <1>2, <1>4, <2>1, <2>2 DEF KeepsMessage, ExpectsStep
<1>5. ASSUME StopsReading PROVE ExpectsStep
  <2>1. Expects = IF m_data_message # Nothing THEN "payload" ELSE "header"
    BY <1>2, <1>5 DEF StopsReading
  <2>2. CASE m_state' = "READ_HEADER" /\ m_data_message' = m_data_message
    <3>1. Expects' \in {Expects, "nothing"}
      BY <2>1, <2>2 DEF Expects
    <3> QED BY <1>5, <3>1 DEF StopsReading, ExpectsStep
  <2>3. CASE m_state' = "READ_PAYLOAD" /\ m_payload_left' = 0
    <3>1. Expects' = "nothing"
      BY <2>3 DEF Expects, get_bytes_needed
    <3> QED BY <1>5, <3>1 DEF StopsReading, ExpectsStep
  <2>4. CASE m_state' = "READ_PAYLOAD" /\ m_data_message # Nothing
    <3>1. Expects' \in {"nothing", "rejected"} /\ Expects = "payload"
      BY <1>5, <2>1, <2>4 DEF Expects, StopsReading
    <3> QED BY <1>5, <3>1 DEF StopsReading, ExpectsStep
  <2> QED BY <1>5, <2>2, <2>3, <2>4 DEF StopsReading
<1> QED BY <1>1, <1>4, <1>5, NextExpected

-----------------------------------------------------------------------------

\* handle_read_frame() never takes a byte of one frame for a byte of another,
\* however its reads cut them: ReaderInv.
THEOREM ReaderCorrect == Spec => []ReaderInv
BY FrameInvariant, InvReaderInv, PTL

\* message::data and message::control unmask every byte with its own byte of
\* the key: Unmasked.
THEOREM PayloadUnmasked == Spec => []Unmasked
BY FrameInvariant, InvUnmasked, PTL

\* The validator of message::data keeps to whole characters over all fragments
\* of a text and refuses only what no text goes on with: TextIsUtf8.
THEOREM TextValidated == Spec => []TextIsUtf8
BY FrameInvariant, InvTextIsUtf8, PTL

\* The headers prepare_frame() writes pass the parser of hybi_header:
\* WritesWhatItReads.
THEOREM WritesAccepted == Spec => []WritesWhatItReads
BY FrameInvariant, InvWrites, PTL

\* The reader implements the stream of messages: what handle_read_frame() hands
\* to the handler are the messages of the peer's frames, each once and whole,
\* and only frames that break the rules are refused.
THEOREM ImplementsStream == Spec => StreamSpec
<1>1. FrameInv /\ [Next]_vars => [Stream!Next]_Stream!stream
  BY NextMapped, MappedSteps
<1> QED BY <1>1, StreamInit, FrameInvariant, PTL
           DEF Spec, StreamSpec, Stream!Spec

\* The processor never does to the connection what the model of the connection
\* leaves out: ExpectsAsInConnection.
THEOREM ExpectsFollows == Spec => ExpectsAsInConnection
<1>1. Spec => [][ExpectsStep]_vars
  BY FrameInvariant, NextExpects, PTL DEF Spec
<1> QED BY <1>1, PTL DEF ExpectsAsInConnection, ExpectsStep
=============================================================================
