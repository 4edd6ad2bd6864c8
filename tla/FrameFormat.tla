----------------------------- MODULE FrameFormat ----------------------------
(***************************************************************************)
(* Frames on the wire, and the headers that hybi_header.cpp writes.  A     *)
(* frame is known by the fields of its header; form is the width in bits   *)
(* of the length field its sender chose.  The limits of common.hpp are     *)
(* constants, so that small numbers can stand for 125, 65535 and 100 MB.   *)
(***************************************************************************)
EXTENDS Integers

CONSTANTS
    PAYLOAD_SIZE_BASIC,      \* the greatest length in 7 bits
    PAYLOAD_SIZE_EXTENDED,   \* the greatest length in 16 bits
    PAYLOAD_SIZE_MAX         \* the greatest message

ASSUME LimitsAssumption ==
    /\ PAYLOAD_SIZE_BASIC \in Nat /\ PAYLOAD_SIZE_EXTENDED \in Nat
    /\ PAYLOAD_SIZE_MAX \in Nat
    /\ PAYLOAD_SIZE_BASIC < PAYLOAD_SIZE_EXTENDED
    /\ PAYLOAD_SIZE_EXTENDED < PAYLOAD_SIZE_MAX

\* "RSV" stands for any of RSV3 to RSV7, "CONTROL_RSV" for CONTROL_RSVB to
\* CONTROL_RSVF.
Opcodes == {"CONTINUATION", "TEXT", "BINARY", "RSV",
            "CLOSE", "PING", "PONG", "CONTROL_RSV"}

is_control(op) == op \in {"CLOSE", "PING", "PONG", "CONTROL_RSV"}

reserved(op) == op \in {"RSV", "CONTROL_RSV"}

\* Whether the masking key is there, and whether it is zero.
Maskings == {"none", "zero", "key"}

Frame == [op : Opcodes, fin : BOOLEAN, rsv : BOOLEAN, masking : Maskings,
          form : {7, 16, 64}, size : Nat]

BASIC_HEADER_LENGTH == 2

get_header_len(f) ==
    BASIC_HEADER_LENGTH
    + (CASE f.form = 7 -> 0 [] f.form = 16 -> 2 [] f.form = 64 -> 8)
    + (IF f.masking = "none" THEN 0 ELSE 4)

Length(f) == get_header_len(f) + f.size

\* validate_basic_header() does not throw.
BasicHeaderValid(f) ==
    /\ is_control(f.op) => f.form = 7 /\ f.fin
    /\ ~f.rsv
    /\ ~reserved(f.op)

\* process_extended_header() does not throw.
MinimallyEncoded(f) ==
    /\ f.form = 16 => f.size >= PAYLOAD_SIZE_BASIC + 1
    /\ f.form = 64 => f.size > PAYLOAD_SIZE_EXTENDED

\* Wrong variant: the limits themselves are written in the longer form.
set_payload_size_below(size) ==
    CASE size < PAYLOAD_SIZE_BASIC -> 7
      [] size \in PAYLOAD_SIZE_BASIC .. PAYLOAD_SIZE_EXTENDED - 1 -> 16
      [] OTHER -> 64

\* The form in which a length is written.
set_payload_size(size) ==
    CASE size <= PAYLOAD_SIZE_BASIC -> 7
      [] size \in PAYLOAD_SIZE_BASIC + 1 .. PAYLOAD_SIZE_EXTENDED -> 16
      [] OTHER -> 64

\* The header that prepare_frame() writes for a message; complete() throws
\* where BasicHeaderValid is false.
prepare_frame(op, masking, size) ==
    [op |-> op, fin |-> TRUE, rsv |-> FALSE, masking |-> masking,
     form |-> set_payload_size(size), size |-> size]
=============================================================================
