---------------------------- MODULE MessageStream ---------------------------
(***************************************************************************)
(* What the reader of a connection promises: it takes the peer's frames    *)
(* one after another, puts the fragments of a message together, lets       *)
(* control frames pass between them, hands over each message once and as a *)
(* whole, and refuses nothing that it may not refuse.                      *)
(***************************************************************************)
EXTENDS FrameFormat

CONSTANTS Frames, NoFrame, Nothing

VARIABLES
    frame,      \* the peer's frame that is being read, or NoFrame
    message,    \* the fragments so far: first opcode and size, or Nothing
    handed,     \* what the last frame completed, or Nothing
    refused     \* the peer has broken the rules; nothing is promised any more

stream == <<frame, message, handed, refused>>

Init ==
    /\ frame = NoFrame /\ message = Nothing /\ handed = Nothing
    /\ refused = FALSE

Begin ==
    /\ ~refused /\ frame = NoFrame
    /\ frame' \in Frames
    /\ handed' = Nothing
    /\ UNCHANGED <<message, refused>>

\* The fragments so far with those of frame f.
With(f) ==
    IF message = Nothing THEN [op |-> f.op, size |-> f.size]
    ELSE [message EXCEPT !.size = @ + f.size]

Legal(f) ==
    /\ BasicHeaderValid(f) /\ MinimallyEncoded(f)
    /\ f.op = "CLOSE" => f.size # 1
    /\ ~is_control(f.op) =>
           /\ (f.op = "CONTINUATION") <=> (message # Nothing)
           /\ With(f).size <= PAYLOAD_SIZE_MAX

\* Frames whose bytes matter: text, and the status of a close frame.
HasRules(f) == IF is_control(f.op) THEN f.op = "CLOSE" /\ f.size > 1
               ELSE With(f).op = "TEXT" /\ With(f).size > 0

Fragment ==
    /\ ~refused /\ frame # NoFrame
    /\ Legal(frame) /\ ~is_control(frame.op) /\ ~frame.fin
    /\ frame' = NoFrame
    /\ message' = With(frame)
    /\ UNCHANGED <<handed, refused>>

Message ==
    /\ ~refused /\ frame # NoFrame
    /\ Legal(frame) /\ ~is_control(frame.op) /\ frame.fin
    /\ frame' = NoFrame
    /\ message' = Nothing
    /\ handed' = With(frame)
    /\ UNCHANGED refused

Control ==
    /\ ~refused /\ frame # NoFrame
    /\ Legal(frame) /\ is_control(frame.op)
    /\ frame' = NoFrame
    /\ handed' = [op |-> frame.op, size |-> frame.size]
    /\ UNCHANGED <<message, refused>>

Refuse ==
    /\ ~refused /\ frame # NoFrame
    /\ ~Legal(frame) \/ HasRules(frame)
    /\ refused' = TRUE
    /\ UNCHANGED <<frame, message, handed>>

Next == Begin \/ Fragment \/ Message \/ Control \/ Refuse

Spec == Init /\ [][Next]_stream
=============================================================================
