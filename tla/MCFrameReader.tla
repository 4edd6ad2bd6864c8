---------------------------- MODULE MCFrameReader ---------------------------
(* Frames of every kind and both sides of every limit.                     *)
EXTENDS FrameReader

Header(op, fin, masking, form, size) ==
    [op |-> op, fin |-> fin, rsv |-> FALSE, masking |-> masking,
     form |-> form, size |-> size]

\* Both sides of the limits 3, 4 and 5, each in its shortest form.
Sizes == {<<7, 0>>, <<7, 1>>, <<7, 3>>, <<16, 4>>, <<64, 5>>, <<64, 6>>}

DataFrames ==
    {Header(op, fin, "none", s[1], s[2]) :
        op \in {"CONTINUATION", "TEXT"}, fin \in BOOLEAN, s \in Sizes}
    \cup {Header(op, fin, masking, s[1], s[2]) :
            op \in {"CONTINUATION", "BINARY"}, fin \in BOOLEAN,
            masking \in {"key", "zero"}, s \in {<<7, 0>>, <<7, 2>>, <<64, 5>>}}

OtherFrames ==
    {Header(op, TRUE, masking, 7, size) :
        op \in {"PING", "CLOSE"}, masking \in {"none", "key"}, size \in 0..3}
    \cup {Header("PONG", FALSE, "none", 7, 0), Header("PING", TRUE, "none", 16, 3),
          Header("RSV", TRUE, "none", 7, 1), Header("CONTROL_RSV", TRUE, "zero", 7, 0),
          Header("BINARY", TRUE, "none", 16, 3), Header("TEXT", FALSE, "key", 64, 4),
          [Header("TEXT", TRUE, "none", 7, 1) EXCEPT !.rsv = TRUE]}

ManyFrames == DataFrames \cup OtherFrames

\* ASCII, the continuations on both sides of 90 and of a0, which the first
\* bytes e0, ed, f0 and f4 tell apart, a byte that is never used, and c2.
BoundaryBytes == {65, 143, 144, 159, 160, 193, 194, 224, 237, 240, 244}
=============================================================================
