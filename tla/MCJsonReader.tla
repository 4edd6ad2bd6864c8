----------------------------- MODULE MCJsonReader -----------------------------
(* The documents of up to MaxTokens tokens, and the conversions of JsonText. *)
EXTENDS JsonReader, JsonText

\* Whatever number a value is made of, it is read exactly: a whole number
\* that fits keeps its value, and no other is taken for one.
NumbersKept == root.kind = "number" => NumbersExact

\* Whatever escapes a text is made of, it is UTF-8 that a peer's validator takes
\* for the characters they are the UTF-16 of, but for the halves of pairs that
\* stand alone: a second one is not valid, a first one takes the next escape.
EscapesAreUtf8 == root.kind = "text" => EscapesValid
=============================================================================
