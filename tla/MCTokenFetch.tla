---------------------------- MODULE MCTokenFetch -----------------------------
(* Responses for TokenFetch.  The body is a token of two bytes, a colon and  *)
(* one byte of the rest; it comes with every cut into chunks, with a length  *)
(* that is right, too small or too great, or up to the end of the connection.*)
EXTENDS TokenFetch

Bytes == {"t", "u", ":", "v"}
SizeLines == <<"1", "2", "3">>

Response(status, head, form, len, chunks, closes) ==
    [status |-> status, head |-> head, form |-> form, length |-> len,
     body |-> <<"t", "u", ":", "v">>, chunks |-> chunks, closes |-> closes]

AllResponses ==
    {Response(200, <<"h">>, "length", len, <<>>, c) : len \in 0..6, c \in BOOLEAN}
    \cup {Response(200, <<"h", "f">>, "chunked", 0, ends, c) :
              ends \in {<<1, 4>>, <<2, 4>>, <<3, 4>>, <<1, 3, 4>>}, c \in BOOLEAN}
    \cup {Response(s, head, "until_close", 0, <<>>, c) :
              s \in {200, 503}, head \in {<<>>, <<"h">>, <<"f", "h">>},
              c \in BOOLEAN}
    \cup {Response(200, <<"h">>, form, 0, <<>>, c) :
              form \in {"bad_length", "other_encoding"}, c \in BOOLEAN}
=============================================================================
