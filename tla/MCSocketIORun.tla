--------------------------- MODULE MCSocketIORun ----------------------------
(* For SocketIORun: five requests, and one behind the text "stop".          *)
EXTENDS SocketIORun

LongScript == <<"plain", "placeholder", "plain", "placeholder", "plain",
                "stop", "badformat">>
=============================================================================
