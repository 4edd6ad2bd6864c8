-------------------------- MODULE MCSocketIOClient --------------------------
(* Scripts for SocketIOClient.                                             *)
EXTENDS SocketIOClient

\* The text "stop" where nobody looks for it, and an item that is no text.
MixedScript == <<"stop", "placeholder", "nottext">>

ShortScript == <<"plain", "plain">>
=============================================================================
