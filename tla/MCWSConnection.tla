--------------------------- MODULE MCWSConnection ---------------------------
(* The widest family of handler objects for WSConnection.                  *)
EXTENDS WSConnectionInvariant

\* Everything a handler can do: send or close in any callback, set or cancel
\* its timer, exit or throw.
AnyHandler == Callbacks
=============================================================================
