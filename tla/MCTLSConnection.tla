-------------------------- MODULE MCTLSConnection ---------------------------
(* The widest family of handler objects for TLSConnection.                 *)
EXTENDS TLSConnection

AnyHandler == Callbacks
=============================================================================
