--------------------------- MODULE MCManyClients ----------------------------
(* Four clients and up to three signals: enough for a signal in each phase *)
(* of the launcher, and for one trap to interrupt what another one left.   *)
EXTENDS ManyClients

MCCount == 4
MCMaxSignals == 3
=============================================================================
