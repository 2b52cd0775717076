-------------------------- MODULE MCPumpScheduler ---------------------------
(* A small instance of PumpScheduler.                                      *)
EXTENDS PumpScheduler
=============================================================================
