------------------------- MODULE MCTracingScheduler -------------------------
(* A small instance of TracingScheduler.                                   *)
EXTENDS TracingScheduler

Moments == 0..2
=============================================================================
