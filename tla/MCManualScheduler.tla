------------------------- MODULE MCManualScheduler --------------------------
(* A small instance of ManualScheduler.                                    *)
EXTENDS ManualScheduler
=============================================================================
