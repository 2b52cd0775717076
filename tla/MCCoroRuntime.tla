--------------------------- MODULE MCCoroRuntime ----------------------------
(* Small instances of CoroRuntime.                                         *)
EXTENDS CoroRuntime
=============================================================================
