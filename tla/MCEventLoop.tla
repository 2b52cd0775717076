---------------------------- MODULE MCEventLoop -----------------------------
(* A small instance of EventLoop.                                          *)
EXTENDS EventLoop
=============================================================================
