---------------------------- MODULE MCTimerHeap -----------------------------
(* A small instance of TimerHeap: deadlines that collide, and more entries *)
(* than handles, so that a handle may be pending twice.                    *)
EXTENDS TimerHeap

MCMoment == 1..3
=============================================================================
