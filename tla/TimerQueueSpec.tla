--------------------------- MODULE TimerQueueSpec ---------------------------
(***************************************************************************)
(* The abstract machine of TimerQueue.hpp: a sorted queue, the entry that  *)
(* the latest operation handed to its caller, and the deadline that a      *)
(* caller is told to wait for.                                             *)
(***************************************************************************)
EXTENDS TimerQueue

CONSTANTS Moment,  \* the deadlines and clock readings callers use
          Handle,  \* coroutine handles, borrowed by the queue
          None     \* std::nullopt

VARIABLES queue,   \* the pending entries in the order they will be popped
          popped,  \* what the latest PopDue returned
          next     \* what NextDeadline returns

vars == <<queue, popped, next>>

Earliest(q) == IF q = <<>> THEN None ELSE Head(q).when

Init == queue = <<>> /\ popped = None /\ next = None

Insert(when, handle) ==
  /\ queue' = Schedule(queue, when, handle)
  /\ popped' = None
  /\ next' = Earliest(queue')

PopDue(now) ==
  /\ IF HasDue(queue, now)
       THEN popped' = Head(queue) /\ queue' = Tail(queue)
       ELSE popped' = None /\ UNCHANGED queue
  /\ next' = Earliest(queue')

Next == \/ \E when \in Moment, handle \in Handle : Insert(when, handle)
        \/ \E now \in Moment : PopDue(now)

Spec == Init /\ [][Next]_vars
=============================================================================
