----------------------------- MODULE TimerQueue -----------------------------
(***************************************************************************)
(* What Coro::TimerQueue promises the schedulers that compose it: a queue  *)
(* of [when, handle] entries ordered by deadline, first in first out among *)
(* entries of the same deadline.  The schedulers' modules use these        *)
(* operators; module TimerHeap models the binary heap that implements them *)
(* and module TimerQueueSpec is the machine it is shown to refine.         *)
(***************************************************************************)
EXTENDS Integers, Sequences

Entry(Moment, Handle) == [when : Moment, handle : Handle]

Handles(timers) == [i \in 1..Len(timers) |-> timers[i].handle]

(***************************************************************************)
(* The number of entries that `while (PopDue(now))' removes: the longest   *)
(* prefix whose deadlines have all elapsed.                                *)
(***************************************************************************)
DueCount(timers, now) ==
  CHOOSE n \in 0..Len(timers) :
    /\ \A i \in 1..n : timers[i].when <= now
    /\ n < Len(timers) => timers[n + 1].when > now

\* The entries that are due at time now, earliest first, and those that stay.
Due(timers, now) == SubSeq(timers, 1, DueCount(timers, now))

NotDue(timers, now) == SubSeq(timers, DueCount(timers, now) + 1, Len(timers))

\* TimerQueue::Schedule: behind every entry that is not later than it.
Schedule(timers, when, handle) ==
  LET k == DueCount(timers, when)
  IN  SubSeq(timers, 1, k) \o <<[when |-> when, handle |-> handle]>>
        \o SubSeq(timers, k + 1, Len(timers))

\* TimerQueue::PopDue succeeds only when the earliest deadline has elapsed.
HasDue(timers, now) == timers # <<>> /\ Head(timers).when <= now

\* The order an entry sequence must be in for the operators above to be right.
Sorted(timers) ==
  \A i, j \in 1..Len(timers) : i < j => timers[i].when <= timers[j].when

=============================================================================
