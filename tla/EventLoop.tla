----------------------------- MODULE EventLoop ------------------------------
(***************************************************************************)
(* Coro::EventLoop: a FIFO ready queue, a timer queue and the two drivers  *)
(* Run and RunOnce, against arbitrary coroutines.  A coroutine is a handle *)
(* that runs until it suspends; while it runs it may register itself or    *)
(* any other suspended handle, or transfer control to one.  The guard      *)
(* Suspended(h) of those actions is what the loop takes on trust from      *)
(* awaitables (a handle is registered at most once, and never while it     *)
(* runs); module CoroRuntime shows that Task, WhenAll and WhenAny keep it. *)
(*                                                                         *)
(* The loop is single-threaded and the model excludes a coroutine calling  *)
(* Run or RunOnce on the loop that is running it.                          *)
(***************************************************************************)
EXTENDS TimerQueue

CONSTANTS Handle,    \* coroutine handles
          NoHandle,  \* no coroutine is running
          MaxTime    \* bound: the last clock reading

ASSUME HandleAssumption == NoHandle \notin Handle
ASSUME TimeAssumption == MaxTime \in Nat

VARIABLES ready,    \* _ready: handles to resume, oldest first
          timers,   \* _timers
          now,      \* what _clock.Now() reads
          mode,     \* the driver on the stack: "idle", "run" or "once"
          current,  \* the coroutine the loop has resumed, if any
          budget,   \* RunOnce: iterations of the drainCount loop left
          batch     \* history: the handles RunOnce found ready, not yet resumed

queues == <<ready, timers>>
driver == <<mode, budget, batch>>
vars   == <<ready, timers, now, mode, current, budget, batch>>

Moment == 0..MaxTime

Elements(s) == {s[i] : i \in 1..Len(s)}

Registered == Elements(ready) \cup Elements(Handles(timers))

\* A coroutine that holds still and that nothing is going to resume yet.
Suspended(h) == h # current /\ h \notin Registered

TypeOK ==
  /\ ready \in Seq(Handle)
  /\ timers \in Seq(Entry(Moment, Handle))
  /\ now \in Moment
  /\ mode \in {"idle", "run", "once"}
  /\ current \in Handle \cup {NoHandle}
  /\ budget \in Nat
  /\ batch \in Seq(Handle)

Init ==
  /\ ready = <<>> /\ timers = <<>>
  /\ now = 0
  /\ mode = "idle" /\ current = NoHandle
  /\ budget = 0 /\ batch = <<>>

-----------------------------------------------------------------------------
(* IScheduler, called by the running coroutine or, between driver calls,   *)
(* by the program that owns the loop.                                      *)

CanCall == current # NoHandle \/ mode = "idle"

Post(h) ==
  /\ CanCall /\ Suspended(h)
  /\ ready' = Append(ready, h)
  /\ UNCHANGED <<timers, now, current, driver>>

ScheduleAt(when, h) ==
  /\ CanCall /\ Suspended(h)
  /\ timers' = Schedule(timers, when, h)
  /\ UNCHANGED <<ready, now, current, driver>>

-----------------------------------------------------------------------------
(* How the running coroutine gives up control.                             *)

\* await_suspend posts the coroutine itself: a yield.
Yield ==
  /\ current # NoHandle
  /\ ready' = Append(ready, current) /\ current' = NoHandle
  /\ UNCHANGED <<timers, now, driver>>

\* Sleep: the deadline was computed before the coroutine suspended, so the
\* clock may have passed it by the time it is scheduled.
Sleep(when) ==
  /\ current # NoHandle
  /\ timers' = Schedule(timers, when, current) /\ current' = NoHandle
  /\ UNCHANGED <<ready, now, driver>>

\* It suspends on something the loop does not know of, or finishes.
Leave ==
  /\ current # NoHandle
  /\ current' = NoHandle
  /\ UNCHANGED <<queues, now, driver>>

\* Symmetric transfer: await_suspend returns another coroutine's handle.
Transfer(h) ==
  /\ current # NoHandle /\ Suspended(h)
  /\ current' = h
  /\ UNCHANGED <<queues, now, driver>>

-----------------------------------------------------------------------------
(* The drivers.  Drained is _ready after DrainExpiredTimers.               *)

Drained == ready \o Handles(Due(timers, now))

\* Run releases the root task, posts it and starts pumping.
Run(root) ==
  /\ mode = "idle" /\ Suspended(root)
  /\ mode' = "run"
  /\ ready' = Append(ready, root)
  /\ UNCHANGED <<timers, now, current, budget, batch>>

\* Mutant: DrainExpiredTimers copies the due handles but leaves the timers.
RunResumeCopies ==
  /\ mode = "run" /\ current = NoHandle /\ Drained # <<>>
  /\ current' = Head(Drained) /\ ready' = Tail(Drained)
  /\ UNCHANGED <<timers, now, driver>>

\* Mutant: a timer counts as due one instant before its deadline.
RunResumeEarly ==
  LET drained == ready \o Handles(Due(timers, now + 1))
  IN  /\ mode = "run" /\ current = NoHandle /\ drained # <<>>
      /\ current' = Head(drained) /\ ready' = Tail(drained)
      /\ timers' = NotDue(timers, now + 1)
      /\ UNCHANGED <<now, driver>>

\* Mutant: the newest ready handle is resumed first.
RunResumeNewest ==
  /\ mode = "run" /\ current = NoHandle /\ Drained # <<>>
  /\ current' = Drained[Len(Drained)]
  /\ ready' = SubSeq(Drained, 1, Len(Drained) - 1)
  /\ timers' = NotDue(timers, now)
  /\ UNCHANGED <<now, driver>>

\* One turn of Run's loop that finds something to resume.
RunResume ==
  /\ mode = "run" /\ current = NoHandle /\ Drained # <<>>
  /\ current' = Head(Drained) /\ ready' = Tail(Drained)
  /\ timers' = NotDue(timers, now)
  /\ UNCHANGED <<now, driver>>

\* IClock::WaitUntil returns no earlier than the deadline.
WaitUntil(deadline) == now' \in {t \in Moment : t >= deadline /\ t >= now}

\* Mutant: the deadline to wait for is popped, not peeked at.
RunWaitPops ==
  /\ mode = "run" /\ current = NoHandle /\ Drained = <<>> /\ timers # <<>>
  /\ WaitUntil(Head(timers).when)
  /\ timers' = Tail(timers)
  /\ UNCHANGED <<ready, current, driver>>

\* A turn that finds only timers still in the future.
RunWait ==
  /\ mode = "run" /\ current = NoHandle /\ Drained = <<>> /\ timers # <<>>
  /\ WaitUntil(Head(timers).when)
  /\ UNCHANGED <<queues, current, driver>>

\* Nothing ready and no timers: the loop has drained.
RunReturn ==
  /\ mode = "run" /\ current = NoHandle /\ ready = <<>> /\ timers = <<>>
  /\ mode' = "idle"
  /\ UNCHANGED <<queues, now, current, budget, batch>>

\* Mutant: drainCount is read before the expired timers are drained.
RunOnceCountsFirst ==
  /\ mode = "idle"
  /\ mode' = "once"
  /\ ready' = Drained /\ timers' = NotDue(timers, now)
  /\ budget' = Len(ready) /\ batch' = Drained
  /\ UNCHANGED <<now, current>>

RunOnce ==
  /\ mode = "idle"
  /\ mode' = "once"
  /\ ready' = Drained /\ timers' = NotDue(timers, now)
  /\ budget' = Len(Drained) /\ batch' = Drained
  /\ UNCHANGED <<now, current>>

\* Mutant: the drainCount loop runs once too often.
RunOnceResumeExtra ==
  /\ mode = "once" /\ current = NoHandle /\ ready # <<>>
  /\ current' = Head(ready) /\ ready' = Tail(ready)
  /\ budget' = budget - 1
  /\ batch' = SubSeq(batch, 2, Len(batch))
  /\ UNCHANGED <<timers, now, mode>>

\* Mutant: the size of the ready queue is read anew before every turn.
RunOnceResumeRecounts ==
  /\ mode = "once" /\ current = NoHandle /\ budget > 0
  /\ current' = Head(ready) /\ ready' = Tail(ready)
  /\ budget' = Len(Tail(ready))
  /\ batch' = SubSeq(batch, 2, Len(batch))
  /\ UNCHANGED <<timers, now, mode>>

RunOnceResume ==
  /\ mode = "once" /\ current = NoHandle /\ budget > 0
  /\ current' = Head(ready) /\ ready' = Tail(ready)
  /\ budget' = budget - 1
  /\ batch' = SubSeq(batch, 2, Len(batch))
  /\ UNCHANGED <<timers, now, mode>>

RunOnceReturn ==
  /\ mode = "once" /\ current = NoHandle /\ budget = 0
  /\ mode' = "idle"
  /\ UNCHANGED <<queues, now, current, budget, batch>>

\* Time passes, or a test advances its manual clock.
Tick ==
  /\ now < MaxTime
  /\ now' = now + 1
  /\ UNCHANGED <<queues, current, driver>>

-----------------------------------------------------------------------------

LoopStep == RunResume \/ RunWait \/ RunReturn \/ RunOnceResume \/ RunOnceReturn

GiveUpControl == Yield \/ (\E when \in Moment : Sleep(when)) \/ Leave

BodyStep ==
  \/ GiveUpControl
  \/ \E h \in Handle : Post(h) \/ Transfer(h)
  \/ \E when \in Moment, h \in Handle : ScheduleAt(when, h)

Next == LoopStep \/ BodyStep \/ RunOnce \/ (\E root \in Handle : Run(root)) \/ Tick

Spec == Init /\ [][Next]_vars

(* The thread that called Run or RunOnce keeps running, a coroutine that   *)
(* was resumed reaches a suspension point in the end (scheduling is        *)
(* cooperative), and the clock of SystemClock does not stand still.        *)
Fairness == WF_vars(LoopStep) /\ WF_vars(GiveUpControl) /\ WF_vars(Tick)

FairSpec == Spec /\ Fairness

-----------------------------------------------------------------------------
(* Every handle is in one place at most: resuming it from a second place   *)
(* would run a coroutine that is running or gone.  DrainExpiredTimers must *)
(* move handles and the drivers must pop before they resume.               *)
RegisteredOnce ==
  /\ \A i, j \in 1..Len(ready) : ready[i] = ready[j] => i = j
  /\ \A i, j \in 1..Len(timers) : timers[i].handle = timers[j].handle => i = j
  /\ Elements(ready) \cap Elements(Handles(timers)) = {}
  /\ current \notin Registered

(* The timers stay in deadline order, which Due and NextDeadline rely on.  *)
TimersSorted == Sorted(timers)

(* What RunOnce still has to resume is exactly what its snapshot saw, in   *)
(* that order, so it never pops an empty queue (undefined behaviour of     *)
(* std::deque::front) and a handle posted meanwhile waits for the next     *)
(* call, as EventLoop.cpp:38-40 intends.                                   *)
SnapshotServed ==
  mode = "once" => /\ budget = Len(batch)
                   /\ budget <= Len(ready)
                   /\ SubSeq(ready, 1, budget) = batch

(* No handle is dropped: one that leaves the queues has been resumed.      *)
NoneLost == [][\A h \in Registered : h \in Registered' \/ current' = h]_vars

(* A timer leaves the timer queue no earlier than its deadline, and never  *)
(* ahead of one that precedes it in (deadline, insertion) order.           *)
TimersInOrder ==
  [][\A j \in 1..Len(timers) :
       timers[j].handle \notin Elements(Handles(timers))' =>
         /\ timers[j].when <= now
         /\ \A i \in 1..j : timers[i].handle \notin Elements(Handles(timers))']_vars

Contract == INSTANCE Scheduler WITH
  ready <- Elements(ready), parked <- Elements(timers),
  running <- {current} \ {NoHandle}, open <- TRUE

(* The loop is an IScheduler (Scheduler.hpp:31-66): whatever Run, RunOnce  *)
(* and the coroutines do in turn, a handle that was posted or whose time   *)
(* has come is resumed once, none is resumed early or dropped.             *)
ImplementsScheduler == Contract!Spec

(* RunOnce is bounded: it returns although the coroutines it resumes keep  *)
(* posting themselves and each other.                                      *)
RunOnceReturns == (mode = "once") ~> (mode = "idle")

(* Run starves nobody: every handle that is ready, and every timer, is     *)
(* resumed, although other coroutines keep the ready queue from emptying.  *)
EveryHandleServed ==
  \A h \in Handle : (mode = "run" /\ h \in Registered) ~> (current = h)

=============================================================================
