-------------------------- MODULE ManualScheduler ---------------------------
(***************************************************************************)
(* Coro::ManualScheduler: virtual time that moves only while AdvanceTo     *)
(* runs, from one due timer to the next.  The coroutines, and the calls    *)
(* they and the test make, are those of module EventLoop; the driver is    *)
(* another.  A coroutine calling the driver that runs it is excluded.      *)
(***************************************************************************)
EXTENDS TimerQueue

CONSTANTS Handle, NoHandle, MaxTime  \* as in EventLoop

ASSUME HandleAssumption == NoHandle \notin Handle
ASSUME TimeAssumption == MaxTime \in Nat

VARIABLES ready,    \* _ready
          timers,   \* _timers
          now,      \* _clock.now
          target,   \* AdvanceTo's argument while it runs, or Idle
          current,  \* the coroutine being resumed, if any
          late      \* history: handles scheduled for a time already past

vars == <<ready, timers, now, target, current, late>>

Idle == -1

Body == INSTANCE EventLoop WITH
  mode <- IF target = Idle THEN "idle" ELSE "run", budget <- 0, batch <- <<>>

Moment == 0..MaxTime

TypeOK ==
  /\ Body!TypeOK
  /\ target \in Moment \cup {Idle}
  /\ late \subseteq Handle

Init ==
  /\ ready = <<>> /\ timers = <<>> /\ now = 0
  /\ target = Idle /\ current = NoHandle /\ late = {}

-----------------------------------------------------------------------------
(* Calls of the running coroutine, or of the test between two drives.      *)

Noted(when, h) == IF when < now THEN late \cup {h} ELSE late \ {h}

Post(h) == UNCHANGED <<target, late>> /\ Body!Post(h)

ScheduleAt(when, h) ==
  UNCHANGED target /\ Body!ScheduleAt(when, h) /\ late' = Noted(when, h)

Yield == UNCHANGED <<target, late>> /\ Body!Yield

Sleep(when) ==
  UNCHANGED target /\ Body!Sleep(when) /\ late' = Noted(when, current)

Leave == UNCHANGED <<target, late>> /\ Body!Leave

Transfer(h) == UNCHANGED <<target, late>> /\ Body!Transfer(h)

-----------------------------------------------------------------------------
(* The driver.  AdvanceBy(d) is AdvanceTo(now + d) and RunUntilIdle is     *)
(* AdvanceTo(now).                                                         *)

Later(a, b) == IF a > b THEN a ELSE b

\* Mutant: the target is computed twice, from the delta and from the clock.
AdvanceToTwice(t) ==
  /\ target = Idle
  /\ target' = now + t
  /\ UNCHANGED <<ready, timers, now, current, late>>

AdvanceTo(t) ==
  /\ target = Idle
  /\ target' = t
  /\ UNCHANGED <<ready, timers, now, current, late>>

\* DrainReady: at the start of a drive and after every timer.
ResumeReady ==
  /\ target # Idle /\ current = NoHandle /\ ready # <<>>
  /\ current' = Head(ready) /\ ready' = Tail(ready)
  /\ UNCHANGED <<timers, now, target, late>>

\* Mutant: the clock jumps to the target before the timers fire.
FireTimerAtTarget ==
  /\ target # Idle /\ current = NoHandle /\ ready = <<>> /\ HasDue(timers, target)
  /\ now' = Later(now, target)
  /\ current' = Head(timers).handle /\ timers' = Tail(timers)
  /\ UNCHANGED <<ready, target, late>>

\* Mutant: the due entry is looked at but not popped.
FireTimerPeeks ==
  /\ target # Idle /\ current = NoHandle /\ ready = <<>> /\ HasDue(timers, target)
  /\ now' = Later(now, Head(timers).when)
  /\ current' = Head(timers).handle
  /\ UNCHANGED <<ready, timers, target, late>>

FireTimer ==
  /\ target # Idle /\ current = NoHandle /\ ready = <<>> /\ HasDue(timers, target)
  /\ now' = Later(now, Head(timers).when)
  /\ current' = Head(timers).handle /\ timers' = Tail(timers)
  /\ UNCHANGED <<ready, target, late>>

\* Mutant: timers that the fired ones schedule wait for the next drive.
AdvanceReturnEarly ==
  /\ target # Idle /\ current = NoHandle /\ ready = <<>>
  /\ now' = Later(now, target) /\ target' = Idle
  /\ UNCHANGED <<ready, timers, current, late>>

AdvanceReturn ==
  /\ target # Idle /\ current = NoHandle /\ ready = <<>> /\ ~HasDue(timers, target)
  /\ now' = Later(now, target) /\ target' = Idle
  /\ UNCHANGED <<ready, timers, current, late>>

-----------------------------------------------------------------------------

DriverStep == ResumeReady \/ FireTimer \/ AdvanceReturn

GiveUpControl == Yield \/ (\E when \in Moment : Sleep(when)) \/ Leave

Next ==
  \/ DriverStep \/ GiveUpControl
  \/ \E t \in Moment : AdvanceTo(t)
  \/ \E h \in Handle : Post(h) \/ Transfer(h)
  \/ \E when \in Moment, h \in Handle : ScheduleAt(when, h)

Spec == Init /\ [][Next]_vars

(* The test's thread keeps running and coroutines do suspend. *)
FairSpec == Spec /\ WF_vars(DriverStep) /\ WF_vars(GiveUpControl)

-----------------------------------------------------------------------------
(* The clock leaves no timer behind: one that is overdue was so when it    *)
(* was scheduled.  Timers that coroutines schedule into the window of a    *)
(* drive fire in that drive (ManualScheduler.hpp:66-67).                   *)
NoneLeftBehind ==
  \A i \in 1..Len(timers) : timers[i].when < now => timers[i].handle \in late

\* This step pops the i-th timer.
Fires(i) ==
  LET h == timers[i].handle
  IN  current' = h /\ current # h /\ h \notin Body!Elements(Handles(timers))'

(* A timer fires with the clock at its own deadline, unless that was past  *)
(* when it was scheduled: a drive neither skips ahead nor lags behind      *)
(* while coroutines schedule, post and transfer (ManualScheduler.cpp:45).  *)
SeesOwnDeadline ==
  [][\A i \in 1..Len(timers) :
       Fires(i) => timers[i].handle \in late \/ now' = timers[i].when]_vars

(* The same without the exception, as ManualScheduler.hpp:27-28 has it:    *)
(* "each timer observes Clock().Now() equal to its own deadline".          *)
FiresAtDeadline ==
  [][\A i \in 1..Len(timers) : Fires(i) => now' = timers[i].when]_vars

Contract == INSTANCE Scheduler WITH
  ready <- Body!Elements(ready), parked <- Body!Elements(timers),
  running <- {current} \ {NoHandle}, open <- TRUE

(* Virtual time makes no difference to the promises of IScheduler: a drive *)
(* that jumps from timer to timer resumes each handle once, with the clock *)
(* no earlier than the time it was scheduled for (Scheduler.hpp:31-66).    *)
ImplementsScheduler == Contract!Spec

(* A drive comes to its end once coroutines stop registering new work; it  *)
(* may spin for as long as they do (ManualScheduler.hpp:39-40).            *)
AdvanceReturns ==
  <>[][Body!Registered' \subseteq Body!Registered]_vars
    => ((target # Idle) ~> (target = Idle))

=============================================================================
