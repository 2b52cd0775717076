--------------------------- MODULE PumpScheduler ----------------------------
(***************************************************************************)
(* Coro::Detail::PumpTimerDriver together with its two hosts, QtScheduler  *)
(* and Win32MessageScheduler.  The host's pump resumes posted handles one  *)
(* by one; deadlines share a single host timer that counts milliseconds,   *)
(* may fire early or late, and on Win32 is periodic, clamped, and able to  *)
(* deliver a tick after it was killed.  Calls of the driver are split      *)
(* where time can pass and other threads can post.                         *)
(*                                                                         *)
(* Coroutines keep the contract of module EventLoop: a handle is           *)
(* registered at most once, and never while it runs.  Nobody uses the      *)
(* scheduler once its destructor has begun.  The Win32 message queue is    *)
(* taken to have room for every message.                                   *)
(***************************************************************************)
EXTENDS TimerQueue

CONSTANTS Handle,   \* coroutine handles
          MaxTime,  \* bound: the last clock reading, which stands for all later ones
          Ms,       \* clock ticks in a millisecond
          Slack,    \* bound: ticks by which the host timer may fire early
          UserTimerMinimum, UserTimerMaximum  \* in milliseconds, of <windows.h>

ASSUME TimeAssumption == MaxTime \in Nat /\ Ms \in Nat \ {0} /\ Slack \in Nat
ASSUME ClampAssumption ==
  /\ UserTimerMinimum \in Nat \ {0} /\ UserTimerMaximum \in Nat
  /\ UserTimerMinimum <= UserTimerMaximum

VARIABLES host,     \* "qt" or "win32"
          alive,    \* the scheduler has not been destroyed
          now,      \* what _clock.Now() reads
          posted,   \* queued resume functors or ResumeMessages, oldest first
          timers,   \* _timers
          alarm,    \* the host timer: when it is due next, and its interval
          expired,  \* a timeout event or WM_TIMER waits to be dispatched
          step,     \* the driver call in progress: "free", "park" or "drain"
          seen,     \* OnTimerExpired's reading of the clock
          stack,    \* running coroutines, outermost first
          pumping   \* the innermost of them runs a nested pump

queues == <<posted, timers>>
timer  == <<alarm, expired>>
driver == <<step, seen>>
thread == <<stack, pumping>>
vars   == <<host, alive, now, queues, timer, driver, thread>>

Moment == 0..MaxTime
Never  == -1

Elements(s) == {s[i] : i \in 1..Len(s)}

Registered == Elements(posted) \cup Elements(Handles(timers))

Suspended(h) == h \notin Registered \cup Elements(stack)

NoAlarm == [at |-> Never, every |-> 0]

TypeOK ==
  /\ host \in {"qt", "win32"} /\ alive \in BOOLEAN
  /\ now \in Moment /\ seen \in Moment
  /\ posted \in Seq(Handle) /\ stack \in Seq(Handle)
  /\ timers \in Seq(Entry(Moment, Handle))
  /\ alarm \in [at : Nat, every : Nat] \cup {NoAlarm}
  /\ expired \in BOOLEAN
  /\ step \in {"free", "park", "drain"}
  /\ pumping \in BOOLEAN /\ (pumping => stack # <<>>)

Init ==
  /\ host \in {"qt", "win32"} /\ alive = TRUE
  /\ now = 0
  /\ posted = <<>> /\ timers = <<>>
  /\ alarm = NoAlarm /\ expired = FALSE
  /\ step = "free" /\ seen = 0
  /\ stack = <<>> /\ pumping = FALSE

-----------------------------------------------------------------------------
(* Calls on the scheduler.                                                 *)

\* From any thread, at any moment.
Post(h) ==
  /\ alive /\ Suspended(h)
  /\ posted' = Append(posted, h)
  /\ UNCHANGED <<host, alive, now, timers, timer, driver, thread>>

\* PumpTimerDriver::ScheduleAt up to the call of Rearm.
PostOrPark(when, h) ==
  /\ \/ /\ when <= now
        /\ posted' = Append(posted, h)
        /\ UNCHANGED <<timers, step>>
     \/ /\ when > now
        /\ timers' = Schedule(timers, when, h) /\ step' = "park"
        /\ UNCHANGED posted
  /\ UNCHANGED <<host, alive, now, timer, seen>>

\* By whatever runs on the pump thread.
ScheduleAt(when, h) ==
  /\ alive /\ step = "free" /\ Suspended(h)
  /\ PostOrPark(when, h)
  /\ UNCHANGED thread

-----------------------------------------------------------------------------
(* The innermost coroutine, between two suspensions.                       *)

InBody == step = "free" /\ stack # <<>> /\ ~pumping

Current == stack[Len(stack)]

\* Control returns to the pump that dispatched Current.
ReturnToPump ==
  /\ stack' = SubSeq(stack, 1, Len(stack) - 1)
  /\ pumping' = (Len(stack) > 1)

Yield ==
  /\ InBody /\ alive
  /\ posted' = Append(posted, Current)
  /\ ReturnToPump
  /\ UNCHANGED <<host, alive, now, timers, timer, driver>>

Sleep(when) == InBody /\ alive /\ PostOrPark(when, Current) /\ ReturnToPump

\* It suspends on something else, or finishes.
Leave ==
  /\ InBody
  /\ ReturnToPump
  /\ UNCHANGED <<host, alive, now, queues, timer, driver>>

Transfer(h) ==
  /\ InBody /\ Suspended(h)
  /\ stack' = [stack EXCEPT ![Len(stack)] = h]
  /\ UNCHANGED <<host, alive, now, queues, timer, driver, pumping>>

\* A modal dialog or menu runs a nested pump inside the coroutine.
OpenDialog ==
  /\ InBody
  /\ pumping' = TRUE
  /\ UNCHANGED <<host, alive, now, queues, timer, driver, stack>>

CloseDialog ==
  /\ step = "free" /\ pumping
  /\ pumping' = FALSE
  /\ UNCHANGED <<host, alive, now, queues, timer, driver, stack>>

-----------------------------------------------------------------------------
(* The clock and the host's timer.                                         *)

Tick ==
  /\ now < MaxTime
  /\ now' = now + 1
  /\ UNCHANGED <<host, alive, queues, timer, driver, thread>>

\* A QTimer in single-shot mode stops; SetTimer's timer runs on.  Ticks
\* that nobody has dispatched yet coalesce.
HostTimerFires ==
  /\ alarm # NoAlarm /\ ~expired
  /\ alarm.at <= now + Slack \/ now = MaxTime
  /\ expired' = TRUE
  /\ alarm' = IF host = "qt" THEN NoAlarm
                             ELSE [alarm EXCEPT !.at = now + alarm.every]
  /\ UNCHANGED <<host, alive, now, queues, driver, thread>>

-----------------------------------------------------------------------------
(* The pump, outermost or nested.                                          *)

CanPump == step = "free" /\ (stack = <<>> \/ pumping)

Dispatch ==
  /\ CanPump /\ posted # <<>>
  /\ stack' = Append(stack, Head(posted)) /\ pumping' = FALSE
  /\ posted' = Tail(posted)
  /\ UNCHANGED <<host, alive, now, timers, timer, driver>>

\* OnTimerExpired begins.  WM_TIMER has a lower priority than posted
\* messages; one that comes after the destructor finds no scheduler.
DispatchTimer ==
  /\ CanPump /\ expired
  /\ host = "win32" => posted = <<>>
  /\ expired' = FALSE
  /\ \/ alive /\ step' = "drain" /\ seen' = now
     \/ ~alive /\ UNCHANGED driver
  /\ UNCHANGED <<host, alive, now, queues, alarm, thread>>

\* Mutant: a tick of the host timer is taken for proof that an entry is due.
PostDueTrusting ==
  /\ step = "drain" /\ timers # <<>>
  /\ posted' = Append(posted, Head(timers).handle)
  /\ timers' = Tail(timers)
  /\ UNCHANGED <<host, alive, now, timer, driver, thread>>

\* One turn of OnTimerExpired's loop.
PostDue ==
  /\ step = "drain" /\ HasDue(timers, seen)
  /\ posted' = Append(posted, Head(timers).handle)
  /\ timers' = Tail(timers)
  /\ UNCHANGED <<host, alive, now, timer, driver, thread>>

\* Mutant: the delay is not clamped to be non-negative.
DelayUnclamped ==
  LET left == Head(timers).when - now
  IN  IF left > 0 THEN (left + Ms - 1) \div Ms ELSE -((-left) \div Ms)

\* ceil<milliseconds>(next - now), clamped to be non-negative.
Delay ==
  LET left == Head(timers).when - now
  IN  IF left > 0 THEN (left + Ms - 1) \div Ms ELSE 0

\* The arm seam: std::clamp on Win32, nothing for Qt.
Interval(delay) ==
  IF host = "qt" \/ delay \in UserTimerMinimum..UserTimerMaximum THEN delay
  ELSE IF delay < UserTimerMinimum THEN UserTimerMinimum ELSE UserTimerMaximum

\* Mutant: the host timer is only armed when none is.
RearmIfUnarmed ==
  /\ step = "park" \/ (step = "drain" /\ ~HasDue(timers, seen))
  /\ alarm' = IF timers = <<>> THEN NoAlarm
              ELSE IF alarm # NoAlarm THEN alarm
              ELSE LET every == Ms * Interval(Delay)
                   IN  [at |-> now + every, every |-> every]
  /\ expired' = (expired /\ host = "win32")
  /\ step' = "free" /\ seen' = 0
  /\ UNCHANGED <<host, alive, now, queues, thread>>

\* Mutant: OnTimerExpired does not re-arm.
RearmOnPark ==
  /\ step = "park" \/ (step = "drain" /\ ~HasDue(timers, seen))
  /\ IF step = "park"
       THEN /\ LET every == Ms * Interval(Delay)
               IN  alarm' = [at |-> now + every, every |-> every]
            /\ expired' = (expired /\ host = "win32")
       ELSE UNCHANGED timer
  /\ step' = "free" /\ seen' = 0
  /\ UNCHANGED <<host, alive, now, queues, thread>>

\* Starting or stopping a QTimer takes back a timeout not yet delivered;
\* SetTimer and KillTimer leave a WM_TIMER where it is.
Rearm ==
  /\ step = "park" \/ (step = "drain" /\ ~HasDue(timers, seen))
  /\ alarm' = IF timers = <<>> THEN NoAlarm
              ELSE LET every == Ms * Interval(Delay)
                   IN  [at |-> now + every, every |-> every]
  /\ expired' = (expired /\ host = "win32")
  /\ step' = "free" /\ seen' = 0
  /\ UNCHANGED <<host, alive, now, queues, thread>>

-----------------------------------------------------------------------------

\* Mutant: resume messages that are still queued stay there.
DestroyKeepsMessages ==
  /\ alive /\ step = "free"
  /\ alive' = FALSE
  /\ timers' = <<>>
  /\ alarm' = NoAlarm /\ expired' = (expired /\ host = "win32")
  /\ UNCHANGED <<host, now, posted, driver, thread>>

\* The destructor, on the pump thread.  What is parked or posted is dropped.
Destroy ==
  /\ alive /\ step = "free"
  /\ alive' = FALSE
  /\ posted' = <<>> /\ timers' = <<>>
  /\ alarm' = NoAlarm /\ expired' = (expired /\ host = "win32")
  /\ UNCHANGED <<host, now, driver, thread>>

PumpStep == Dispatch \/ DispatchTimer \/ PostDue \/ Rearm

GiveUpControl == Yield \/ (\E when \in Moment : Sleep(when)) \/ Leave

Next ==
  \/ PumpStep \/ GiveUpControl
  \/ Tick \/ HostTimerFires
  \/ \E h \in Handle : Post(h) \/ Transfer(h)
  \/ \E when \in Moment, h \in Handle : ScheduleAt(when, h)
  \/ OpenDialog \/ CloseDialog
  \/ Destroy

Spec == Init /\ [][Next]_vars

(***************************************************************************)
(* The pump keeps pumping, the host timer fires sooner or later, time      *)
(* passes and a coroutine that runs suspends or opens a dialog.  No dialog *)
(* needs to be closed.                                                     *)
(***************************************************************************)
FairSpec ==
  /\ Spec
  /\ WF_vars(PumpStep) /\ WF_vars(HostTimerFires)
  /\ WF_vars(Tick) /\ WF_vars(GiveUpControl)

-----------------------------------------------------------------------------

(* While an entry is parked, a tick is under way or the host timer is due  *)
(* by its deadline, give or take a rounded millisecond or the least Win32  *)
(* interval (PumpTimerDriver.hpp:125-137): no order of calls, ticks and    *)
(* early, stale or clamped timers leaves a deadline without one.           *)
NeverOversleeps ==
  alive /\ step = "free" /\ timers # <<>> /\ ~expired =>
    LET deadline == IF Head(timers).when > now THEN Head(timers).when ELSE now
        grain    == IF host = "qt" THEN Ms - 1 ELSE Ms * UserTimerMinimum
    IN  alarm # NoAlarm /\ alarm.at <= deadline + grain

(* A parked entry is handed to the pump no earlier than its deadline and   *)
(* never ahead of one parked before it with no later deadline, whatever    *)
(* the host timer claims (PumpTimerDriver.hpp:105-110).                    *)
TimersInOrder ==
  [][\A i \in 1..Len(timers) :
       alive' /\ timers[i].handle \notin Elements(Handles(timers))' =>
         /\ timers[i].when <= now
         /\ \A j \in 1..i : timers[j].handle \notin Elements(Handles(timers))']_vars

Contract == INSTANCE Scheduler WITH
  ready <- Elements(posted), parked <- Elements(timers),
  running <- Elements(stack), open <- alive

(* Both hosts are an IScheduler: with nested pumps, other threads that     *)
(* post and a host timer that is early or stale, a handle is resumed once, *)
(* not before its time, and not at all once the destructor has dropped it, *)
(* although ticks and nested pumps outlive the scheduler                   *)
(* (Scheduler.hpp:31-66, Win32MessageScheduler.cpp:64-73, 139-161).        *)
ImplementsScheduler == Contract!Spec

(* Once the program stops registering handles and opening dialogs, every   *)
(* handle that is registered is resumed, unless the scheduler goes first:  *)
(* the host timer never stops too early for good, and a dialog that stays  *)
(* open holds nothing up (Win32MessageScheduler.hpp:57-60).                *)
Settles ==
  <>[][/\ Registered' \subseteq Registered
       /\ ~pumping /\ pumping' => stack' # stack]_vars

EveryHandleServed ==
  Settles => \A h \in Handle : (h \in Registered) ~> (h \notin Registered)

=============================================================================
