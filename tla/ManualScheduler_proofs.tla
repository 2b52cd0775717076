----------------------- MODULE ManualScheduler_proofs -----------------------
(***************************************************************************)
(* ManualScheduler keeps its queues in order, shows each timer its own     *)
(* deadline and implements Scheduler, for every set of handles and every   *)
(* bound on the clock.  Its coroutines are those of EventLoop, and so are  *)
(* the proofs about them: P is the proof module of EventLoop for the state *)
(* of this scheduler.                                                      *)
(***************************************************************************)
EXTENDS ManualScheduler, SequenceTheorems, TLAPS

P == INSTANCE EventLoop_proofs WITH
  mode <- IF target = Idle THEN "idle" ELSE "run", budget <- 0, batch <- <<>>

(* What EventLoop's invariant says of the queues, and NoneLeftBehind.      *)
IInv ==
  /\ P!IInv
  /\ target \in Moment \cup {Idle} /\ late \subseteq Handle
  /\ NoneLeftBehind

\* Calls made by coroutines and by the test.
CallStep ==
  \/ GiveUpControl
  \/ \E h \in Handle : Post(h) \/ Transfer(h)
  \/ \E when \in Moment, h \in Handle : ScheduleAt(when, h)

-----------------------------------------------------------------------------
(* The operators this module and P have from EventLoop are the same.       *)

\* Schedule is, in all its instances.
LEMMA SameSchedule ==
  \A t, w, h : /\ Body!Schedule(t, w, h) = P!Schedule(t, w, h)
               /\ Schedule(t, w, h) = P!Schedule(t, w, h)
BY DEF Schedule, DueCount, Body!Schedule, P!Schedule, Body!DueCount, P!DueCount

\* So is the guard of the calls.
LEMMA SameSuspended == \A h : Body!Suspended(h) <=> P!Suspended(h)
BY DEF Body!Suspended, P!Suspended, Body!Registered, P!Registered,
       Body!Elements, P!Elements, Body!Handles, P!Handles

\* A call is a step of EventLoop's coroutines, and leaves the driver alone.
LEMMA CallIsBodyStep ==
  ASSUME CallStep
  PROVE  P!BodyStep /\ UNCHANGED target
<1> USE SameSchedule, SameSuspended
    DEF Body!driver, P!driver, Body!queues, P!queues, Moment, P!Moment
<1>1. ASSUME NEW h \in Handle, Post(h) PROVE P!BodyStep /\ UNCHANGED target
  <2>1. P!Post(h)
    BY <1>1 DEF Post, Body!Post, P!Post, Body!CanCall, P!CanCall
  <2> QED
    BY <1>1, <2>1 DEF Post, P!BodyStep
<1>2. ASSUME NEW h \in Handle, Transfer(h) PROVE P!BodyStep /\ UNCHANGED target
  <2>1. P!Transfer(h)
    BY <1>2 DEF Transfer, Body!Transfer, P!Transfer
  <2> QED
    BY <1>2, <2>1 DEF Transfer, P!BodyStep
<1>3. ASSUME NEW w \in Moment, NEW h \in Handle, ScheduleAt(w, h)
      PROVE  P!BodyStep /\ UNCHANGED target
  <2>1. P!ScheduleAt(w, h)
    BY <1>3 DEF ScheduleAt, Body!ScheduleAt, P!ScheduleAt, Body!CanCall, P!CanCall
  <2> QED
    BY <1>3, <2>1 DEF ScheduleAt, P!BodyStep
<1>4. CASE Yield
  <2>1. P!Yield
    BY <1>4 DEF Yield, Body!Yield, P!Yield
  <2> QED
    BY <1>4, <2>1 DEF Yield, P!BodyStep, P!GiveUpControl
<1>5. ASSUME NEW w \in Moment, Sleep(w) PROVE P!BodyStep /\ UNCHANGED target
  <2>1. P!Sleep(w)
    BY <1>5 DEF Sleep, Body!Sleep, P!Sleep
  <2> QED
    BY <1>5, <2>1 DEF Sleep, P!BodyStep, P!GiveUpControl
<1>6. CASE Leave
  <2>1. P!Leave
    BY <1>6 DEF Leave, Body!Leave, P!Leave
  <2> QED
    BY <1>6, <2>1 DEF Leave, P!BodyStep, P!GiveUpControl
<1> QED
  BY <1>1, <1>2, <1>3, <1>4, <1>5, <1>6 DEF CallStep, GiveUpControl

\* The two instances of the contract are the same.
LEMMA SameContract == P!Contract!Next => Contract!Next
BY DEF Contract!Next, P!Contract!Next, Contract!Post, P!Contract!Post,
  Contract!ScheduleAt, P!Contract!ScheduleAt, Contract!Yield, P!Contract!Yield,
  Contract!Sleep, P!Contract!Sleep, Contract!Leave, P!Contract!Leave,
  Contract!Transfer, P!Contract!Transfer, Contract!Wait, P!Contract!Wait,
  Contract!Resume, P!Contract!Resume, Contract!Close, P!Contract!Close,
  Contract!Free, P!Contract!Free, Contract!HandlesOf, P!Contract!HandlesOf,
  Contract!Enqueue, P!Contract!Enqueue, Contract!Park, P!Contract!Park,
  Contract!Register, P!Contract!Register, Contract!Stops, P!Contract!Stops,
  Contract!TimePasses, P!Contract!TimePasses, Contract!Elapse, P!Contract!Elapse,
  Body!Elements, P!Elements, Moment, P!Moment

-----------------------------------------------------------------------------
(* The invariant.                                                          *)

\* What IInv says, position by position.
LEMMA IInvMeans ==
  ASSUME IInv
  PROVE  /\ ready \in Seq(Handle) /\ timers \in Seq(P!Entry(P!Moment, Handle))
         /\ now \in P!Moment /\ current \in Handle \cup {NoHandle}
         /\ P!Once(ready, timers, current) /\ P!Sorted(timers)
         /\ target \in P!Moment \cup {Idle} /\ late \subseteq Handle
         /\ \A i \in 1..Len(timers) : timers[i].when < now => timers[i].handle \in late
<1>1. P!TypeOK /\ P!RegisteredOnce /\ P!TimersSorted
  BY DEF IInv, P!IInv
<1>2. P!Once(ready, timers, current)
  BY <1>1, P!RegisteredOnceMeans, HandleAssumption, TimeAssumption
<1> QED
  BY <1>1, <1>2 DEF IInv, NoneLeftBehind, Moment, P!Moment, P!TypeOK, P!TimersSorted

\* How EventLoop's part of it is shown of the next state.
LEMMA QueuesInv ==
  ASSUME ready' \in Seq(Handle), timers' \in Seq(P!Entry(P!Moment, Handle)),
         now' \in P!Moment, current' \in Handle \cup {NoHandle},
         P!Once(ready', timers', current'), P!Sorted(timers')
  PROVE  P!IInv'
<1>1. <<>> \in Seq(Handle) /\ 0 \in Nat
  BY EmptySeq
<1>2. P!TypeOK'
  BY <1>1 DEF P!TypeOK
<1>3. P!RegisteredOnce'
  BY P!OnceMeans, HandleAssumption, TimeAssumption, Zenon
     DEF P!RegisteredOnce, P!Registered
<1>4. P!SnapshotServed'
  BY DEF P!SnapshotServed
<1> QED
  BY <1>2, <1>3, <1>4 DEF P!IInv, P!TimersSorted

\* A scheduler that has just been constructed.
LEMMA InitInv == Init => IInv
<1> SUFFICES ASSUME Init PROVE IInv
  OBVIOUS
<1>1. P!Init
  BY DEF Init, P!Init, Idle
<1>2. P!IInv
  BY <1>1, P!IInvInit, HandleAssumption, TimeAssumption
<1>3. Len(timers) = 0
  BY EmptySeq DEF Init
<1> QED
  BY <1>2, <1>3 DEF IInv, Init, NoneLeftBehind

\* A step that leaves the timers and the clock alone leaves nothing behind.
LEMMA CallInv ==
  ASSUME IInv, CallStep
  PROVE  IInv'
<1>1. P!BodyStep /\ target' = target
  BY CallIsBodyStep
<1>2. P!IInv'
  BY <1>1, P!IInvStep, HandleAssumption, TimeAssumption DEF IInv, P!Next
<1>t. /\ timers \in Seq(P!Entry(P!Moment, Handle)) /\ current \in Handle \cup {NoHandle}
      /\ P!Once(ready, timers, current) /\ late \subseteq Handle
      /\ target \in Moment \cup {Idle}
  BY IInvMeans DEF Moment, P!Moment
<1>3. CASE UNCHANGED <<timers, now, late>>
  BY <1>1, <1>2, <1>3, <1>t DEF IInv, NoneLeftBehind
<1>4. ASSUME NEW w \in P!Moment, NEW h \in Handle,
             timers' = P!Schedule(timers, w, h), now' = now, late' = Noted(w, h),
             \A i \in 1..Len(timers) : timers[i].handle # h
      PROVE  IInv'
  <2>1. P!Elements(timers') = P!Elements(timers) \cup {[when |-> w, handle |-> h]}
    BY <1>4, <1>t, P!ScheduleAdds, HandleAssumption, TimeAssumption
  <2>2. \A e \in P!Elements(timers) :
          e.handle # h /\ (e.when < now => e.handle \in late)
    BY <1>4 DEF IInv, NoneLeftBehind, P!Elements
  <2>3. ASSUME NEW e \in P!Elements(timers'), e.when < now' PROVE e.handle \in late'
    BY <2>1, <2>2, <2>3, <1>4 DEF Noted
  <2>4. NoneLeftBehind'
    BY <2>3 DEF NoneLeftBehind, P!Elements
  <2> QED
    BY <1>1, <1>2, <1>4, <1>t, <2>4 DEF IInv, Noted
<1>5. ASSUME NEW w \in Moment, NEW h \in Handle, ScheduleAt(w, h) PROVE IInv'
  <2>1. /\ timers' = P!Schedule(timers, w, h) /\ now' = now /\ late' = Noted(w, h)
        /\ P!Suspended(h)
    BY <1>5, SameSchedule, SameSuspended DEF ScheduleAt, Body!ScheduleAt
  <2>2. \A i \in 1..Len(timers) : timers[i].handle # h
    BY <2>1, IInvMeans, P!NotRegistered, HandleAssumption, TimeAssumption
       DEF P!Suspended, IInv, P!IInv
  <2> QED
    BY <1>4, <2>1, <2>2 DEF Moment, P!Moment
<1>6. ASSUME NEW w \in Moment, Sleep(w) PROVE IInv'
  <2>1. /\ timers' = P!Schedule(timers, w, current) /\ now' = now
        /\ late' = Noted(w, current) /\ current # NoHandle
    BY <1>6, SameSchedule DEF Sleep, Body!Sleep
  <2>2. \A i \in 1..Len(timers) : timers[i].handle # current
    BY <1>t DEF P!Once
  <2>3. current \in Handle
    BY <1>t, <2>1
  <2> QED
    BY <1>4, <2>1, <2>2, <2>3 DEF Moment, P!Moment
<1>7. ASSUME NEW h \in Handle, Post(h) \/ Transfer(h) PROVE IInv'
  BY <1>3, <1>7 DEF Post, Transfer, Body!Post, Body!Transfer, Body!queues
<1>8. CASE Yield \/ Leave
  BY <1>3, <1>8 DEF Yield, Leave, Body!Yield, Body!Leave, Body!queues
<1> QED
  BY <1>5, <1>6, <1>7, <1>8 DEF CallStep, GiveUpControl

-----------------------------------------------------------------------------
(* The driver.                                                             *)

\* The clock moves to the deadline, or stays where it is.
LEMMA LaterProperties ==
  ASSUME NEW a \in P!Moment, NEW b \in P!Moment
  PROVE  /\ Later(a, b) \in P!Moment /\ Later(a, b) >= a /\ Later(a, b) >= b
         /\ (Later(a, b) = a \/ Later(a, b) = b)
BY TimeAssumption DEF Later, P!Moment

\* The steps of a drive, and its begin, preserve the invariant.
LEMMA DriverInv ==
  ASSUME IInv, DriverStep \/ (\E t \in Moment : AdvanceTo(t))
  PROVE  IInv'
<1>t. /\ ready \in Seq(Handle) /\ timers \in Seq(P!Entry(P!Moment, Handle))
      /\ now \in P!Moment /\ current \in Handle \cup {NoHandle}
      /\ P!Once(ready, timers, current) /\ P!Sorted(timers)
      /\ target \in P!Moment \cup {Idle} /\ late \subseteq Handle
      /\ \A i \in 1..Len(timers) : timers[i].when < now => timers[i].handle \in late
  BY IInvMeans
<1>m. P!Moment = Moment /\ \A t \in P!Moment : t \in Int
  BY TimeAssumption DEF P!Moment, Moment
<1>1. CASE ResumeReady
  <2>1. /\ target' = target /\ late' = late /\ now' = now /\ timers' = timers
        /\ ready # <<>> /\ ready' = Tail(ready) /\ current' = Head(ready)
    BY <1>1 DEF ResumeReady
  <2>2. Tail(ready) \in Seq(Handle) /\ Head(ready) \in Handle
    BY <2>1, <1>t, HeadTailProperties
  <2>3. P!Once(ready', timers', current')
    BY <2>1, <1>t, P!OncePop, HandleAssumption, TimeAssumption
  <2>4. P!IInv'
    BY <2>1, <2>2, <2>3, <1>t, QueuesInv
  <2> QED
    BY <2>1, <2>4, <1>t, <1>m DEF IInv, NoneLeftBehind
<1>2. CASE FireTimer
  <2>1. /\ target' = target /\ late' = late /\ ready' = ready
        /\ timers # <<>> /\ timers' = Tail(timers)
        /\ current' = Head(timers).handle /\ now' = Later(now, Head(timers).when)
    BY <1>2 DEF FireTimer, HasDue
  <2>2. /\ Head(timers) = timers[1] /\ 1 \in 1..Len(timers)
        /\ timers[1].when \in P!Moment /\ timers[1].handle \in Handle
        /\ Tail(timers) \in Seq(P!Entry(P!Moment, Handle))
        /\ Len(timers) \in Nat /\ Len(Tail(timers)) = Len(timers) - 1
        /\ \A i \in 1..(Len(timers) - 1) :
             i + 1 \in 1..Len(timers) /\ Tail(timers)[i] = timers[i + 1]
    BY <2>1, <1>t, P!TailOfTimers, HandleAssumption, TimeAssumption
  <2>3. P!Sorted(Tail(timers)) /\ \A i \in 1..Len(timers) : timers[1].when <= timers[i].when
    BY <2>1, <1>t, P!TailSorted, HandleAssumption, TimeAssumption
  <2>4. P!Once(ready', timers', current')
    BY <2>1, <2>2, <1>t, P!OnceFire, HandleAssumption, TimeAssumption
  <2>5. now' \in P!Moment /\ (now' = now \/ now' = timers[1].when)
    BY <2>1, <2>2, <1>t, LaterProperties
  <2>6. P!IInv'
    BY <2>1, <2>2, <2>3, <2>4, <2>5, <1>t, QueuesInv
  <2>7. ASSUME NEW i \in 1..(Len(timers) - 1), timers[i + 1].when < now'
        PROVE  timers[i + 1].handle \in late
    <3>1. i + 1 \in 1..Len(timers) /\ timers[i + 1].when \in P!Moment
      BY <2>2, <1>t, P!TimerTypes, HandleAssumption, TimeAssumption
    <3>2. now' = now
      BY <3>1, <2>2, <2>3, <2>5, <2>7, <1>m
    <3> QED
      BY <3>1, <3>2, <2>7, <1>t
  <2>8. NoneLeftBehind'
    BY <2>1, <2>2, <2>7 DEF NoneLeftBehind
  <2> QED
    BY <2>1, <2>6, <2>8, <1>t, <1>m DEF IInv
<1>3. CASE AdvanceReturn
  <2>1. /\ target' = Idle /\ target \in P!Moment
        /\ UNCHANGED <<ready, timers, current, late>>
        /\ ~HasDue(timers, target) /\ now' = Later(now, target)
    BY <1>3, <1>t DEF AdvanceReturn
  <2>2. now' \in P!Moment /\ (now' = now \/ now' = target)
    BY <2>1, <1>t, LaterProperties
  <2>3. P!IInv'
    BY <2>1, <2>2, <1>t, QueuesInv
  <2>4. ASSUME NEW i \in 1..Len(timers), timers[i].when < now'
        PROVE  timers[i].handle \in late
    <3>1. timers # <<>> /\ Len(timers) \in Nat
      BY <1>t, LenProperties, EmptySeq
    <3>2. /\ Head(timers) = timers[1] /\ timers[1].when \in P!Moment
          /\ timers[1].when <= timers[i].when /\ timers[i].when \in P!Moment
      BY <3>1, <1>t, P!TailOfTimers, P!TailSorted, P!TimerTypes,
         HandleAssumption, TimeAssumption
    <3>3. timers[1].when > target
      BY <3>1, <3>2, <2>1, <1>m DEF HasDue
    <3>4. now' = now
      BY <3>2, <3>3, <2>1, <2>2, <2>4, <1>m
    <3> QED
      BY <3>4, <2>4, <1>t
  <2>5. NoneLeftBehind'
    BY <2>1, <2>4 DEF NoneLeftBehind
  <2> QED
    BY <2>1, <2>3, <2>5, <1>t DEF IInv
<1>4. ASSUME NEW t \in Moment, AdvanceTo(t) PROVE IInv'
  <2>1. target' = t /\ UNCHANGED <<ready, timers, now, current, late>>
    BY <1>4 DEF AdvanceTo
  <2>2. P!IInv'
    BY <2>1, <1>t, QueuesInv
  <2> QED
    BY <2>1, <2>2, <1>t DEF IInv, NoneLeftBehind
<1> QED
  BY <1>1, <1>2, <1>3, <1>4 DEF DriverStep

\* What there is in Next.
LEMMA NextMeans == Next <=> CallStep \/ DriverStep \/ (\E t \in Moment : AdvanceTo(t))
BY DEF Next, CallStep

\* So does every step.
LEMMA StepInv == IInv /\ [Next]_vars => IInv'
<1>1. ASSUME IInv, UNCHANGED vars PROVE IInv'
  <2>1. UNCHANGED <<ready, timers, now, target, current, late>>
    BY <1>1 DEF vars
  <2>2. P!IInv'
    BY <2>1, <1>1, IInvMeans, QueuesInv
  <2> QED
    BY <2>1, <2>2, <1>1 DEF IInv, NoneLeftBehind
<1> QED
  BY <1>1, NextMeans, CallInv, DriverInv

\* The inductive invariant holds throughout every behaviour of the scheduler.
THEOREM Invariant == Spec => []IInv
BY InitInv, StepInv, PTL DEF Spec

(* Every variable of the scheduler keeps its type: the clock never leaves  *)
(* the range of the deadlines and targets it was given.                    *)
THEOREM TypeCorrect == Spec => []TypeOK
<1>1. IInv => TypeOK
  BY DEF IInv, TypeOK, P!IInv, P!TypeOK, Body!TypeOK, Body!Moment, P!Moment,
         Body!Entry, P!Entry
<1> QED
  BY <1>1, Invariant, PTL

(* A drive leaves no timer behind, not even one that a fired coroutine     *)
(* schedules into its window (ManualScheduler.hpp:66-67).                  *)
THEOREM NothingLeftBehind == Spec => []NoneLeftBehind
<1>1. IInv => NoneLeftBehind
  BY DEF IInv
<1> QED
  BY <1>1, Invariant, PTL

-----------------------------------------------------------------------------
(* What fires, and when.                                                   *)

\* One step that fires a timer.
LEMMA FiresStep ==
  ASSUME IInv, [Next]_vars, NEW i \in 1..Len(timers), Fires(i)
  PROVE  timers[i].handle \in late \/ now' = timers[i].when
<1> DEFINE h == timers[i].handle
<1>t. /\ ready \in Seq(Handle) /\ timers \in Seq(P!Entry(P!Moment, Handle))
      /\ now \in P!Moment
      /\ P!Once(ready, timers, current)
      /\ \A j \in 1..Len(timers) : timers[j].when < now => timers[j].handle \in late
  BY IInvMeans
<1>h. /\ current' = h /\ current # h /\ h \in Handle /\ h # NoHandle
      /\ timers[i].when \in P!Moment
  BY <1>t, P!TimerTypes, HandleAssumption, TimeAssumption DEF Fires
<1>1. CASE CallStep
  <2>1. \A g : P!Suspended(g) => g # h
    BY P!NotRegistered, HandleAssumption, TimeAssumption
       DEF P!Suspended, IInv, P!IInv
  <2>2. \A g \in Handle : ~Transfer(g)
    BY <2>1, <1>h, SameSuspended DEF Transfer, Body!Transfer
  <2>3. current' = current \/ current' = NoHandle
    BY <1>1, <2>2 DEF CallStep, GiveUpControl, Post, ScheduleAt, Yield, Sleep, Leave,
          Body!Post, Body!ScheduleAt, Body!Yield, Body!Sleep, Body!Leave
  <2> QED
    BY <2>3, <1>h
<1>2. CASE ResumeReady
  <2>1. /\ Len(ready) \in Nat /\ Len(ready) >= 1 /\ current' = ready[1]
    BY <1>2, <1>t, LenProperties, HeadTailProperties, EmptySeq DEF ResumeReady
  <2> QED
    BY <2>1, <1>h, <1>t, 1 \in 1..Len(ready) DEF P!Once
<1>3. CASE FireTimer
  <2>1. /\ 1 \in 1..Len(timers) /\ timers[1].when \in P!Moment
        /\ current' = timers[1].handle /\ now' = Later(now, timers[1].when)
    BY <1>3, <1>t, P!TailOfTimers, HandleAssumption, TimeAssumption DEF FireTimer, HasDue
  <2>2. i = 1
    BY <2>1, <1>h, <1>t DEF P!Once
  <2>3. now' = timers[1].when \/ timers[1].when < now
    <3>1. now \in Nat /\ timers[1].when \in Nat
      BY <2>1, <1>t, TimeAssumption DEF P!Moment
    <3> QED
      BY <2>1, <3>1 DEF Later
  <2> QED
    BY <2>1, <2>2, <2>3, <1>t
<1>4. CASE AdvanceReturn \/ (\E t \in Moment : AdvanceTo(t)) \/ UNCHANGED vars
  BY <1>4, <1>h DEF AdvanceReturn, AdvanceTo, vars
<1> QED
  BY <1>1, <1>2, <1>3, <1>4, NextMeans DEF DriverStep

(* Whatever coroutines schedule, post and transfer meanwhile, a timer      *)
(* fires with the clock at its own deadline, unless that was past when it  *)
(* was scheduled (ManualScheduler.cpp:45).                                 *)
THEOREM EachTimerSeesItsDeadline == Spec => SeesOwnDeadline
<1> DEFINE A == \A i \in 1..Len(timers) :
                  Fires(i) => timers[i].handle \in late \/ now' = timers[i].when
<1>1. IInv /\ [Next]_vars => [A]_vars
  BY FiresStep
<1>2. Spec => [][A]_vars
  BY <1>1, Invariant, PTL DEF Spec
<1> QED
  BY <1>2 DEF SeesOwnDeadline

-----------------------------------------------------------------------------
(* The refinement.                                                         *)

\* A step of a drive is one of the contract: it resumes a handle, or waits.
LEMMA DriverRefines ==
  ASSUME IInv, DriverStep
  PROVE  Contract!Next
<1>t. /\ ready \in Seq(Handle) /\ timers \in Seq(P!Entry(P!Moment, Handle))
      /\ now \in P!Moment /\ P!Once(ready, timers, current)
      /\ target \in P!Moment \cup {Idle}
  BY IInvMeans
<1>m. /\ P!Moment = Moment /\ \A t \in Moment : t \in Int
      /\ \A S : Body!Elements(S) = P!Elements(S)
  BY TimeAssumption DEF P!Moment, Moment, P!Elements, Body!Elements
<1>e. Contract!HandlesOf({}) = {}
  BY DEF Contract!HandlesOf
<1>1. CASE ResumeReady
  <2>1. /\ current = NoHandle /\ now' = now /\ timers' = timers
        /\ ready # <<>> /\ ready' = Tail(ready) /\ current' = Head(ready)
    BY <1>1 DEF ResumeReady
  <2>2. Head(ready) \in Handle
    BY <2>1, <1>t, HeadTailProperties
  <2>3. Head(ready) \in P!Elements(ready)
        /\ P!Elements(Tail(ready)) = P!Elements(ready) \ {Head(ready)}
    BY <2>1, <1>t, P!PopRemoves, HandleAssumption, TimeAssumption DEF P!Once
  <2>4. Contract!Resume({}, Head(ready))
    BY <2>1, <2>2, <2>3, <1>t, <1>m, <1>e, HandleAssumption
       DEF Contract!Resume, Contract!Elapse, Contract!TimePasses
  <2> QED
    BY <2>2, <2>4 DEF Contract!Next
<1>2. CASE FireTimer
  <2> DEFINE e == timers[1]
  <2>1. /\ current = NoHandle /\ ready' = ready /\ timers # <<>>
        /\ timers' = Tail(timers) /\ Head(timers) = e /\ 1 \in 1..Len(timers)
        /\ e.when \in P!Moment /\ e.handle \in Handle
        /\ current' = e.handle /\ now' = Later(now, e.when)
    BY <1>2, <1>t, P!TailOfTimers, HandleAssumption, TimeAssumption DEF FireTimer, HasDue
  <2>2. now' \in Moment /\ now' >= now /\ e.when <= now'
    <3>1. Later(now, e.when) >= e.when
      BY <2>1, <1>t, LaterProperties
    <3>2. Later(now, e.when) \in P!Moment /\ Later(now, e.when) >= now
      BY <2>1, <1>t, LaterProperties
    <3> QED
      BY <2>1, <3>1, <3>2, <1>m
  <2>3. e \in P!Elements(timers) /\ P!Elements(Tail(timers)) = P!Elements(timers) \ {e}
    <3>1. \A i, j \in 1..Len(timers) : timers[i] = timers[j] => i = j
      BY <1>t DEF P!Once
    <3> QED
      BY <2>1, <3>1, <1>t, P!PopRemoves, HandleAssumption, TimeAssumption
  <2>4. e.handle \notin P!Elements(ready)
    BY <2>1, <1>t DEF P!Once, P!Elements
  <2>5. Contract!HandlesOf({e}) = {e.handle}
    BY DEF Contract!HandlesOf
  <2> HIDE DEF e
  <2>6. Contract!Elapse({e})
    BY <2>1, <2>2, <2>3, <1>m DEF Contract!Elapse, Contract!TimePasses
  <2>7. Contract!Resume({e}, e.handle)
    BY <2>1, <2>4, <2>5, <2>6, <1>m, HandleAssumption DEF Contract!Resume
  <2> QED
    BY <2>1, <2>3, <2>7, <1>m DEF Contract!Next
<1>3. CASE AdvanceReturn
  <2>1. UNCHANGED <<ready, timers, current>> /\ target \in P!Moment
        /\ now' = Later(now, target)
    BY <1>3, <1>t DEF AdvanceReturn
  <2>2. now' \in Moment /\ now' >= now
    BY <2>1, <1>t, <1>m, LaterProperties
  <2>3. Contract!Wait({})
    BY <2>1, <2>2, <1>e DEF Contract!Wait, Contract!Elapse, Contract!TimePasses
  <2> QED
    BY <2>3 DEF Contract!Next
<1> QED
  BY <1>1, <1>2, <1>3 DEF DriverStep

\* Every step is one of the contract, or a stutter.
LEMMA StepRefines ==
  ASSUME IInv, [Next]_vars
  PROVE  [Contract!Next]_Contract!contractVars
<1>1. CASE CallStep
  <2>1. P!BodyStep /\ P!IInv
    BY <1>1, CallIsBodyStep DEF IInv
  <2>2. P!Contract!Next
    BY <2>1, P!BodyRefines, HandleAssumption, TimeAssumption
  <2> QED
    BY <2>2, SameContract
<1>2. CASE DriverStep
  BY <1>2, DriverRefines
<1>3. CASE (\E t \in Moment : AdvanceTo(t)) \/ UNCHANGED vars
  BY <1>3 DEF AdvanceTo, vars, Contract!contractVars
<1> QED
  BY <1>1, <1>2, <1>3, NextMeans

(* In virtual time as in real time, a handle that is posted or scheduled   *)
(* is resumed at most once, not before its time, and never dropped         *)
(* (Scheduler.hpp:31-66).                                                  *)
THEOREM ManualIsAScheduler == Spec => ImplementsScheduler
<1>1. Init => Contract!Init
  BY DEF Init, Contract!Init, Body!Elements
<1>2. IInv /\ [Next]_vars => [Contract!Next]_Contract!contractVars
  BY StepRefines
<1> QED
  BY <1>1, <1>2, Invariant, PTL DEF Spec, ImplementsScheduler, Contract!Spec

=============================================================================
