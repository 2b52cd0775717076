------------------------- MODULE CoroRuntime_proofs -------------------------
(***************************************************************************)
(* The frames of CoroRuntime: an inductive invariant of what is suspended  *)
(* where, who owns it and what it continues, and of the groups, and that   *)
(* every step keeps it.  CoroCompletion_proofs builds the theorems on it.  *)
(***************************************************************************)
EXTENDS CoroRuntime, FiniteSetTheorems, SequenceTheorems, TLAPS

L == INSTANCE EventLoop_proofs WITH Handle <- Frame, NoHandle <- NoFrame

-----------------------------------------------------------------------------
(* The event loop under the coroutines: what each call of theirs, and each *)
(* step of its own, does to the set of registered handles.  L and Loop are *)
(* the same module with and without its proofs.                            *)

\* The assumptions of EventLoop hold of frames.
LEMMA LoopConstants == NoFrame \notin Frame /\ MaxTime \in Nat
BY BoundAssumption DEF NoFrame, Frame

\* The operators that both have.
LEMMA SameOperators ==
  /\ \A s : L!Elements(s) = Loop!Elements(s)
  /\ \A t : L!Handles(t) = Handles(t) /\ Loop!Handles(t) = Handles(t)
  /\ \A t, d : /\ L!Due(t, d) = Due(t, d) /\ Loop!Due(t, d) = Due(t, d)
               /\ L!NotDue(t, d) = NotDue(t, d) /\ Loop!NotDue(t, d) = NotDue(t, d)
  /\ \A t, w, h : /\ L!Schedule(t, w, h) = Schedule(t, w, h)
                  /\ Loop!Schedule(t, w, h) = Schedule(t, w, h)
  /\ L!Registered = Loop!Registered /\ L!Drained = Loop!Drained
  /\ L!Moment = 0..MaxTime /\ Loop!Moment = 0..MaxTime
<1>1. \A t, d : L!DueCount(t, d) = DueCount(t, d) /\ Loop!DueCount(t, d) = DueCount(t, d)
  BY DEF L!DueCount, DueCount, Loop!DueCount
<1>2. \A s : L!Elements(s) = Loop!Elements(s)
  BY DEF L!Elements, Loop!Elements
<1>3. \A t : L!Handles(t) = Handles(t) /\ Loop!Handles(t) = Handles(t)
  BY DEF L!Handles, Handles, Loop!Handles
<1>4. \A t, d : /\ L!Due(t, d) = Due(t, d) /\ Loop!Due(t, d) = Due(t, d)
                /\ L!NotDue(t, d) = NotDue(t, d) /\ Loop!NotDue(t, d) = NotDue(t, d)
  BY <1>1 DEF L!Due, Due, Loop!Due, L!NotDue, NotDue, Loop!NotDue
<1>5. \A t, w, h : /\ L!Schedule(t, w, h) = Schedule(t, w, h)
                   /\ Loop!Schedule(t, w, h) = Schedule(t, w, h)
  BY <1>1 DEF L!Schedule, Schedule, Loop!Schedule
<1>6. L!Registered = Loop!Registered
  BY <1>2, <1>3 DEF L!Registered, Loop!Registered
<1>7. L!Drained = Loop!Drained
  BY <1>3, <1>4 DEF L!Drained, Loop!Drained
<1> QED
  BY <1>2, <1>3, <1>4, <1>5, <1>6, <1>7 DEF L!Moment, Loop!Moment

LoopInv == L!IInv

\* What the loop's invariant says.
LEMMA LoopMeans ==
  ASSUME LoopInv
  PROVE  /\ Loop!TypeOK /\ L!TypeOK
         /\ ready \in Seq(Frame) /\ timers \in Seq(L!Entry(L!Moment, Frame))
         /\ mode \in {"idle", "run", "once"} /\ now \in L!Moment
         /\ current \in Frame \cup {NoFrame}
         /\ Loop!Registered = Loop!Elements(ready) \cup {timers[i].handle : i \in 1..Len(timers)}
         /\ Loop!Registered \subseteq Frame
         /\ current \notin Loop!Registered
         /\ L!Once(ready, timers, current)
<1>1. L!TypeOK /\ L!RegisteredOnce
  BY DEF LoopInv, L!IInv
<1>2. Loop!TypeOK
  BY <1>1 DEF L!TypeOK, Loop!TypeOK, L!Moment, Loop!Moment, L!Entry, Loop!Entry
<1>3. L!Once(ready, timers, current)
  BY <1>1, L!RegisteredOnceMeans, LoopConstants
<1>4. L!Elements(L!Handles(timers)) = {timers[i].handle : i \in 1..Len(timers)}
  BY <1>1, L!ElementsOfHandles, LoopConstants DEF L!TypeOK
<1>5. Loop!Registered = Loop!Elements(ready) \cup {timers[i].handle : i \in 1..Len(timers)}
  BY <1>4, SameOperators DEF Loop!Registered
<1>6. Loop!Registered \subseteq Frame
  <2>1. \A i \in 1..Len(ready) : ready[i] \in Frame
    BY <1>1, L!ReadyTypes, LoopConstants DEF L!TypeOK
  <2>2. \A i \in 1..Len(timers) : timers[i].handle \in Frame
    BY <1>1, L!TimerTypes, LoopConstants DEF L!TypeOK
  <2> QED
    BY <2>1, <2>2, <1>5 DEF Loop!Elements
<1>7. current \notin Loop!Registered
  BY <1>1, SameOperators DEF L!RegisteredOnce
<1> QED
  BY <1>1, <1>2, <1>3, <1>5, <1>6, <1>7 DEF L!TypeOK

\* It says what the types are after a step, too.
LEMMA LoopTyped ==
  ASSUME LoopInv'
  PROVE  Loop!TypeOK'
<1>1. L!TypeOK'
  BY DEF LoopInv, L!IInv
<1> QED
  BY <1>1 DEF L!TypeOK, Loop!TypeOK, L!Moment, Loop!Moment, L!Entry, Loop!Entry

\* The steps that both have.
LEMMA SameSteps ==
  ASSUME Loop!Next \/ UNCHANGED loopVars
  PROVE  [L!Next]_(L!vars)
<1> USE SameOperators DEF Loop!driver, L!driver, Loop!queues, L!queues
<1>1. \A h : Loop!Suspended(h) <=> L!Suspended(h)
  BY DEF Loop!Suspended, L!Suspended
<1>2. ASSUME NEW h \in Frame, Loop!Post(h) \/ Loop!Transfer(h) \/ Loop!Run(h)
      PROVE  L!Next
  BY <1>2, <1>1 DEF Loop!Post, L!Post, Loop!Transfer, L!Transfer, Loop!Run, L!Run,
     Loop!CanCall, L!CanCall, L!Next, L!BodyStep
<1>3. ASSUME NEW h \in Frame, NEW w \in Loop!Moment, Loop!ScheduleAt(w, h)
      PROVE  L!Next
  BY <1>3, <1>1 DEF Loop!ScheduleAt, L!ScheduleAt, Loop!CanCall, L!CanCall,
     L!Next, L!BodyStep
<1>4. ASSUME NEW w \in Loop!Moment, Loop!Sleep(w)
      PROVE  L!Next
  BY <1>4 DEF Loop!Sleep, L!Sleep, L!Next, L!BodyStep, L!GiveUpControl
<1>5. ASSUME Loop!Yield \/ Loop!Leave PROVE L!Next
  <2>1. L!Yield \/ L!Leave
    BY <1>5 DEF Loop!Yield, L!Yield, Loop!Leave, L!Leave
  <2> QED
    BY <2>1 DEF L!Next, L!BodyStep, L!GiveUpControl
<1>6. ASSUME Loop!LoopStep PROVE L!Next
  <2>1. Loop!RunResume => L!RunResume
    BY DEF Loop!RunResume, L!RunResume
  <2>2. Loop!RunWait => L!RunWait
    BY DEF Loop!RunWait, L!RunWait, Loop!WaitUntil, L!WaitUntil
  <2>3. /\ Loop!RunReturn => L!RunReturn
        /\ Loop!RunOnceResume => L!RunOnceResume
        /\ Loop!RunOnceReturn => L!RunOnceReturn
    BY DEF Loop!RunReturn, L!RunReturn, Loop!RunOnceResume, L!RunOnceResume,
           Loop!RunOnceReturn, L!RunOnceReturn
  <2> QED
    BY <1>6, <2>1, <2>2, <2>3 DEF Loop!LoopStep, L!LoopStep, L!Next
<1>7. ASSUME Loop!RunOnce \/ Loop!Tick PROVE L!Next
  <2>1. Loop!RunOnce => L!RunOnce
    BY DEF Loop!RunOnce, L!RunOnce
  <2>2. Loop!Tick => L!Tick
    BY DEF Loop!Tick, L!Tick
  <2> QED
    BY <1>7, <2>1, <2>2 DEF L!Next
<1>8. L!Next \/ UNCHANGED L!vars
  <2>1. UNCHANGED loopVars => UNCHANGED L!vars
    BY DEF loopVars, L!vars
  <2>2. Loop!Next => L!Next
    BY <1>2, <1>3, <1>4, <1>5, <1>6, <1>7 DEF Loop!Next, Loop!BodyStep, Loop!GiveUpControl
  <2> QED
    BY <2>1, <2>2
<1> QED
  BY <1>8

\* A step of the loop keeps the loop's invariant.
LEMMA LoopInvStep ==
  ASSUME LoopInv, Loop!Next \/ UNCHANGED loopVars
  PROVE  LoopInv'
BY SameSteps, L!IInvStep, LoopConstants DEF LoopInv

\* A handle is posted: by the running coroutine, or from outside.
LEMMA LoopPosts ==
  ASSUME LoopInv, NEW h \in Frame, Loop!Suspended(h), Loop!CanCall,
         ready' = Append(ready, h), UNCHANGED <<timers, now, mode, current, budget, batch>>
  PROVE  Loop!Next /\ LoopInv' /\ Loop!Registered' = Loop!Registered \cup {h}
<1>1. Loop!Post(h)
  BY DEF Loop!Post, Loop!driver
<1>2. Loop!Elements(Append(ready, h)) = Loop!Elements(ready) \cup {h}
  BY LoopMeans, L!AppendAdds, LoopConstants, SameOperators
<1>3. Loop!Registered' = Loop!Registered \cup {h}
  BY <1>2 DEF Loop!Registered
<1>4. Loop!Next
  BY <1>1 DEF Loop!Next, Loop!BodyStep
<1> QED
  BY <1>3, <1>4, LoopInvStep

\* Run posts its root.
LEMMA LoopRuns ==
  ASSUME LoopInv, NEW h \in Frame, Loop!Run(h)
  PROVE  Loop!Next /\ LoopInv' /\ Loop!Registered' = Loop!Registered \cup {h}
<1>1. ready' = Append(ready, h) /\ timers' = timers
  BY DEF Loop!Run
<1>2. Loop!Elements(Append(ready, h)) = Loop!Elements(ready) \cup {h}
  BY LoopMeans, L!AppendAdds, LoopConstants, SameOperators
<1>3. Loop!Registered' = Loop!Registered \cup {h}
  BY <1>1, <1>2 DEF Loop!Registered
<1>4. Loop!Next
  BY DEF Loop!Next
<1> QED
  BY <1>3, <1>4, LoopInvStep

\* The running coroutine sleeps.
LEMMA LoopSleeps ==
  ASSUME LoopInv, current # NoFrame, NEW w \in Loop!Moment,
         timers' = Schedule(timers, w, current), current' = NoFrame,
         UNCHANGED <<ready, now, mode, budget, batch>>
  PROVE  Loop!Next /\ LoopInv' /\ Loop!Registered' = Loop!Registered \cup {current}
<1>1. Loop!Sleep(w)
  BY SameOperators DEF Loop!Sleep, Loop!driver
<1>2. Loop!Next
  BY <1>1 DEF Loop!Next, Loop!BodyStep, Loop!GiveUpControl
<1>3. LoopInv'
  BY <1>2, LoopInvStep
<1>4. /\ current \in Frame /\ w \in L!Moment /\ timers \in Seq(L!Entry(L!Moment, Frame))
      /\ Loop!Elements(timers') = Loop!Elements(timers) \cup {[when |-> w, handle |-> current]}
  <2>1. current \in Frame /\ w \in L!Moment /\ timers \in Seq(L!Entry(L!Moment, Frame))
    BY LoopMeans, SameOperators
  <2> QED
    BY <2>1, L!ScheduleAdds, LoopConstants, SameOperators
<1>5. {timers'[i].handle : i \in 1..Len(timers')} =
        {timers[i].handle : i \in 1..Len(timers)} \cup {current}
  <2>1. \A t : {t[i].handle : i \in 1..Len(t)} = {e.handle : e \in Loop!Elements(t)}
    BY DEF Loop!Elements
  <2> DEFINE new == [when |-> w, handle |-> current]
  <2>2. {e.handle : e \in Loop!Elements(timers')} =
          {e.handle : e \in Loop!Elements(timers)} \cup {current}
    <3>1. new.handle = current /\ Loop!Elements(timers') = Loop!Elements(timers) \cup {new}
      BY <1>4
    <3> HIDE DEF new
    <3> QED
      BY <3>1
  <2> QED
    BY <2>1, <2>2
<1>6. Loop!Registered' = Loop!Elements(ready') \cup {timers'[i].handle : i \in 1..Len(timers')}
  <2>1. L!TypeOK'
    BY <1>3 DEF LoopInv, L!IInv
  <2>2. L!Elements(L!Handles(timers')) = {timers'[i].handle : i \in 1..Len(timers')}
    <3>1. timers' \in Seq(L!Entry(L!Moment, Frame))
      BY <2>1 DEF L!TypeOK
    <3> QED
      BY <3>1, L!ElementsOfHandles, LoopConstants
  <2> QED
    BY <2>2, SameOperators DEF Loop!Registered
<1> QED
  BY <1>2, <1>3, <1>5, <1>6, LoopMeans

\* The running coroutine suspends elsewhere, or transfers to another.
LEMMA LoopLeaves ==
  ASSUME LoopInv, current # NoFrame, current' = NoFrame,
         UNCHANGED <<ready, timers, now, mode, budget, batch>>
  PROVE  Loop!Next /\ LoopInv' /\ Loop!Registered' = Loop!Registered
<1>1. Loop!Leave
  BY DEF Loop!Leave, Loop!driver, Loop!queues
<1>2. Loop!Next
  BY <1>1 DEF Loop!Next, Loop!BodyStep, Loop!GiveUpControl
<1> QED
  BY <1>2, LoopInvStep DEF Loop!Registered

\* The running coroutine transfers to a suspended one.
LEMMA LoopTransfers ==
  ASSUME LoopInv, current # NoFrame, NEW h \in Frame, Loop!Suspended(h), current' = h,
         UNCHANGED <<ready, timers, now, mode, budget, batch>>
  PROVE  Loop!Next /\ LoopInv' /\ Loop!Registered' = Loop!Registered
<1>1. Loop!Transfer(h)
  BY DEF Loop!Transfer, Loop!driver, Loop!queues
<1>2. Loop!Next
  BY <1>1 DEF Loop!Next, Loop!BodyStep
<1> QED
  BY <1>2, LoopInvStep DEF Loop!Registered

\* A step of the drivers resumes a registered handle, or moves handles from
\* one queue to the other, or does neither.
LEMMA LoopDrives ==
  ASSUME LoopInv,
         Loop!RunResume \/ Loop!RunOnceResume \/ Loop!RunWait \/ Loop!RunOnce
           \/ Loop!RunOnceReturn \/ Loop!RunReturn \/ Loop!Tick
  PROVE  /\ Loop!Next /\ LoopInv'
         /\ \/ /\ current = NoFrame /\ current' \in Loop!Registered
               /\ Loop!Registered' = Loop!Registered \ {current'}
            \/ current' = current /\ Loop!Registered' = Loop!Registered
<1>1. Loop!Next
  BY DEF Loop!Next, Loop!LoopStep
<1>2. LoopInv'
  BY <1>1, LoopInvStep
<1>3. /\ ready \in Seq(Frame) /\ timers \in Seq(L!Entry(L!Moment, Frame)) /\ now \in L!Moment
      /\ L!Once(ready, timers, current) /\ L!TypeOK /\ L!SnapshotServed
  BY LoopMeans DEF LoopInv, L!IInv
<1> DEFINE moved == {e.handle : e \in L!Elements(Due(timers, now))}
           parked(t) == {t[i].handle : i \in 1..Len(t)}
<1>4. /\ Loop!Drained \in Seq(Frame)
      /\ NotDue(timers, now) \in Seq(L!Entry(L!Moment, Frame))
      /\ L!Once(Loop!Drained, NotDue(timers, now), current)
      /\ Loop!Elements(Loop!Drained) = Loop!Elements(ready) \cup moved
      /\ parked(timers) = parked(NotDue(timers, now)) \cup moved
  <2>1. /\ L!Drained \in Seq(Frame)
        /\ L!NotDue(timers, now) \in Seq(L!Entry(L!Moment, Frame))
    BY <1>3, L!DrainTypes, LoopConstants DEF L!Drained
  <2>2. L!Once(L!Drained, L!NotDue(timers, now), current)
    BY <1>3, L!OnceDrain, LoopConstants DEF L!Drained
  <2>3. /\ L!Elements(L!Due(timers, now)) \subseteq L!Elements(timers)
        /\ L!Elements(L!NotDue(timers, now)) = L!Elements(timers) \ L!Elements(L!Due(timers, now))
        /\ L!Elements(L!Drained) = L!Elements(ready) \cup L!Contract!HandlesOf(L!Elements(L!Due(timers, now)))
    <3>1. \A i, j \in 1..Len(timers) : timers[i].handle = timers[j].handle => i = j
      BY <1>3 DEF L!Once
    <3> QED
      BY <3>1, <1>3, L!DrainMoves, LoopConstants DEF L!Drained
  <2>4. \A t : parked(t) = {e.handle : e \in L!Elements(t)}
    BY DEF L!Elements
  <2> HIDE DEF parked
  <2>5. parked(timers) = parked(NotDue(timers, now)) \cup moved
    BY <2>3, <2>4, SameOperators
  <2> QED
    BY <2>1, <2>2, <2>3, <2>5, SameOperators DEF L!Contract!HandlesOf
<1>5. Loop!Registered = Loop!Elements(Loop!Drained) \cup parked(NotDue(timers, now))
  BY <1>4, LoopMeans
<1>6. Loop!Registered' = Loop!Elements(ready') \cup parked(timers')
  <2>1. timers' \in Seq(L!Entry(L!Moment, Frame))
    BY <1>2 DEF LoopInv, L!IInv, L!TypeOK
  <2>2. L!Elements(L!Handles(timers')) = parked(timers')
    BY <2>1, L!ElementsOfHandles, LoopConstants
  <2> QED
    BY <2>2, SameOperators DEF Loop!Registered
<1>7. ASSUME NEW r \in Seq(Frame), NEW t, r # <<>>, L!Once(r, t, current)
      PROVE  /\ Head(r) \in Loop!Elements(r)
             /\ Loop!Elements(Tail(r)) = Loop!Elements(r) \ {Head(r)}
             /\ Head(r) \notin parked(t)
  <2>1. \A i, j \in 1..Len(r) : r[i] = r[j] => i = j
    BY <1>7 DEF L!Once
  <2>2. Head(r) \in Loop!Elements(r) /\ Loop!Elements(Tail(r)) = Loop!Elements(r) \ {Head(r)}
    BY <1>7, <2>1, L!PopRemoves, LoopConstants, SameOperators
  <2>3. Head(r) = r[1] /\ 1 \in 1..Len(r)
    BY <1>7, LenProperties, EmptySeq
  <2> QED
    BY <1>7, <2>2, <2>3 DEF L!Once
<1>8. \A t : parked(t) = {t[i].handle : i \in 1..Len(t)}
  OBVIOUS
<1> HIDE DEF moved, parked
<1>9. CASE Loop!RunResume
  <2>1. /\ current = NoFrame /\ Loop!Drained # <<>> /\ current' = Head(Loop!Drained)
        /\ ready' = Tail(Loop!Drained) /\ timers' = NotDue(timers, now)
    BY <1>9, SameOperators DEF Loop!RunResume
  <2> QED
    BY <1>1, <1>2, <1>4, <1>5, <1>6, <1>7, <2>1
<1>10. CASE Loop!RunOnceResume
  <2>1. /\ current = NoFrame /\ current' = Head(ready) /\ ready' = Tail(ready)
        /\ timers' = timers /\ budget > 0 /\ mode = "once"
    BY <1>10 DEF Loop!RunOnceResume
  <2>2. ready # <<>>
    BY <2>1, <1>3, EmptySeq DEF L!SnapshotServed, L!TypeOK
  <2>3. Loop!Registered = Loop!Elements(ready) \cup parked(timers)
    BY LoopMeans, <1>8
  <2> QED
    BY <1>1, <1>2, <1>3, <1>6, <1>7, <2>1, <2>2, <2>3
<1>11. CASE Loop!RunOnce
  BY <1>1, <1>2, <1>5, <1>6, <1>11, SameOperators DEF Loop!RunOnce
<1>12. CASE Loop!RunWait \/ Loop!RunOnceReturn \/ Loop!RunReturn \/ Loop!Tick
  BY <1>1, <1>2, <1>12
     DEF Loop!RunWait, Loop!RunOnceReturn, Loop!RunReturn, Loop!Tick, Loop!queues, Loop!Registered
<1> QED
  BY <1>9, <1>10, <1>11, <1>12

-----------------------------------------------------------------------------
(* The invariant of the frames.                                            *)

\* Nothing refers to a frame that is not allocated yet.
FreshOK ==
  /\ Allocated \in 0..MaxFrames
  /\ \A f \in Frame : at[f] = "free" <=> Allocated < f
  /\ \A f \in Frame : at[f] = "free" =>
       /\ owner[f] = NoFrame /\ cont[f] = NoFrame /\ ~detached[f] /\ serves[f] = User
       /\ f # root /\ f # current
  /\ \A f \in Frame : owner[f] # NoFrame => at[owner[f]] # "free"

\* Where the registered and the running frames are suspended.
PlacesOK ==
  /\ \A f \in Loop!Registered : at[f] \in {"initial", "timer", "event", "group"}
  /\ \A f \in Frame : at[f] \in {"body", "fork"} => f = current
  /\ current # NoFrame => Alive(current) \/ (terminated /\ at[current] = "destroyed")
  /\ terminated => current # NoFrame /\ at[current] = "destroyed"
  /\ mode = "idle" => current = NoFrame
  /\ \A f \in Frame : at[f] = "event" => "event" \in Uses

\* A task that is owned and has not started is left alone until it is awaited.
UnstartedOK ==
  \A f \in Frame : at[f] = "initial" /\ serves[f] = User /\ owner[f] # NoFrame =>
    Loop!Suspended(f) \/ (f = current /\ cont[f] = owner[f])

\* Whoever awaits a task owns it, and is what its completion continues.
Awaits(o, t) ==
  /\ Alive(t) /\ serves[t] = User /\ owner[t] = o /\ cont[t] = o
  /\ o = current => at[t] = "final"

AwaitOK ==
  \A o \in Frame : at[o] = "task" =>
    waits[o] \in Frame /\ \A t \in Frame : waits[o] = t => Awaits(o, t)

ContOK ==
  \A f, o \in Frame : Alive(f) /\ cont[f] = o => at[o] = "task" /\ waits[o] = f

\* The task that wrapper w is to await.
Child(w) == groups[serves[w][1]].kids[serves[w][2]]

\* What a frame owns has not started or is what the frame waits for; a wrapper
\* owns but its child; and a frame that has finished owns nothing.
Owns(o, f) ==
  /\ at[o] # "final"
  /\ \/ /\ at[f] = "initial" /\ serves[f] = User
        /\ serves[o] # User => at[o] = "initial" /\ f = Child(o)
     \/ at[o] = "task" /\ waits[o] = f
     \/ at[o] \in {"fork", "group"} /\ serves[f] # User /\ serves[f][1] = waits[o]

OwnsOK == \A f, o \in Frame : Alive(f) /\ owner[f] = o => Owns(o, f)

RootOK ==
  /\ mode = "run" <=> root # NoFrame
  /\ root # NoFrame => Alive(root) /\ ~detached[root] /\ cont[root] = NoFrame /\ serves[root] = User

\* The states of the combinators.
GroupOK(g) ==
  LET n == Len(groups[g].kids)
  IN  /\ n > 0 /\ Len(groups[g].exceptions) = n /\ groups[g].winner \in 0..n
      /\ \A i, j \in 1..n : groups[g].kids[i] = groups[g].kids[j] => i = j
      /\ at[groups[g].parent] # "free"
      /\ \A i \in 1..n : at[groups[g].kids[i]] # "free"
      /\ groups[g].kind \in Uses
      /\ \E f \in Frame : serves[f][1] = g \/ (at[f] = "fork" /\ waits[f] = g)

GroupsOK == \A g \in DOMAIN groups : GroupOK(g)

\* Frame p waits for group g, or is about to.
Joins(p, g) == at[p] \in {"fork", "group"} /\ waits[p] = g

\* Task c has not started and nobody but o knows of it.
Waiting(c, o) ==
  /\ at[c] = "initial" /\ serves[c] = User /\ owner[c] = o /\ cont[c] = NoFrame /\ c # current

\* The wrapper of slot k of group g: where it is, its owner and its child.
WrapperOK(w, g, k) ==
  LET any == groups[g].kind = "any"
      p == groups[g].parent
  IN  /\ g \in DOMAIN groups /\ k \in 1..Len(groups[g].kids)
      /\ at[w] \in {"initial", "task", "body", "final", "destroyed"}
      /\ Alive(w) => /\ detached[w] = any /\ cont[w] = NoFrame
                     /\ owner[w] = IF any THEN NoFrame ELSE p
                     /\ ~any => Joins(p, g)
      /\ at[w] \in {"initial", "task", "body"} /\ groups[g].winner = 0 => Joins(p, g)
      /\ at[w] = "initial" => Waiting(groups[g].kids[k], IF any THEN w ELSE p)
      /\ at[w] = "final" => exc[w] = NoFrame

WrappersOK ==
  /\ \A v, w \in Frame : serves[v] = serves[w] /\ serves[v] # User => v = w
  /\ \A w \in Frame, g, k \in 0..MaxFrames :
       serves[w] = <<g, k>> /\ <<g, k>> # User => WrapperOK(w, g, k)

\* The wrappers that parent p of group g has posted so far, and the tasks that
\* are left.
ForkOK(p, g) ==
  LET n == Len(groups[g].kids)
      m == Cardinality(Wrappers(g))
  IN  /\ g \in DOMAIN groups /\ groups[g].parent = p /\ m \in 0..n
      /\ \A k \in 1..n : (\E w \in Frame : serves[w] = <<g, k>>) <=> k <= m
      /\ at[p] = "fork" => Allocated + (n - m) <= MaxFrames
      /\ at[p] = "group" => m = n
      /\ \A k \in 1..n : k > m => Waiting(groups[g].kids[k], p)

ForksOK == \A p \in Frame, g \in 0..MaxFrames : Joins(p, g) => ForkOK(p, g)

\* Task f is one of those of group g, and has yet to be claimed by its wrapper.
Unclaimed(f, g) ==
  \E k \in 1..Len(groups[g].kids) :
    /\ f = groups[g].kids[k]
    /\ \A w \in Frame :
         serves[w] = <<g, k>> => groups[g].kind = "all" /\ at[w] = "initial"

\* What the parent of a group owns that has not started is one of its tasks.
KidsOK ==
  \A f, p \in Frame, g \in 0..MaxFrames :
    at[f] = "initial" /\ serves[f] = User /\ owner[f] = p /\ Joins(p, g) => Unclaimed(f, g)

Reported(g, k) == \E w \in Frame : serves[w] = <<g, k>> /\ at[w] \in {"final", "destroyed"}

Pending(g) == {k \in 1..Len(groups[g].kids) : ~Reported(g, k)}

\* A parent is woken when the count says so, and the count is right.
CountOK(p, g) ==
  /\ at[p] = "fork" => groups[g].winner = 0 /\ Pending(g) = 1..Len(groups[g].kids)
  /\ IF groups[g].kind = "all"
       THEN /\ groups[g].remaining = Cardinality(Pending(g))
            /\ at[p] = "group" => (Loop!Suspended(p) <=> groups[g].remaining # 0)
            /\ groups[g].winner = 0
       ELSE /\ groups[g].winner = 0 => \A k \in 1..Len(groups[g].kids) : ~Reported(g, k)
            /\ at[p] = "group" => (Loop!Suspended(p) <=> groups[g].winner = 0)

CountsOK == \A p \in Frame, g \in 0..MaxFrames : Joins(p, g) => CountOK(p, g)

FramesOK ==
  /\ FreshOK /\ OneOwner /\ PlacesOK /\ UnstartedOK /\ AwaitOK /\ ContOK /\ OwnsOK
  /\ RootOK /\ GroupsOK /\ WrappersOK /\ ForksOK /\ KidsOK /\ CountsOK

Inv == TypeOK /\ LoopInv /\ FramesOK

-----------------------------------------------------------------------------
(* Allocation and destruction.                                             *)

\* Frames are allocated in order.
LEMMA AllocatedIs ==
  ASSUME NEW n \in 0..MaxFrames, NEW a \in [Frame -> Place],
         \A f \in Frame : a[f] = "free" <=> n < f
  PROVE  Cardinality({f \in Frame : a[f] # "free"}) = n
<1>1. {f \in Frame : a[f] # "free"} = 1..n
  BY BoundAssumption DEF Frame
<1>2. Cardinality(1..n) = n
  BY FS_Interval, BoundAssumption
<1> QED
  BY <1>1, <1>2

\* Where there is room the next frame is not allocated yet.
LEMMA NewFrameIsFree ==
  ASSUME FreshOK, Room(1)
  PROVE  NewFrame \in Frame /\ at[NewFrame] = "free" /\ NewFrame = Allocated + 1
<1>1. NewFrame \in 1..MaxFrames /\ Allocated \in Nat
  BY BoundAssumption DEF FreshOK, Room, NewFrame
<1> QED
  BY <1>1 DEF FreshOK, Frame, NewFrame

\* A step that allocates it.
LEMMA OneMoreAllocated ==
  ASSUME FreshOK, at \in [Frame -> Place], at' \in [Frame -> Place], NEW n \in Frame,
         n = Allocated + 1, at[n] = "free", NEW p \in Place, p # "free",
         at' = [at EXCEPT ![n] = p]
  PROVE  Allocated' = Allocated + 1 /\ Allocated + 1 \in 0..MaxFrames
<1>1. Allocated + 1 \in 0..MaxFrames /\ Allocated \in Nat
  BY DEF FreshOK, Frame
<1>2. \A f \in Frame : at'[f] = "free" <=> Allocated + 1 < f
  BY <1>1 DEF FreshOK, Frame
<1>3. Cardinality({f \in Frame : at'[f] # "free"}) = Allocated + 1
  BY <1>1, <1>2, AllocatedIs
<1> QED
  BY <1>1, <1>3 DEF Allocated

\* What is destroyed with the frames of S.
LEMMA ClosureIs ==
  ASSUME NEW S, S \subseteq Frame
  PROVE  /\ S \subseteq Closure(S) /\ Closure(S) \subseteq Frame
         /\ \A f \in Frame : at[f] # "destroyed" /\ owner[f] # NoFrame
                               /\ owner[f] \in Closure(S) => f \in Closure(S)
         /\ \A f \in Closure(S) : f \in S \/ owner[f] \in Closure(S)
         /\ \A X : S \subseteq X /\ (\A f \in Frame : at[f] # "destroyed" /\ owner[f] # NoFrame
                                        /\ owner[f] \in X => f \in X)
                     => Closure(S) \subseteq X
<1> DEFINE owned == {f \in Frame : at[f] # "destroyed" /\ owner[f] # NoFrame}
           reach == {C \in SUBSET (S \cup owned) :
                       S \subseteq C /\ \A f \in owned : owner[f] \in C => f \in C}
<1>1. Closure(S) = {f \in S \cup owned : \A C \in reach : f \in C}
  BY DEF Closure
<1>2. ASSUME NEW X, S \subseteq X, \A f \in owned : owner[f] \in X => f \in X
      PROVE  Closure(S) \subseteq X
  <2>1. X \cap (S \cup owned) \in reach
    BY <1>2
  <2> QED
    BY <1>1, <2>1
<1>3. S \subseteq Closure(S) /\ Closure(S) \subseteq Frame
  BY <1>1
<1>4. \A f \in owned : owner[f] \in Closure(S) => f \in Closure(S)
  BY <1>1
<1>5. \A f \in Closure(S) : f \in S \/ owner[f] \in Closure(S)
  <2> DEFINE X == {f \in Closure(S) : f \in S \/ owner[f] \in Closure(S)}
  <2>1. S \subseteq X /\ \A f \in owned : owner[f] \in X => f \in X
    BY <1>3, <1>4
  <2>2. Closure(S) \subseteq X
    BY <1>2, <2>1
  <2> QED
    BY <2>2
<1> QED
  BY <1>2, <1>3, <1>4, <1>5


-----------------------------------------------------------------------------
(* The steps.                                                              *)

\* The types of a group's parts.
LEMMA GroupTypes ==
  ASSUME TypeOK, NEW g \in DOMAIN groups
  PROVE  /\ groups[g] \in Group /\ g \in 1..Len(groups) /\ groups[g].parent \in Frame
         /\ groups[g].kids \in Seq(Frame) /\ Len(groups[g].kids) \in Nat
         /\ \A k \in 1..Len(groups[g].kids) : groups[g].kids[k] \in Frame
<1>1. groups \in Seq(Group)
  BY DEF TypeOK
<1>2. groups[g] \in Group /\ g \in 1..Len(groups)
  BY <1>1
<1>3. groups[g].parent \in Frame /\ groups[g].kids \in Seq(Frame)
  BY <1>2 DEF Group
<1> QED
  BY <1>2, <1>3

\* A wrapper has a place in a group.
LEMMA WrapperIs ==
  ASSUME TypeOK, WrappersOK, NEW w \in Frame, serves[w] # User
  PROVE  /\ at[w] \in {"initial", "task", "body", "final", "destroyed"}
         /\ \E g, k \in 0..MaxFrames :
              /\ serves[w] = <<g, k>> /\ <<g, k>> # User /\ WrapperOK(w, g, k)
              /\ g = serves[w][1] /\ k = serves[w][2]
              /\ g \in DOMAIN groups /\ k \in 1..Len(groups[g].kids)
<1>1. serves[w] \in (0..MaxFrames) \X (0..MaxFrames)
  BY DEF TypeOK
<1>2. PICK g, k \in 0..MaxFrames : serves[w] = <<g, k>>
  BY <1>1
<1>3. WrapperOK(w, g, k)
  BY <1>2 DEF WrappersOK
<1> QED
  BY <1>2, <1>3 DEF WrapperOK

\* A sequence longer than the set it is over repeats itself.
LEMMA TwoAlike ==
  ASSUME NEW n \in Nat, NEW T, IsFiniteSet(T), Cardinality(T) < n, NEW m \in [1..n -> T]
  PROVE  \E i, j \in 1..n : i # j /\ m[i] = m[j]
<1>1. IsFiniteSet(1..n) /\ Cardinality(1..n) = n
  BY FS_Interval
<1>2. Cardinality(T) < Cardinality(1..n)
  BY <1>1
<1> QED
  BY <1>1, <1>2, FS_PigeonHole, Zenon

\* There are no more groups than frames, nor tasks in one of them.
LEMMA GroupsBounded ==
  ASSUME TypeOK, GroupsOK
  PROVE  DOMAIN groups \subseteq 0..MaxFrames
<1> SUFFICES ASSUME NEW g \in DOMAIN groups PROVE g \in 0..MaxFrames
  OBVIOUS
<1>1. PICK f \in Frame : serves[f][1] = g \/ (at[f] = "fork" /\ waits[f] = g)
  BY DEF GroupsOK, GroupOK
<1>2. serves[f] \in (0..MaxFrames) \X (0..MaxFrames) /\ waits[f] \in 0..MaxFrames
  BY DEF TypeOK
<1> QED
  BY <1>1, <1>2

\* A group has no more tasks than there are frames.
LEMMA KidsBounded ==
  ASSUME TypeOK, GroupsOK, NEW g \in DOMAIN groups
  PROVE  Len(groups[g].kids) \in 0..MaxFrames
<1> DEFINE n == Len(groups[g].kids)
<1>1. /\ n \in Nat /\ \A k \in 1..n : groups[g].kids[k] \in Frame
      /\ \A i, j \in 1..n : groups[g].kids[i] = groups[g].kids[j] => i = j
  BY GroupTypes DEF GroupsOK, GroupOK
<1> HIDE DEF n
<1>2. n <= MaxFrames
  <2> SUFFICES ASSUME n > MaxFrames PROVE FALSE
    BY <1>1, BoundAssumption
  <2>1. IsFiniteSet(Frame) /\ Cardinality(Frame) = MaxFrames
    BY FS_Interval, BoundAssumption DEF Frame
  <2>2. PICK m \in [1..n -> Frame] : \A k \in 1..n : m[k] = groups[g].kids[k]
    <3>1. [k \in 1..n |-> groups[g].kids[k]] \in [1..n -> Frame]
      BY <1>1
    <3> QED
      BY <3>1
  <2>3. \E i, j \in 1..n : i # j /\ m[i] = m[j]
    <3>1. n \in Nat /\ Cardinality(Frame) < n
      BY <1>1, <2>1
    <3> QED
      BY <2>1, <2>2, <3>1, TwoAlike
  <2> QED
    BY <1>1, <2>2, <2>3
<1> QED
  BY <1>1, <1>2, BoundAssumption DEF n

\* A step that allocates nothing does not change which frames are.
LEMMA SameAllocated ==
  ASSUME \A f \in Frame : at'[f] = "free" <=> at[f] = "free"
  PROVE  Allocated' = Allocated
<1>1. {f \in Frame : at'[f] # "free"} = {f \in Frame : at[f] # "free"}
  OBVIOUS
<1> QED
  BY <1>1 DEF Allocated

\* What the invariant says of group g.
GroupFine(g) ==
  /\ \A w \in Frame, k \in 0..MaxFrames :
       serves[w] = <<g, k>> /\ <<g, k>> # User => WrapperOK(w, g, k)
  /\ \A p \in Frame : Joins(p, g) => ForkOK(p, g) /\ CountOK(p, g)
  /\ \A f, p \in Frame :
       at[f] = "initial" /\ serves[f] = User /\ owner[f] = p /\ Joins(p, g) => Unclaimed(f, g)

OneWrapperPerSlot ==
  \A v, w \in Frame : serves[v] = serves[w] /\ serves[v] # User => v = w

\* The parts of the invariant about groups, put together group by group.
LEMMA GroupByGroup ==
  /\ WrappersOK /\ ForksOK /\ KidsOK /\ CountsOK <=>
       OneWrapperPerSlot /\ \A g \in 0..MaxFrames : GroupFine(g)
  /\ WrappersOK' /\ ForksOK' /\ KidsOK' /\ CountsOK' <=>
       OneWrapperPerSlot' /\ \A g \in 0..MaxFrames : GroupFine(g)'
<1>1. WrappersOK /\ ForksOK /\ KidsOK /\ CountsOK =>
        OneWrapperPerSlot /\ \A g \in 0..MaxFrames : GroupFine(g)
  BY DEF WrappersOK, ForksOK, KidsOK, CountsOK, OneWrapperPerSlot, GroupFine
<1>2. OneWrapperPerSlot /\ (\A g \in 0..MaxFrames : GroupFine(g)) =>
        WrappersOK /\ ForksOK /\ KidsOK /\ CountsOK
  BY DEF WrappersOK, ForksOK, KidsOK, CountsOK, OneWrapperPerSlot, GroupFine
<1>3. WrappersOK' /\ ForksOK' /\ KidsOK' /\ CountsOK' =>
        OneWrapperPerSlot' /\ \A g \in 0..MaxFrames : GroupFine(g)'
  BY DEF WrappersOK, ForksOK, KidsOK, CountsOK, OneWrapperPerSlot, GroupFine
<1>4. OneWrapperPerSlot' /\ (\A g \in 0..MaxFrames : GroupFine(g)') =>
        WrappersOK' /\ ForksOK' /\ KidsOK' /\ CountsOK'
  BY DEF WrappersOK, ForksOK, KidsOK, CountsOK, OneWrapperPerSlot, GroupFine
<1> QED
  BY <1>1, <1>2, <1>3, <1>4

\* A step that touches the combinators nowhere but at group x: elsewhere it
\* changes no state object, and leaves the parents that wait, the tasks that
\* wait for their wrappers, and the progress of the wrappers as they were.
WrapperKept(w) ==
  /\ at'[w] \in {"initial", "task", "body", "final", "destroyed"}
  /\ at'[w] = "initial" <=> at[w] = "initial"
  /\ at'[w] \in {"final", "destroyed"} <=> at[w] \in {"final", "destroyed"}
  /\ Alive(w)' => /\ Alive(w) /\ owner'[w] = owner[w] /\ cont'[w] = cont[w]
                  /\ detached'[w] = detached[w]
  /\ at'[w] = "final" => at[w] = "final" /\ exc'[w] = exc[w]

ParentKept(p) ==
  at'[p] = at[p] /\ waits'[p] = waits[p] /\ (Loop!Suspended(p)' <=> Loop!Suspended(p))

AtGroup(p) == at[p] \in {"fork", "group"}

OthersKept(x) ==
  /\ \A g \in DOMAIN groups : g # x => g \in DOMAIN groups' /\ groups'[g] = groups[g]
  /\ \A w \in Frame : serves'[w] = serves[w] \/ (serves[w] = User /\ serves'[w][1] = x)
  /\ \A f \in Frame : at[f] # "free" => at'[f] # "free"
  /\ \A p \in Frame : at'[p] = "fork" /\ waits'[p] # x => Allocated' = Allocated
  /\ \A w \in Frame : serves[w] # User /\ serves[w][1] # x => WrapperKept(w)
  /\ \A p \in Frame : \/ AtGroup(p) /\ waits[p] # x
                      \/ AtGroup(p)' /\ waits'[p] # x
                      => ParentKept(p)
  /\ \A c, o \in Frame :
       /\ Waiting(c, o)
       /\ (AtGroup(o) /\ waits[o] # x) \/ (serves[o] # User /\ serves[o][1] # x)
       => Waiting(c, o)'
  /\ \A f, p \in Frame :
       at'[f] = "initial" /\ serves'[f] = User /\ owner'[f] = p /\ AtGroup(p) /\ waits[p] # x
         => at[f] = "initial" /\ serves[f] = User /\ owner[f] = p

\* Such a step keeps the other groups in order.
LEMMA OtherGroups ==
  ASSUME TypeOK, GroupsOK, WrappersOK, ForksOK, KidsOK, CountsOK, NEW x, OthersKept(x),
         NEW g \in 0..MaxFrames, g # x
  PROVE  GroupFine(g)' /\ (g \in DOMAIN groups => GroupOK(g)')
<1>1. g \in DOMAIN groups => g \in DOMAIN groups' /\ groups'[g] = groups[g]
  BY DEF OthersKept
<1>2. /\ \A w \in Frame, k \in 0..MaxFrames :
           <<g, k>> # User => (serves'[w] = <<g, k>> <=> serves[w] = <<g, k>>)
      /\ \A w \in Frame : serves'[w][1] = g /\ g # 0 <=> serves[w][1] = g /\ g # 0
  BY DEF OthersKept, User
<1>3. \A p \in Frame : Joins(p, g)' <=> Joins(p, g)
  BY DEF OthersKept, Joins, ParentKept, AtGroup
<1>4. ASSUME g \in DOMAIN groups PROVE GroupOK(g)'
  <2>1. GroupOK(g) /\ g # 0
    BY <1>4, GroupTypes DEF GroupsOK
  <2>2. /\ groups[g].parent \in Frame
        /\ \A i \in 1..Len(groups[g].kids) : groups[g].kids[i] \in Frame
    BY <1>4, GroupTypes
  <2>3. /\ at'[groups[g].parent] # "free"
        /\ \A i \in 1..Len(groups[g].kids) : at'[groups[g].kids[i]] # "free"
    BY <2>1, <2>2 DEF OthersKept, GroupOK
  <2>4. \E f \in Frame : serves'[f][1] = g \/ (at'[f] = "fork" /\ waits'[f] = g)
    BY <1>2, <2>1 DEF GroupOK, OthersKept, ParentKept, AtGroup
  <2> QED
    BY <1>1, <1>4, <2>1, <2>3, <2>4 DEF GroupOK
<1>5. ASSUME NEW w \in Frame, NEW k \in 0..MaxFrames, serves[w] = <<g, k>>, <<g, k>> # User
      PROVE  WrapperOK(w, g, k)'
  <2>1. WrapperOK(w, g, k)
    BY <1>5 DEF WrappersOK
  <2>2. g \in DOMAIN groups /\ k \in 1..Len(groups[g].kids)
    BY <2>1 DEF WrapperOK
  <2>3. PICK p, c \in Frame : p = groups[g].parent /\ c = groups[g].kids[k]
    BY <2>2, GroupTypes
  <2>4. /\ Joins(p, g)' <=> Joins(p, g)
        /\ Joins(p, g) => AtGroup(p) /\ waits[p] = g
    BY <1>3 DEF Joins, AtGroup
  <2>5. WrapperKept(w) /\ serves[w] # User /\ serves[w][1] = g
    <3>1. serves[w] # User /\ serves[w][1] = g
      BY <1>5
    <3> QED
      BY <3>1 DEF OthersKept
  <2>6. at'[w] = "initial" => /\ groups[g].kind = "any" => Waiting(c, w)'
                              /\ groups[g].kind # "any" => Waiting(c, p)'
    <3>1. ASSUME at'[w] = "initial" PROVE at[w] = "initial" /\ Alive(w)
      BY <2>5, <3>1 DEF Alive, WrapperKept
    <3>2. ASSUME at'[w] = "initial", groups[g].kind = "any" PROVE Waiting(c, w)'
      <4>1. Waiting(c, w)
        BY <2>1, <2>3, <3>1, <3>2 DEF WrapperOK
      <4> QED
        BY <4>1, <2>5 DEF OthersKept
    <3>3. ASSUME at'[w] = "initial", groups[g].kind # "any" PROVE Waiting(c, p)'
      <4>1. Waiting(c, p) /\ Joins(p, g)
        BY <2>1, <2>3, <3>1, <3>3 DEF WrapperOK
      <4> QED
        BY <4>1, <2>4 DEF OthersKept
    <3> QED
      BY <3>2, <3>3
  <2>7. at'[w] \in {"initial", "task", "body", "final", "destroyed"}
    BY <2>5 DEF WrapperKept
  <2>8. Alive(w)' => /\ detached'[w] = (groups[g].kind = "any") /\ cont'[w] = NoFrame
                     /\ owner'[w] = IF groups[g].kind = "any" THEN NoFrame ELSE p
                     /\ ~(groups[g].kind = "any") => Joins(p, g)'
    BY <2>1, <2>3, <2>4, <2>5 DEF WrapperOK, WrapperKept
  <2>9. at'[w] \in {"initial", "task", "body"} => at[w] \in {"initial", "task", "body"}
    BY <2>1, <2>5 DEF WrapperOK, WrapperKept
  <2>10. at'[w] = "final" => exc'[w] = NoFrame
    BY <2>1, <2>5 DEF WrapperOK, WrapperKept
  <2> QED
    BY <1>1, <2>1, <2>2, <2>3, <2>4, <2>6, <2>7, <2>8, <2>9, <2>10 DEF WrapperOK, Waiting
<1>6. ASSUME NEW p \in Frame, Joins(p, g)
      PROVE  ForkOK(p, g)' /\ CountOK(p, g)'
  <2>1. /\ ForkOK(p, g) /\ CountOK(p, g) /\ ParentKept(p) /\ AtGroup(p) /\ waits[p] = g
        /\ g \in DOMAIN groups /\ g # 0
    <3>1. ForkOK(p, g) /\ CountOK(p, g) /\ g \in DOMAIN groups
      BY <1>6 DEF ForksOK, CountsOK, ForkOK
    <3>2. g # 0
      BY <3>1, GroupTypes
    <3> QED
      BY <1>6, <3>1, <3>2 DEF Joins, AtGroup, OthersKept
  <2>2. Wrappers(g)' = Wrappers(g)
    BY <1>2, <2>1 DEF Wrappers
  <2>3. ASSUME NEW k \in 1..Len(groups[g].kids)
        PROVE  /\ k \in 0..MaxFrames => (Reported(g, k)' <=> Reported(g, k))
               /\ k \in 0..MaxFrames =>
                    \A w \in Frame : serves'[w] = <<g, k>> <=> serves[w] = <<g, k>>
    <3>1. ASSUME k \in 0..MaxFrames
          PROVE  \A w \in Frame :
                   /\ serves'[w] = <<g, k>> <=> serves[w] = <<g, k>>
                   /\ serves[w] = <<g, k>> =>
                        (at'[w] \in {"final", "destroyed"} <=> at[w] \in {"final", "destroyed"})
      <4>1. <<g, k>> # User
        BY <2>1 DEF User
      <4> QED
        <5>1. \A w \in Frame : serves[w] = <<g, k>> => serves[w] # User /\ serves[w][1] = g
          BY <4>1
        <5>2. \A w \in Frame : serves[w] = <<g, k>> => WrapperKept(w)
          BY <5>1 DEF OthersKept
        <5> QED
          BY <1>2, <3>1, <4>1, <5>2 DEF WrapperKept
    <3> QED
      BY <3>1 DEF Reported
  <2>4. Len(groups[g].kids) <= MaxFrames
    BY <2>1, KidsBounded
  <2>5. \A k \in 1..Len(groups[g].kids) :
          /\ Reported(g, k)' <=> Reported(g, k)
          /\ \A w \in Frame : serves'[w] = <<g, k>> <=> serves[w] = <<g, k>>
    BY <2>1, <2>3, <2>4, GroupTypes, BoundAssumption
  <2>6. CountOK(p, g)'
    <3>1. Pending(g)' = Pending(g)
      BY <1>1, <2>1, <2>5 DEF Pending
    <3> QED
      BY <1>1, <2>1, <2>5, <3>1 DEF CountOK, ParentKept
  <2>7. ForkOK(p, g)'
    <3>1. ASSUME NEW k \in 1..Len(groups[g].kids), k > Cardinality(Wrappers(g)), NEW c,
                 c = groups[g].kids[k]
          PROVE  Waiting(c, p)'
      <4>1. Waiting(c, p)
        BY <2>1, <3>1 DEF ForkOK
      <4>2. c \in Frame
        BY <2>1, <3>1, GroupTypes
      <4> QED
        BY <2>1, <4>1, <4>2 DEF OthersKept
    <3>2. \A k \in 1..Len(groups[g].kids) :
            k > Cardinality(Wrappers(g))' =>
              /\ at'[groups[g].kids[k]] = "initial" /\ serves'[groups[g].kids[k]] = User
              /\ owner'[groups[g].kids[k]] = p /\ cont'[groups[g].kids[k]] = NoFrame
              /\ groups[g].kids[k] # current'
      BY <2>2, <3>1 DEF Waiting
    <3>3. Allocated' = Allocated \/ at'[p] # "fork"
      BY <2>1 DEF OthersKept, ParentKept
    <3>4. \A k \in 1..Len(groups[g].kids) :
            (\E w \in Frame : serves'[w] = <<g, k>>) <=> (\E w \in Frame : serves[w] = <<g, k>>)
      BY <2>5
    <3> QED
      BY <1>1, <2>1, <2>2, <3>2, <3>3, <3>4 DEF ForkOK, Waiting, ParentKept
  <2> QED
    BY <2>6, <2>7
<1>7. ASSUME NEW f \in Frame, NEW p \in Frame, Joins(p, g), at'[f] = "initial",
             serves'[f] = User, owner'[f] = p
      PROVE  Unclaimed(f, g)'
  <2>1. at[f] = "initial" /\ serves[f] = User /\ owner[f] = p
    BY <1>7 DEF Joins, AtGroup, OthersKept
  <2>2. Unclaimed(f, g) /\ g \in DOMAIN groups
    BY <1>7, <2>1 DEF KidsOK, ForksOK, ForkOK
  <2>3. PICK k \in 1..Len(groups[g].kids) :
           /\ f = groups[g].kids[k]
           /\ \A w \in Frame : serves[w] = <<g, k>> =>
                groups[g].kind = "all" /\ at[w] = "initial"
    BY <2>2 DEF Unclaimed
  <2>4. <<g, k>> # User /\ k \in 0..MaxFrames
    BY <2>2, KidsBounded, GroupTypes, BoundAssumption DEF User
  <2>5. ASSUME NEW w \in Frame, serves'[w] = <<g, k>>
        PROVE  groups[g].kind = "all" /\ at'[w] = "initial"
    <3>1. serves[w] = <<g, k>>
      BY <1>2, <2>4, <2>5
    <3> QED
      <4>1. serves[w] # User /\ serves[w][1] = g
        BY <2>4, <3>1
      <4>2. WrapperKept(w)
        BY <4>1 DEF OthersKept
      <4> QED
        BY <2>3, <3>1, <4>2 DEF WrapperKept
  <2> QED
    BY <1>1, <2>2, <2>3, <2>5 DEF Unclaimed
<1> QED
  BY <1>2, <1>3, <1>4, <1>5, <1>6, <1>7 DEF GroupFine

\* A step that touches no group.
GroupsKept ==
  /\ UNCHANGED <<serves, groups>>
  /\ \A f \in Frame : at[f] # "free" => at'[f] # "free"
  /\ \A p \in Frame : at'[p] = "fork" => Allocated' = Allocated
  /\ \A w \in Frame : serves[w] # User => WrapperKept(w)
  /\ \A p \in Frame : AtGroup(p) \/ AtGroup(p)' => ParentKept(p)
  /\ \A c, o \in Frame :
       Waiting(c, o) /\ (AtGroup(o) \/ serves[o] # User) => Waiting(c, o)'
  /\ \A f, p \in Frame :
       at'[f] = "initial" /\ serves[f] = User /\ owner'[f] = p /\ AtGroup(p)
         => at[f] = "initial" /\ owner[f] = p

\* A step that disturbs no group.
LEMMA GroupsUndisturbed ==
  ASSUME TypeOK, GroupsOK, WrappersOK, ForksOK, KidsOK, CountsOK, GroupsKept
  PROVE  GroupsOK' /\ WrappersOK' /\ ForksOK' /\ KidsOK' /\ CountsOK'
<1>1. OthersKept(MaxFrames + 1)
  BY DEF GroupsKept, OthersKept
<1>2. \A g \in 0..MaxFrames : GroupFine(g)' /\ (g \in DOMAIN groups => GroupOK(g)')
  BY <1>1, OtherGroups, BoundAssumption
<1>3. OneWrapperPerSlot'
  BY DEF GroupsKept, OneWrapperPerSlot, WrappersOK
<1>4. DOMAIN groups \subseteq 0..MaxFrames
  BY GroupsBounded
<1> QED
  BY <1>2, <1>3, <1>4, GroupByGroup DEF GroupsOK, GroupsKept

\* A user's coroutine starts, or goes on after a timer or an event.
LEMMA ResumeKeeps ==
  ASSUME Inv, Resume
  PROVE  Inv' /\ UNCHANGED loopVars
<1> USE DEF Inv, FramesOK
<1>1. /\ current \in Frame /\ at[current] \in {"initial", "timer", "event"}
      /\ serves[current] = User /\ at \in [Frame -> Place]
  BY DEF Resume, TypeOK, Loop!TypeOK
<1>2. /\ \A f \in Frame : at'[f] = IF f = current THEN "body" ELSE at[f]
      /\ at' = [at EXCEPT ![current] = "body"]
  BY <1>1 DEF Resume
<1>3. UNCHANGED <<loopVars, owner, cont, detached, exc, waits, serves, groups, hostVars>>
  BY DEF Resume
<1>4. UNCHANGED <<ready, timers, now, mode, current, budget, batch, root, terminated,
                  owner, cont, detached, exc, waits, serves, groups>>
  BY <1>3 DEF loopVars, hostVars
<1>5. TypeOK'
  <2>1. Loop!TypeOK'
    BY <1>4 DEF TypeOK, Loop!TypeOK
  <2> QED
    BY <2>1, <1>1, <1>2, <1>4 DEF TypeOK, Place
<1>6. /\ LoopInv' /\ Loop!Registered' = Loop!Registered /\ current \notin Loop!Registered
      /\ \A f : Loop!Suspended(f)' = Loop!Suspended(f)
  BY <1>3, <1>4, LoopInvStep, LoopMeans DEF Loop!Registered, Loop!Suspended
<1>7. Allocated' = Allocated /\ \A f \in Frame : Alive(f)' = Alive(f)
  BY <1>1, <1>2, SameAllocated DEF Alive
<1>8. FreshOK'
  BY <1>1, <1>2, <1>4, <1>7 DEF FreshOK, TypeOK
<1>9. OneOwner'
  BY <1>1, <1>2, <1>4 DEF OneOwner, Alive
<1>10. PlacesOK'
  BY <1>1, <1>2, <1>4, <1>6, <1>7 DEF PlacesOK, Alive
<1>11. UnstartedOK'
  BY <1>1, <1>2, <1>4, <1>6 DEF UnstartedOK
<1>12. AwaitOK'
  BY <1>1, <1>2, <1>4 DEF AwaitOK, Awaits, Alive
<1>13. ContOK'
  BY <1>1, <1>2, <1>4 DEF ContOK, Alive, TypeOK
<1>14. OwnsOK'
  <2> SUFFICES ASSUME NEW f \in Frame, NEW o \in Frame, Alive(f), owner[f] = o
               PROVE  Owns(o, f)'
    BY <1>4, <1>7 DEF OwnsOK
  <2>1. Owns(o, f)
    BY DEF OwnsOK
  <2>2. CASE f = current /\ at[f] = "initial"
    <3>1. o # NoFrame /\ ~Loop!Suspended(f)
      BY <2>2 DEF Loop!Suspended, NoFrame, Frame
    <3>2. cont[f] = o
      BY <1>1, <2>2, <3>1 DEF UnstartedOK
    <3>3. at[o] = "task" /\ waits[o] = f
      BY <3>2 DEF ContOK
    <3> QED
      BY <1>1, <1>2, <1>4, <3>3 DEF Owns
  <2>3. CASE f # current \/ at[f] # "initial"
    BY <1>1, <1>2, <1>4, <2>1, <2>3 DEF Owns, Child
  <2> QED
    BY <2>2, <2>3
<1>15. RootOK'
  BY <1>1, <1>2, <1>4 DEF RootOK, Alive
<1>16. GroupsOK' /\ WrappersOK' /\ ForksOK' /\ KidsOK' /\ CountsOK'
  <2>1. GroupsKept
    <3>1. \A w \in Frame : serves[w] # User => WrapperKept(w)
      BY <1>1, <1>2, <1>4, <1>7, WrapperIs DEF WrapperKept
    <3> QED
      BY <1>1, <1>2, <1>4, <1>6, <1>7, <3>1 DEF GroupsKept, ParentKept, AtGroup, Waiting
  <2> QED
    BY <2>1, GroupsUndisturbed
<1> QED
  BY <1>3, <1>5, <1>6, <1>8, <1>9, <1>10, <1>11, <1>12, <1>13, <1>14, <1>15, <1>16

\* The coroutine whose body runs, and the tasks that it holds.
LEMMA BodyIs ==
  ASSUME Inv, InBody
  PROVE  /\ current \in Frame /\ current # NoFrame /\ at[current] = "body" /\ serves[current] = User
         /\ Alive(current) /\ ~terminated /\ current \notin Loop!Registered
         /\ \A t \in Frame : at[t] = "initial" /\ owner[t] = current =>
              /\ t # current /\ Loop!Suspended(t) /\ serves[t] = User /\ cont[t] = NoFrame
              /\ ~detached[t] /\ t # root /\ t \notin Loop!Registered
<1> USE DEF Inv, FramesOK
<1>1. /\ current \in Frame /\ current # NoFrame /\ at[current] = "body" /\ serves[current] = User
      /\ Alive(current) /\ ~terminated /\ current \notin Loop!Registered
  BY LoopMeans DEF InBody, Alive, PlacesOK
<1> SUFFICES ASSUME NEW t \in Frame, at[t] = "initial", owner[t] = current
             PROVE  /\ t # current /\ Loop!Suspended(t) /\ serves[t] = User /\ cont[t] = NoFrame
                    /\ ~detached[t] /\ t # root /\ t \notin Loop!Registered
  BY <1>1
<1>2. Alive(t) /\ t # current
  BY <1>1 DEF Alive
<1>3. ~detached[t] /\ t # root
  BY <1>1, <1>2 DEF OneOwner
<1>4. serves[t] = User
  BY <1>1, <1>2 DEF OwnsOK, Owns
<1>5. Loop!Suspended(t)
  BY <1>1, <1>2, <1>4 DEF UnstartedOK
<1>6. cont[t] = NoFrame
  BY <1>1, <1>2 DEF ContOK, AwaitOK, Awaits, TypeOK
<1> QED
  BY <1>1, <1>2, <1>3, <1>4, <1>5, <1>6 DEF Loop!Suspended

\* The body throws, or handles what is thrown, without leaving.
LEMMA ThrowKeeps ==
  ASSUME Inv, AwaitEmpty \/ Catch
  PROVE  Inv' /\ UNCHANGED loopVars
<1> USE DEF Inv, FramesOK
<1>1. /\ InBody /\ exc' \in [Frame -> Frame \cup {NoFrame}]
      /\ \A f \in Frame : f # current => exc'[f] = exc[f]
  <2>1. InBody /\ current \in Frame
    BY BodyIs DEF AwaitEmpty, Catch, Normal
  <2>2. \E e \in Frame \cup {NoFrame} : exc' = [exc EXCEPT ![current] = e]
    BY <2>1 DEF AwaitEmpty, Catch
  <2> QED
    BY <2>1, <2>2 DEF TypeOK
<1>2. UNCHANGED <<loopVars, at, owner, cont, detached, waits, serves, groups, hostVars>>
  BY DEF AwaitEmpty, Catch
<1>3. UNCHANGED <<ready, timers, now, mode, current, budget, batch, root, terminated,
                  at, owner, cont, detached, waits, serves, groups>>
  BY <1>2 DEF loopVars, hostVars
<1>4. TypeOK'
  <2>1. Loop!TypeOK'
    BY <1>3 DEF TypeOK, Loop!TypeOK
  <2> QED
    BY <2>1, <1>1, <1>3 DEF TypeOK
<1>5. /\ LoopInv' /\ Loop!Registered' = Loop!Registered
      /\ \A f : Loop!Suspended(f)' = Loop!Suspended(f)
  BY <1>2, <1>3, LoopInvStep DEF Loop!Registered, Loop!Suspended
<1>6. Allocated' = Allocated /\ \A f \in Frame : Alive(f)' = Alive(f)
  BY <1>3 DEF Allocated, Alive
<1>7. FreshOK' /\ OneOwner' /\ RootOK' /\ PlacesOK'
  BY <1>3, <1>5, <1>6 DEF FreshOK, OneOwner, RootOK, PlacesOK, Alive
<1>8. UnstartedOK' /\ AwaitOK' /\ ContOK' /\ OwnsOK'
  BY <1>3, <1>5 DEF UnstartedOK, AwaitOK, Awaits, ContOK, OwnsOK, Owns, Child, Alive
<1>9. GroupsOK' /\ WrappersOK' /\ ForksOK' /\ KidsOK' /\ CountsOK'
  <2>1. GroupsKept
    <3>1. \A w \in Frame : serves[w] # User => WrapperKept(w)
      BY <1>1, <1>3, <1>6, WrapperIs, BodyIs DEF WrapperKept
    <3>2. \A c, o : Waiting(c, o)' = Waiting(c, o)
      BY <1>3 DEF Waiting
    <3> QED
      BY <1>3, <1>5, <1>6, <3>1, <3>2 DEF GroupsKept, ParentKept, AtGroup
  <2> QED
    BY <2>1, GroupsUndisturbed
<1> QED
  BY <1>2, <1>4, <1>5, <1>7, <1>8, <1>9

\* The body calls a coroutine.
LEMMA CallTaskKeeps ==
  ASSUME Inv, CallTask
  PROVE  Inv' /\ UNCHANGED loopVars
<1> USE DEF Inv, FramesOK
<1>1. InBody
  BY DEF CallTask, Normal
<1>2. PICK n \in Frame :
        /\ at[n] = "free" /\ n = Allocated + 1
        /\ at' = [at EXCEPT ![n] = "initial"] /\ owner' = [owner EXCEPT ![n] = current]
        /\ serves' = [serves EXCEPT ![n] = User]
  BY NewFrameIsFree DEF CallTask, Call
<1>3. /\ owner[n] = NoFrame /\ cont[n] = NoFrame /\ ~detached[n] /\ serves[n] = User
      /\ n # root /\ n # current /\ \A f \in Frame : owner[f] # n
      /\ n \notin Loop!Registered
  BY <1>2 DEF FreshOK, PlacesOK, NoFrame, Frame
<1>4. UNCHANGED <<loopVars, serves, cont, detached, exc, waits, groups, hostVars>>
  BY <1>2, <1>3 DEF CallTask, TypeOK
<1>5. UNCHANGED <<ready, timers, now, mode, current, budget, batch, root, terminated,
                  cont, detached, exc, waits, serves, groups>>
  BY <1>4 DEF loopVars, hostVars
<1>6. /\ \A f \in Frame : at'[f] = IF f = n THEN "initial" ELSE at[f]
      /\ \A f \in Frame : owner'[f] = IF f = n THEN current ELSE owner[f]
  BY <1>2 DEF TypeOK
<1>7. TypeOK'
  <2>1. Loop!TypeOK'
    BY <1>5 DEF TypeOK, Loop!TypeOK
  <2> QED
    BY <2>1, <1>1, <1>2, <1>5, BodyIs DEF TypeOK, Place
<1>8. /\ LoopInv' /\ Loop!Registered' = Loop!Registered
      /\ \A f : Loop!Suspended(f)' = Loop!Suspended(f)
  BY <1>4, <1>5, LoopInvStep DEF Loop!Registered, Loop!Suspended
<1>9. Allocated' = Allocated + 1 /\ Allocated + 1 \in 0..MaxFrames
  BY <1>2, <1>7, OneMoreAllocated DEF TypeOK, Place
<1>10. FreshOK'
  BY <1>1, <1>2, <1>3, <1>5, <1>6, <1>9, BodyIs DEF FreshOK, Frame
<1>11. OneOwner' /\ PlacesOK' /\ RootOK'
  BY <1>1, <1>2, <1>3, <1>5, <1>6, <1>8, BodyIs DEF OneOwner, PlacesOK, RootOK, Alive
<1>12. UnstartedOK'
  BY <1>2, <1>3, <1>5, <1>6, <1>8 DEF UnstartedOK, Loop!Suspended
<1>13. AwaitOK' /\ ContOK'
  <2>1. \A f, o \in Frame : Awaits(o, f) => Awaits(o, f)'
    BY <1>2, <1>3, <1>5, <1>6 DEF Awaits, Alive
  <2>2. ASSUME NEW o \in Frame, at'[o] = "task", NEW f, waits'[o] = f
        PROVE  f \in Frame /\ Awaits(o, f)'
    <3>1. at[o] = "task" /\ waits[o] = f
      BY <1>2, <1>5, <1>6, <2>2
    <3>2. f \in Frame /\ Awaits(o, f)
      BY <3>1 DEF AwaitOK
    <3> QED
      BY <2>1, <3>1, <3>2
  <2>3. ContOK'
    BY <1>2, <1>3, <1>5, <1>6 DEF ContOK, Alive, NoFrame, Frame
  <2> QED
    BY <2>2, <2>3 DEF AwaitOK
<1>14. OwnsOK'
  BY <1>1, <1>2, <1>3, <1>5, <1>6, BodyIs DEF OwnsOK, Owns, Child, Alive
<1>15. GroupsOK' /\ WrappersOK' /\ ForksOK' /\ KidsOK' /\ CountsOK'
  <2>1. GroupsKept
    <3>1. \A w \in Frame : serves[w] # User => WrapperKept(w)
      BY <1>3, <1>5, <1>6, WrapperIs DEF WrapperKept, Alive
    <3> QED
      BY <1>1, <1>2, <1>3, <1>5, <1>6, <1>8, <3>1, BodyIs
         DEF GroupsKept, ParentKept, AtGroup, Waiting, PlacesOK
  <2> QED
    BY <2>1, GroupsUndisturbed
<1> QED
  BY <1>4, <1>7, <1>8, <1>10, <1>11, <1>12, <1>13, <1>14, <1>15

\* The body calls a coroutine with tasks that it holds.
LEMMA CallWithKeeps ==
  ASSUME Inv, NEW tasks \in SUBSET Held, CallWith(tasks)
  PROVE  Inv' /\ UNCHANGED loopVars
<1> USE DEF Inv, FramesOK
<1>1. InBody
  BY DEF CallWith, Normal
<1>2. PICK n \in Frame :
        /\ at[n] = "free" /\ n = Allocated + 1
        /\ at' = [at EXCEPT ![n] = "initial"]
        /\ owner' = [f \in Frame |-> IF f = n THEN current
                                     ELSE IF f \in tasks THEN n ELSE owner[f]]
  BY NewFrameIsFree DEF CallWith
<1>3. /\ owner[n] = NoFrame /\ cont[n] = NoFrame /\ ~detached[n] /\ serves[n] = User
      /\ n # root /\ n # current /\ \A f \in Frame : owner[f] # n
      /\ n \notin Loop!Registered /\ n # NoFrame
  BY <1>2 DEF FreshOK, PlacesOK, NoFrame, Frame
<1>4. UNCHANGED <<loopVars, serves, cont, detached, exc, waits, groups, hostVars>>
  BY DEF CallWith
<1>5. UNCHANGED <<ready, timers, now, mode, current, budget, batch, root, terminated,
                  cont, detached, exc, waits, serves, groups>>
  BY <1>4 DEF loopVars, hostVars
<1>6. \A f \in tasks :
        /\ f \in Frame /\ at[f] = "initial" /\ owner[f] = current /\ f # n
        /\ f # current /\ Loop!Suspended(f) /\ serves[f] = User /\ cont[f] = NoFrame
        /\ ~detached[f] /\ f # root
  BY <1>1, <1>2, BodyIs DEF Held
<1>7. /\ \A f \in Frame : at'[f] = IF f = n THEN "initial" ELSE at[f]
      /\ \A f \in Frame : owner'[f] = IF f = n THEN current
                                      ELSE IF f \in tasks THEN n ELSE owner[f]
  BY <1>2 DEF TypeOK
<1>8. TypeOK'
  <2>1. Loop!TypeOK'
    BY <1>5 DEF TypeOK, Loop!TypeOK
  <2> QED
    BY <2>1, <1>1, <1>2, <1>5, BodyIs DEF TypeOK, Place
<1>9. /\ LoopInv' /\ Loop!Registered' = Loop!Registered
      /\ \A f : Loop!Suspended(f)' = Loop!Suspended(f)
  BY <1>4, <1>5, LoopInvStep DEF Loop!Registered, Loop!Suspended
<1>10. Allocated' = Allocated + 1 /\ Allocated + 1 \in 0..MaxFrames
  BY <1>2, <1>8, OneMoreAllocated DEF TypeOK, Place
<1>11. FreshOK'
  BY <1>1, <1>2, <1>3, <1>5, <1>6, <1>7, <1>10, BodyIs DEF FreshOK, Frame
<1>12. OneOwner' /\ PlacesOK' /\ RootOK'
  BY <1>1, <1>2, <1>3, <1>5, <1>6, <1>7, <1>9, BodyIs DEF OneOwner, PlacesOK, RootOK, Alive
<1>13. UnstartedOK'
  BY <1>2, <1>3, <1>5, <1>6, <1>7, <1>9 DEF UnstartedOK, Loop!Suspended
<1>14. AwaitOK' /\ ContOK'
  <2>1. \A f, o \in Frame : at[o] = "task" /\ Awaits(o, f) => Awaits(o, f)'
    BY <1>1, <1>2, <1>3, <1>5, <1>6, <1>7, BodyIs DEF Awaits, Alive
  <2>2. ASSUME NEW o \in Frame, at'[o] = "task", NEW f, waits'[o] = f
        PROVE  f \in Frame /\ Awaits(o, f)'
    <3>1. at[o] = "task" /\ waits[o] = f
      BY <1>2, <1>5, <1>6, <1>7, <2>2
    <3>2. f \in Frame /\ Awaits(o, f)
      BY <3>1 DEF AwaitOK
    <3> QED
      BY <2>1, <3>1, <3>2
  <2>3. ContOK'
    BY <1>2, <1>3, <1>5, <1>6, <1>7 DEF ContOK, Alive, NoFrame, Frame
  <2> QED
    BY <2>2, <2>3 DEF AwaitOK
<1>15. OwnsOK'
  BY <1>1, <1>2, <1>3, <1>5, <1>6, <1>7, BodyIs DEF OwnsOK, Owns, Child, Alive
<1>16. GroupsOK' /\ WrappersOK' /\ ForksOK' /\ KidsOK' /\ CountsOK'
  <2>1. GroupsKept
    <3>1. \A w \in Frame : serves[w] # User => WrapperKept(w)
      BY <1>3, <1>5, <1>6, <1>7, WrapperIs DEF WrapperKept, Alive
    <3> QED
      BY <1>1, <1>2, <1>3, <1>5, <1>6, <1>7, <1>9, <3>1, BodyIs
         DEF GroupsKept, ParentKept, AtGroup, Waiting, PlacesOK
  <2> QED
    BY <2>1, GroupsUndisturbed
<1> QED
  BY <1>4, <1>8, <1>9, <1>11, <1>12, <1>13, <1>14, <1>15, <1>16

\* The body awaits a task.
LEMMA AwaitTaskKeeps ==
  ASSUME Inv, NEW t \in Frame, AwaitTask(t)
  PROVE  Inv' /\ Loop!Next
<1> USE DEF Inv, FramesOK
<1>1. InBody /\ at[t] = "initial" /\ owner[t] = current
  BY DEF AwaitTask, Normal, Held
<1>2. PICK o \in Frame : o = current
  BY <1>1, BodyIs
<1>3. /\ o # NoFrame /\ at[o] = "body" /\ serves[o] = User /\ Alive(o)
      /\ ~terminated /\ o \notin Loop!Registered /\ t # o /\ Loop!Suspended(t)
      /\ serves[t] = User /\ cont[t] = NoFrame /\ ~detached[t] /\ t # root
      /\ t \notin Loop!Registered
  BY <1>2, <1>1, BodyIs
<1>4. UNCHANGED <<ready, timers, now, mode, budget, batch, root, terminated,
                  owner, detached, exc, serves, groups>>
  BY DEF AwaitTask, hostVars
<1>5. /\ current' = t
      /\ \A f \in Frame : at'[f] = IF f = o THEN "task" ELSE at[f]
      /\ \A f \in Frame : waits'[f] = IF f = o THEN t ELSE waits[f]
      /\ \A f \in Frame : cont'[f] = IF f = t THEN o ELSE cont[f]
  BY <1>2, <1>3 DEF AwaitTask, TypeOK
<1>6. Loop!Next /\ LoopInv' /\ Loop!Registered' = Loop!Registered
  BY <1>2, <1>3, <1>4, <1>5, LoopTransfers
<1>7. TypeOK'
  BY <1>2, <1>3, <1>4, <1>6, LoopTyped DEF AwaitTask, TypeOK, Place, Frame
<1>8. Allocated' = Allocated
  BY <1>2, <1>3, <1>5, SameAllocated
<1>9. FreshOK'
  <2>1. \A f \in Frame : at'[f] = "free" <=> at[f] = "free"
    BY <1>1, <1>3, <1>5
  <2>2. \A f \in Frame : at[f] = "free" => cont'[f] = NoFrame /\ f # current'
    BY <1>1, <1>5 DEF FreshOK
  <2>3. \A f \in Frame : owner[f] # NoFrame => owner[f] \in Frame
    BY DEF TypeOK, Place, Frame, NoFrame
  <2> QED
    BY <1>4, <1>8, <2>1, <2>2, <2>3 DEF FreshOK
<1>10. OneOwner' /\ RootOK'
  BY <1>2, <1>1, <1>3, <1>4, <1>5 DEF OneOwner, RootOK, Alive
<1>11. PlacesOK'
  <2>1. \A f \in Frame : at'[f] \in {"body", "fork"} => f = current'
    BY <1>2, <1>3, <1>5 DEF PlacesOK
  <2>2. \A f \in Loop!Registered' : at'[f] \in {"initial", "timer", "event", "group"}
    BY <1>2, <1>3, <1>5, <1>6, LoopMeans DEF PlacesOK
  <2>3. Alive(t)'
    BY <1>1, <1>3, <1>5 DEF Alive
  <2> QED
    BY <1>2, <1>3, <1>4, <1>5, <2>1, <2>2, <2>3 DEF PlacesOK, Alive
<1>12. UnstartedOK'
  BY <1>2, <1>1, <1>3, <1>4, <1>5, <1>6 DEF UnstartedOK, Loop!Suspended
<1>13. AwaitOK'
  <2> SUFFICES ASSUME NEW p \in Frame, at'[p] = "task", NEW f, waits'[p] = f
               PROVE  f \in Frame /\ Awaits(p, f)'
    BY DEF AwaitOK
  <2>1. CASE p = o
    BY <1>2, <1>1, <1>3, <1>4, <1>5, <2>1 DEF Awaits, Alive
  <2>2. CASE p # o
    <3>1. f \in Frame /\ at[p] = "task" /\ Awaits(p, f)
      BY <1>5, <2>2 DEF AwaitOK
    <3> QED
      BY <1>2, <1>1, <1>3, <1>4, <1>5, <2>2, <3>1 DEF Awaits, Alive
  <2> QED
    BY <2>1, <2>2
<1>14. ContOK'
  <2> SUFFICES ASSUME NEW f \in Frame, NEW p \in Frame, Alive(f)', cont'[f] = p
               PROVE  at'[p] = "task" /\ waits'[p] = f
    BY DEF ContOK
  <2>1. Alive(f)
    BY <1>3, <1>5 DEF Alive
  <2> QED
    BY <1>3, <1>5, <2>1 DEF ContOK
<1>15. OwnsOK'
  <2> SUFFICES ASSUME NEW f \in Frame, NEW p \in Frame, Alive(f)', owner[f] = p
               PROVE  Owns(p, f)'
    BY <1>4 DEF OwnsOK
  <2>1. Alive(f) /\ Owns(p, f)
    BY <1>3, <1>5 DEF Alive, OwnsOK
  <2> QED
    BY <1>2, <1>1, <1>3, <1>4, <1>5, <2>1 DEF Owns, Child
<1>16. GroupsOK' /\ WrappersOK' /\ ForksOK' /\ KidsOK' /\ CountsOK'
  <2>1. GroupsKept
    <3>1. \A w \in Frame : serves[w] # User => WrapperKept(w)
      BY <1>2, <1>3, <1>4, <1>5, WrapperIs DEF WrapperKept, Alive
    <3>2. \A p \in Frame : AtGroup(p) \/ AtGroup(p)' => ParentKept(p)
      BY <1>2, <1>1, <1>3, <1>4, <1>5, <1>6 DEF ParentKept, AtGroup, Loop!Suspended
    <3>3. \A c, p \in Frame :
            Waiting(c, p) /\ (AtGroup(p) \/ serves[p] # User) => Waiting(c, p)'
      BY <1>2, <1>1, <1>3, <1>4, <1>5, <1>6 DEF AtGroup, Waiting
    <3> QED
      BY <1>2, <1>3, <1>4, <1>5, <1>8, <3>1, <3>2, <3>3 DEF GroupsKept, AtGroup
  <2> QED
    BY <2>1, GroupsUndisturbed
<1> QED
  BY <1>6, <1>7, <1>9, <1>10, <1>11, <1>12, <1>13, <1>14, <1>15, <1>16

\* The body hands a task to the scheduler.
LEMMA SpawnKeeps ==
  ASSUME Inv, NEW t \in Frame, Spawn(t)
  PROVE  Inv' /\ Loop!Next
<1> USE DEF Inv, FramesOK
<1>1. InBody /\ at[t] = "initial" /\ owner[t] = current
  BY DEF Spawn, Normal, Held
<1>2. /\ current \in Frame /\ current # NoFrame /\ at[current] = "body" /\ serves[current] = User
      /\ t # current /\ Loop!Suspended(t) /\ ~terminated
      /\ serves[t] = User /\ cont[t] = NoFrame /\ ~detached[t] /\ t # root
  BY <1>1, BodyIs
<1>3. UNCHANGED <<timers, now, mode, current, budget, batch, root, terminated,
                  at, cont, exc, waits, serves, groups>>
  BY DEF Spawn, hostVars
<1>4. /\ \A f \in Frame : owner'[f] = IF f = t THEN NoFrame ELSE owner[f]
      /\ \A f \in Frame : detached'[f] = IF f = t THEN TRUE ELSE detached[f]
  BY DEF Spawn, TypeOK
<1>5. Loop!Next /\ LoopInv' /\ Loop!Registered' = Loop!Registered \cup {t}
  <2>1. ready' = Append(ready, t) /\ Loop!CanCall
    BY <1>2 DEF Spawn, Loop!CanCall
  <2> QED
    BY <1>2, <1>3, <2>1, LoopPosts
<1>6. TypeOK'
  BY <1>3, <1>5, LoopTyped DEF Spawn, TypeOK
<1>7. Allocated' = Allocated /\ \A f \in Frame : Alive(f)' = Alive(f)
  BY <1>3 DEF Allocated, Alive
<1>8. FreshOK'
  BY <1>1, <1>3, <1>4, <1>7 DEF FreshOK
<1>9. OneOwner' /\ RootOK'
  BY <1>1, <1>2, <1>3, <1>4 DEF OneOwner, RootOK, Alive, TypeOK
<1>10. PlacesOK'
  BY <1>1, <1>2, <1>3, <1>5, <1>7 DEF PlacesOK, Alive
<1>11. UnstartedOK'
  BY <1>1, <1>3, <1>4, <1>5 DEF UnstartedOK, Loop!Suspended
<1>12. AwaitOK'
  BY <1>1, <1>2, <1>3, <1>4, <1>7 DEF AwaitOK, Awaits
<1>13. ContOK' /\ OwnsOK'
  <2>1. \A f, o \in Frame : Owns(o, f)' = Owns(o, f)
    BY <1>3 DEF Owns, Child
  <2> QED
    BY <1>3, <1>4, <1>7, <2>1 DEF ContOK, OwnsOK, NoFrame, Frame
<1>14. GroupsOK' /\ WrappersOK' /\ ForksOK' /\ KidsOK' /\ CountsOK'
  <2>1. GroupsKept
    <3>1. \A w \in Frame : serves[w] # User => WrapperKept(w)
      BY <1>2, <1>3, <1>4, <1>7, WrapperIs DEF WrapperKept
    <3>2. \A p \in Frame : AtGroup(p) \/ AtGroup(p)' => ParentKept(p)
      BY <1>1, <1>3, <1>5 DEF AtGroup, ParentKept, Loop!Suspended
    <3>3. \A c, o \in Frame :
            Waiting(c, o) /\ (AtGroup(o) \/ serves[o] # User) => Waiting(c, o)'
      BY <1>1, <1>2, <1>3, <1>4 DEF AtGroup, Waiting
    <3> QED
      BY <1>1, <1>3, <1>4, <1>7, <3>1, <3>2, <3>3 DEF GroupsKept, NoFrame, Frame
  <2> QED
    BY <2>1, GroupsUndisturbed
<1> QED
  BY <1>5, <1>6, <1>8, <1>9, <1>10, <1>11, <1>12, <1>13, <1>14

\* The body sleeps, or awaits an event.
LEMMA SuspendKeeps ==
  ASSUME Inv, (\E deadline \in Loop!Moment : Sleep(deadline)) \/ AwaitEvent
  PROVE  Inv' /\ Loop!Next
<1> USE DEF Inv, FramesOK
<1>1. InBody
  BY DEF Sleep, AwaitEvent, Normal
<1>2. PICK o \in Frame : o = current
  BY <1>1, BodyIs
<1>3. PICK p \in {"timer", "event"} :
        /\ p = "event" => "event" \in Uses
        /\ at' = [at EXCEPT ![o] = p]
  BY <1>2 DEF Sleep, AwaitEvent
<1>4. /\ o # NoFrame /\ at[o] = "body" /\ serves[o] = User /\ Alive(o)
      /\ ~terminated /\ o \notin Loop!Registered
  BY <1>1, <1>2, BodyIs
<1>5. UNCHANGED <<ready, now, mode, budget, batch, root, terminated,
                  owner, cont, detached, exc, waits, serves, groups>>
  BY DEF Sleep, AwaitEvent, hostVars
<1>6. /\ current' = NoFrame
      /\ \A f \in Frame : at'[f] = IF f = o THEN p ELSE at[f]
  BY <1>3 DEF Sleep, AwaitEvent, TypeOK
<1>7. /\ Loop!Next /\ LoopInv'
      /\ Loop!Registered' \in {Loop!Registered, Loop!Registered \cup {o}}
  <2>1. ASSUME NEW w \in Loop!Moment, Sleep(w)
        PROVE  Loop!Next /\ LoopInv' /\ Loop!Registered' = Loop!Registered \cup {o}
    <3>1. timers' = Schedule(timers, w, current) /\ UNCHANGED <<ready, now, mode, budget, batch>>
      BY <2>1 DEF Sleep
    <3> QED
      BY <1>2, <1>4, <1>6, <3>1, LoopSleeps
  <2>2. ASSUME AwaitEvent
        PROVE  Loop!Next /\ LoopInv' /\ Loop!Registered' = Loop!Registered
    <3>1. UNCHANGED <<ready, timers, now, mode, budget, batch>>
      BY <2>2 DEF AwaitEvent
    <3> QED
      BY <1>2, <1>4, <1>6, <3>1, LoopLeaves
  <2> QED
    BY <2>1, <2>2
<1>8. TypeOK'
  BY <1>2, <1>3, <1>5, <1>7, LoopTyped DEF TypeOK, Place
<1>9. Allocated' = Allocated /\ \A f \in Frame : Alive(f)' = Alive(f)
  BY <1>3, <1>4, <1>6, SameAllocated DEF Alive
<1>10. FreshOK'
  BY <1>3, <1>4, <1>5, <1>6, <1>9 DEF FreshOK, TypeOK, NoFrame, Frame
<1>11. OneOwner' /\ RootOK'
  BY <1>3, <1>4, <1>5, <1>6, <1>9 DEF OneOwner, RootOK, Alive
<1>12. PlacesOK'
  BY <1>2, <1>3, <1>4, <1>5, <1>6, <1>7 DEF PlacesOK
<1>13. UnstartedOK'
  BY <1>2, <1>3, <1>4, <1>5, <1>6, <1>7 DEF UnstartedOK, Loop!Suspended, NoFrame, Frame
<1>14. AwaitOK'
  <2>1. \A f, q \in Frame : at[q] = "task" /\ Awaits(q, f) => Awaits(q, f)'
    BY <1>2, <1>3, <1>4, <1>5, <1>6 DEF Awaits, Alive, NoFrame, Frame
  <2> SUFFICES ASSUME NEW q \in Frame, at'[q] = "task", NEW f, waits'[q] = f
               PROVE  f \in Frame /\ Awaits(q, f)'
    BY DEF AwaitOK
  <2>2. f \in Frame /\ at[q] = "task" /\ Awaits(q, f)
    BY <1>3, <1>5, <1>6 DEF AwaitOK
  <2> QED
    BY <2>1, <2>2
<1>15. ContOK' /\ OwnsOK'
  <2>1. \A f, q \in Frame : Owns(q, f) => Owns(q, f)'
    BY <1>3, <1>4, <1>5, <1>6 DEF Owns, Child
  <2> QED
    BY <1>3, <1>4, <1>5, <1>6, <1>9, <2>1 DEF ContOK, OwnsOK
<1>16. GroupsOK' /\ WrappersOK' /\ ForksOK' /\ KidsOK' /\ CountsOK'
  <2>1. GroupsKept
    <3>1. \A w \in Frame : serves[w] # User => WrapperKept(w)
      BY <1>3, <1>4, <1>5, <1>6, <1>9, WrapperIs DEF WrapperKept
    <3>2. \A q \in Frame : AtGroup(q) \/ AtGroup(q)' => ParentKept(q)
      BY <1>2, <1>3, <1>4, <1>5, <1>6, <1>7 DEF AtGroup, ParentKept, Loop!Suspended, NoFrame, Frame
    <3>3. \A c, q \in Frame : Waiting(c, q) => Waiting(c, q)'
      BY <1>3, <1>4, <1>5, <1>6 DEF Waiting, NoFrame, Frame
    <3> QED
      BY <1>3, <1>4, <1>5, <1>6, <1>9, <3>1, <3>2, <3>3 DEF GroupsKept
  <2> QED
    BY <2>1, GroupsUndisturbed
<1> QED
  BY <1>7, <1>8, <1>10, <1>11, <1>12, <1>13, <1>14, <1>15, <1>16

\* The body signals the event that another coroutine awaits.
LEMMA SignalEventKeeps ==
  ASSUME Inv, NEW e \in Frame, SignalEvent(e)
  PROVE  Inv' /\ Loop!Next
<1> USE DEF Inv, FramesOK
<1>1. InBody /\ at[e] = "event" /\ e \notin Loop!Registered
  BY DEF SignalEvent, Normal
<1>2. /\ current # NoFrame /\ at[current] = "body" /\ Loop!Suspended(e)
  BY <1>1, BodyIs DEF Loop!Suspended
<1>3. UNCHANGED <<timers, now, mode, current, budget, batch, root, terminated,
                  at, owner, cont, detached, exc, waits, serves, groups>>
  BY DEF SignalEvent, hostVars, frameVars
<1>4. Loop!Next /\ LoopInv' /\ Loop!Registered' = Loop!Registered \cup {e}
  <2>1. ready' = Append(ready, e) /\ Loop!CanCall
    BY <1>2 DEF SignalEvent, Loop!CanCall
  <2> QED
    BY <1>2, <1>3, <2>1, LoopPosts
<1>5. TypeOK'
  BY <1>3, <1>4, LoopTyped DEF TypeOK
<1>6. Allocated' = Allocated /\ \A f \in Frame : Alive(f)' = Alive(f)
  BY <1>3 DEF Allocated, Alive
<1>7. FreshOK' /\ OneOwner' /\ RootOK' /\ PlacesOK'
  BY <1>1, <1>3, <1>4, <1>6 DEF FreshOK, OneOwner, RootOK, PlacesOK, Alive
<1>8. UnstartedOK' /\ AwaitOK' /\ ContOK' /\ OwnsOK'
  BY <1>1, <1>3, <1>4 DEF UnstartedOK, AwaitOK, Awaits, ContOK, OwnsOK, Owns, Child, Alive, Loop!Suspended
<1>9. GroupsOK' /\ WrappersOK' /\ ForksOK' /\ KidsOK' /\ CountsOK'
  <2>1. GroupsKept
    <3>1. \A w \in Frame : serves[w] # User => WrapperKept(w)
      BY <1>3, <1>6, WrapperIs DEF WrapperKept
    <3>2. \A q \in Frame : AtGroup(q) \/ AtGroup(q)' => ParentKept(q)
      BY <1>1, <1>3, <1>4 DEF AtGroup, ParentKept, Loop!Suspended
    <3>3. \A c, q \in Frame : Waiting(c, q) => Waiting(c, q)'
      BY <1>3 DEF Waiting
    <3> QED
      BY <1>3, <1>6, <3>1, <3>2, <3>3 DEF GroupsKept
  <2> QED
    BY <2>1, GroupsUndisturbed
<1> QED
  BY <1>4, <1>5, <1>7, <1>8, <1>9

\* What `at' is once the frames of S are destroyed.
LEMMA DestroyIs ==
  ASSUME TypeOK, FreshOK, NEW S, S \subseteq Frame, \A f \in S : at[f] # "free"
  PROVE  /\ \A f \in Closure(S) : at[f] # "free"
         /\ Destroy(S) = [f \in Frame |-> IF f \in Closure(S) THEN "destroyed" ELSE at[f]]
         /\ Destroy(S) \in [Frame -> Place]
<1>1. ASSUME NEW f \in Closure(S) PROVE at[f] # "free"
  <2>1. f \in Frame /\ (f \in S \/ owner[f] \in Frame)
    BY ClosureIs
  <2> QED
    BY <2>1 DEF FreshOK, NoFrame, Frame
<1>2. Destroy(S) = [f \in Frame |-> IF f \in Closure(S) THEN "destroyed" ELSE at[f]]
  BY <1>1 DEF Destroy
<1> QED
  BY <1>1, <1>2 DEF TypeOK, Place

\* The tasks that a body drops, and what goes with them, have not started and
\* nobody else knows of them.
LEMMA DroppedAre ==
  ASSUME Inv, InBody, NEW S, S \subseteq Held
  PROVE  /\ S \subseteq Frame /\ \A f \in S : at[f] # "free"
         /\ \A f \in Closure(S) : at[f] # "destroyed" =>
              /\ f \in Frame /\ at[f] = "initial" /\ serves[f] = User /\ owner[f] # NoFrame
              /\ f # root /\ Loop!Suspended(f) /\ cont[f] = NoFrame
              /\ owner[f] = current \/ (at[owner[f]] = "initial" /\ serves[owner[f]] = User)
<1> USE DEF Inv, FramesOK
<1>1. S \subseteq Frame /\ \A f \in S : at[f] = "initial" /\ owner[f] = current
  BY DEF Held
<1>2. /\ current \in Frame /\ current # NoFrame /\ at[current] = "body"
      /\ \A f \in S : serves[f] = User
  BY <1>1, BodyIs
<1> DEFINE unstarted(f) == at[f] = "initial" /\ serves[f] = User /\ owner[f] # NoFrame
           X == {f \in Frame : at[f] = "destroyed" \/ unstarted(f)}
<1>3. ASSUME NEW f \in Frame, at[f] # "destroyed", owner[f] # NoFrame, owner[f] \in X
      PROVE  /\ unstarted(f) /\ Alive(owner[f]) /\ f # root
             /\ at[owner[f]] = "initial" /\ serves[owner[f]] = User
  <2>1. PICK o \in Frame : owner[f] = o
    BY <1>3
  <2>2. Alive(f)
    BY <1>3 DEF FreshOK, Alive
  <2>3. Alive(o) /\ f # root
    BY <1>3, <2>1, <2>2 DEF OneOwner
  <2>4. at[o] = "initial" /\ serves[o] = User
    BY <1>3, <2>1, <2>3 DEF Alive
  <2>5. Owns(o, f)
    BY <2>1, <2>2 DEF OwnsOK
  <2> QED
    BY <1>3, <2>1, <2>3, <2>4, <2>5 DEF Owns
<1>4. S \subseteq X
  BY <1>1, <1>2
<1>5. Closure(S) \subseteq X
  <2>1. \A f \in Frame : at[f] # "destroyed" /\ owner[f] # NoFrame /\ owner[f] \in X => f \in X
    BY <1>3
  <2> HIDE DEF X
  <2> QED
    BY <1>1, <1>4, <2>1, ClosureIs
<1>6. ASSUME NEW f \in Closure(S), at[f] # "destroyed"
      PROVE  /\ f \in Frame /\ unstarted(f) /\ f # root /\ Loop!Suspended(f) /\ cont[f] = NoFrame
             /\ owner[f] = current \/ (at[owner[f]] = "initial" /\ serves[owner[f]] = User)
  <2>1. f \in Frame /\ unstarted(f)
    BY <1>5, <1>6
  <2>2. owner[f] = current \/ (at[owner[f]] = "initial" /\ serves[owner[f]] = User)
    <3>1. f \in S \/ owner[f] \in Closure(S)
      BY <1>1, ClosureIs
    <3> QED
      BY <1>1, <1>3, <1>5, <1>6, <2>1, <3>1
  <2>3. f # root
    BY <1>2, <2>1, <1>6 DEF OneOwner, Alive
  <2>4. Loop!Suspended(f)
    BY <1>2, <2>1 DEF UnstartedOK
  <2>5. cont[f] = NoFrame
    <3>1. ASSUME NEW o \in Frame, cont[f] = o PROVE FALSE
      <4>1. at[o] = "task" /\ waits[o] = f
        BY <2>1, <3>1 DEF ContOK, Alive
      <4>2. owner[f] = o
        BY <4>1, <2>1 DEF AwaitOK, Awaits
      <4> QED
        BY <1>2, <2>2, <4>1, <4>2
    <3> QED
      BY <2>1, <3>1 DEF TypeOK
  <2> QED
    BY <2>1, <2>2, <2>3, <2>4, <2>5
<1> QED
  BY <1>1, <1>6

\* The body drops a task, or ends with those it still holds.
LEMMA FinishKeeps ==
  ASSUME Inv, (\E t \in Frame : Drop(t)) \/ Finish \/ Throw
  PROVE  Inv' /\ UNCHANGED loopVars
<1> USE DEF Inv, FramesOK
<1>1. InBody
  BY DEF Drop, Finish, Throw, Normal
<1>2. PICK o \in Frame : o = current
  BY <1>1, BodyIs
<1>3. /\ o # NoFrame /\ at[o] = "body" /\ serves[o] = User /\ Alive(o)
      /\ ~terminated /\ o \notin Loop!Registered
  BY <1>1, <1>2, BodyIs
<1>4. PICK S \in SUBSET Held, p \in {"body", "final"} :
        /\ at' = [Destroy(S) EXCEPT ![o] = p]
        /\ p = "final" => S = Held
        /\ exc' \in [Frame -> Frame \cup {NoFrame}]
        /\ \A f \in Frame : f # o => exc'[f] = exc[f]
  <2>1. ASSUME NEW t \in Frame, Drop(t)
        PROVE  at' = [Destroy({t}) EXCEPT ![o] = "body"] /\ {t} \subseteq Held /\ exc' = exc
    <3>1. {t} \subseteq Held /\ at' = Destroy({t}) /\ exc' = exc
      BY <2>1 DEF Drop
    <3>2. o \notin Closure({t})
      BY <1>1, <1>2, <1>3, <3>1, DroppedAre
    <3>3. {t} \subseteq Frame /\ \A f \in {t} : at[f] # "free"
      BY <1>1, <3>1, DroppedAre
    <3>4. Destroy({t}) = [f \in Frame |-> IF f \in Closure({t}) THEN "destroyed" ELSE at[f]]
      BY <3>3, DestroyIs
    <3> QED
      BY <1>3, <3>1, <3>2, <3>4
  <2>2. ASSUME Finish \/ Throw
        PROVE  \E e \in Frame \cup {NoFrame} :
                 at' = [Destroy(Held) EXCEPT ![o] = "final"] /\ exc' = [exc EXCEPT ![o] = e]
    BY <1>2, <2>2 DEF Finish, Throw, FinishWith, TypeOK
  <2>3. CASE \E t \in Frame : Drop(t)
    BY <2>1, <2>3 DEF TypeOK
  <2>4. CASE Finish \/ Throw
    <3>1. PICK e \in Frame \cup {NoFrame} :
             at' = [Destroy(Held) EXCEPT ![o] = "final"] /\ exc' = [exc EXCEPT ![o] = e]
      BY <2>2, <2>4
    <3>2. /\ exc' \in [Frame -> Frame \cup {NoFrame}]
          /\ \A f \in Frame : f # o => exc'[f] = exc[f]
      BY <3>1 DEF TypeOK
    <3>3. Held \in SUBSET Held /\ "final" \in {"body", "final"}
      OBVIOUS
    <3> QED
      BY <3>1, <3>2, <3>3
  <2> QED
    BY <2>3, <2>4
<1> DEFINE D == Closure(S)
<1>5. UNCHANGED <<loopVars, owner, cont, detached, waits, serves, groups, hostVars>>
  BY DEF Drop, Finish, Throw, FinishWith
<1>6. UNCHANGED <<ready, timers, now, mode, current, budget, batch, root, terminated,
                  owner, cont, detached, waits, serves, groups>>
  BY <1>5 DEF loopVars, hostVars
<1>7. /\ \A f \in D : f \in Frame /\ at[f] # "free"
      /\ \A f \in D : at[f] # "destroyed" =>
           /\ at[f] = "initial" /\ serves[f] = User /\ owner[f] # NoFrame
           /\ f # root /\ Loop!Suspended(f) /\ cont[f] = NoFrame
           /\ owner[f] = o \/ (at[owner[f]] = "initial" /\ serves[owner[f]] = User)
      /\ \A f \in Frame : Alive(f) /\ owner[f] \in D => f \in D
      /\ \A f \in S : f \in D
      /\ o \notin D
  <2>1. S \subseteq Frame /\ \A f \in S : at[f] # "free"
    BY <1>1, DroppedAre
  <2> HIDE DEF D
  <2>2. /\ S \subseteq D /\ D \subseteq Frame /\ \A f \in D : at[f] # "free"
        /\ \A f \in Frame : at[f] # "destroyed" /\ owner[f] # NoFrame
                              /\ owner[f] \in D => f \in D
    BY <2>1, ClosureIs, DestroyIs DEF D
  <2>3. \A f \in D : at[f] # "destroyed" =>
           /\ at[f] = "initial" /\ serves[f] = User /\ owner[f] # NoFrame
           /\ f # root /\ Loop!Suspended(f) /\ cont[f] = NoFrame
           /\ owner[f] = o \/ (at[owner[f]] = "initial" /\ serves[owner[f]] = User)
    BY <1>1, <1>2, DroppedAre DEF D
  <2> QED
    BY <1>3, <2>2, <2>3 DEF Alive, NoFrame, Frame
<1>8. /\ \A f \in Frame : at'[f] = IF f = o THEN p ELSE IF f \in D THEN "destroyed" ELSE at[f]
      /\ at' \in [Frame -> Place]
  <2>1. S \subseteq Frame /\ \A f \in S : at[f] # "free"
    BY <1>1, DroppedAre
  <2>2. /\ Destroy(S) = [f \in Frame |-> IF f \in D THEN "destroyed" ELSE at[f]]
        /\ Destroy(S) \in [Frame -> Place]
    BY <2>1, DestroyIs
  <2> HIDE DEF D
  <2> QED
    BY <1>4, <2>2 DEF Place
<1> HIDE DEF D
<1>9. TypeOK'
  <2>1. Loop!TypeOK'
    BY <1>6 DEF TypeOK, Loop!TypeOK
  <2> QED
    BY <2>1, <1>4, <1>6, <1>8 DEF TypeOK
<1>10. /\ LoopInv' /\ Loop!Registered' = Loop!Registered
       /\ \A f : Loop!Suspended(f)' = Loop!Suspended(f)
  BY <1>5, <1>6, LoopInvStep DEF Loop!Registered, Loop!Suspended
<1>11. Allocated' = Allocated /\ \A f \in Frame : Alive(f)' <=> Alive(f) /\ f \notin D
  <2>1. \A f \in Frame : at'[f] = "free" <=> at[f] = "free"
    BY <1>3, <1>4, <1>7, <1>8
  <2> QED
    BY <1>3, <1>4, <1>7, <1>8, <2>1, SameAllocated DEF Alive
<1>12. FreshOK'
  BY <1>3, <1>4, <1>6, <1>7, <1>8, <1>11 DEF FreshOK, TypeOK
<1>13. OneOwner'
  <2>1. \A f, q \in Frame : Alive(f) /\ f \notin D /\ owner[f] = q /\ Alive(q) => Alive(q)'
    BY <1>7, <1>11
  <2>2. \A f \in Frame : Alive(f) /\ f \notin D /\ Alive(owner[f]) =>
          \E q \in Frame : owner[f] = q /\ Alive(q)'
    BY <2>1 DEF Alive
  <2> SUFFICES ASSUME NEW f \in Frame, Alive(f), f \notin D
               PROVE  IF detached[f] \/ f = root THEN owner[f] = NoFrame
                      ELSE \E q \in Frame : owner[f] = q /\ Alive(q)'
    BY <1>6, <1>11 DEF OneOwner, Alive
  <2> QED
    BY <2>2 DEF OneOwner
<1>14. PlacesOK' /\ RootOK'
  <2>1. RootOK'
    BY <1>6, <1>7, <1>11 DEF RootOK, Alive
  <2>2. \A f \in Loop!Registered : at'[f] = at[f]
    BY <1>3, <1>7, <1>8, LoopMeans DEF PlacesOK, Loop!Suspended
  <2>3. Alive(o)'
    BY <1>3, <1>7, <1>11
  <2> QED
    BY <1>2, <1>3, <1>4, <1>6, <1>8, <1>10, <2>1, <2>2, <2>3 DEF PlacesOK, Alive
<1>15. UnstartedOK'
  BY <1>2, <1>4, <1>6, <1>8, <1>10 DEF UnstartedOK
<1>16. AwaitOK'
  <2> SUFFICES ASSUME NEW q \in Frame, at'[q] = "task", NEW f, waits[q] = f
               PROVE  f \in Frame /\ Awaits(q, f)'
    BY <1>6 DEF AwaitOK
  <2>1. f \in Frame /\ at[q] = "task" /\ Awaits(q, f)
    BY <1>4, <1>8 DEF AwaitOK
  <2>2. f \notin D
    BY <1>3, <1>7, <2>1 DEF Awaits, Alive
  <2>3. q # o
    BY <1>3, <2>1
  <2> QED
    BY <1>2, <1>4, <1>6, <1>8, <1>11, <2>1, <2>2, <2>3 DEF Awaits
<1>17. ContOK'
  BY <1>3, <1>4, <1>6, <1>7, <1>8, <1>11 DEF ContOK
<1>18. OwnsOK'
  <2> SUFFICES ASSUME NEW f \in Frame, NEW q \in Frame, Alive(f), f \notin D, owner[f] = q
               PROVE  Owns(q, f)'
    BY <1>6, <1>11 DEF OwnsOK
  <2>1. Owns(q, f) /\ q \notin D
    BY <1>7 DEF OwnsOK
  <2>2. CASE q = o
    <3>1. at[f] = "initial" /\ serves[f] = User
      BY <1>3, <2>1, <2>2 DEF Owns
    <3>2. f \in Held
      BY <1>2, <2>2, <3>1 DEF Held
    <3>3. p # "final"
      BY <1>4, <1>7, <3>2
    <3>4. f # o
      BY <1>3, <3>1
    <3> QED
      BY <1>3, <1>6, <1>8, <2>2, <3>1, <3>3, <3>4 DEF Owns, Child
  <2>3. CASE q # o
    <3>1. f = o => at[f] # "initial"
      BY <1>3
    <3> QED
      BY <1>6, <1>8, <2>1, <2>3, <3>1 DEF Owns, Child
  <2> QED
    BY <2>2, <2>3
<1>19. GroupsOK' /\ WrappersOK' /\ ForksOK' /\ KidsOK' /\ CountsOK'
  <2>1. GroupsKept
    <3>1. \A w \in Frame : serves[w] # User => WrapperKept(w)
      BY <1>3, <1>4, <1>6, <1>7, <1>8, <1>11, WrapperIs DEF WrapperKept
    <3>2. \A q \in Frame : AtGroup(q) \/ AtGroup(q)' => ParentKept(q)
      BY <1>3, <1>4, <1>6, <1>7, <1>8, <1>10 DEF AtGroup, ParentKept
    <3>3. \A c, q \in Frame :
            Waiting(c, q) /\ (AtGroup(q) \/ serves[q] # User) => Waiting(c, q)'
      BY <1>2, <1>3, <1>6, <1>7, <1>8 DEF AtGroup, Waiting
    <3>4. \A f \in Frame : at'[f] = "initial" => at[f] = "initial"
      BY <1>4, <1>8
    <3>5. \A f \in Frame : at[f] # "free" => at'[f] # "free"
      BY <1>4, <1>8
    <3> QED
      BY <1>6, <1>11, <3>1, <3>2, <3>3, <3>4, <3>5 DEF GroupsKept
  <2> QED
    BY <2>1, GroupsUndisturbed
<1> QED
  BY <1>5, <1>9, <1>10, <1>12, <1>13, <1>14, <1>15, <1>16, <1>17, <1>18, <1>19

\* With a frame that has finished nothing else is destroyed.
LEMMA FinishedAre ==
  ASSUME TypeOK, FreshOK, OneOwner, OwnsOK, NEW S, S \subseteq Frame,
         \A f \in S : at[f] \in {"final", "destroyed"}
  PROVE  /\ Destroy(S) = [f \in Frame |-> IF f \in S THEN "destroyed" ELSE at[f]]
         /\ Destroy(S) \in [Frame -> Place]
         /\ \A f \in Frame : Alive(f) => owner[f] \notin S
<1>1. ASSUME NEW f \in Frame, Alive(f) PROVE owner[f] \notin S
  <2>1. ASSUME NEW o \in Frame, owner[f] = o, o \in S PROVE FALSE
    <3>1. Alive(o)
      BY <1>1, <2>1 DEF OneOwner, NoFrame, Frame
    <3>2. at[o] = "final"
      BY <2>1, <3>1 DEF Alive
    <3> QED
      BY <1>1, <2>1, <3>2 DEF OwnsOK, Owns
  <2> QED
    BY <1>1, <2>1
<1> DEFINE X == S \cup {f \in Frame : at[f] = "destroyed"}
<1>2. \A f \in Frame : at[f] # "destroyed" /\ owner[f] # NoFrame /\ owner[f] \in X => f \in X
  <2> SUFFICES ASSUME NEW f \in Frame, at[f] # "destroyed", owner[f] # NoFrame, owner[f] \in X
               PROVE  FALSE
    OBVIOUS
  <2>1. Alive(f)
    BY DEF FreshOK, Alive
  <2>2. owner[f] \notin S /\ Alive(owner[f])
    BY <1>1, <2>1 DEF OneOwner
  <2> QED
    BY <2>2 DEF Alive
<1>3. S \subseteq Closure(S) /\ Closure(S) \subseteq X
  <2> HIDE DEF X
  <2>1. S \subseteq X
    BY DEF X
  <2> QED
    BY <1>2, <2>1, ClosureIs
<1>4. /\ Destroy(S) = [f \in Frame |-> IF f \in Closure(S) THEN "destroyed" ELSE at[f]]
      /\ Destroy(S) \in [Frame -> Place]
  BY DestroyIs
<1> QED
  BY <1>1, <1>3, <1>4

\* A coroutine goes on once the task it awaited has finished.
LEMMA TaskResumeKeeps ==
  ASSUME Inv, TaskResume
  PROVE  Inv' /\ UNCHANGED loopVars
<1> USE DEF Inv, FramesOK
<1>1. PICK o \in Frame : o = current
  BY LoopMeans DEF TaskResume
<1>2. o # NoFrame /\ at[o] = "task" /\ Alive(o) /\ ~terminated /\ o \notin Loop!Registered
  BY <1>1, LoopMeans DEF TaskResume, Alive, PlacesOK
<1>3. PICK t \in Frame : waits[o] = t
  BY <1>2 DEF AwaitOK
<1>4. /\ Alive(t) /\ serves[t] = User /\ owner[t] = o /\ cont[t] = o /\ at[t] = "final"
      /\ t # o /\ t # root /\ t \notin Loop!Registered
  <2>1. Awaits(o, t)
    BY <1>2, <1>3 DEF AwaitOK
  <2> QED
    BY <1>1, <1>2, <2>1 DEF Awaits, OneOwner, PlacesOK
<1>5. UNCHANGED <<loopVars, owner, cont, detached, serves, groups, hostVars>>
  BY DEF TaskResume
<1>6. UNCHANGED <<ready, timers, now, mode, current, budget, batch, root, terminated,
                  owner, cont, detached, serves, groups>>
  BY <1>5 DEF loopVars, hostVars
<1>7. /\ Destroy({t}) = [f \in Frame |-> IF f \in {t} THEN "destroyed" ELSE at[f]]
      /\ Destroy({t}) \in [Frame -> Place]
      /\ \A f \in Frame : Alive(f) => owner[f] \notin {t}
  <2>1. {t} \subseteq Frame /\ \A f \in {t} : at[f] \in {"final", "destroyed"}
    BY <1>4
  <2> QED
    BY <2>1, FinishedAre
<1>8. /\ at' \in [Frame -> Place]
      /\ \A f \in Frame : at'[f] = IF f = o THEN "body" ELSE IF f = t THEN "destroyed" ELSE at[f]
  BY <1>1, <1>3, <1>7 DEF TaskResume, Place
<1>9. /\ waits' \in [Frame -> 0..MaxFrames] /\ exc' \in [Frame -> Frame \cup {NoFrame}]
      /\ \A f \in Frame : waits'[f] = IF f = o THEN NoFrame ELSE waits[f]
      /\ \A f \in Frame : f # o => exc'[f] = exc[f]
  BY <1>1, <1>3, BoundAssumption DEF TaskResume, TypeOK, NoFrame
<1>10. TypeOK'
  <2>1. Loop!TypeOK'
    BY <1>6 DEF TypeOK, Loop!TypeOK
  <2> QED
    BY <2>1, <1>6, <1>8, <1>9 DEF TypeOK
<1>11. /\ LoopInv' /\ Loop!Registered' = Loop!Registered
       /\ \A f : Loop!Suspended(f)' = Loop!Suspended(f)
  BY <1>5, <1>6, LoopInvStep DEF Loop!Registered, Loop!Suspended
<1>12. Allocated' = Allocated /\ \A f \in Frame : Alive(f)' <=> Alive(f) /\ f # t
  <2>1. \A f \in Frame : at'[f] = "free" <=> at[f] = "free"
    BY <1>2, <1>4, <1>8
  <2> QED
    BY <1>2, <1>4, <1>8, <2>1, SameAllocated DEF Alive
<1>13. FreshOK'
  BY <1>2, <1>4, <1>6, <1>8, <1>12 DEF FreshOK, TypeOK
<1>14. OneOwner'
  <2> SUFFICES ASSUME NEW f \in Frame, Alive(f), f # t
               PROVE  IF detached[f] \/ f = root THEN owner[f] = NoFrame
                      ELSE \E q \in Frame : owner[f] = q /\ Alive(q)'
    BY <1>6, <1>12 DEF OneOwner, Alive
  <2> QED
    BY <1>7, <1>12 DEF OneOwner, Alive
<1>15. PlacesOK' /\ RootOK'
  <2>1. RootOK'
    BY <1>4, <1>6, <1>12 DEF RootOK, Alive
  <2>2. \A f \in Loop!Registered : at'[f] = at[f]
    BY <1>2, <1>4, <1>8, LoopMeans
  <2>3. Alive(o)'
    BY <1>2, <1>4, <1>12
  <2> QED
    BY <1>1, <1>2, <1>6, <1>8, <1>11, <2>1, <2>2, <2>3 DEF PlacesOK, Alive
<1>16. UnstartedOK'
  BY <1>6, <1>8, <1>11 DEF UnstartedOK
<1>17. AwaitOK'
  <2> SUFFICES ASSUME NEW q \in Frame, at'[q] = "task", NEW f, waits'[q] = f
               PROVE  f \in Frame /\ Awaits(q, f)'
    BY <1>6 DEF AwaitOK
  <2>1. f \in Frame /\ at[q] = "task" /\ Awaits(q, f) /\ q # o
    BY <1>8, <1>9 DEF AwaitOK
  <2>2. f # t
    BY <1>4, <2>1 DEF Awaits
  <2> QED
    BY <1>1, <1>6, <1>12, <2>1, <2>2 DEF Awaits
<1>18. ContOK'
  BY <1>3, <1>4, <1>6, <1>8, <1>9, <1>12 DEF ContOK
<1>19. OwnsOK'
  <2> SUFFICES ASSUME NEW f \in Frame, NEW q \in Frame, Alive(f), f # t, owner[f] = q
               PROVE  Owns(q, f)'
    BY <1>6, <1>12 DEF OwnsOK
  <2>1. Owns(q, f) /\ q # t
    BY <1>7 DEF OwnsOK
  <2>2. CASE q = o
    BY <1>2, <1>3, <1>6, <1>8, <2>1, <2>2 DEF Owns
  <2>3. CASE q # o
    BY <1>2, <1>6, <1>8, <1>9, <2>1, <2>3 DEF Owns, Child
  <2> QED
    BY <2>2, <2>3
<1>20. GroupsOK' /\ WrappersOK' /\ ForksOK' /\ KidsOK' /\ CountsOK'
  <2>1. GroupsKept
    <3>1. \A w \in Frame : serves[w] # User => WrapperKept(w)
      BY <1>2, <1>4, <1>6, <1>8, <1>9, <1>12, WrapperIs DEF WrapperKept
    <3>2. \A q \in Frame : AtGroup(q) \/ AtGroup(q)' => ParentKept(q)
      BY <1>2, <1>4, <1>6, <1>8, <1>9, <1>11 DEF AtGroup, ParentKept
    <3>3. \A c, q \in Frame : Waiting(c, q) => Waiting(c, q)'
      BY <1>2, <1>4, <1>6, <1>8 DEF Waiting
    <3>4. /\ \A f \in Frame : at'[f] = "initial" => at[f] = "initial"
          /\ \A f \in Frame : at[f] # "free" => at'[f] # "free"
      BY <1>8
    <3> QED
      BY <1>6, <1>12, <3>1, <3>2, <3>3, <3>4 DEF GroupsKept
  <2> QED
    BY <2>1, GroupsUndisturbed
<1> QED
  BY <1>5, <1>10, <1>11, <1>13, <1>14, <1>15, <1>16, <1>17, <1>18, <1>19, <1>20

\* A detached coroutine ends: it destroys its own frame, or the program.
LEMMA DetachedEndKeeps ==
  ASSUME Inv, FinalSuspend, detached[current]
  PROVE  Inv' /\ (Loop!Next \/ UNCHANGED loopVars)
<1> USE DEF Inv, FramesOK
<1>1. PICK o \in Frame : o = current
  BY LoopMeans DEF FinalSuspend
<1>2. /\ o # NoFrame /\ at[o] = "final" /\ Alive(o) /\ ~terminated /\ o \notin Loop!Registered
      /\ detached[o] /\ owner[o] = NoFrame /\ o # root
  BY <1>1, LoopMeans DEF FinalSuspend, Alive, PlacesOK, OneOwner, RootOK
<1>3. UNCHANGED <<ready, timers, now, mode, budget, batch, root,
                  owner, cont, detached, exc, waits, serves, groups>>
  BY DEF FinalSuspend
<1>4. /\ Destroy({o}) = [f \in Frame |-> IF f \in {o} THEN "destroyed" ELSE at[f]]
      /\ Destroy({o}) \in [Frame -> Place]
      /\ \A f \in Frame : Alive(f) => owner[f] \notin {o}
  <2>1. {o} \subseteq Frame /\ \A f \in {o} : at[f] \in {"final", "destroyed"}
    BY <1>2
  <2> QED
    BY <2>1, FinishedAre
<1>5. /\ at' \in [Frame -> Place]
      /\ \A f \in Frame : at'[f] = IF f = o THEN "destroyed" ELSE at[f]
      /\ terminated' \in BOOLEAN
      /\ terminated' => current' = o
      /\ ~terminated' => current' = NoFrame
  BY <1>1, <1>2, <1>4 DEF FinalSuspend
<1>6. /\ Loop!Next \/ UNCHANGED loopVars
      /\ LoopInv' /\ Loop!Registered' = Loop!Registered
  <2>1. CASE terminated'
    <3>1. UNCHANGED loopVars
      BY <1>1, <1>3, <1>5, <2>1 DEF loopVars
    <3> QED
      BY <1>3, <3>1, LoopInvStep DEF Loop!Registered
  <2>2. CASE ~terminated'
    BY <1>1, <1>2, <1>3, <1>5, <2>2, LoopLeaves
  <2> QED
    BY <1>5, <2>1, <2>2
<1>7. TypeOK'
  BY <1>3, <1>5, <1>6, LoopTyped DEF TypeOK
<1>8. \A f \in Frame : f # o => (Loop!Suspended(f)' <=> Loop!Suspended(f))
  BY <1>1, <1>5, <1>6 DEF Loop!Suspended, NoFrame, Frame
<1>9. Allocated' = Allocated /\ \A f \in Frame : Alive(f)' <=> Alive(f) /\ f # o
  <2>1. \A f \in Frame : at'[f] = "free" <=> at[f] = "free"
    BY <1>2, <1>5
  <2> QED
    BY <1>5, <2>1, SameAllocated DEF Alive
<1>10. FreshOK'
  BY <1>2, <1>3, <1>5, <1>9 DEF FreshOK, TypeOK, NoFrame, Frame
<1>11. OneOwner'
  <2> SUFFICES ASSUME NEW f \in Frame, Alive(f), f # o
               PROVE  IF detached[f] \/ f = root THEN owner[f] = NoFrame
                      ELSE \E q \in Frame : owner[f] = q /\ Alive(q)'
    BY <1>3, <1>9 DEF OneOwner, Alive
  <2> QED
    BY <1>4, <1>9 DEF OneOwner, Alive
<1>12. PlacesOK' /\ RootOK'
  <2>1. RootOK'
    BY <1>2, <1>3, <1>9 DEF RootOK, Alive
  <2>2. \A f \in Loop!Registered : at'[f] = at[f]
    BY <1>2, <1>5, LoopMeans
  <2>3. \A f \in Frame : at'[f] \notin {"body", "fork"}
    BY <1>1, <1>2, <1>5 DEF PlacesOK
  <2>4. at'[o] = "destroyed" /\ o # NoFrame
    BY <1>2, <1>5
  <2> QED
    BY <1>1, <1>2, <1>3, <1>5, <1>6, <2>1, <2>2, <2>3, <2>4 DEF PlacesOK
<1>13. UnstartedOK'
  BY <1>1, <1>2, <1>3, <1>5, <1>8 DEF UnstartedOK
<1>14. AwaitOK'
  <2> SUFFICES ASSUME NEW q \in Frame, at'[q] = "task", NEW f, waits[q] = f
               PROVE  f \in Frame /\ Awaits(q, f)'
    BY <1>3 DEF AwaitOK
  <2>1. f \in Frame /\ at[q] = "task" /\ Awaits(q, f) /\ q # o
    BY <1>5 DEF AwaitOK
  <2>2. f # o
    BY <1>2, <2>1 DEF Awaits, NoFrame, Frame
  <2> QED
    BY <1>1, <1>3, <1>5, <1>9, <2>1, <2>2 DEF Awaits, NoFrame, Frame
<1>15. ContOK'
  BY <1>2, <1>3, <1>5, <1>9 DEF ContOK
<1>16. OwnsOK'
  <2> SUFFICES ASSUME NEW f \in Frame, NEW q \in Frame, Alive(f), f # o, owner[f] = q
               PROVE  Owns(q, f)'
    BY <1>3, <1>9 DEF OwnsOK
  <2>1. Owns(q, f) /\ q # o
    BY <1>4 DEF OwnsOK
  <2> QED
    BY <1>3, <1>5, <2>1 DEF Owns, Child
<1>17. GroupsOK' /\ WrappersOK' /\ ForksOK' /\ KidsOK' /\ CountsOK'
  <2>1. GroupsKept
    <3>1. \A w \in Frame : serves[w] # User => WrapperKept(w)
      BY <1>2, <1>3, <1>5, <1>9, WrapperIs DEF WrapperKept
    <3>2. \A q \in Frame : AtGroup(q) \/ AtGroup(q)' => ParentKept(q)
      BY <1>2, <1>3, <1>5, <1>8 DEF AtGroup, ParentKept
    <3>3. \A c, q \in Frame : Waiting(c, q) => Waiting(c, q)'
      BY <1>1, <1>2, <1>3, <1>5 DEF Waiting, NoFrame, Frame
    <3>4. /\ \A f \in Frame : at'[f] = "initial" => at[f] = "initial"
          /\ \A f \in Frame : at[f] # "free" => at'[f] # "free"
      BY <1>5
    <3> QED
      BY <1>3, <1>9, <3>1, <3>2, <3>3, <3>4 DEF GroupsKept
  <2> QED
    BY <2>1, GroupsUndisturbed
<1> QED
  BY <1>6, <1>7, <1>10, <1>11, <1>12, <1>13, <1>14, <1>15, <1>16, <1>17

\* Any other coroutine ends: control goes to what awaits it, or to the loop.
LEMMA OwnedEndKeeps ==
  ASSUME Inv, FinalSuspend, ~detached[current]
  PROVE  Inv' /\ Loop!Next
<1> USE DEF Inv, FramesOK
<1>1. PICK o \in Frame : o = current
  BY LoopMeans DEF FinalSuspend
<1>2. /\ o # NoFrame /\ at[o] = "final" /\ Alive(o) /\ ~terminated /\ o \notin Loop!Registered
      /\ ~detached[o]
  BY <1>1, LoopMeans DEF FinalSuspend, Alive, PlacesOK
<1>3. UNCHANGED <<ready, timers, now, mode, budget, batch, root, terminated,
                  at, owner, cont, detached, exc, waits, serves, groups>>
  BY DEF FinalSuspend
<1>4. current' = cont[o]
  BY <1>1, <1>2 DEF FinalSuspend
<1>5. \A h \in Frame : cont[o] = h => at[h] = "task" /\ waits[h] = o
  BY <1>2 DEF ContOK
<1>6. Loop!Next /\ LoopInv' /\ Loop!Registered' = Loop!Registered
  <2>1. CASE cont[o] = NoFrame
    BY <1>1, <1>2, <1>3, <1>4, <2>1, LoopLeaves
  <2>2. ASSUME NEW h \in Frame, cont[o] = h
        PROVE  Loop!Next /\ LoopInv' /\ Loop!Registered' = Loop!Registered
    <3>1. Loop!Suspended(h)
      BY <1>1, <1>2, <1>5, <2>2 DEF Loop!Suspended, PlacesOK
    <3> QED
      BY <1>1, <1>2, <1>3, <1>4, <2>2, <3>1, LoopTransfers
  <2> QED
    BY <2>1, <2>2 DEF TypeOK
<1>7. TypeOK'
  BY <1>3, <1>6, LoopTyped DEF TypeOK
<1>8. \A f \in Frame : at[f] \notin {"task", "final"} => (Loop!Suspended(f)' <=> Loop!Suspended(f))
  BY <1>1, <1>2, <1>4, <1>5, <1>6 DEF Loop!Suspended
<1>9. Allocated' = Allocated /\ \A f \in Frame : Alive(f)' = Alive(f)
  BY <1>3 DEF Allocated, Alive
<1>10. FreshOK'
  BY <1>3, <1>4, <1>5, <1>9 DEF FreshOK
<1>11. OneOwner' /\ RootOK'
  BY <1>3 DEF OneOwner, RootOK, Alive
<1>12. PlacesOK'
  <2>1. \A f \in Frame : at[f] \notin {"body", "fork"}
    BY <1>1, <1>2 DEF PlacesOK
  <2>2. current' # NoFrame => Alive(current')
    BY <1>4, <1>5 DEF Alive, TypeOK
  <2> QED
    BY <1>1, <1>2, <1>3, <1>6, <2>1, <2>2 DEF PlacesOK, Alive
<1>13. UnstartedOK'
  BY <1>1, <1>2, <1>3, <1>8 DEF UnstartedOK
<1>14. AwaitOK'
  <2> SUFFICES ASSUME NEW q \in Frame, at[q] = "task", NEW f, waits[q] = f
               PROVE  f \in Frame /\ Awaits(q, f)'
    BY <1>3 DEF AwaitOK
  <2>1. f \in Frame /\ Awaits(q, f)
    BY DEF AwaitOK
  <2>2. q = cont[o] => at[f] = "final"
    BY <1>2, <1>5
  <2> QED
    BY <1>3, <1>4, <1>9, <2>1, <2>2 DEF Awaits
<1>15. ContOK' /\ OwnsOK'
  <2>1. \A f, q \in Frame : Owns(q, f)' = Owns(q, f)
    BY <1>3 DEF Owns, Child
  <2> QED
    BY <1>3, <1>9, <2>1 DEF ContOK, OwnsOK
<1>16. GroupsOK' /\ WrappersOK' /\ ForksOK' /\ KidsOK' /\ CountsOK'
  <2>1. GroupsKept
    <3>1. \A w \in Frame : serves[w] # User => WrapperKept(w)
      BY <1>3, <1>9, WrapperIs DEF WrapperKept
    <3>2. \A q \in Frame : AtGroup(q) \/ AtGroup(q)' => ParentKept(q)
      BY <1>3, <1>8 DEF AtGroup, ParentKept
    <3>3. \A c, q \in Frame : Waiting(c, q) => Waiting(c, q)'
      BY <1>3, <1>4, <1>5 DEF Waiting
    <3> QED
      BY <1>3, <1>9, <3>1, <3>2, <3>3 DEF GroupsKept
  <2> QED
    BY <2>1, GroupsUndisturbed
<1> QED
  BY <1>6, <1>7, <1>10, <1>11, <1>12, <1>13, <1>14, <1>15, <1>16

\* The program calls a coroutine, and Run or Post takes it.
LEMMA HostStartKeeps ==
  ASSUME Inv, Run \/ HostSpawn
  PROVE  Inv' /\ Loop!Next
<1> USE DEF Inv, FramesOK
<1>1. PICK n \in Frame :
        /\ at[n] = "free" /\ n = Allocated + 1
        /\ at' = [at EXCEPT ![n] = "initial"] /\ owner' = [owner EXCEPT ![n] = NoFrame]
        /\ serves' = [serves EXCEPT ![n] = User]
        /\ Run => root' = n /\ Loop!Run(n)
        /\ HostSpawn => detached' = [detached EXCEPT ![n] = TRUE] /\ ready' = Append(ready, n)
  BY NewFrameIsFree DEF Run, HostSpawn, Call
<1>2. /\ owner[n] = NoFrame /\ cont[n] = NoFrame /\ ~detached[n] /\ serves[n] = User
      /\ n # root /\ n # current /\ \A f \in Frame : owner[f] # n
      /\ n \notin Loop!Registered /\ n # NoFrame /\ Loop!Suspended(n)
  BY <1>1 DEF FreshOK, PlacesOK, NoFrame, Frame, Loop!Suspended
<1>3. mode = "idle" /\ current = NoFrame /\ ~terminated /\ root = NoFrame
  BY DEF Run, HostSpawn, Loop!Run, PlacesOK, RootOK
<1>4. UNCHANGED <<current, timers, now, budget, batch, terminated,
                  owner, cont, exc, waits, serves, groups>>
  BY <1>1, <1>2 DEF Run, HostSpawn, Loop!Run, hostVars, TypeOK
<1>5. Loop!Next /\ LoopInv' /\ Loop!Registered' = Loop!Registered \cup {n}
  <2>1. CASE Run
    BY <1>1, <2>1, LoopRuns
  <2>2. CASE HostSpawn
    <3>1. Loop!CanCall /\ mode' = mode /\ ready' = Append(ready, n)
      BY <1>1, <1>3, <2>2 DEF HostSpawn, Loop!CanCall
    <3> QED
      BY <1>2, <1>4, <3>1, LoopPosts
  <2> QED
    BY <2>1, <2>2
<1>6. /\ \A f \in Frame : at'[f] = IF f = n THEN "initial" ELSE at[f]
      /\ \A f \in Frame : f # n => detached'[f] = detached[f]
      /\ detached' \in [Frame -> BOOLEAN]
      /\ \/ mode' = "run" /\ root' = n /\ ~detached'[n]
         \/ mode' = mode /\ root' = root /\ detached'[n]
  BY <1>1, <1>2 DEF Run, HostSpawn, Loop!Run, hostVars, TypeOK
<1>7. TypeOK'
  BY <1>1, <1>4, <1>5, <1>6, LoopTyped DEF TypeOK, Place
<1>8. Allocated' = Allocated + 1 /\ Allocated + 1 \in 0..MaxFrames
  BY <1>1, <1>7, OneMoreAllocated DEF TypeOK, Place
<1>9. \A f \in Frame : f # n => (Loop!Suspended(f)' <=> Loop!Suspended(f))
  BY <1>4, <1>5 DEF Loop!Suspended
<1>10. FreshOK'
  BY <1>1, <1>2, <1>3, <1>4, <1>6, <1>8 DEF FreshOK, Frame, NoFrame
<1>11. OneOwner'
  <2> SUFFICES ASSUME NEW f \in Frame, Alive(f)'
               PROVE  IF detached'[f] \/ f = root' THEN owner[f] = NoFrame
                      ELSE \E q \in Frame : owner[f] = q /\ Alive(q)'
    BY <1>4 DEF OneOwner, Alive
  <2>1. CASE f = n
    BY <1>2, <1>6, <2>1
  <2>2. CASE f # n
    BY <1>2, <1>3, <1>6, <2>2 DEF OneOwner, Alive, Frame, NoFrame
  <2> QED
    BY <2>1, <2>2
<1>12. PlacesOK' /\ RootOK'
  <2>1. RootOK'
    BY <1>1, <1>2, <1>3, <1>4, <1>6 DEF RootOK, Alive
  <2> QED
    BY <1>1, <1>3, <1>4, <1>5, <1>6, <2>1 DEF PlacesOK, NoFrame
<1>13. UnstartedOK'
  BY <1>2, <1>3, <1>4, <1>6, <1>9 DEF UnstartedOK
<1>14. AwaitOK'
  <2> SUFFICES ASSUME NEW q \in Frame, at'[q] = "task", NEW f, waits[q] = f
               PROVE  f \in Frame /\ Awaits(q, f)'
    BY <1>4 DEF AwaitOK
  <2>1. f \in Frame /\ at[q] = "task" /\ Awaits(q, f)
    BY <1>6 DEF AwaitOK
  <2> QED
    BY <1>1, <1>4, <1>6, <2>1 DEF Awaits, Alive
<1>15. ContOK' /\ OwnsOK'
  <2>1. \A f, q \in Frame : owner[f] = q /\ Owns(q, f) => Owns(q, f)'
    BY <1>2, <1>4, <1>6 DEF Owns, Child
  <2>2. \A f \in Frame : Alive(f)' <=> Alive(f) \/ f = n
    BY <1>1, <1>6 DEF Alive
  <2> QED
    BY <1>1, <1>2, <1>4, <1>6, <2>1, <2>2 DEF ContOK, OwnsOK, NoFrame, Frame
<1>16. GroupsOK' /\ WrappersOK' /\ ForksOK' /\ KidsOK' /\ CountsOK'
  <2>1. GroupsKept
    <3>1. \A w \in Frame : serves[w] # User => WrapperKept(w)
      BY <1>2, <1>4, <1>6, WrapperIs DEF WrapperKept, Alive
    <3>2. \A q \in Frame : AtGroup(q) \/ AtGroup(q)' => ParentKept(q)
      BY <1>1, <1>4, <1>6, <1>9 DEF AtGroup, ParentKept
    <3>3. \A c, q \in Frame : Waiting(c, q) => Waiting(c, q)'
      BY <1>4, <1>6 DEF Waiting
    <3>4. /\ \A f \in Frame : at[f] # "free" => at'[f] # "free"
          /\ \A p \in Frame : at'[p] # "fork"
          /\ \A f, p \in Frame : at'[f] = "initial" /\ owner'[f] = p => at[f] = "initial"
      BY <1>2, <1>3, <1>4, <1>6 DEF PlacesOK, NoFrame, Frame
    <3> QED
      BY <1>4, <3>1, <3>2, <3>3, <3>4 DEF GroupsKept
  <2> QED
    BY <2>1, GroupsUndisturbed
<1> QED
  BY <1>5, <1>7, <1>10, <1>11, <1>12, <1>13, <1>14, <1>15, <1>16

\* The loop resumes a coroutine, waits, or drains its timers.
LEMMA DriveKeeps ==
  ASSUME Inv, RunResume \/ RunWait \/ RunOnce \/ RunOnceResume \/ RunOnceReturn \/ Tick
  PROVE  Inv' /\ Loop!Next
<1> USE DEF Inv, FramesOK
<1>1. UNCHANGED <<frameVars, hostVars>>
  BY DEF RunResume, RunWait, RunOnce, RunOnceResume, RunOnceReturn, Tick
<1>2. UNCHANGED <<root, terminated, at, owner, cont, detached, exc, waits, serves, groups>>
  BY <1>1 DEF frameVars, hostVars
<1>3. /\ Loop!Next /\ LoopInv'
      /\ \/ /\ current = NoFrame /\ current' \in Loop!Registered
            /\ Loop!Registered' = Loop!Registered \ {current'}
         \/ current' = current /\ Loop!Registered' = Loop!Registered
  BY LoopDrives DEF RunResume, RunWait, RunOnce, RunOnceResume, RunOnceReturn, Tick
<1>4. /\ mode' = "run" <=> mode = "run"
      /\ mode' = "idle" => current' = NoFrame
  BY <1>3 DEF RunResume, RunWait, RunOnce, RunOnceResume, RunOnceReturn, Tick, PlacesOK,
     Loop!RunResume, Loop!RunWait, Loop!RunOnce, Loop!RunOnceResume, Loop!RunOnceReturn,
     Loop!Tick, Loop!queues, Loop!driver
<1>5. /\ Loop!Registered \subseteq Frame
      /\ current' # current =>
           /\ current = NoFrame /\ current' \in Frame
           /\ at[current'] \in {"initial", "timer", "event", "group"}
  BY <1>3, LoopMeans DEF PlacesOK
<1>6. \A f \in Frame : Loop!Suspended(f)' <=> Loop!Suspended(f)
  BY <1>3, LoopMeans DEF Loop!Suspended, NoFrame, Frame
<1>7. TypeOK'
  BY <1>2, <1>3, LoopTyped DEF TypeOK
<1>8. Allocated' = Allocated /\ \A f \in Frame : Alive(f)' = Alive(f)
  BY <1>2 DEF Allocated, Alive
<1>9. FreshOK'
  BY <1>2, <1>5, <1>8 DEF FreshOK
<1>10. OneOwner' /\ RootOK'
  BY <1>2, <1>4 DEF OneOwner, RootOK, Alive
<1>11. PlacesOK'
  <2>1. \A f \in Loop!Registered' : at'[f] \in {"initial", "timer", "event", "group"}
    BY <1>2, <1>3 DEF PlacesOK
  <2>2. \A f \in Frame : at'[f] \in {"body", "fork"} => f = current'
    BY <1>2, <1>5 DEF PlacesOK, NoFrame, Frame
  <2>3. current' # NoFrame => Alive(current') \/ (terminated /\ at[current'] = "destroyed")
    BY <1>5 DEF PlacesOK, Alive
  <2>4. terminated => current' = current
    BY <1>5 DEF PlacesOK
  <2> QED
    BY <1>2, <1>4, <2>1, <2>2, <2>3, <2>4 DEF PlacesOK, Alive
<1>12. UnstartedOK'
  BY <1>2, <1>5, <1>6 DEF UnstartedOK, NoFrame, Frame
<1>13. AwaitOK'
  <2> SUFFICES ASSUME NEW q \in Frame, at[q] = "task", NEW f, waits[q] = f
               PROVE  f \in Frame /\ Awaits(q, f)'
    BY <1>2 DEF AwaitOK
  <2>1. f \in Frame /\ Awaits(q, f)
    BY DEF AwaitOK
  <2> QED
    BY <1>2, <1>5, <1>8, <2>1 DEF Awaits
<1>14. ContOK' /\ OwnsOK'
  <2>1. \A f, q \in Frame : Owns(q, f)' = Owns(q, f)
    BY <1>2 DEF Owns, Child
  <2> QED
    BY <1>2, <1>8, <2>1 DEF ContOK, OwnsOK
<1>15. GroupsOK' /\ WrappersOK' /\ ForksOK' /\ KidsOK' /\ CountsOK'
  <2>1. GroupsKept
    <3>1. \A w \in Frame : serves[w] # User => WrapperKept(w)
      BY <1>2, <1>8, WrapperIs DEF WrapperKept
    <3>2. \A q \in Frame : AtGroup(q) \/ AtGroup(q)' => ParentKept(q)
      BY <1>2, <1>6 DEF AtGroup, ParentKept
    <3>3. \A c, q \in Frame : Waiting(c, q) => Waiting(c, q)'
      BY <1>2, <1>5, <1>6 DEF Waiting, UnstartedOK, Loop!Suspended, NoFrame, Frame
    <3> QED
      BY <1>2, <1>8, <3>1, <3>2, <3>3 DEF GroupsKept
  <2> QED
    BY <2>1, GroupsUndisturbed
<1> QED
  BY <1>3, <1>7, <1>9, <1>10, <1>11, <1>12, <1>13, <1>14, <1>15

\* The tasks of a new group: all that are held, each once.
LEMMA OrdersAre ==
  ASSUME NEW S, S \subseteq Frame, S # {}, NEW kids \in Orders(S)
  PROVE  /\ Cardinality(S) \in Nat \ {0} /\ kids \in [1..Cardinality(S) -> S]
         /\ kids \in Seq(Frame) /\ Len(kids) = Cardinality(S) /\ DOMAIN kids = 1..Cardinality(S)
         /\ \A i, j \in 1..Len(kids) : kids[i] = kids[j] => i = j
         /\ \A f \in S : \E k \in 1..Len(kids) : kids[k] = f
<1> DEFINE n == Cardinality(S)
<1>1. IsFiniteSet(S) /\ n \in Nat /\ n # 0
  <2>1. IsFiniteSet(Frame)
    BY FS_Interval, BoundAssumption DEF Frame
  <2>2. IsFiniteSet(S)
    BY <2>1, FS_Subset
  <2> QED
    BY <2>2, FS_CardinalityType, FS_EmptySet
<1>2. kids \in [1..n -> S] /\ \A i, j \in 1..n : i < j => kids[i] < kids[j]
  BY DEF Orders
<1> HIDE DEF n
<1>3. kids \in Seq(Frame) /\ Len(kids) = n /\ DOMAIN kids = 1..n
  <2>1. kids \in [1..n -> Frame]
    BY <1>2
  <2> QED
    BY <1>1, <2>1
<1>4. \A i, j \in 1..n : kids[i] = kids[j] => i = j
  <2>1. \A i \in 1..n : kids[i] \in Int
    <3>1. \A i \in 1..n : kids[i] \in Frame
      BY <1>2
    <3> QED
      BY <3>1 DEF Frame
  <2>2. \A i, j \in 1..n : i = j \/ i < j \/ j < i
    BY <1>1
  <2> QED
    BY <1>2, <2>1, <2>2
<1>5. ASSUME NEW f \in S PROVE \E k \in 1..n : kids[k] = f
  <2> SUFFICES ASSUME \A k \in 1..n : kids[k] # f PROVE FALSE
    OBVIOUS
  <2>1. kids \in [1..n -> S \ {f}]
    BY <1>2
  <2>2. IsFiniteSet(S \ {f}) /\ Cardinality(S \ {f}) = n - 1
    BY <1>1, FS_RemoveElement DEF n
  <2>3. \E i, j \in 1..n : i # j /\ kids[i] = kids[j]
    BY <1>1, <2>1, <2>2, TwoAlike
  <2> QED
    BY <1>4, <2>3
<1> QED
  BY <1>1, <1>2, <1>3, <1>4, <1>5 DEF n

\* There is room for another group while no parent is posting its wrappers.
LEMMA GroupFits ==
  ASSUME TypeOK, FreshOK, GroupsOK, \A f \in Frame : at[f] # "fork", Allocated < MaxFrames
  PROVE  Len(groups) \in Nat /\ Len(groups) + 1 \in 1..MaxFrames
<1> DEFINE n == Len(groups)
           T == {f \in Frame : at[f] # "free"}
<1>1. n \in Nat /\ DOMAIN groups = 1..n
  BY DEF TypeOK
<1>2. PICK m \in [1..n -> T] : \A g \in 1..n : serves[m[g]][1] = g
  <2>1. \A g \in 1..n : \E f \in T : serves[f][1] = g
    <3> SUFFICES ASSUME NEW g \in 1..n PROVE \E f \in T : serves[f][1] = g
      OBVIOUS
    <3>1. PICK f \in Frame : serves[f][1] = g
      BY <1>1 DEF GroupsOK, GroupOK
    <3>2. serves[f] # User
      BY <3>1 DEF User
    <3> QED
      BY <3>1, <3>2 DEF FreshOK
  <2> DEFINE w == [g \in 1..n |-> CHOOSE f \in T : serves[f][1] = g]
  <2>2. w \in [1..n -> T] /\ \A g \in 1..n : serves[w[g]][1] = g
    BY <2>1
  <2> QED
    BY <2>2
<1>3. IsFiniteSet(T) /\ Cardinality(T) = Allocated
  <2>1. IsFiniteSet(Frame)
    BY FS_Interval, BoundAssumption DEF Frame
  <2>2. IsFiniteSet(T)
    BY <2>1, FS_Subset
  <2> QED
    BY <2>2 DEF Allocated
<1>4. n <= Allocated
  <2> SUFFICES ASSUME n > Allocated PROVE FALSE
    BY <1>1 DEF FreshOK
  <2>1. \E i, j \in 1..n : i # j /\ m[i] = m[j]
    <3> HIDE DEF n, T
    <3> QED
      BY <1>1, <1>2, <1>3, TwoAlike
  <2> QED
    BY <1>2, <2>1
<1> HIDE DEF n
<1>5. n + 1 \in 1..MaxFrames
  BY <1>1, <1>4, BoundAssumption DEF FreshOK
<1> QED
  BY <1>1, <1>5 DEF n

\* The body awaits all the tasks it holds, or the first of them.
LEMMA WhenKeeps ==
  ASSUME Inv, NEW kind \in {"all", "any"}, When(kind)
  PROVE  Inv' /\ UNCHANGED loopVars
<1> USE DEF Inv, FramesOK
<1>1. InBody /\ kind \in Uses /\ Held # {} /\ Held \subseteq Frame
  BY DEF When, Normal, Held
<1>2. PICK o \in Frame : o = current
  BY <1>1, BodyIs
<1>3. /\ o # NoFrame /\ at[o] = "body" /\ serves[o] = User /\ Alive(o) /\ ~terminated
      /\ o \notin Loop!Registered
      /\ \A t \in Held : /\ t # o /\ Loop!Suspended(t) /\ serves[t] = User /\ cont[t] = NoFrame
                         /\ at[t] = "initial" /\ owner[t] = o
  BY <1>1, <1>2, BodyIs DEF Held
<1>4. PICK kids \in Orders(Held) : groups' = Append(groups, NewGroup(kind, kids))
  BY DEF When
<1>5. PICK G : G = Len(groups) + 1
  OBVIOUS
<1> DEFINE n == Len(kids)
           new == [kind |-> kind, parent |-> o, kids |-> kids, remaining |-> n, winner |-> 0,
                   exceptions |-> [i \in DOMAIN kids |-> NoFrame]]
<1>6. /\ n \in Nat /\ n # 0 /\ n = Cardinality(Held) /\ kids \in Seq(Frame)
      /\ DOMAIN kids = 1..n /\ \A k \in 1..n : kids[k] \in Held
      /\ \A i, j \in 1..n : kids[i] = kids[j] => i = j
      /\ \A f \in Held : \E k \in 1..n : kids[k] = f
  BY <1>1, OrdersAre
<1>7. Allocated + n <= MaxFrames /\ Allocated \in Nat
  BY <1>6 DEF When, Room, FreshOK
<1>8. \A f \in Frame : at[f] # "fork"
  BY <1>2, <1>3 DEF PlacesOK
<1>9. Len(groups) \in Nat /\ G \in 1..MaxFrames /\ DOMAIN groups = 1..Len(groups)
  <2>1. Allocated < MaxFrames
    BY <1>6, <1>7, BoundAssumption
  <2> QED
    BY <1>5, <1>8, <2>1, GroupFits DEF TypeOK
<1>10. new \in Group /\ groups' = Append(groups, new)
  <2>1. new.exceptions \in Seq(Frame \cup {NoFrame})
    BY <1>6
  <2> QED
    BY <1>2, <1>4, <1>6, <2>1 DEF NewGroup, Group
<1>11. /\ groups' \in Seq(Group) /\ DOMAIN groups' = 1..G /\ groups'[G] = new
       /\ \A g \in 1..Len(groups) : groups'[g] = groups[g]
  <2>1. groups \in Seq(Group)
    BY DEF TypeOK
  <2> HIDE DEF new
  <2> QED
    BY <1>5, <1>9, <1>10, <2>1
<1>12. UNCHANGED <<loopVars, owner, cont, detached, exc, serves, hostVars>>
  BY DEF When
<1>13. UNCHANGED <<ready, timers, now, mode, current, budget, batch, root, terminated,
                   owner, cont, detached, exc, serves>>
  BY <1>12 DEF loopVars, hostVars
<1>14. /\ at' = [at EXCEPT ![o] = "fork"] /\ waits' = [waits EXCEPT ![o] = G]
       /\ \A f \in Frame : at'[f] = IF f = o THEN "fork" ELSE at[f]
       /\ \A f \in Frame : waits'[f] = IF f = o THEN G ELSE waits[f]
  BY <1>5, <1>2 DEF When, TypeOK
<1> HIDE DEF n, new
<1>15. TypeOK'
  <2>1. Loop!TypeOK'
    BY <1>13 DEF TypeOK, Loop!TypeOK
  <2> QED
    BY <2>1, <1>9, <1>11, <1>13, <1>14, BoundAssumption DEF TypeOK, Place
<1>16. /\ LoopInv' /\ Loop!Registered' = Loop!Registered
       /\ \A f : Loop!Suspended(f)' = Loop!Suspended(f)
  BY <1>12, <1>13, LoopInvStep DEF Loop!Registered, Loop!Suspended
<1>17. Allocated' = Allocated /\ \A f \in Frame : Alive(f)' = Alive(f)
  BY <1>3, <1>14, SameAllocated DEF Alive
<1>18. FreshOK'
  BY <1>3, <1>13, <1>14, <1>17 DEF FreshOK, TypeOK
<1>19. OneOwner' /\ RootOK'
  BY <1>3, <1>13, <1>14, <1>17 DEF OneOwner, RootOK, Alive
<1>20. PlacesOK'
  BY <1>2, <1>3, <1>13, <1>14, <1>16 DEF PlacesOK, Alive
<1>21. UnstartedOK'
  BY <1>13, <1>14, <1>16 DEF UnstartedOK
<1>22. AwaitOK'
  <2> SUFFICES ASSUME NEW q \in Frame, at'[q] = "task", NEW f, waits'[q] = f
               PROVE  f \in Frame /\ Awaits(q, f)'
    BY DEF AwaitOK
  <2>1. f \in Frame /\ at[q] = "task" /\ Awaits(q, f) /\ q # o
    BY <1>14 DEF AwaitOK
  <2> QED
    BY <1>2, <1>13, <1>17, <2>1 DEF Awaits
<1>23. ContOK'
  BY <1>3, <1>13, <1>14, <1>17 DEF ContOK
<1>24. OwnsOK'
  <2> SUFFICES ASSUME NEW f \in Frame, NEW q \in Frame, Alive(f), owner[f] = q
               PROVE  Owns(q, f)'
    BY <1>13, <1>17 DEF OwnsOK
  <2>1. Owns(q, f)
    BY DEF OwnsOK
  <2>2. serves[q] # User => Child(q)' = Child(q)
    BY <1>9, <1>11, <1>13, WrapperIs DEF Child
  <2> QED
    BY <1>3, <1>13, <1>14, <2>1, <2>2 DEF Owns
<1>25. OthersKept(G)
  <2>1. \A w \in Frame : serves[w] # User => WrapperKept(w)
    BY <1>3, <1>13, <1>14, <1>17, WrapperIs DEF WrapperKept
  <2>2. \A q \in Frame : (AtGroup(q) \/ AtGroup(q)') /\ q # o => ParentKept(q)
    BY <1>14, <1>16 DEF AtGroup, ParentKept
  <2>3. AtGroup(o)' /\ waits'[o] = G /\ ~AtGroup(o)
    BY <1>3, <1>14 DEF AtGroup
  <2>4. \A c, q \in Frame : Waiting(c, q) => Waiting(c, q)'
    BY <1>3, <1>13, <1>14 DEF Waiting
  <2>5. \A g \in DOMAIN groups : g \in DOMAIN groups' /\ groups'[g] = groups[g]
    BY <1>5, <1>9, <1>11
  <2>6. /\ \A f \in Frame : at[f] # "free" => at'[f] # "free"
        /\ \A f \in Frame : at'[f] = "initial" => at[f] = "initial"
    BY <1>14
  <2> QED
    BY <1>13, <1>17, <2>1, <2>2, <2>3, <2>4, <2>5, <2>6 DEF OthersKept
<1>26. ASSUME NEW w \in Frame PROVE serves[w][1] # G
  <2>1. CASE serves[w] = User
    BY <1>9, <2>1 DEF User
  <2>2. CASE serves[w] # User
    BY <1>5, <1>9, <2>2, WrapperIs
  <2> QED
    BY <2>1, <2>2
<1>27. GroupOK(G)'
  <2>1. /\ groups'[G].kind = kind /\ groups'[G].parent = o /\ groups'[G].kids = kids
        /\ groups'[G].winner = 0 /\ Len(groups'[G].exceptions) = n
    BY <1>6, <1>11 DEF new
  <2>2. at'[o] = "fork" /\ waits'[o] = G
    BY <1>14
  <2>3. \A k \in 1..n : at'[kids[k]] # "free"
    BY <1>1, <1>3, <1>6, <1>14
  <2> QED
    BY <1>1, <1>6, <2>1, <2>2, <2>3 DEF GroupOK, n
<1>28. ASSUME NEW g, g = G PROVE GroupFine(g)'
  <2>1. /\ groups'[g].kind = kind /\ groups'[g].parent = o /\ groups'[g].kids = kids
        /\ groups'[g].winner = 0 /\ groups'[g].remaining = n /\ g \in DOMAIN groups'
    BY <1>6, <1>9, <1>11, <1>28 DEF new
  <2>2. \A k : \A w \in Frame : serves'[w] # <<g, k>>
    BY <1>13, <1>26, <1>28
  <2>3. \A p \in Frame : Joins(p, g)' => p = o
    <3> SUFFICES ASSUME NEW p \in Frame, Joins(p, g)', p # o PROVE FALSE
      OBVIOUS
    <3>1. Joins(p, g) /\ g \in 0..MaxFrames
      BY <1>9, <1>14, <1>28 DEF Joins
    <3>2. g \in DOMAIN groups
      BY <3>1 DEF ForksOK, ForkOK
    <3> QED
      BY <1>5, <1>9, <1>28, <3>2
  <2>4. Cardinality(Wrappers(g))' = 0
    <3>1. Wrappers(g)' = {}
      BY <1>13, <1>26, <1>28 DEF Wrappers
    <3> QED
      BY <3>1, FS_EmptySet
  <2>5. \A k \in 1..n : ~Reported(g, k)'
    BY <2>2 DEF Reported
  <2>6. Pending(g)' = 1..n /\ Cardinality(Pending(g))' = n
    <3>1. Pending(g)' = 1..n
      BY <2>1, <2>5 DEF Pending, n
    <3> QED
      BY <1>6, <3>1, FS_Interval
  <2>7. CountOK(o, g)'
    BY <1>14, <2>1, <2>5, <2>6 DEF CountOK, n
  <2>8. \A k \in 1..n : Waiting(kids[k], o)'
    <3> SUFFICES ASSUME NEW c \in Held PROVE Waiting(c, o)'
      BY <1>6 DEF Waiting
    <3> QED
      BY <1>1, <1>2, <1>3, <1>13, <1>14 DEF Waiting
  <2>9. ForkOK(o, g)'
    <3>1. \A k \in 1..n : ~ \E w \in Frame : serves'[w] = <<g, k>>
      BY <2>2
    <3>2. \A k \in 1..n : /\ at'[kids[k]] = "initial" /\ serves'[kids[k]] = User
                          /\ owner'[kids[k]] = o /\ cont'[kids[k]] = NoFrame
                          /\ kids[k] # current'
      BY <2>8 DEF Waiting
    <3>3. at'[o] = "fork"
      BY <1>14
    <3> QED
      BY <1>6, <1>7, <1>17, <2>1, <2>4, <3>1, <3>2, <3>3 DEF ForkOK, Waiting, n
  <2>10. ASSUME NEW f \in Frame, at'[f] = "initial", owner'[f] = o PROVE Unclaimed(f, g)'
    <3>1. f \in Held
      BY <1>2, <1>13, <1>14, <2>10 DEF Held
    <3>2. PICK k \in 1..n : kids[k] = f
      BY <1>6, <3>1
    <3> QED
      BY <2>1, <2>2, <3>2 DEF Unclaimed, n
  <2> QED
    BY <2>2, <2>3, <2>7, <2>9, <2>10 DEF GroupFine
<1>29. GroupsOK' /\ WrappersOK' /\ ForksOK' /\ KidsOK' /\ CountsOK'
  <2>1. \A g \in 0..MaxFrames : g # G => GroupFine(g)' /\ (g \in DOMAIN groups => GroupOK(g)')
    BY <1>25, OtherGroups
  <2>2. OneWrapperPerSlot'
    BY <1>13 DEF OneWrapperPerSlot, WrappersOK
  <2>3. \A g \in 0..MaxFrames : GroupFine(g)'
    BY <1>28, <2>1
  <2>4. \A g \in DOMAIN groups' : GroupOK(g)'
    <3>1. \A g \in DOMAIN groups' : g \in 0..MaxFrames /\ (g = G \/ g \in DOMAIN groups)
      BY <1>5, <1>9, <1>11, BoundAssumption, GroupsBounded
    <3> QED
      BY <1>27, <2>1, <3>1
  <2> QED
    BY <2>2, <2>3, <2>4, GroupByGroup DEF GroupsOK
<1> QED
  BY <1>12, <1>15, <1>16, <1>18, <1>19, <1>20, <1>21, <1>22, <1>23, <1>24, <1>29

\* A coroutine that awaits a group, or is posting the wrappers of one.
LEMMA ParentIs ==
  ASSUME Inv, NEW p \in Frame, AtGroup(p)
  PROVE  /\ serves[p] = User
         /\ \E g \in 1..MaxFrames :
              /\ waits[p] = g /\ g \in DOMAIN groups /\ groups[g].parent = p
              /\ ForkOK(p, g) /\ CountOK(p, g) /\ GroupOK(g) /\ GroupFine(g)
              /\ Len(groups[g].kids) \in 1..MaxFrames
<1> USE DEF Inv, FramesOK
<1>1. serves[p] = User
  BY WrapperIs DEF AtGroup
<1>2. PICK g \in 0..MaxFrames : waits[p] = g
  BY DEF TypeOK
<1>3. Joins(p, g)
  BY <1>2 DEF AtGroup, Joins
<1>4. /\ ForkOK(p, g) /\ CountOK(p, g) /\ g \in DOMAIN groups /\ groups[g].parent = p
      /\ GroupOK(g)
  BY <1>3 DEF ForksOK, CountsOK, ForkOK, GroupsOK
<1>5. g \in 1..MaxFrames
  BY <1>4, GroupTypes, BoundAssumption
<1>6. Len(groups[g].kids) \in 1..MaxFrames
  BY <1>4, KidsBounded, BoundAssumption DEF GroupOK
<1>7. GroupFine(g)
  BY GroupByGroup
<1> QED
  BY <1>1, <1>2, <1>4, <1>5, <1>6, <1>7

\* A step that disturbs one group.
LEMMA OneGroupDisturbed ==
  ASSUME TypeOK, GroupsOK, WrappersOK, ForksOK, KidsOK, CountsOK, NEW g \in 0..MaxFrames,
         OthersKept(g), DOMAIN groups' = DOMAIN groups,
         OneWrapperPerSlot', GroupFine(g)', GroupOK(g)'
  PROVE  GroupsOK' /\ WrappersOK' /\ ForksOK' /\ KidsOK' /\ CountsOK'
<1>1. \A x \in 0..MaxFrames : x # g =>
        GroupFine(x)' /\ (x \in DOMAIN groups => GroupOK(x)')
  BY OtherGroups
<1>2. \A x \in 0..MaxFrames : GroupFine(x)' /\ (x \in DOMAIN groups => GroupOK(x)')
  BY <1>1
<1>3. DOMAIN groups \subseteq 0..MaxFrames
  BY GroupsBounded
<1> QED
  BY <1>2, <1>3, GroupByGroup DEF GroupsOK

\* The parent has posted its wrappers, and leaves.
LEMMA ForkDoneKeeps ==
  ASSUME Inv, ForkDone
  PROVE  Inv' /\ Loop!Next
<1> USE DEF Inv, FramesOK
<1>1. PICK o \in Frame : o = current
  BY LoopMeans DEF ForkDone
<1>2. /\ o # NoFrame /\ at[o] = "fork" /\ AtGroup(o) /\ Alive(o) /\ ~terminated
      /\ o \notin Loop!Registered
  BY <1>1, LoopMeans DEF ForkDone, Alive, PlacesOK, AtGroup
<1>3. PICK g \in 1..MaxFrames :
        /\ waits[o] = g /\ g \in DOMAIN groups /\ groups[g].parent = o
        /\ ForkOK(o, g) /\ CountOK(o, g) /\ GroupOK(g) /\ GroupFine(g)
        /\ Len(groups[g].kids) \in 1..MaxFrames
  BY <1>2, ParentIs
<1>4. serves[o] = User
  BY <1>2, ParentIs
<1>5. UNCHANGED <<ready, timers, now, mode, budget, batch, root, terminated,
                  owner, cont, detached, exc, waits, serves, groups>>
  BY DEF ForkDone, hostVars
<1>6. /\ current' = NoFrame /\ at' = [at EXCEPT ![o] = "group"]
      /\ \A f \in Frame : at'[f] = IF f = o THEN "group" ELSE at[f]
  BY <1>1 DEF ForkDone, TypeOK
<1>7. Loop!Next /\ LoopInv' /\ Loop!Registered' = Loop!Registered
  BY <1>1, <1>2, <1>5, <1>6, LoopLeaves
<1>8. TypeOK'
  BY <1>5, <1>6, <1>7, LoopTyped DEF TypeOK, Place
<1>9. Allocated' = Allocated /\ \A f \in Frame : Alive(f)' = Alive(f)
  BY <1>2, <1>6, SameAllocated DEF Alive
<1>10. /\ \A f \in Frame : f # o => (Loop!Suspended(f)' <=> Loop!Suspended(f))
       /\ Loop!Suspended(o)'
  BY <1>1, <1>2, <1>6, <1>7 DEF Loop!Suspended, NoFrame, Frame
<1>11. FreshOK'
  BY <1>2, <1>5, <1>6, <1>9 DEF FreshOK, TypeOK, NoFrame, Frame
<1>12. OneOwner' /\ RootOK'
  BY <1>5, <1>6, <1>9 DEF OneOwner, RootOK, Alive
<1>13. PlacesOK'
  BY <1>1, <1>2, <1>5, <1>6, <1>7 DEF PlacesOK
<1>14. UnstartedOK'
  BY <1>1, <1>5, <1>6, <1>10 DEF UnstartedOK
<1>15. AwaitOK'
  <2> SUFFICES ASSUME NEW q \in Frame, at'[q] = "task", NEW f, waits'[q] = f
               PROVE  f \in Frame /\ Awaits(q, f)'
    BY DEF AwaitOK
  <2>1. f \in Frame /\ at[q] = "task" /\ Awaits(q, f)
    BY <1>5, <1>6 DEF AwaitOK
  <2> QED
    BY <1>5, <1>6, <1>9, <2>1 DEF Awaits, NoFrame, Frame
<1>16. ContOK'
  BY <1>2, <1>5, <1>6, <1>9 DEF ContOK
<1>17. OwnsOK'
  <2> SUFFICES ASSUME NEW f \in Frame, NEW q \in Frame, Alive(f), owner[f] = q
               PROVE  Owns(q, f)'
    BY <1>5, <1>9 DEF OwnsOK
  <2>1. Owns(q, f)
    BY DEF OwnsOK
  <2> QED
    BY <1>2, <1>5, <1>6, <2>1 DEF Owns, Child
<1>18. OthersKept(g)
  <2>1. \A w \in Frame : serves[w] # User => WrapperKept(w)
    BY <1>4, <1>5, <1>6, <1>9, WrapperIs DEF WrapperKept
  <2>2. \A q \in Frame : (AtGroup(q) \/ AtGroup(q)') /\ q # o => ParentKept(q)
    BY <1>5, <1>6, <1>10 DEF AtGroup, ParentKept
  <2>3. waits[o] = g /\ waits'[o] = g
    BY <1>3, <1>5
  <2>4. \A c, q \in Frame : Waiting(c, q) => Waiting(c, q)'
    BY <1>2, <1>5, <1>6 DEF Waiting, NoFrame, Frame
  <2>5. \A f \in Frame : at'[f] = "initial" => at[f] = "initial"
    BY <1>6
  <2>6. \A f \in Frame : at[f] # "free" => at'[f] # "free"
    BY <1>6
  <2> QED
    BY <1>5, <1>9, <2>1, <2>2, <2>3, <2>4, <2>5, <2>6 DEF OthersKept
<1>19. GroupOK(g)'
  <2>1. \E f \in Frame : serves[f][1] = g
    <3>1. 1 \in 1..Len(groups[g].kids) /\ Cardinality(Wrappers(g)) = Len(groups[g].kids)
      BY <1>1, <1>3 DEF ForkDone
    <3>2. \A k \in 1..Len(groups[g].kids) :
            k <= Cardinality(Wrappers(g)) => \E w \in Frame : serves[w] = <<g, k>>
      BY <1>3 DEF ForkOK
    <3>3. 1 <= Len(groups[g].kids)
      BY <1>3
    <3>4. PICK w \in Frame : serves[w] = <<g, 1>>
      BY <3>1, <3>2, <3>3
    <3> QED
      BY <3>4
  <2>2. \A f \in Frame : at[f] # "free" => at'[f] # "free"
    BY <1>6
  <2>3. /\ \A i \in 1..Len(groups[g].kids) : groups[g].kids[i] \in Frame
        /\ groups[g].parent \in Frame
    BY <1>3, GroupTypes
  <2> QED
    BY <1>3, <1>5, <2>1, <2>2, <2>3 DEF GroupOK
<1>20. GroupFine(g)'
  <2>1. \A q \in Frame : Joins(q, g)' <=> Joins(q, g)
    BY <1>2, <1>5, <1>6 DEF Joins
  <2>2. \A c, q \in Frame : Waiting(c, q) => Waiting(c, q)'
    BY <1>2, <1>5, <1>6 DEF Waiting, NoFrame, Frame
  <2>3. \A k \in 1..Len(groups[g].kids) : Reported(g, k)' <=> Reported(g, k)
    BY <1>2, <1>5, <1>6 DEF Reported
  <2>4. ASSUME NEW w \in Frame, NEW k \in 0..MaxFrames, serves[w] = <<g, k>>, <<g, k>> # User
        PROVE  WrapperOK(w, g, k)'
    <3>1. WrapperOK(w, g, k)
      BY <1>3, <2>4 DEF GroupFine
    <3>2. groups[g].kids[k] \in Frame /\ k \in 1..Len(groups[g].kids)
      BY <1>3, <3>1, GroupTypes DEF WrapperOK
    <3>3. at'[w] = at[w] /\ w # o
      BY <1>4, <1>6, <2>4
    <3>4. PICK c \in Frame : c = groups[g].kids[k]
      BY <3>2
    <3>5. /\ Waiting(c, w) => Waiting(c, w)'
          /\ Waiting(c, o) => Waiting(c, o)'
      BY <2>2
    <3> QED
      BY <1>3, <1>5, <1>9, <2>1, <3>1, <3>3, <3>4, <3>5 DEF WrapperOK, Waiting
  <2>5. ASSUME NEW p \in Frame, Joins(p, g) PROVE ForkOK(p, g)' /\ CountOK(p, g)'
    <3>1. p = o
      BY <1>3, <2>5 DEF ForksOK, ForkOK
    <3>2. Wrappers(g)' = Wrappers(g) /\ Pending(g)' = Pending(g)
      BY <1>5, <2>3 DEF Wrappers, Pending
    <3>3. Cardinality(Wrappers(g)) = Len(groups[g].kids) /\ at'[o] = "group"
      BY <1>1, <1>3, <1>6 DEF ForkDone
    <3>4. ForkOK(o, g)'
      <4>1. \A k \in 1..Len(groups[g].kids) : ~(k > Cardinality(Wrappers(g)))
        BY <1>3, <3>3
      <4>2. at'[o] # "fork"
        BY <3>3
      <4> QED
        BY <1>3, <1>5, <3>2, <3>3, <4>1, <4>2 DEF ForkOK
    <3>5. Pending(g) = 1..Len(groups[g].kids) /\ groups[g].winner = 0
      BY <1>2, <1>3 DEF CountOK
    <3>6. Cardinality(Pending(g)) # 0
      BY <1>3, <3>5, FS_Interval
    <3>7. CountOK(o, g)'
      BY <1>3, <1>5, <1>10, <2>3, <3>2, <3>3, <3>5, <3>6 DEF CountOK
    <3> QED
      BY <3>1, <3>4, <3>7
  <2>6. ASSUME NEW f \in Frame, NEW p \in Frame, at'[f] = "initial", serves'[f] = User,
               owner'[f] = p, Joins(p, g)
        PROVE  Unclaimed(f, g)'
    <3>1. Unclaimed(f, g)
      BY <1>5, <1>6, <2>6 DEF KidsOK
    <3>2. \A w \in Frame : at[w] = "initial" => at'[w] = "initial"
      BY <1>2, <1>6
    <3> QED
      BY <1>5, <3>1, <3>2 DEF Unclaimed
  <2> QED
    BY <1>5, <2>1, <2>4, <2>5, <2>6 DEF GroupFine
<1>21. GroupsOK' /\ WrappersOK' /\ ForksOK' /\ KidsOK' /\ CountsOK'
  <2>1. OneWrapperPerSlot' /\ DOMAIN groups' = DOMAIN groups
    BY <1>5 DEF OneWrapperPerSlot, WrappersOK
  <2>2. g \in 0..MaxFrames
    BY <1>3
  <2> QED
    BY <1>18, <1>19, <1>20, <2>1, <2>2, OneGroupDisturbed
<1> QED
  BY <1>7, <1>8, <1>11, <1>12, <1>13, <1>14, <1>15, <1>16, <1>17, <1>21

\* A wrapper starts, and awaits its child.
LEMMA WrapperAwaitKeeps ==
  ASSUME Inv, WrapperAwait
  PROVE  Inv' /\ Loop!Next
<1> USE DEF Inv, FramesOK
<1>1. PICK w \in Frame : w = current
  BY LoopMeans DEF WrapperAwait
<1>2. /\ w # NoFrame /\ at[w] = "initial" /\ serves[w] # User /\ Alive(w) /\ ~terminated
      /\ w \notin Loop!Registered
  BY <1>1, LoopMeans DEF WrapperAwait, Alive, PlacesOK
<1>3. PICK g, k \in 0..MaxFrames :
        /\ serves[w] = <<g, k>> /\ <<g, k>> # User /\ WrapperOK(w, g, k)
        /\ g = serves[w][1] /\ k = serves[w][2]
        /\ g \in DOMAIN groups /\ k \in 1..Len(groups[g].kids)
  BY <1>2, WrapperIs
<1>4. PICK c, p \in Frame : c = groups[g].kids[k] /\ p = groups[g].parent
  BY <1>3, GroupTypes
<1>5. PICK q \in Frame : /\ q = w \/ (q = p /\ Joins(p, g))
                         /\ Waiting(c, q)
  BY <1>2, <1>3, <1>4 DEF WrapperOK
<1>6. /\ at[c] = "initial" /\ serves[c] = User /\ owner[c] = q /\ cont[c] = NoFrame
      /\ c # w /\ q # NoFrame /\ Alive(c) /\ ~detached[c] /\ c # root /\ Loop!Suspended(c)
  <2>1. /\ at[c] = "initial" /\ serves[c] = User /\ owner[c] = q /\ cont[c] = NoFrame
        /\ c # w /\ q # NoFrame /\ Alive(c)
    BY <1>1, <1>5 DEF Waiting, Alive, NoFrame, Frame
  <2> QED
    BY <2>1, <1>1 DEF OneOwner, UnstartedOK
<1>7. /\ UNCHANGED <<ready, timers, now, mode, budget, batch, root, terminated,
                     detached, exc, serves, groups>>
      /\ current' = c
  BY <1>1, <1>3, <1>4 DEF WrapperAwait, hostVars
<1>8. /\ at' = [at EXCEPT ![w] = "task"] /\ owner' = [owner EXCEPT ![c] = w]
      /\ cont' = [cont EXCEPT ![c] = w] /\ waits' = [waits EXCEPT ![w] = c]
  BY <1>1, <1>3, <1>4 DEF WrapperAwait
<1>9. /\ \A f \in Frame : at'[f] = IF f = w THEN "task" ELSE at[f]
      /\ \A f \in Frame : owner'[f] = IF f = c THEN w ELSE owner[f]
      /\ \A f \in Frame : cont'[f] = IF f = c THEN w ELSE cont[f]
      /\ \A f \in Frame : waits'[f] = IF f = w THEN c ELSE waits[f]
  BY <1>8 DEF TypeOK
<1>10. Loop!Next /\ LoopInv' /\ Loop!Registered' = Loop!Registered
  BY <1>1, <1>2, <1>6, <1>7, LoopTransfers
<1>11. TypeOK'
  BY <1>7, <1>8, <1>10, LoopTyped DEF TypeOK, Place, Frame
<1>12. Allocated' = Allocated /\ \A f \in Frame : Alive(f)' = Alive(f)
  BY <1>2, <1>9, SameAllocated DEF Alive
<1>13. \A f \in Frame : f \notin {w, c} => (Loop!Suspended(f)' <=> Loop!Suspended(f))
  BY <1>1, <1>7, <1>10 DEF Loop!Suspended
<1>14. FreshOK'
  <2>1. \A f \in Frame : at'[f] = "free" <=> at[f] = "free"
    BY <1>2, <1>9
  <2>2. \A f \in Frame : owner'[f] # NoFrame => at'[owner'[f]] # "free"
    <3> SUFFICES ASSUME NEW f \in Frame, NEW r \in Frame, owner'[f] = r PROVE at'[r] # "free"
      BY <1>11 DEF TypeOK
    <3>1. r = w \/ owner[f] = r
      BY <1>9
    <3>2. at[r] # "free"
      BY <1>2, <3>1 DEF FreshOK, NoFrame, Frame
    <3> QED
      BY <1>9, <3>2
  <2>3. \A f \in Frame : at[f] = "free" => f # w /\ f # c
    BY <1>2, <1>6
  <2> QED
    BY <1>7, <1>9, <1>12, <2>1, <2>2, <2>3 DEF FreshOK
<1>15. OneOwner' /\ RootOK'
  BY <1>2, <1>6, <1>7, <1>9, <1>12 DEF OneOwner, RootOK, Alive
<1>16. PlacesOK'
  <2>1. \A f \in Frame : at'[f] \notin {"body", "fork"}
    BY <1>1, <1>2, <1>9 DEF PlacesOK
  <2>2. Alive(c)'
    BY <1>6, <1>12
  <2>3. \A f \in Loop!Registered' : at'[f] \in {"initial", "timer", "event", "group"}
    BY <1>2, <1>9, <1>10, LoopMeans DEF PlacesOK
  <2>4. mode # "idle"
    BY <1>1, <1>2 DEF PlacesOK
  <2>5. \A f \in Frame : at'[f] = "event" => at[f] = "event"
    BY <1>9
  <2>6. Alive(current)' /\ ~terminated'
    BY <1>2, <1>7, <2>2 DEF Alive
  <2> QED
    BY <1>7, <2>1, <2>3, <2>4, <2>5, <2>6 DEF PlacesOK, Alive
<1>17. UnstartedOK'
  BY <1>1, <1>2, <1>7, <1>9, <1>13 DEF UnstartedOK
<1>18. AwaitOK'
  <2> SUFFICES ASSUME NEW r \in Frame, at'[r] = "task", NEW f, waits'[r] = f
               PROVE  f \in Frame /\ Awaits(r, f)'
    BY DEF AwaitOK
  <2>1. CASE r = w
    BY <1>6, <1>7, <1>9, <1>12, <2>1 DEF Awaits
  <2>2. CASE r # w
    <3>1. f \in Frame /\ at[r] = "task" /\ Awaits(r, f)
      BY <1>9, <2>2 DEF AwaitOK
    <3>2. f # c /\ r # c
      BY <1>6, <3>1 DEF Awaits, NoFrame, Frame
    <3> QED
      BY <1>7, <1>9, <1>12, <3>1, <3>2 DEF Awaits
  <2> QED
    BY <2>1, <2>2
<1>19. ContOK'
  BY <1>2, <1>9, <1>12 DEF ContOK
<1>20. OwnsOK'
  <2> SUFFICES ASSUME NEW f \in Frame, NEW r \in Frame, Alive(f), owner'[f] = r
               PROVE  Owns(r, f)'
    BY <1>12 DEF OwnsOK
  <2>1. CASE f = c
    BY <1>9, <2>1 DEF Owns
  <2>2. CASE f # c
    <3>1. Owns(r, f) /\ owner[f] = r
      BY <1>9, <2>2 DEF OwnsOK
    <3>2. r # w
      <4>1. Child(w) = c
        BY <1>3, <1>4 DEF Child
      <4> QED
        BY <1>2, <2>2, <3>1, <4>1 DEF Owns
    <3> QED
      BY <1>2, <1>7, <1>9, <3>1, <3>2 DEF Owns, Child
  <2> QED
    BY <2>1, <2>2
<1>21. OthersKept(g)
  <2>1. \A v \in Frame : serves[v] # User => WrapperKept(v) \/ v = w
    BY <1>6, <1>7, <1>9, <1>12, WrapperIs DEF WrapperKept
  <2>2. \A r \in Frame : AtGroup(r) \/ AtGroup(r)' => ParentKept(r)
    BY <1>2, <1>6, <1>9, <1>13 DEF AtGroup, ParentKept
  <2>3. ~AtGroup(w) /\ (AtGroup(q) => waits[q] = g) /\ (serves[q] # User => serves[q][1] = g)
    <3>1. at[q] \in {"fork", "group"} => serves[q] = User
      BY WrapperIs
    <3> QED
      BY <1>2, <1>3, <1>5, <3>1 DEF AtGroup, Joins
  <2>4. \A d, r \in Frame :
          /\ Waiting(d, r)
          /\ (AtGroup(r) /\ waits[r] # g) \/ (serves[r] # User /\ serves[r][1] # g)
          => Waiting(d, r)'
    BY <1>2, <1>6, <1>7, <1>9, <2>3 DEF Waiting
  <2>5. \A f, r \in Frame :
           at'[f] = "initial" /\ owner'[f] = r /\ AtGroup(r) => at[f] = "initial" /\ owner[f] = r
    BY <1>2, <1>9, <2>3
  <2>6. \A f \in Frame : at[f] # "free" => at'[f] # "free"
    BY <1>9
  <2> QED
    BY <1>3, <1>7, <1>12, <2>1, <2>2, <2>4, <2>5, <2>6 DEF OthersKept
<1>22. GroupOK(g) /\ GroupFine(g) /\ Len(groups[g].kids) \in 1..MaxFrames
  <2>1. GroupOK(g) /\ GroupFine(g)
    BY <1>3, GroupByGroup DEF GroupsOK
  <2> QED
    BY <1>3, <2>1, KidsBounded, BoundAssumption DEF GroupOK
<1>23. \A j \in 1..Len(groups[g].kids) :
         groups[g].kids[j] \in Frame /\ (groups[g].kids[j] = c => j = k)
  BY <1>3, <1>4, <1>22, GroupTypes DEF GroupOK
<1>24. GroupOK(g)'
  <2>1. /\ \A f \in Frame : at[f] # "free" => at'[f] # "free"
        /\ \A f \in Frame : at[f] = "fork" => at'[f] = "fork" /\ waits'[f] = waits[f]
    BY <1>2, <1>9
  <2> QED
    BY <1>4, <1>7, <1>22, <1>23, <2>1 DEF GroupOK
<1>25. GroupFine(g)'
  <2>1. \A r \in Frame : Joins(r, g)' <=> Joins(r, g)
    BY <1>2, <1>9 DEF Joins
  <2>2. \A d, r \in Frame : Waiting(d, r) /\ d # c => Waiting(d, r)'
    BY <1>2, <1>7, <1>9 DEF Waiting
  <2>3. \A j \in 1..Len(groups[g].kids) : Reported(g, j)' <=> Reported(g, j)
    BY <1>2, <1>7, <1>9 DEF Reported
  <2>4. ASSUME NEW v \in Frame, NEW j \in 0..MaxFrames, serves[v] = <<g, j>>, <<g, j>> # User
        PROVE  WrapperOK(v, g, j)'
    <3>1. WrapperOK(v, g, j) /\ j \in 1..Len(groups[g].kids)
      BY <1>22, <2>4 DEF GroupFine, WrapperOK
    <3>2. v # c
      BY <1>6, <2>4
    <3>3. CASE v = w
      BY <1>2, <1>4, <1>7, <1>9, <1>12, <2>1, <3>1, <3>2, <3>3 DEF WrapperOK
    <3>4. CASE v # w
      <4>1. j # k
        BY <1>3, <2>4, <3>4 DEF WrappersOK
      <4>2. PICK d \in Frame : d = groups[g].kids[j] /\ d # c
        BY <1>23, <3>1, <4>1
      <4>3. /\ Waiting(d, v) => Waiting(d, v)'
            /\ Waiting(d, p) => Waiting(d, p)'
        BY <2>2, <4>2
      <4> QED
        BY <1>4, <1>7, <1>9, <1>12, <2>1, <3>1, <3>2, <3>4, <4>2, <4>3 DEF WrapperOK, Waiting
    <3> QED
      BY <3>3, <3>4
  <2>5. ASSUME NEW r \in Frame, Joins(r, g) PROVE ForkOK(r, g)' /\ CountOK(r, g)'
    <3>1. ForkOK(r, g) /\ CountOK(r, g) /\ r \notin {w, c}
      BY <1>2, <1>6, <1>22, <2>5 DEF GroupFine, Joins
    <3>2. Wrappers(g)' = Wrappers(g) /\ Pending(g)' = Pending(g)
      BY <1>7, <2>3 DEF Wrappers, Pending
    <3>3. at'[r] = at[r] /\ (Loop!Suspended(r)' <=> Loop!Suspended(r))
      BY <1>9, <1>13, <3>1
    <3>4. CountOK(r, g)'
      BY <1>7, <2>3, <3>1, <3>2, <3>3 DEF CountOK
    <3>5. ASSUME NEW j \in 1..Len(groups[g].kids), j > Cardinality(Wrappers(g)),
                 NEW d, d = groups[g].kids[j]
          PROVE  Waiting(d, r)'
      <4>1. Waiting(d, r)
        BY <3>1, <3>5 DEF ForkOK
      <4>2. k <= Cardinality(Wrappers(g))
        BY <1>3, <3>1 DEF ForkOK
      <4>3. d # c /\ d \in Frame
        BY <1>23, <3>1, <3>5, <4>2 DEF ForkOK
      <4> QED
        BY <2>2, <4>1, <4>3
    <3>6. \A j \in 1..Len(groups[g].kids) : j > Cardinality(Wrappers(g)) =>
            /\ at'[groups[g].kids[j]] = "initial" /\ serves'[groups[g].kids[j]] = User
            /\ owner'[groups[g].kids[j]] = r /\ cont'[groups[g].kids[j]] = NoFrame
            /\ groups[g].kids[j] # current'
      BY <3>5 DEF Waiting
    <3>7. ForkOK(r, g)'
      BY <1>7, <1>12, <3>1, <3>2, <3>3, <3>6 DEF ForkOK, Waiting
    <3> QED
      BY <3>4, <3>7
  <2>6. ASSUME NEW f \in Frame, NEW r \in Frame, at'[f] = "initial", serves'[f] = User,
               owner'[f] = r, Joins(r, g)
        PROVE  Unclaimed(f, g)'
    <3>1. f # c /\ at[f] = "initial" /\ serves[f] = User /\ owner[f] = r
      BY <1>2, <1>7, <1>9, <2>6 DEF Joins
    <3>2. Unclaimed(f, g)
      BY <1>22, <2>6, <3>1 DEF GroupFine
    <3>3. PICK j \in 1..Len(groups[g].kids) :
            /\ f = groups[g].kids[j]
            /\ \A v \in Frame : serves[v] = <<g, j>> =>
                 groups[g].kind = "all" /\ at[v] = "initial"
      BY <3>2 DEF Unclaimed
    <3>4. j # k
      BY <1>4, <3>1, <3>3
    <3>5. \A v \in Frame : serves[v] = <<g, j>> => at'[v] = at[v]
      BY <1>3, <1>9, <3>4
    <3> QED
      BY <1>7, <3>3, <3>5 DEF Unclaimed
  <2> QED
    BY <1>7, <2>1, <2>4, <2>5, <2>6 DEF GroupFine
<1>26. GroupsOK' /\ WrappersOK' /\ ForksOK' /\ KidsOK' /\ CountsOK'
  <2>1. OneWrapperPerSlot' /\ DOMAIN groups' = DOMAIN groups
    BY <1>7 DEF OneWrapperPerSlot, WrappersOK
  <2> QED
    BY <1>21, <1>24, <1>25, <2>1, OneGroupDisturbed
<1> QED
  BY <1>10, <1>11, <1>14, <1>15, <1>16, <1>17, <1>18, <1>19, <1>20, <1>26

\* A wrapper is allocated for the next task, and posted.
LEMMA ForkChildKeeps ==
  ASSUME Inv, ForkChild
  PROVE  Inv' /\ Loop!Next
<1> USE DEF Inv, FramesOK
<1>1. PICK o \in Frame : o = current
  BY LoopMeans DEF ForkChild
<1>2. /\ o # NoFrame /\ at[o] = "fork" /\ AtGroup(o) /\ Alive(o) /\ ~terminated
  BY <1>1, LoopMeans DEF ForkChild, Alive, PlacesOK, AtGroup
<1>3. PICK g \in 1..MaxFrames :
        /\ waits[o] = g /\ g \in DOMAIN groups /\ groups[g].parent = o
        /\ ForkOK(o, g) /\ CountOK(o, g) /\ GroupOK(g) /\ GroupFine(g)
        /\ Len(groups[g].kids) \in 1..MaxFrames
  BY <1>2, ParentIs
<1>4. serves[o] = User
  BY <1>2, ParentIs
<1>5. PICK m \in Nat, N \in 1..MaxFrames : m = Cardinality(Wrappers(g)) /\ N = Len(groups[g].kids)
  BY <1>3, BoundAssumption DEF ForkOK
<1>6. PICK k \in 1..N : k = m + 1
  BY <1>1, <1>3, <1>5 DEF ForkChild
<1>7. /\ \A j \in 1..N : j <= m => \E v \in Frame : serves[v] = <<g, j>>
      /\ \A j \in 1..N : \A v \in Frame : serves[v] = <<g, j>> => j <= m
      /\ \A j \in 1..N : j > m => Waiting(groups[g].kids[j], o)
      /\ Allocated + (N - m) <= MaxFrames
  BY <1>2, <1>3, <1>5 DEF ForkOK
<1>8. PICK c \in Frame : c = groups[g].kids[k]
  BY <1>3, <1>5, GroupTypes
<1>9. /\ at[c] = "initial" /\ serves[c] = User /\ owner[c] = o /\ cont[c] = NoFrame /\ c # o
      /\ Alive(c) /\ ~detached[c] /\ c # root /\ Waiting(c, o)
  <2>1. Waiting(c, o)
    BY <1>6, <1>7, <1>8
  <2> QED
    BY <2>1, <1>1, <1>2 DEF Waiting, OneOwner, Alive
<1>10. \A j \in 1..N : groups[g].kids[j] \in Frame /\ (groups[g].kids[j] = c => j = k)
  BY <1>3, <1>5, <1>8, GroupTypes DEF GroupOK
<1>11. Room(1)
  BY <1>5, <1>6, <1>7, BoundAssumption DEF Room, FreshOK
<1>12. PICK w \in Frame : at[w] = "free" /\ w = NewFrame /\ w = Allocated + 1
  BY <1>11, NewFrameIsFree
<1>13. /\ owner[w] = NoFrame /\ cont[w] = NoFrame /\ ~detached[w] /\ serves[w] = User
       /\ w # root /\ w # o /\ w # c /\ w # NoFrame /\ \A f \in Frame : owner[f] # w
       /\ w \notin Loop!Registered /\ Loop!Suspended(w)
  BY <1>1, <1>9, <1>12 DEF FreshOK, PlacesOK, NoFrame, Frame, Loop!Suspended
<1>14. PICK any \in BOOLEAN : any <=> groups[g].kind = "any"
  OBVIOUS
<1>15. /\ UNCHANGED <<timers, now, mode, current, budget, batch, root, terminated,
                      cont, exc, waits, groups>>
       /\ ready' = Append(ready, w)
  BY <1>1, <1>12 DEF ForkChild, hostVars
<1>16. /\ at' = [at EXCEPT ![w] = "initial"]
       /\ serves' = [serves EXCEPT ![w] = <<g, k>>]
       /\ detached' = [detached EXCEPT ![w] = any]
       /\ owner' = IF any THEN [owner EXCEPT ![c] = w] ELSE [owner EXCEPT ![w] = o]
  BY <1>1, <1>3, <1>5, <1>6, <1>8, <1>12, <1>14 DEF ForkChild
<1>17. /\ \A f \in Frame : at'[f] = IF f = w THEN "initial" ELSE at[f]
       /\ \A f \in Frame : serves'[f] = IF f = w THEN <<g, k>> ELSE serves[f]
       /\ \A f \in Frame : detached'[f] = IF f = w THEN any ELSE detached[f]
       /\ \A f \in Frame : owner'[f] = IF any /\ f = c THEN w
                                       ELSE IF ~any /\ f = w THEN o ELSE owner[f]
  BY <1>16 DEF TypeOK
<1>18. <<g, k>> # User /\ k \in 0..MaxFrames /\ g \in 0..MaxFrames
  BY <1>5, BoundAssumption DEF User
<1>19. Loop!Next /\ LoopInv' /\ Loop!Registered' = Loop!Registered \cup {w}
  <2>1. Loop!CanCall
    BY <1>1, <1>2 DEF Loop!CanCall
  <2> QED
    BY <1>13, <1>15, <2>1, LoopPosts
<1>20. TypeOK'
  <2>1. owner' \in [Frame -> Frame \cup {NoFrame}]
    BY <1>16 DEF TypeOK
  <2>2. serves' \in [Frame -> (0..MaxFrames) \X (0..MaxFrames)]
    BY <1>16, <1>18 DEF TypeOK
  <2>3. at' \in [Frame -> Place] /\ detached' \in [Frame -> BOOLEAN]
    BY <1>16 DEF TypeOK, Place
  <2> QED
    BY <1>15, <1>19, <2>1, <2>2, <2>3, LoopTyped DEF TypeOK
<1>21. Allocated' = Allocated + 1 /\ Allocated + 1 \in 0..MaxFrames
  BY <1>12, <1>16, <1>20, OneMoreAllocated DEF TypeOK, Place
<1>22. /\ \A f \in Frame : Alive(f)' <=> Alive(f) \/ f = w
       /\ \A f \in Frame : f # w => (Loop!Suspended(f)' <=> Loop!Suspended(f))
  BY <1>15, <1>17, <1>19 DEF Alive, Loop!Suspended
<1>23. FreshOK'
  <2>1. \A f \in Frame : at'[f] = "free" <=> at[f] = "free" /\ f # w
    BY <1>17
  <2>2. \A f \in Frame : at[f] = "free" /\ f # w <=> Allocated + 1 < f
    BY <1>12 DEF FreshOK, Frame
  <2>3. \A f \in Frame : owner'[f] # NoFrame => at'[owner'[f]] # "free"
    <3> SUFFICES ASSUME NEW f \in Frame, NEW r \in Frame, owner'[f] = r PROVE at'[r] # "free"
      BY <1>20 DEF TypeOK
    <3>1. r = w \/ r = o \/ owner[f] = r
      BY <1>17
    <3>2. r = w \/ at[r] # "free"
      BY <1>2, <3>1 DEF FreshOK, NoFrame, Frame
    <3> QED
      BY <1>17, <3>2
  <2>4. \A f \in Frame : at[f] = "free" /\ f # w =>
          /\ owner'[f] = NoFrame /\ cont[f] = NoFrame /\ ~detached'[f] /\ serves'[f] = User
          /\ f # root /\ f # current
    BY <1>9, <1>17 DEF FreshOK
  <2> QED
    BY <1>15, <1>21, <2>1, <2>2, <2>3, <2>4 DEF FreshOK
<1>24. OneOwner'
  <2> SUFFICES ASSUME NEW f \in Frame, Alive(f) \/ f = w
               PROVE  IF detached'[f] \/ f = root THEN owner'[f] = NoFrame
                      ELSE \E r \in Frame : owner'[f] = r /\ Alive(r)'
    BY <1>15, <1>22 DEF OneOwner, Alive
  <2>1. CASE f = w
    BY <1>2, <1>13, <1>17, <1>22, <2>1
  <2>2. CASE f = c
    BY <1>2, <1>9, <1>13, <1>17, <1>22, <2>2
  <2>3. CASE f # w /\ f # c
    BY <1>17, <1>22, <2>3 DEF OneOwner, Alive
  <2> QED
    BY <2>1, <2>2, <2>3
<1>25. PlacesOK' /\ RootOK'
  <2>1. RootOK'
    <3>1. mode' = mode /\ root' = root
      BY <1>15
    <3>2. ASSUME NEW r \in Frame, root = r
          PROVE  Alive(r)' /\ ~detached'[r] /\ cont'[r] = NoFrame /\ serves'[r] = User
      <4>1. Alive(r) /\ ~detached[r] /\ cont[r] = NoFrame /\ serves[r] = User /\ r # w
        BY <1>13, <3>2 DEF RootOK, Alive, NoFrame, Frame
      <4> QED
        BY <1>15, <1>17, <1>22, <4>1
    <3> QED
      BY <1>20, <3>1, <3>2 DEF RootOK, TypeOK, Alive
  <2>2. \A f \in Loop!Registered' : at'[f] \in {"initial", "timer", "event", "group"}
    BY <1>17, <1>19, LoopMeans DEF PlacesOK
  <2>3. Alive(o)'
    BY <1>2, <1>22
  <2> QED
    BY <1>1, <1>2, <1>15, <1>17, <2>1, <2>2, <2>3 DEF PlacesOK, Alive
<1>26. UnstartedOK'
  <2> SUFFICES ASSUME NEW f \in Frame, at'[f] = "initial", serves'[f] = User, owner'[f] # NoFrame
               PROVE  Loop!Suspended(f)' \/ (f = current /\ cont[f] = owner'[f])
    BY <1>15 DEF UnstartedOK
  <2>1. f # w /\ f # o /\ at[f] = "initial" /\ serves[f] = User
    BY <1>2, <1>17, <1>18
  <2>2. owner[f] # NoFrame
    BY <1>2, <1>9, <1>17, <2>1
  <2> QED
    BY <1>1, <1>22, <2>1, <2>2 DEF UnstartedOK
<1>27. AwaitOK'
  <2> SUFFICES ASSUME NEW r \in Frame, at'[r] = "task", NEW f, waits[r] = f
               PROVE  f \in Frame /\ Awaits(r, f)'
    BY <1>15 DEF AwaitOK
  <2>1. f \in Frame /\ at[r] = "task" /\ Awaits(r, f)
    BY <1>17 DEF AwaitOK
  <2>2. f # c /\ f # w
    BY <1>9, <1>13, <2>1 DEF Awaits, NoFrame, Frame
  <2> QED
    BY <1>15, <1>17, <1>22, <2>1, <2>2 DEF Awaits
<1>28. ContOK'
  BY <1>12, <1>13, <1>15, <1>17, <1>22 DEF ContOK, NoFrame, Frame
<1>29. OwnsOK'
  <2> SUFFICES ASSUME NEW f \in Frame, NEW r \in Frame, Alive(f) \/ f = w, owner'[f] = r
               PROVE  Owns(r, f)'
    BY <1>22 DEF OwnsOK
  <2>1. CASE f = w
    <3>1. r = o
      BY <1>13, <1>17, <2>1 DEF NoFrame, Frame
    <3> QED
      BY <1>2, <1>3, <1>13, <1>15, <1>17, <1>18, <2>1, <3>1 DEF Owns
  <2>2. CASE f = c /\ any
    <3>1. r = w /\ Child(w)' = c
      BY <1>8, <1>15, <1>17, <2>2 DEF Child
    <3> QED
      BY <1>9, <1>13, <1>17, <2>2, <3>1 DEF Owns
  <2>3. CASE f # w /\ (f # c \/ ~any)
    <3>1. owner[f] = r /\ Owns(r, f) /\ r # w
      BY <1>13, <1>17, <2>3 DEF OwnsOK
    <3> QED
      BY <1>15, <1>17, <2>3, <3>1 DEF Owns, Child
  <2> QED
    BY <2>1, <2>2, <2>3
<1>30. OthersKept(g)
  <2>1. \A v \in Frame : serves[v] # User => WrapperKept(v)
    BY <1>9, <1>13, <1>15, <1>17, <1>22, WrapperIs DEF WrapperKept
  <2>2. \A r \in Frame : AtGroup(r) \/ AtGroup(r)' => ParentKept(r)
    BY <1>12, <1>15, <1>17, <1>22 DEF AtGroup, ParentKept
  <2>3. \A d, r \in Frame :
          /\ Waiting(d, r)
          /\ (AtGroup(r) /\ waits[r] # g) \/ (serves[r] # User /\ serves[r][1] # g)
          => Waiting(d, r)'
    BY <1>3, <1>4, <1>9, <1>12, <1>15, <1>17 DEF Waiting
  <2>4. \A f, r \in Frame :
           /\ at'[f] = "initial" /\ serves'[f] = User /\ owner'[f] = r /\ AtGroup(r)
           => at[f] = "initial" /\ owner[f] = r /\ serves[f] = User
    BY <1>12, <1>17, <1>18 DEF AtGroup
  <2>5. \A f \in Frame : at[f] # "free" => at'[f] # "free"
    BY <1>17
  <2>6. \A r \in Frame : at'[r] = "fork" => waits'[r] = g
    BY <1>1, <1>3, <1>15, <1>17 DEF PlacesOK
  <2>7. \A v \in Frame : serves'[v] = serves[v] \/ (serves[v] = User /\ serves'[v][1] = g)
    BY <1>13, <1>17
  <2> QED
    BY <1>15, <2>1, <2>2, <2>3, <2>4, <2>5, <2>6, <2>7 DEF OthersKept
<1>31. GroupOK(g)'
  <2>1. /\ \A f \in Frame : at[f] # "free" => at'[f] # "free"
        /\ \A f \in Frame : at[f] = "fork" => at'[f] = "fork"
    BY <1>12, <1>17
  <2>2. \E f \in Frame : at'[f] = "fork" /\ waits[f] = g
    BY <1>2, <1>3, <2>1
  <2> QED
    BY <1>3, <1>5, <1>10, <1>15, <2>1, <2>2 DEF GroupOK
<1>32. /\ \A v \in Frame : serves'[v] = <<g, k>> <=> v = w
       /\ \A j : \A v \in Frame : serves'[v] = <<g, j>> /\ j # k => v # w /\ serves[v] = <<g, j>>
       /\ \A j : \A v \in Frame : serves[v] = <<g, j>> /\ <<g, j>> # User
                                => v # w /\ serves'[v] = <<g, j>>
  <2>1. \A v \in Frame : serves[v] # <<g, k>>
    BY <1>5, <1>6, <1>7
  <2> QED
    BY <1>13, <1>17, <2>1
<1>33. Wrappers(g)' = Wrappers(g) \cup {w} /\ Cardinality(Wrappers(g))' = m + 1
  <2>1. Wrappers(g)' = Wrappers(g) \cup {w}
    BY <1>3, <1>13, <1>17 DEF Wrappers
  <2>2. w \notin Wrappers(g)
    BY <1>13 DEF Wrappers, User
  <2>3. IsFiniteSet(Wrappers(g))
    <3>1. IsFiniteSet(Frame) /\ Wrappers(g) \subseteq Frame
      BY FS_Interval, BoundAssumption DEF Frame, Wrappers
    <3> QED
      BY <3>1, FS_Subset
  <2>4. Cardinality(Wrappers(g) \cup {w}) = Cardinality(Wrappers(g)) + 1
    BY <2>2, <2>3, FS_AddElement
  <2> QED
    BY <1>5, <2>1, <2>4
<1>34. GroupFine(g)'
  <2>1. \A r \in Frame : Joins(r, g)' <=> Joins(r, g)
    BY <1>12, <1>15, <1>17 DEF Joins
  <2>2. \A d, r \in Frame : Waiting(d, r) /\ d # c => Waiting(d, r)'
    BY <1>12, <1>15, <1>17 DEF Waiting
  <2>3. /\ any => Waiting(c, w)'
        /\ ~any => Waiting(c, o)'
    BY <1>1, <1>9, <1>12, <1>15, <1>17 DEF Waiting
  <2>4. ASSUME NEW v \in Frame, NEW j \in 0..MaxFrames, serves'[v] = <<g, j>>, <<g, j>> # User
        PROVE  WrapperOK(v, g, j)'
    <3>1. CASE v = w
      <4>1. j = k
        BY <1>17, <2>4, <3>1
      <4>2. Joins(o, g)'
        BY <1>2, <1>3, <2>1 DEF Joins
      <4> QED
        BY <1>3, <1>5, <1>8, <1>13, <1>14, <1>15, <1>17, <2>3, <3>1, <4>1, <4>2
           DEF WrapperOK, Waiting
    <3>2. CASE v # w
      <4>1. serves[v] = <<g, j>> /\ j # k
        BY <1>17, <1>32, <2>4, <3>2
      <4>2. WrapperOK(v, g, j) /\ j \in 1..N
        BY <1>3, <1>5, <2>4, <4>1 DEF GroupFine, WrapperOK
      <4>3. PICK d \in Frame : d = groups[g].kids[j] /\ d # c
        BY <1>10, <4>1, <4>2
      <4>4. /\ Waiting(d, v) => Waiting(d, v)'
            /\ Waiting(d, o) => Waiting(d, o)'
        BY <2>2, <4>3
      <4>5. v # c
        BY <1>9, <2>4, <4>1
      <4> QED
        BY <1>3, <1>5, <1>15, <1>17, <1>22, <2>1, <3>2, <4>2, <4>3, <4>4, <4>5 DEF WrapperOK, Waiting
    <3> QED
      BY <3>1, <3>2
  <2>5. ASSUME NEW r \in Frame, Joins(r, g) PROVE ForkOK(r, g)' /\ CountOK(r, g)'
    <3>1. r = o
      BY <1>3, <2>5 DEF ForksOK, ForkOK
    <3>2. \A j \in 1..N : ~Reported(g, j)'
      <4>1. \A j \in 1..N : ~Reported(g, j)
        BY <1>2, <1>3, <1>5 DEF CountOK, Pending
      <4>2. \A j \in 1..N : <<g, j>> # User
        BY <1>3 DEF User
      <4> QED
        BY <1>17, <1>32, <4>1, <4>2 DEF Reported
    <3>3. Pending(g)' = 1..N /\ Pending(g) = 1..N
      BY <1>2, <1>3, <1>5, <1>15, <3>2 DEF Pending, CountOK
    <3>4. at'[o] = "fork"
      BY <1>2, <1>13, <1>17
    <3>5. CountOK(o, g)'
      BY <1>2, <1>3, <1>5, <1>15, <3>2, <3>3, <3>4 DEF CountOK
    <3>6. ASSUME NEW j \in 1..N
          PROVE  (\E v \in Frame : serves'[v] = <<g, j>>) <=> j <= m + 1
      <4>1. <<g, j>> # User
        BY <1>3 DEF User
      <4>2. CASE j = k
        BY <1>6, <1>32, <4>2
      <4>3. CASE j # k
        <5>1. j <= m + 1 <=> j <= m
          BY <1>5, <1>6, <4>3
        <5> QED
          BY <1>7, <1>32, <4>1, <4>3, <5>1
      <4> QED
        BY <4>2, <4>3
    <3>7. ASSUME NEW j \in 1..N, j > m + 1, NEW d, d = groups[g].kids[j]
          PROVE  Waiting(d, o)'
      <4>1. j > m /\ j # k
        BY <1>5, <1>6, <3>7
      <4>2. Waiting(d, o) /\ d # c /\ d \in Frame
        BY <1>7, <1>10, <3>7, <4>1
      <4> QED
        BY <2>2, <4>2
    <3>8. \A j \in 1..N : j > m + 1 =>
            /\ at'[groups[g].kids[j]] = "initial" /\ serves'[groups[g].kids[j]] = User
            /\ owner'[groups[g].kids[j]] = o /\ cont'[groups[g].kids[j]] = NoFrame
            /\ groups[g].kids[j] # current'
      BY <3>7 DEF Waiting
    <3>9. m + 1 \in 0..N /\ Allocated' + (N - (m + 1)) <= MaxFrames
      <4>1. Allocated \in Nat /\ N \in Nat /\ MaxFrames \in Nat
        BY BoundAssumption DEF FreshOK
      <4>2. Allocated' = Allocated + 1
        BY <1>21
      <4>3. m + 1 \in 0..N
        BY <1>5, <1>6
      <4>4. N - (m + 1) = (N - m) - 1 /\ N - m \in Int
        BY <1>5, <4>1
      <4> QED
        BY <1>7, <4>1, <4>2, <4>3, <4>4
    <3>10. ForkOK(o, g)'
      BY <1>3, <1>5, <1>15, <1>33, <3>4, <3>6, <3>8, <3>9 DEF ForkOK, Waiting
    <3> QED
      BY <3>1, <3>5, <3>10
  <2>6. ASSUME NEW f \in Frame, NEW r \in Frame, at'[f] = "initial", serves'[f] = User,
               owner'[f] = r, Joins(r, g)
        PROVE  Unclaimed(f, g)'
    <3>1. f # w /\ (f = c => ~any) /\ at[f] = "initial" /\ serves[f] = User /\ owner[f] = r
      BY <1>12, <1>17, <1>18, <2>6 DEF Joins
    <3>2. Unclaimed(f, g)
      BY <1>3, <2>6, <3>1 DEF GroupFine
    <3>3. PICK j \in 1..N :
            /\ f = groups[g].kids[j]
            /\ \A v \in Frame : serves[v] = <<g, j>> =>
                 groups[g].kind = "all" /\ at[v] = "initial"
      BY <1>5, <3>2 DEF Unclaimed
    <3>4. ASSUME NEW v \in Frame, serves'[v] = <<g, j>>
          PROVE  groups[g].kind = "all" /\ at'[v] = "initial"
      <4>1. CASE j = k
        <5>1. v = w /\ ~any
          BY <1>8, <1>32, <3>1, <3>3, <3>4, <4>1
        <5>2. groups[g].kind \in {"all", "any"}
          BY <1>3, GroupTypes DEF Group
        <5> QED
          BY <1>14, <1>17, <5>1, <5>2
      <4>2. CASE j # k
        BY <1>17, <1>32, <3>3, <3>4, <4>2
      <4> QED
        BY <4>1, <4>2
    <3> QED
      BY <1>5, <1>15, <3>3, <3>4 DEF Unclaimed
  <2> QED
    BY <1>15, <2>1, <2>4, <2>5, <2>6 DEF GroupFine
<1>35. GroupsOK' /\ WrappersOK' /\ ForksOK' /\ KidsOK' /\ CountsOK'
  <2>1. DOMAIN groups' = DOMAIN groups
    BY <1>15
  <2>2. OneWrapperPerSlot'
    BY <1>17, <1>32 DEF OneWrapperPerSlot, WrappersOK
  <2> QED
    BY <1>18, <1>30, <1>31, <1>34, <2>1, <2>2, OneGroupDisturbed
<1> QED
  BY <1>19, <1>20, <1>23, <1>24, <1>25, <1>26, <1>27, <1>28, <1>29, <1>35

\* A wrapper reports that its child has finished, and may wake the parent.
LEMMA WrapperDoneKeeps ==
  ASSUME Inv, WrapperDone
  PROVE  Inv' /\ (Loop!Next \/ UNCHANGED loopVars)
<1> USE DEF Inv, FramesOK
<1>1. PICK w \in Frame : w = current
  BY LoopMeans DEF WrapperDone
<1>2. /\ w # NoFrame /\ at[w] = "body" /\ serves[w] # User /\ Alive(w) /\ ~terminated
      /\ w \notin Loop!Registered
  BY <1>1, LoopMeans DEF WrapperDone, Alive, PlacesOK
<1>3. PICK g, k \in 0..MaxFrames :
        /\ serves[w] = <<g, k>> /\ <<g, k>> # User /\ WrapperOK(w, g, k)
        /\ g = serves[w][1] /\ k = serves[w][2]
        /\ g \in DOMAIN groups /\ k \in 1..Len(groups[g].kids)
  BY <1>2, WrapperIs
<1>4. PICK old \in Group, p \in Frame, N \in 1..MaxFrames, e \in Frame \cup {NoFrame} :
        /\ old = groups[g] /\ p = old.parent /\ N = Len(old.kids) /\ e = exc[w]
  <2>1. groups[g] \in Group /\ groups[g].parent \in Frame
    BY <1>3, GroupTypes
  <2>2. Len(groups[g].kids) \in 1..MaxFrames
    BY <1>3, KidsBounded, BoundAssumption DEF GroupsOK, GroupOK
  <2>3. exc[w] \in Frame \cup {NoFrame}
    BY DEF TypeOK
  <2> QED
    BY <2>1, <2>2, <2>3
<1>5. /\ old.kind \in {"all", "any"} /\ old.winner \in 0..N /\ old.remaining \in Nat
      /\ old.exceptions \in Seq(Frame \cup {NoFrame}) /\ Len(old.exceptions) = N
      /\ old.kids \in Seq(Frame) /\ k \in 1..N /\ GroupOK(g) /\ GroupFine(g)
  <2>1. GroupOK(g) /\ GroupFine(g)
    BY <1>3, GroupByGroup DEF GroupsOK
  <2> QED
    BY <1>3, <1>4, <2>1 DEF GroupOK, Group
<1>6. /\ ~Reported(g, k) /\ \A f \in Frame : at[f] # "fork"
      /\ \A v \in Frame : serves[v] = <<g, k>> => v = w
  <2>1. \A v \in Frame : serves[v] = <<g, k>> => v = w
    BY <1>2, <1>3 DEF WrappersOK
  <2>2. \A f \in Frame : at[f] # "fork"
    BY <1>1, <1>2 DEF PlacesOK
  <2> QED
    BY <1>2, <2>1, <2>2 DEF Reported
<1>7. ASSUME old.kind = "all" \/ old.winner = 0
      PROVE  /\ Joins(p, g) /\ ForkOK(p, g) /\ CountOK(p, g)
             /\ at[p] = "group" /\ waits[p] = g /\ serves[p] = User
  <2>1. Joins(p, g)
    BY <1>2, <1>3, <1>4, <1>7 DEF WrapperOK
  <2>2. ForkOK(p, g) /\ CountOK(p, g)
    BY <1>5, <2>1 DEF GroupFine
  <2>3. at[p] = "group" /\ waits[p] = g
    BY <1>6, <2>1 DEF Joins
  <2>4. serves[p] = User
    BY <2>3, WrapperIs
  <2> QED
    BY <2>1, <2>2, <2>3, <2>4
<1>8. IsFiniteSet(Pending(g)) /\ k \in Pending(g)
  <2>1. Pending(g) \subseteq 1..N /\ k \in Pending(g)
    BY <1>4, <1>5, <1>6 DEF Pending
  <2>2. IsFiniteSet(1..N)
    BY FS_Interval
  <2> QED
    BY <2>1, <2>2, FS_Subset
<1>9. ASSUME old.kind = "all"
      PROVE  /\ old.remaining = Cardinality(Pending(g)) /\ old.remaining - 1 \in Nat
             /\ Loop!Suspended(p) /\ old.winner = 0
  <2>1. /\ old.remaining = Cardinality(Pending(g)) /\ old.winner = 0
        /\ Loop!Suspended(p) <=> old.remaining # 0
    BY <1>4, <1>7, <1>9 DEF CountOK
  <2>2. Cardinality(Pending(g)) # 0
    BY <1>8, FS_EmptySet
  <2> QED
    BY <1>5, <2>1, <2>2
<1>10. ASSUME old.kind = "any", old.winner = 0 PROVE Loop!Suspended(p)
  BY <1>4, <1>7, <1>10 DEF CountOK
<1>11. PICK new \in Group :
         /\ new = ChildDone(old, k, e)
         /\ new.kind = old.kind /\ new.parent = p /\ new.kids = old.kids
         /\ Len(new.exceptions) = N /\ new.winner \in 0..N
         /\ old.kind = "all" => new.remaining = old.remaining - 1 /\ new.winner = 0
         /\ old.kind = "any" => new.winner # 0 /\ (old.winner # 0 => new.winner = old.winner)
  <2> DEFINE ex == [old.exceptions EXCEPT ![k] = e]
  <2>1. ex \in Seq(Frame \cup {NoFrame}) /\ Len(ex) = N
    BY <1>5, ExceptSeq
  <2>2. CASE old.kind = "all"
    <3>1. ChildDone(old, k, e) = [old EXCEPT !.remaining = old.remaining - 1, !.exceptions = ex]
      BY <2>2 DEF ChildDone
    <3> HIDE DEF ex
    <3>2. PICK new : new = [old EXCEPT !.remaining = old.remaining - 1, !.exceptions = ex]
      OBVIOUS
    <3>3. /\ new \in Group /\ new.kind = old.kind /\ new.parent = old.parent
          /\ new.kids = old.kids /\ new.exceptions = ex /\ new.winner = old.winner
          /\ new.remaining = old.remaining - 1
      BY <1>9, <2>1, <2>2, <3>2 DEF Group
    <3> QED
      BY <1>4, <1>5, <1>9, <2>1, <2>2, <3>1, <3>2, <3>3
  <2>3. CASE old.kind = "any" /\ old.winner = 0
    <3>1. ChildDone(old, k, e) = [old EXCEPT !.winner = k, !.exceptions = ex]
      BY <2>3 DEF ChildDone
    <3> HIDE DEF ex
    <3>2. PICK new : new = [old EXCEPT !.winner = k, !.exceptions = ex]
      OBVIOUS
    <3>3. k \in Nat /\ k # 0 /\ k \in 0..N
      BY <1>5, BoundAssumption
    <3>4. /\ new \in Group /\ new.kind = old.kind /\ new.parent = old.parent
          /\ new.kids = old.kids /\ new.exceptions = ex /\ new.winner = k
      BY <2>1, <2>3, <3>2, <3>3 DEF Group
    <3> QED
      BY <1>4, <2>1, <2>3, <3>1, <3>2, <3>3, <3>4
  <2>4. CASE old.kind = "any" /\ old.winner # 0
    <3>1. ChildDone(old, k, e) = old
      BY <2>4 DEF ChildDone
    <3> QED
      BY <1>4, <1>5, <2>4, <3>1
  <2> QED
    BY <1>5, <2>2, <2>3, <2>4
<1>12. PICK woken \in BOOLEAN : woken <=> Wakes(old)
  OBVIOUS
<1>13. woken => Loop!Suspended(p) /\ at[p] = "group" /\ waits[p] = g /\ serves[p] = User
  BY <1>5, <1>7, <1>9, <1>10, <1>12 DEF Wakes
<1>14. /\ UNCHANGED <<timers, now, mode, current, budget, batch, root, terminated,
                      owner, cont, detached, waits, serves>>
       /\ ready' = IF woken THEN Append(ready, p) ELSE ready
       /\ groups' = [groups EXCEPT ![g] = new]
       /\ at' = [at EXCEPT ![w] = "final"] /\ exc' = [exc EXCEPT ![w] = NoFrame]
  BY <1>1, <1>3, <1>4, <1>11, <1>12 DEF WrapperDone, hostVars
<1>15. /\ groups' \in Seq(Group) /\ DOMAIN groups' = DOMAIN groups /\ groups'[g] = new
       /\ \A x \in DOMAIN groups : x # g => groups'[x] = groups[x]
  <2>1. groups \in Seq(Group)
    BY DEF TypeOK
  <2> QED
    BY <1>3, <1>11, <1>14, <2>1, ExceptSeq
<1>16. /\ groups'[g].kind = old.kind /\ groups'[g].parent = p /\ groups'[g].kids = old.kids
      /\ Len(groups'[g].exceptions) = N /\ groups'[g].winner \in 0..N
  BY <1>11, <1>15
<1>17. /\ \A f \in Frame : at'[f] = IF f = w THEN "final" ELSE at[f]
       /\ \A f \in Frame : exc'[f] = IF f = w THEN NoFrame ELSE exc[f]
  BY <1>14 DEF TypeOK
<1>18. /\ LoopInv' /\ (Loop!Next \/ UNCHANGED loopVars)
       /\ Loop!Registered' = IF woken THEN Loop!Registered \cup {p} ELSE Loop!Registered
  <2>1. CASE woken
    <3>1. Loop!CanCall
      BY <1>1, <1>2 DEF Loop!CanCall
    <3> QED
      BY <1>13, <1>14, <2>1, <3>1, LoopPosts
  <2>2. CASE ~woken
    <3>1. UNCHANGED loopVars
      BY <1>14, <2>2 DEF loopVars
    <3> QED
      BY <1>14, <2>2, <3>1, LoopInvStep DEF Loop!Registered
  <2> QED
    BY <2>1, <2>2
<1>19. TypeOK'
  BY <1>14, <1>15, <1>18, LoopTyped DEF TypeOK, Place
<1>20. Allocated' = Allocated /\ \A f \in Frame : Alive(f)' = Alive(f)
  BY <1>2, <1>17, SameAllocated DEF Alive
<1>21. /\ \A f \in Frame : ~(woken /\ f = p) => (Loop!Suspended(f)' <=> Loop!Suspended(f))
       /\ woken => ~Loop!Suspended(p)'
  BY <1>14, <1>18 DEF Loop!Suspended
<1>22. FreshOK'
  BY <1>2, <1>14, <1>17, <1>20 DEF FreshOK, TypeOK
<1>23. OneOwner' /\ RootOK'
  BY <1>14, <1>17, <1>20 DEF OneOwner, RootOK, Alive
<1>24. PlacesOK'
  <2>1. \A f \in Loop!Registered' : at'[f] \in {"initial", "timer", "event", "group"}
    BY <1>2, <1>13, <1>17, <1>18, LoopMeans DEF PlacesOK
  <2>2. Alive(w)'
    BY <1>2, <1>20
  <2> QED
    BY <1>1, <1>2, <1>14, <1>17, <2>1, <2>2 DEF PlacesOK, Alive
<1>25. UnstartedOK'
  BY <1>13, <1>14, <1>17, <1>21 DEF UnstartedOK
<1>26. AwaitOK'
  <2> SUFFICES ASSUME NEW r \in Frame, at'[r] = "task", NEW f, waits[r] = f
               PROVE  f \in Frame /\ Awaits(r, f)'
    BY <1>14 DEF AwaitOK
  <2>1. f \in Frame /\ at[r] = "task" /\ Awaits(r, f) /\ r # w
    BY <1>17 DEF AwaitOK
  <2> QED
    BY <1>1, <1>14, <1>20, <2>1 DEF Awaits
<1>27. ContOK'
  BY <1>2, <1>14, <1>17, <1>20 DEF ContOK
<1>28. OwnsOK'
  <2> SUFFICES ASSUME NEW f \in Frame, NEW r \in Frame, Alive(f), owner[f] = r
               PROVE  Owns(r, f)'
    BY <1>14, <1>20 DEF OwnsOK
  <2>1. Owns(r, f)
    BY DEF OwnsOK
  <2>2. r # w
    BY <1>2, <2>1 DEF Owns
  <2>3. f = w => ~(at[f] = "initial")
    BY <1>2
  <2>4. serves[r] # User => Child(r)' = Child(r)
    <3>1. \A x \in DOMAIN groups : groups'[x].kids = groups[x].kids
      BY <1>4, <1>11, <1>15
    <3>2. serves[r] # User => serves[r][1] \in DOMAIN groups
      BY WrapperIs
    <3> QED
      BY <1>14, <3>1, <3>2 DEF Child
  <2> QED
    BY <1>14, <1>17, <2>1, <2>2, <2>3, <2>4 DEF Owns
<1>29. OthersKept(g)
  <2>1. \A v \in Frame : serves[v] # User => WrapperKept(v) \/ v = w
    BY <1>14, <1>17, <1>20, WrapperIs DEF WrapperKept
  <2>2. \A r \in Frame : (AtGroup(r) \/ AtGroup(r)') /\ waits[r] # g => ParentKept(r)
    BY <1>2, <1>13, <1>14, <1>17, <1>21 DEF AtGroup, ParentKept
  <2>3. \A d, r \in Frame : Waiting(d, r) => Waiting(d, r)'
    BY <1>2, <1>14, <1>17 DEF Waiting
  <2>4. /\ \A f \in Frame : at'[f] = "initial" => at[f] = "initial"
        /\ \A f \in Frame : at[f] # "free" => at'[f] # "free"
    BY <1>17
  <2> QED
    BY <1>3, <1>14, <1>15, <1>20, <2>1, <2>2, <2>3, <2>4 DEF OthersKept
<1>30. GroupOK(g)'
  <2>1. /\ \A f \in Frame : at[f] # "free" => at'[f] # "free"
        /\ \A f \in Frame : at[f] # "fork" /\ at'[f] # "fork"
    BY <1>6, <1>17
  <2>2. \A i \in 1..N : old.kids[i] \in Frame
    BY <1>4, <1>5
  <2> QED
    BY <1>4, <1>5, <1>16, <1>14, <2>1, <2>2 DEF GroupOK
<1>31. GroupFine(g)'
  <2>1. \A r \in Frame : Joins(r, g)' <=> Joins(r, g)
    BY <1>2, <1>14, <1>17 DEF Joins
  <2>2. \A d, r \in Frame : Waiting(d, r) => Waiting(d, r)'
    BY <1>2, <1>14, <1>17 DEF Waiting
  <2>3. \A j \in 1..N : Reported(g, j)' <=> Reported(g, j) \/ j = k
    BY <1>2, <1>3, <1>6, <1>14, <1>17 DEF Reported
  <2>4. ASSUME NEW v \in Frame, NEW j \in 0..MaxFrames, serves[v] = <<g, j>>, <<g, j>> # User
        PROVE  WrapperOK(v, g, j)'
    <3>1. WrapperOK(v, g, j)
      BY <1>5, <2>4 DEF GroupFine
    <3>2. PICK d \in Frame : d = old.kids[j] /\ j \in 1..N
      BY <1>4, <1>5, <3>1 DEF WrapperOK
    <3>3. CASE v = w
      BY <1>2, <1>3, <1>4, <1>11, <1>14, <1>15, <1>17, <1>20, <2>1, <3>1, <3>2, <3>3 DEF WrapperOK
    <3>4. CASE v # w
      <4>1. /\ Waiting(d, v) => Waiting(d, v)'
            /\ Waiting(d, p) => Waiting(d, p)'
        BY <2>2
      <4>2. new.winner = 0 => old.winner = 0
        BY <1>5, <1>9, <1>11
      <4> QED
        BY <1>3, <1>4, <1>11, <1>14, <1>15, <1>17, <1>20, <2>1, <3>1, <3>2, <3>4, <4>1, <4>2
           DEF WrapperOK, Waiting
    <3> QED
      BY <3>3, <3>4
  <2>5. ASSUME NEW r \in Frame, Joins(r, g) PROVE ForkOK(r, g)' /\ CountOK(r, g)'
    <3>1. ForkOK(r, g) /\ CountOK(r, g) /\ r = p
      BY <1>4, <1>5, <2>5 DEF GroupFine, ForkOK
    <3>2. Wrappers(g)' = Wrappers(g) /\ Pending(g)' = Pending(g) \ {k}
      BY <1>4, <1>11, <1>14, <1>15, <2>3 DEF Wrappers, Pending
    <3>3. at'[p] = "group" /\ at[p] = "group" /\ p # w
      BY <1>2, <1>6, <1>17, <2>5, <3>1 DEF Joins
    <3>4. CountOK(p, g)'
      <4>1. CASE old.kind = "all"
        <5>1. Cardinality(Pending(g) \ {k}) = Cardinality(Pending(g)) - 1
          BY <1>8, FS_RemoveElement
        <5>2. new.remaining = Cardinality(Pending(g))'
          BY <1>9, <1>11, <3>2, <4>1, <5>1
        <5>3. woken <=> new.remaining = 0
          BY <1>5, <1>9, <1>11, <1>12, <4>1 DEF Wakes
        <5>4. Loop!Suspended(p)' <=> new.remaining # 0
          BY <1>9, <1>21, <4>1, <5>3
        <5> QED
          BY <1>11, <1>15, <3>3, <4>1, <5>2, <5>4 DEF CountOK
      <4>2. CASE old.kind = "any"
        <5>1. ~Loop!Suspended(p)'
          <6>1. CASE old.winner = 0
            BY <1>12, <1>21, <4>2, <6>1 DEF Wakes
          <6>2. CASE old.winner # 0
            <7>1. ~woken /\ ~Loop!Suspended(p)
              BY <1>4, <1>12, <3>1, <3>3, <4>2, <6>2 DEF Wakes, CountOK
            <7> QED
              BY <1>21, <7>1
          <6> QED
            BY <6>1, <6>2
        <5>2. new.kind = "any" /\ new.winner # 0
          BY <1>11, <4>2
        <5> QED
          BY <1>15, <3>3, <5>1, <5>2 DEF CountOK
      <4> QED
        BY <1>5, <4>1, <4>2
    <3>5. \A j \in 1..N : (\E v \in Frame : serves'[v] = <<g, j>>)
                            <=> (\E v \in Frame : serves[v] = <<g, j>>)
      BY <1>14
    <3>6. ForkOK(p, g)'
      <4>1. g \in DOMAIN groups' /\ Len(groups'[g].kids) = N
        BY <1>3, <1>4, <1>16, <1>15
      <4>2. Wrappers(g)' = Wrappers(g) /\ at'[p] = "group" /\ at[p] = "group"
        BY <3>2, <3>3
      <4>3. Cardinality(Wrappers(g)) = N
        BY <1>4, <3>1, <4>2 DEF ForkOK
      <4>4. \A j \in 1..N : (\E v \in Frame : serves'[v] = <<g, j>>) <=> j <= N
        BY <1>4, <3>1, <3>5, <4>3 DEF ForkOK
      <4>5. \A j \in 1..N : ~(j > N)
        BY BoundAssumption
      <4>6. N \in 0..N
        BY BoundAssumption
      <4> QED
        BY <1>16, <4>1, <4>2, <4>3, <4>4, <4>5, <4>6 DEF ForkOK
    <3> QED
      BY <3>1, <3>4, <3>6
  <2>6. ASSUME NEW f \in Frame, NEW r \in Frame, at'[f] = "initial", serves'[f] = User,
               owner'[f] = r, Joins(r, g)
        PROVE  Unclaimed(f, g)'
    <3>1. at[f] = "initial" /\ serves[f] = User /\ owner[f] = r
      BY <1>14, <1>17, <2>6
    <3>2. Unclaimed(f, g)
      BY <1>5, <2>6, <3>1 DEF GroupFine
    <3>3. PICK j \in 1..N :
            /\ f = old.kids[j]
            /\ \A v \in Frame : serves[v] = <<g, j>> => old.kind = "all" /\ at[v] = "initial"
      BY <1>4, <3>2 DEF Unclaimed
    <3>4. \A v \in Frame : at[v] = "initial" => at'[v] = "initial"
      BY <1>2, <1>17
    <3> QED
      <4>1. j \in 1..Len(groups'[g].kids) /\ f = groups'[g].kids[j]
        BY <1>4, <1>16, <3>3
      <4>2. \A v \in Frame : serves'[v] = <<g, j>> =>
              groups'[g].kind = "all" /\ at'[v] = "initial"
        BY <1>16, <1>14, <3>3, <3>4
      <4> QED
        BY <4>1, <4>2 DEF Unclaimed
  <2> QED
    BY <1>14, <2>1, <2>4, <2>5, <2>6 DEF GroupFine
<1>32. GroupsOK' /\ WrappersOK' /\ ForksOK' /\ KidsOK' /\ CountsOK'
  <2>1. OneWrapperPerSlot'
    BY <1>14 DEF OneWrapperPerSlot, WrappersOK
  <2> QED
    BY <1>15, <1>29, <1>30, <1>31, <2>1, OneGroupDisturbed
<1> QED
  BY <1>18, <1>19, <1>22, <1>23, <1>24, <1>25, <1>26, <1>27, <1>28, <1>32

\* The exception that a group hands on.
LEMMA FailureTyped ==
  ASSUME NEW g \in Group, Len(g.exceptions) = Len(g.kids), g.winner \in 0..Len(g.kids),
         g.kind = "any" => g.winner # 0
  PROVE  Failure(g) \in Frame \cup {NoFrame}
<1> DEFINE failed == {k \in DOMAIN g.exceptions : g.exceptions[k] # NoFrame}
<1>1. /\ g.exceptions \in Seq(Frame \cup {NoFrame}) /\ DOMAIN g.exceptions = 1..Len(g.exceptions)
      /\ g.winner \in Nat /\ Len(g.exceptions) \in Nat
  BY DEF Group
<1>2. \A k \in DOMAIN g.exceptions : g.exceptions[k] \in Frame \cup {NoFrame}
  BY <1>1
<1>3. CASE g.kind = "any"
  <2>1. g.winner \in DOMAIN g.exceptions
    BY <1>1, <1>3
  <2> QED
    BY <1>2, <1>3, <2>1 DEF Failure
<1>4. CASE g.kind # "any" /\ failed = {}
  BY <1>4 DEF Failure
<1>5. CASE g.kind # "any" /\ failed # {}
  <2>1. \E k \in failed : \A j \in failed : k <= j
    <3>1. failed \subseteq Nat
      BY <1>1
    <3> HIDE DEF failed
    <3> QED
      BY <1>5, <3>1, L!LeastNatural, LoopConstants
  <2>2. (CHOOSE k \in failed : \A j \in failed : k <= j) \in failed
    BY <2>1
  <2> QED
    BY <1>2, <1>5, <2>2 DEF Failure
<1> QED
  BY <1>3, <1>4, <1>5

\* When the parent of group g goes on, all have reported or one has won, and
\* what the parent still owns are wrappers that have finished.
LEMMA CollectedAre ==
  ASSUME Inv, NEW o \in Frame, o = current, at[o] = "group", NEW g \in 1..MaxFrames, waits[o] = g
  PROVE  /\ groups[g].kind = "all" => \A j \in 1..Len(groups[g].kids) : Reported(g, j)
         /\ groups[g].kind = "any" => groups[g].winner # 0
         /\ \A f \in Frame : owner[f] = o =>
              \/ at[f] = "destroyed"
              \/ at[f] = "final" /\ serves[f] # User /\ serves[f][1] = g
<1> USE DEF Inv, FramesOK
<1>1. /\ o # NoFrame /\ at[o] = "group" /\ AtGroup(o) /\ Alive(o) /\ ~terminated
      /\ ~Loop!Suspended(o)
  BY LoopMeans DEF Alive, PlacesOK, AtGroup, NoFrame, Frame, Loop!Suspended
<1>2. /\ g \in DOMAIN groups /\ groups[g].parent = o
      /\ ForkOK(o, g) /\ CountOK(o, g) /\ GroupOK(g) /\ GroupFine(g)
      /\ Len(groups[g].kids) \in 1..MaxFrames
  BY <1>1, ParentIs
<1>3. serves[o] = User /\ Joins(o, g)
  BY <1>1, <1>2, ParentIs DEF Joins
<1>4. PICK N \in 1..MaxFrames : N = Len(groups[g].kids)
  BY <1>2
<1>5. groups[g].kind \in {"all", "any"} /\ groups[g] \in Group
  BY <1>2, GroupTypes DEF Group
<1>6. /\ groups[g].kind = "all" => \A j \in 1..N : Reported(g, j)
      /\ groups[g].kind = "any" => groups[g].winner # 0
  <2>1. CASE groups[g].kind = "all"
    <3>1. Cardinality(Pending(g)) = 0
      BY <1>1, <1>2, <2>1 DEF CountOK
    <3>2. IsFiniteSet(Pending(g))
      <4>1. Pending(g) \subseteq 1..N
        BY <1>4 DEF Pending
      <4>2. IsFiniteSet(1..N)
        BY FS_Interval
      <4> QED
        BY <4>1, <4>2, FS_Subset
    <3>3. Pending(g) = {}
      BY <3>1, <3>2, FS_EmptySet
    <3> QED
      BY <1>4, <2>1, <3>3 DEF Pending
  <2>2. CASE groups[g].kind = "any"
    BY <1>1, <1>2, <2>2 DEF CountOK
  <2> QED
    BY <1>5, <2>1, <2>2
<1>7. \A j \in 1..N : \E v \in Frame : serves[v] = <<g, j>>
  <2>1. \A j \in 1..N : j <= Cardinality(Wrappers(g)) => \E v \in Frame : serves[v] = <<g, j>>
    BY <1>2, <1>4 DEF ForkOK
  <2>2. Cardinality(Wrappers(g)) = N
    BY <1>1, <1>2, <1>4 DEF ForkOK
  <2> QED
    BY <2>1, <2>2, BoundAssumption
<1>8. ASSUME NEW w \in Frame, NEW j \in 0..MaxFrames, serves[w] = <<g, j>>
      PROVE  /\ WrapperOK(w, g, j) /\ j \in 1..N
             /\ groups[g].kind = "all" => at[w] \in {"final", "destroyed"}
  <2>1. <<g, j>> # User
    BY <1>2 DEF User
  <2>2. WrapperOK(w, g, j) /\ j \in 1..N
    BY <1>2, <1>4, <1>8, <2>1 DEF GroupFine, WrapperOK
  <2>3. ASSUME groups[g].kind = "all" PROVE at[w] \in {"final", "destroyed"}
    <3>1. PICK v \in Frame : serves[v] = <<g, j>> /\ at[v] \in {"final", "destroyed"}
      BY <1>6, <2>2, <2>3 DEF Reported
    <3> QED
      BY <1>8, <2>1, <3>1 DEF WrappersOK
  <2> QED
    BY <2>2, <2>3
<1> DEFINE S == {f \in Frame : owner[f] = o}
<1>9. \A f \in S : at[f] = "destroyed" \/ (at[f] = "final" /\ serves[f] # User /\ serves[f][1] = g)
  <2> SUFFICES ASSUME NEW f \in Frame, owner[f] = o, at[f] # "destroyed"
               PROVE  at[f] = "final" /\ serves[f] # User /\ serves[f][1] = g
    OBVIOUS
  <2>1. Alive(f)
    BY <1>1 DEF FreshOK, Alive
  <2>2. Owns(o, f)
    BY <2>1 DEF OwnsOK
  <2>3. ~(at[f] = "initial" /\ serves[f] = User)
    <3> SUFFICES ASSUME at[f] = "initial", serves[f] = User PROVE FALSE
      OBVIOUS
    <3>1. Unclaimed(f, g)
      BY <1>2, <1>3 DEF GroupFine
    <3>2. PICK j \in 1..N :
            \A v \in Frame : serves[v] = <<g, j>> => groups[g].kind = "all" /\ at[v] = "initial"
      BY <1>4, <3>1 DEF Unclaimed
    <3>3. PICK v \in Frame : serves[v] = <<g, j>>
      BY <1>7
    <3>4. j \in 0..MaxFrames
      BY BoundAssumption
    <3> QED
      BY <1>8, <3>2, <3>3, <3>4
  <2>4. serves[f] # User /\ serves[f][1] = g
    BY <1>1, <1>2, <2>2, <2>3 DEF Owns
  <2>5. PICK x, j \in 0..MaxFrames : serves[f] = <<x, j>>
    <3>1. serves[f] \in (0..MaxFrames) \X (0..MaxFrames)
      BY DEF TypeOK
    <3> QED
      BY <3>1
  <2>6. serves[f] = <<g, j>>
    BY <2>4, <2>5
  <2>7. WrapperOK(f, g, j) /\ (groups[g].kind = "all" => at[f] \in {"final", "destroyed"})
    BY <1>8, <2>6
  <2>8. groups[g].kind # "any"
    BY <1>1, <2>1, <2>7 DEF WrapperOK
  <2> QED
    BY <1>5, <2>1, <2>4, <2>7, <2>8 DEF Alive
<1> QED
  BY <1>4, <1>6, <1>9

\* A parent goes on with the outcome of its group.
LEMMA GroupResumeKeeps ==
  ASSUME Inv, GroupResume
  PROVE  Inv' /\ UNCHANGED loopVars
<1> USE DEF Inv, FramesOK
<1>1. PICK o \in Frame : o = current
  BY LoopMeans DEF GroupResume
<1>2. /\ o # NoFrame /\ at[o] = "group" /\ AtGroup(o) /\ Alive(o) /\ ~terminated
      /\ ~Loop!Suspended(o)
  BY <1>1, LoopMeans DEF GroupResume, Alive, PlacesOK, AtGroup, Loop!Suspended
<1>3. PICK g \in 1..MaxFrames :
        /\ waits[o] = g /\ g \in DOMAIN groups /\ groups[g].parent = o
        /\ ForkOK(o, g) /\ CountOK(o, g) /\ GroupOK(g) /\ GroupFine(g)
        /\ Len(groups[g].kids) \in 1..MaxFrames
  BY <1>2, ParentIs
<1>4. serves[o] = User /\ Joins(o, g)
  BY <1>2, <1>3, ParentIs DEF Joins
<1>5. PICK N \in 1..MaxFrames : N = Len(groups[g].kids)
  BY <1>3
<1>6. groups[g].kind \in {"all", "any"} /\ groups[g] \in Group
  BY <1>3, GroupTypes DEF Group
<1>7. /\ groups[g].kind = "all" => \A j \in 1..N : Reported(g, j)
      /\ groups[g].kind = "any" => groups[g].winner # 0
  BY <1>1, <1>2, <1>3, <1>5, CollectedAre
<1>8. \A j \in 1..N : \E v \in Frame : serves[v] = <<g, j>>
  <2>1. \A j \in 1..N : j <= Cardinality(Wrappers(g)) => \E v \in Frame : serves[v] = <<g, j>>
    BY <1>3, <1>5 DEF ForkOK
  <2>2. Cardinality(Wrappers(g)) = N
    BY <1>2, <1>3, <1>5 DEF ForkOK
  <2> QED
    BY <2>1, <2>2, BoundAssumption
<1>9. ASSUME NEW w \in Frame, NEW j \in 0..MaxFrames, serves[w] = <<g, j>>
      PROVE  /\ WrapperOK(w, g, j) /\ j \in 1..N
             /\ groups[g].kind = "all" => at[w] \in {"final", "destroyed"}
  <2>1. <<g, j>> # User
    BY <1>3 DEF User
  <2>2. WrapperOK(w, g, j) /\ j \in 1..N
    BY <1>3, <1>5, <1>9, <2>1 DEF GroupFine, WrapperOK
  <2>3. ASSUME groups[g].kind = "all" PROVE at[w] \in {"final", "destroyed"}
    <3>1. PICK v \in Frame : serves[v] = <<g, j>> /\ at[v] \in {"final", "destroyed"}
      BY <1>7, <2>2, <2>3 DEF Reported
    <3> QED
      BY <1>9, <2>1, <3>1 DEF WrappersOK
  <2> QED
    BY <2>2, <2>3
<1> DEFINE S == {f \in Frame : owner[f] = o}
<1>10. \A f \in S : at[f] = "destroyed" \/ (at[f] = "final" /\ serves[f] # User /\ serves[f][1] = g)
  BY <1>1, <1>2, <1>3, CollectedAre
<1>11. UNCHANGED <<loopVars, owner, cont, detached, serves, groups, hostVars>>
  BY DEF GroupResume
<1>12. UNCHANGED <<ready, timers, now, mode, current, budget, batch, root, terminated,
                   owner, cont, detached, serves, groups>>
  BY <1>11 DEF loopVars, hostVars
<1>13. /\ Destroy(S) = [f \in Frame |-> IF f \in S THEN "destroyed" ELSE at[f]]
       /\ Destroy(S) \in [Frame -> Place]
       /\ \A f \in Frame : Alive(f) => owner[f] \notin S
  <2>1. S \subseteq Frame /\ \A f \in S : at[f] \in {"final", "destroyed"}
    BY <1>10
  <2> HIDE DEF S
  <2> QED
    BY <2>1, FinishedAre
<1>14. /\ at' \in [Frame -> Place]
       /\ \A f \in Frame : at'[f] = IF f = o THEN "body"
                                    ELSE IF f \in S THEN "destroyed" ELSE at[f]
  <2>1. at' = [Destroy(S) EXCEPT ![o] = "body"]
    BY <1>1 DEF GroupResume
  <2> HIDE DEF S
  <2> QED
    BY <1>13, <2>1 DEF Place
<1>15. /\ waits' \in [Frame -> 0..MaxFrames] /\ exc' \in [Frame -> Frame \cup {NoFrame}]
       /\ \A f \in Frame : waits'[f] = IF f = o THEN NoFrame ELSE waits[f]
       /\ \A f \in Frame : f # o => exc'[f] = exc[f]
  <2>1. Failure(groups[g]) \in Frame \cup {NoFrame}
    BY <1>3, <1>6, <1>7, FailureTyped DEF GroupOK
  <2>2. exc' = [exc EXCEPT ![o] = Failure(groups[g])] /\ waits' = [waits EXCEPT ![o] = NoFrame]
    BY <1>1, <1>3 DEF GroupResume
  <2> QED
    BY <2>1, <2>2, BoundAssumption DEF TypeOK, NoFrame
<1>16. \A f \in S : owner[f] = o /\ f # o /\ f # root /\ at[f] \in {"final", "destroyed"}
  <2>1. \A f \in Frame : f = root => owner[f] = NoFrame
    BY DEF OneOwner, RootOK, NoFrame, Frame
  <2> QED
    BY <1>2, <1>10, <2>1
<1>17. \A f \in Frame : Alive(f) /\ owner[f] = o => f \in S
  OBVIOUS
<1> HIDE DEF S
<1>18. TypeOK'
  <2>1. Loop!TypeOK'
    BY <1>12 DEF TypeOK, Loop!TypeOK
  <2> QED
    BY <2>1, <1>12, <1>14, <1>15 DEF TypeOK
<1>19. /\ LoopInv' /\ Loop!Registered' = Loop!Registered
       /\ \A f : Loop!Suspended(f)' = Loop!Suspended(f)
  BY <1>11, <1>12, LoopInvStep DEF Loop!Registered, Loop!Suspended
<1>20. Allocated' = Allocated /\ \A f \in Frame : Alive(f)' <=> Alive(f) /\ f \notin S
  <2>1. \A f \in Frame : at'[f] = "free" <=> at[f] = "free"
    BY <1>2, <1>14, <1>16
  <2> QED
    BY <1>2, <1>14, <1>16, <2>1, SameAllocated DEF Alive
<1>21. FreshOK'
  <2>1. \A f \in Frame : at'[f] = "free" <=> at[f] = "free"
    BY <1>2, <1>14, <1>16
  <2> QED
    BY <1>12, <1>20, <2>1 DEF FreshOK, TypeOK
<1>22. OneOwner'
  <2> SUFFICES ASSUME NEW f \in Frame, Alive(f), f \notin S
               PROVE  IF detached[f] \/ f = root THEN owner[f] = NoFrame
                      ELSE \E q \in Frame : owner[f] = q /\ Alive(q)'
    BY <1>12, <1>20 DEF OneOwner, Alive
  <2> QED
    BY <1>13, <1>20 DEF OneOwner, Alive
<1>23. PlacesOK' /\ RootOK'
  <2>1. RootOK'
    BY <1>12, <1>16, <1>20 DEF RootOK, Alive
  <2>2. \A f \in Loop!Registered : at'[f] = at[f]
    BY <1>1, <1>14, <1>16, LoopMeans DEF PlacesOK
  <2>3. Alive(o)'
    BY <1>2, <1>16, <1>20
  <2> QED
    BY <1>1, <1>2, <1>12, <1>14, <1>19, <2>1, <2>2, <2>3 DEF PlacesOK, Alive
<1>24. UnstartedOK'
  BY <1>12, <1>14, <1>19 DEF UnstartedOK
<1>25. AwaitOK'
  <2> SUFFICES ASSUME NEW q \in Frame, at'[q] = "task", NEW f, waits'[q] = f
               PROVE  f \in Frame /\ Awaits(q, f)'
    BY <1>12 DEF AwaitOK
  <2>1. f \in Frame /\ at[q] = "task" /\ Awaits(q, f) /\ q # o
    BY <1>14, <1>15 DEF AwaitOK
  <2>2. f \notin S
    BY <1>16, <2>1 DEF Awaits
  <2>3. f # o \/ at'[f] # "final"
    BY <1>14
  <2>4. f # o => at'[f] = at[f]
    BY <1>14, <2>1, <2>2
  <2> QED
    BY <1>1, <1>12, <1>20, <2>1, <2>2, <2>3, <2>4 DEF Awaits
<1>26. ContOK'
  BY <1>2, <1>12, <1>14, <1>15, <1>16, <1>20 DEF ContOK
<1>27. OwnsOK'
  <2> SUFFICES ASSUME NEW f \in Frame, NEW q \in Frame, Alive(f), f \notin S, owner[f] = q
               PROVE  Owns(q, f)'
    BY <1>12, <1>20 DEF OwnsOK
  <2>1. Owns(q, f) /\ q # o /\ q \notin S
    BY <1>13, <1>17 DEF OwnsOK
  <2> QED
    BY <1>2, <1>12, <1>14, <1>15, <2>1 DEF Owns, Child
<1>28. OthersKept(g)
  <2>1. \A v \in Frame : serves[v] # User /\ serves[v][1] # g => WrapperKept(v)
    <3>1. \A v \in Frame : serves[v] # User /\ serves[v][1] # g => v # o /\ at'[v] = at[v]
      BY <1>4, <1>10, <1>14 DEF S
    <3> QED
      BY <1>12, <1>15, <3>1, WrapperIs DEF WrapperKept, Alive
  <2>2. \A q \in Frame : (AtGroup(q) \/ AtGroup(q)') /\ q # o => ParentKept(q)
    BY <1>14, <1>15, <1>16, <1>19 DEF AtGroup, ParentKept
  <2>3. ~AtGroup(o)' /\ waits[o] = g
    BY <1>3, <1>14 DEF AtGroup
  <2>4. \A c, q \in Frame : Waiting(c, q) => Waiting(c, q)'
    BY <1>2, <1>12, <1>14, <1>16 DEF Waiting
  <2>5. /\ \A f \in Frame : at'[f] = "initial" => at[f] = "initial"
        /\ \A f \in Frame : at[f] # "free" => at'[f] # "free"
    BY <1>14
  <2> QED
    BY <1>12, <1>20, <2>1, <2>2, <2>3, <2>4, <2>5 DEF OthersKept
<1>29. GroupOK(g)'
  <2>1. \A f \in Frame : at[f] # "free" => at'[f] # "free"
    BY <1>14
  <2>2. \E f \in Frame : serves[f][1] = g
    <3>1. 1 \in 1..N
      BY BoundAssumption
    <3>2. PICK v \in Frame : serves[v] = <<g, 1>>
      BY <1>8, <3>1
    <3> QED
      BY <3>2
  <2>3. \A i \in 1..N : groups[g].kids[i] \in Frame
    BY <1>3, <1>5, GroupTypes
  <2> QED
    BY <1>3, <1>5, <1>12, <2>1, <2>2, <2>3 DEF GroupOK
<1>30. GroupFine(g)'
  <2>1. \A q \in Frame : ~Joins(q, g)'
    <3> SUFFICES ASSUME NEW q \in Frame, Joins(q, g)' PROVE FALSE
      OBVIOUS
    <3>1. q # o /\ Joins(q, g)
      BY <1>14, <1>15 DEF Joins
    <3> QED
      BY <1>3, <3>1 DEF GroupFine, ForkOK
  <2>2. ASSUME NEW w \in Frame, NEW j \in 0..MaxFrames, serves[w] = <<g, j>>, <<g, j>> # User
        PROVE  WrapperOK(w, g, j)'
    <3>1. WrapperOK(w, g, j) /\ j \in 1..N /\ w # o
      BY <1>4, <1>9, <2>2
    <3>2. CASE groups[g].kind = "all"
      <4>1. at'[w] = "destroyed"
        <5>1. at[w] = "destroyed" \/ w \in S
          BY <1>3, <1>9, <2>2, <3>1, <3>2 DEF WrapperOK, Alive, S
        <5> QED
          BY <1>14, <3>1, <5>1
      <4> QED
        BY <1>3, <1>5, <1>12, <3>1, <4>1 DEF WrapperOK, Alive
    <3>3. CASE groups[g].kind = "any"
      <4>1. at'[w] = at[w] \/ at'[w] = "destroyed"
        BY <1>14, <3>1
      <4>2. PICK c \in Frame : c = groups[g].kids[j]
        BY <1>3, <1>5, <3>1, GroupTypes
      <4>3. Waiting(c, w) => Waiting(c, w)'
        BY <1>2, <1>12, <1>14, <1>16 DEF Waiting
      <4>4. exc'[w] = exc[w]
        BY <1>15, <3>1
      <4> QED
        BY <1>3, <1>5, <1>7, <1>12, <3>1, <3>3, <4>1, <4>2, <4>3, <4>4 DEF WrapperOK, Waiting, Alive
    <3> QED
      BY <1>6, <3>2, <3>3
  <2> QED
    BY <1>12, <2>1, <2>2 DEF GroupFine
<1>31. GroupsOK' /\ WrappersOK' /\ ForksOK' /\ KidsOK' /\ CountsOK'
  <2>1. OneWrapperPerSlot' /\ DOMAIN groups' = DOMAIN groups
    BY <1>12 DEF OneWrapperPerSlot, WrappersOK
  <2>2. g \in 0..MaxFrames
    BY <1>3
  <2> QED
    BY <1>28, <1>29, <1>30, <2>1, <2>2, OneGroupDisturbed
<1> QED
  BY <1>11, <1>18, <1>19, <1>21, <1>22, <1>23, <1>24, <1>25, <1>26, <1>27, <1>31

\* Run returns: nothing is running or registered, and the root goes with all
\* that it owns.
RootGone(o, C) ==
  /\ o = root /\ Alive(o) /\ serves[o] = User /\ owner[o] = NoFrame /\ ~terminated /\ o \in C
  /\ \A f \in C : at[f] # "free" /\ (f = o \/ owner[f] \in C)
  /\ \A f, q \in Frame : Alive(f) /\ owner[f] = q => (f \in C <=> q \in C)
  /\ at[o] = "final" => \A f \in C : f = o \/ at[f] = "destroyed"
  /\ at' \in [Frame -> Place]
  /\ \A f \in Frame : at'[f] = IF f \in C THEN "destroyed" ELSE at[f]

\* Run returns only then.
LEMMA RunReturnIs ==
  ASSUME Inv, RunReturn
  PROVE  /\ mode = "run" /\ current = NoFrame /\ mode' = "idle" /\ root' = NoFrame
         /\ UNCHANGED <<ready, timers, now, current, budget, batch, terminated,
                        owner, cont, detached, exc, waits, serves, groups>>
         /\ Loop!Next /\ LoopInv' /\ Loop!Registered = {} /\ Loop!Registered' = {}
         /\ \E o \in Frame, C \in SUBSET Frame : RootGone(o, C)
<1> USE DEF Inv, FramesOK
<1>1. /\ mode = "run" /\ current = NoFrame /\ ready = <<>> /\ timers = <<>>
      /\ mode' = "idle" /\ root' = NoFrame /\ at' = Destroy({root})
      /\ UNCHANGED <<ready, timers, now, current, budget, batch, terminated,
                     owner, cont, detached, exc, waits, serves, groups>>
  BY DEF RunReturn, Loop!RunReturn, Loop!queues
<1>2. PICK o \in Frame : o = root
  BY <1>1 DEF RootOK, Alive
<1>3. /\ Alive(o) /\ ~detached[o] /\ serves[o] = User /\ owner[o] = NoFrame /\ ~terminated
  BY <1>1, <1>2 DEF RootOK, OneOwner, NoFrame, Frame, PlacesOK
<1>4. Loop!Next /\ LoopInv' /\ Loop!Registered = {} /\ Loop!Registered' = {}
  <2>1. Loop!RunReturn
    BY DEF RunReturn
  <2>2. Loop!Next /\ LoopInv'
    BY <2>1, LoopDrives
  <2>3. Loop!Registered = {}
    BY <1>1, LoopMeans DEF Loop!Elements
  <2> QED
    BY <1>1, <2>2, <2>3 DEF Loop!Registered
<1> DEFINE C == Closure({o})
<1>5. /\ o \in C /\ C \subseteq Frame
      /\ \A f \in Frame : at[f] # "destroyed" /\ owner[f] # NoFrame /\ owner[f] \in C => f \in C
      /\ \A f \in C : f = o \/ owner[f] \in C
  BY ClosureIs
<1>6. /\ \A f \in C : at[f] # "free"
      /\ at' \in [Frame -> Place]
      /\ \A f \in Frame : at'[f] = IF f \in C THEN "destroyed" ELSE at[f]
  <2>1. {o} \subseteq Frame /\ \A f \in {o} : at[f] # "free"
    BY <1>3 DEF Alive
  <2> QED
    BY <1>1, <1>2, <2>1, DestroyIs
<1>7. at[o] = "final" => \A f \in C : f = o \/ at[f] = "destroyed"
  <2> SUFFICES ASSUME at[o] = "final" PROVE \A f \in C : f = o \/ at[f] = "destroyed"
    OBVIOUS
  <2>1. {o} \subseteq Frame /\ \A f \in {o} : at[f] \in {"final", "destroyed"}
    OBVIOUS
  <2>2. Destroy({o}) = [f \in Frame |-> IF f \in {o} THEN "destroyed" ELSE at[f]]
    BY <2>1, FinishedAre
  <2>3. \A f \in Frame : at'[f] = IF f = o THEN "destroyed" ELSE at[f]
    BY <1>1, <1>2, <2>2
  <2> QED
    BY <1>5, <1>6, <2>3
<1> HIDE DEF C
<1>8. ASSUME NEW f \in Frame, NEW q \in Frame, Alive(f), owner[f] = q
      PROVE  f \in C <=> q \in C
  BY <1>3, <1>5, <1>8 DEF Alive, NoFrame, Frame
<1>9. RootGone(o, C)
  BY <1>2, <1>3, <1>5, <1>6, <1>7, <1>8 DEF RootGone
<1> QED
  BY <1>1, <1>4, <1>5, <1>9

\* Run returns, and destroys its root with all that it owns.  Without WhenAny,
\* or when the root has finished, no wrapper outlives a parent it would wake.
LEMMA RunReturnKeeps ==
  ASSUME Inv, RunReturn, "any" \notin Uses \/ at[root] = "final"
  PROVE  Inv' /\ Loop!Next
<1> USE DEF Inv, FramesOK
<1>1. /\ mode = "run" /\ current = NoFrame /\ mode' = "idle" /\ root' = NoFrame
      /\ UNCHANGED <<ready, timers, now, current, budget, batch, terminated,
                     owner, cont, detached, exc, waits, serves, groups>>
      /\ Loop!Next /\ LoopInv' /\ Loop!Registered = {} /\ Loop!Registered' = {}
      /\ \E o \in Frame, C \in SUBSET Frame : RootGone(o, C)
  BY RunReturnIs
<1>2. PICK o \in Frame, C \in SUBSET Frame : RootGone(o, C)
  BY <1>1
<1>3. /\ o = root /\ Alive(o) /\ serves[o] = User /\ owner[o] = NoFrame /\ ~terminated /\ o \in C
  BY <1>2 DEF RootGone
<1>4. Loop!Next /\ LoopInv' /\ Loop!Registered = {} /\ Loop!Registered' = {}
  BY <1>1
<1>5. o \in C /\ C \subseteq Frame /\ \A f \in C : f = o \/ owner[f] \in C
  BY <1>2 DEF RootGone
<1>6. /\ \A f \in C : at[f] # "free"
      /\ at' \in [Frame -> Place]
      /\ \A f \in Frame : at'[f] = IF f \in C THEN "destroyed" ELSE at[f]
  BY <1>2 DEF RootGone
<1>7. "any" \notin Uses \/ (at[o] = "final" /\ \A f \in C : f = o \/ at[f] = "destroyed")
  BY <1>2, <1>3 DEF RootGone
<1>8. \A f \in Frame : Alive(f)' <=> Alive(f) /\ f \notin C
  BY <1>6 DEF Alive
<1>9. ASSUME NEW f \in Frame, NEW q \in Frame, Alive(f), owner[f] = q
      PROVE  f \in C <=> q \in C
  BY <1>2, <1>9 DEF RootGone
<1>10. Allocated' = Allocated
  <2>1. \A f \in Frame : at'[f] = "free" <=> at[f] = "free"
    BY <1>6
  <2> QED
    BY <2>1, SameAllocated
<1>11. TypeOK'
  BY <1>1, <1>4, <1>6, LoopTyped DEF TypeOK
<1>12. FreshOK'
  BY <1>1, <1>6, <1>10 DEF FreshOK, TypeOK, NoFrame, Frame
<1>13. OneOwner'
  <2>1. ASSUME NEW f \in Frame, Alive(f), f \notin C
        PROVE  IF detached[f] THEN owner[f] = NoFrame
               ELSE \E q \in Frame : owner[f] = q /\ Alive(q)'
    <3>1. f # root
      BY <1>3, <2>1
    <3> QED
      BY <1>8, <1>9, <2>1, <3>1 DEF OneOwner, Alive
  <2>2. \A f \in Frame : f # root'
    BY <1>1 DEF NoFrame, Frame
  <2> QED
    BY <1>1, <1>8, <2>1, <2>2 DEF OneOwner, Alive
<1>14. PlacesOK' /\ RootOK' /\ UnstartedOK'
  <2>1. \A f \in Frame : at[f] \notin {"body", "fork"}
    BY <1>1 DEF PlacesOK, NoFrame, Frame
  <2> QED
    BY <1>1, <1>3, <1>4, <1>6, <2>1
       DEF PlacesOK, RootOK, UnstartedOK, Loop!Suspended, NoFrame, Frame
<1>15. AwaitOK'
  <2> SUFFICES ASSUME NEW q \in Frame, at'[q] = "task", NEW f, waits[q] = f
               PROVE  f \in Frame /\ Awaits(q, f)'
    BY <1>1 DEF AwaitOK
  <2>1. f \in Frame /\ at[q] = "task" /\ Awaits(q, f) /\ q \notin C
    BY <1>6 DEF AwaitOK
  <2>2. f \notin C
    BY <1>9, <2>1 DEF Awaits
  <2> QED
    BY <1>1, <1>8, <2>1, <2>2 DEF Awaits, NoFrame, Frame
<1>16. ContOK'
  <2> SUFFICES ASSUME NEW f \in Frame, NEW q \in Frame, Alive(f), f \notin C, cont[f] = q
               PROVE  at'[q] = "task" /\ waits[q] = f
    BY <1>1, <1>8 DEF ContOK
  <2>1. at[q] = "task" /\ waits[q] = f
    BY DEF ContOK
  <2>2. owner[f] = q
    BY <2>1 DEF AwaitOK, Awaits
  <2> QED
    BY <1>6, <1>9, <2>1, <2>2
<1>17. OwnsOK'
  <2> SUFFICES ASSUME NEW f \in Frame, NEW q \in Frame, Alive(f), f \notin C, owner[f] = q
               PROVE  Owns(q, f)'
    BY <1>1, <1>8 DEF OwnsOK
  <2>1. Owns(q, f) /\ q \notin C
    BY <1>9 DEF OwnsOK
  <2> QED
    BY <1>1, <1>6, <2>1 DEF Owns, Child
<1>18. GroupsOK'
  <2> SUFFICES ASSUME NEW g \in DOMAIN groups PROVE GroupOK(g)'
    BY <1>1 DEF GroupsOK
  <2>1. GroupOK(g)
    BY DEF GroupsOK
  <2>2. \E f \in Frame : serves[f][1] = g
    BY <1>1, <2>1 DEF GroupOK, PlacesOK, NoFrame, Frame
  <2>3. /\ groups[g].parent \in Frame
        /\ \A i \in 1..Len(groups[g].kids) : groups[g].kids[i] \in Frame
    BY GroupTypes
  <2>4. \A f \in Frame : at[f] # "free" => at'[f] # "free"
    BY <1>6
  <2> QED
    BY <1>1, <2>1, <2>2, <2>3, <2>4 DEF GroupOK
\* A group and its wrappers survive together, or its wrappers wake nobody.
<1>19. ASSUME NEW w \in Frame, NEW g \in 0..MaxFrames, NEW k \in 0..MaxFrames,
              serves[w] = <<g, k>>, <<g, k>> # User
       PROVE  \E p, c \in Frame :
                /\ g \in DOMAIN groups /\ k \in 1..Len(groups[g].kids) /\ WrapperOK(w, g, k)
                /\ p = groups[g].parent /\ c = groups[g].kids[k]
                /\ groups[g].kind \in {"all", "any"}
                /\ p \notin C => (at'[w] = at[w])
                /\ Joins(p, g) /\ w \notin C /\ Alive(w) => p \notin C
  <2>1. WrapperOK(w, g, k) /\ g \in DOMAIN groups /\ k \in 1..Len(groups[g].kids)
    BY <1>19 DEF WrappersOK, WrapperOK
  <2>2. PICK p, c \in Frame : p = groups[g].parent /\ c = groups[g].kids[k]
    BY <2>1, GroupTypes
  <2>3. groups[g].kind \in {"all", "any"} /\ groups[g].kind \in Uses
    BY <2>1, GroupTypes DEF Group, GroupsOK, GroupOK
  <2>4. CASE "any" \notin Uses
    <3>1. Alive(w) => owner[w] = p
      BY <2>1, <2>2, <2>3, <2>4 DEF WrapperOK
    <3>2. Alive(w) => (w \in C <=> p \in C)
      BY <1>9, <3>1
    <3> QED
      BY <1>6, <2>1, <2>2, <2>3, <3>2 DEF Alive
  <2>5. CASE at[o] = "final" /\ \A f \in C : f = o \/ at[f] = "destroyed"
    <3>1. w # o
      BY <1>3, <1>19
    <3>2. at'[w] = at[w]
      BY <1>6, <2>5, <3>1
    <3>3. Joins(p, g) => p \notin C
      BY <2>5 DEF Joins
    <3> QED
      BY <2>1, <2>2, <2>3, <3>2, <3>3
  <2> QED
    BY <1>7, <2>4, <2>5
<1>20. ASSUME NEW c \in Frame, NEW q \in Frame, Waiting(c, q), q \notin C
       PROVE  Waiting(c, q)'
  <2>1. c \notin C
    BY <1>9, <1>20 DEF Waiting, Alive
  <2> QED
    BY <1>1, <1>6, <1>20, <2>1 DEF Waiting
<1>21. ASSUME NEW g \in 0..MaxFrames PROVE GroupFine(g)'
  <2>1. ASSUME NEW w \in Frame, NEW k \in 0..MaxFrames, serves[w] = <<g, k>>, <<g, k>> # User
        PROVE  WrapperOK(w, g, k)'
    <3>1. PICK p, c \in Frame :
             /\ g \in DOMAIN groups /\ k \in 1..Len(groups[g].kids) /\ WrapperOK(w, g, k)
             /\ p = groups[g].parent /\ c = groups[g].kids[k]
             /\ groups[g].kind \in {"all", "any"}
             /\ p \notin C => (at'[w] = at[w])
             /\ Joins(p, g) /\ w \notin C /\ Alive(w) => p \notin C
      BY <1>19, <2>1
    <3>2. CASE w \in C
      <4>1. at'[w] = "destroyed"
        BY <1>6, <3>2
      <4> QED
        BY <1>1, <3>1, <4>1 DEF WrapperOK, Alive
    <3>3. CASE w \notin C
      <4>1. at'[w] = at[w] /\ Alive(w)' = Alive(w)
        BY <1>6, <3>3 DEF Alive
      <4>2. Joins(p, g) /\ Alive(w) => Joins(p, g)'
        BY <1>1, <1>6, <3>1, <3>3 DEF Joins
      <4>3. at[w] \in {"initial", "task", "body"} => Alive(w)
        BY DEF Alive
      <4>4. at[w] = "initial" /\ groups[g].kind = "any" => Waiting(c, w)'
        BY <1>20, <3>1, <3>3 DEF WrapperOK
      <4>5. at[w] = "initial" /\ groups[g].kind = "all" => Waiting(c, p)'
        <5> SUFFICES ASSUME at[w] = "initial", groups[g].kind = "all" PROVE Waiting(c, p)'
          OBVIOUS
        <5>1. Waiting(c, p) /\ Joins(p, g)
          BY <3>1, <4>3 DEF WrapperOK
        <5> QED
          BY <1>20, <3>1, <3>3, <4>3, <5>1
      <4> QED
        BY <1>1, <3>1, <4>1, <4>2, <4>3, <4>4, <4>5 DEF WrapperOK, Waiting
    <3> QED
      BY <3>2, <3>3
  <2>2. ASSUME NEW p \in Frame, Joins(p, g)'
        PROVE  /\ ForkOK(p, g)' /\ CountOK(p, g)'
               /\ \A f \in Frame : at'[f] = "initial" /\ serves[f] = User /\ owner[f] = p
                                      => Unclaimed(f, g)'
    <3>1. /\ p \notin C /\ at[p] = "group" /\ at'[p] = "group" /\ Joins(p, g)
      <4>1. at[p] # "fork"
        BY <1>1 DEF PlacesOK, NoFrame, Frame
      <4> QED
        BY <1>1, <1>6, <2>2, <4>1 DEF Joins
    <3>2. ForkOK(p, g) /\ CountOK(p, g) /\ groups[g].parent = p /\ g \in DOMAIN groups /\ g # 0
      <4>1. ForkOK(p, g) /\ CountOK(p, g)
        BY <3>1 DEF ForksOK, CountsOK
      <4>2. groups[g].parent = p /\ g \in DOMAIN groups
        BY <4>1 DEF ForkOK
      <4> QED
        BY <4>1, <4>2, GroupTypes
    <3>3. \A k \in 1..Len(groups[g].kids) : k \in 0..MaxFrames
      BY <3>2, KidsBounded, GroupTypes, BoundAssumption
    <3>4. ASSUME NEW w \in Frame, NEW k \in 1..Len(groups[g].kids), serves[w] = <<g, k>>
          PROVE  at'[w] = at[w]
      <4>1. k \in 0..MaxFrames /\ <<g, k>> # User
        BY <3>2, <3>3 DEF User
      <4> QED
        BY <1>19, <3>1, <3>2, <3>4, <4>1
    <3>5. \A k \in 1..Len(groups[g].kids) : Reported(g, k)' <=> Reported(g, k)
      BY <1>1, <3>4 DEF Reported
    <3>6. Pending(g)' = Pending(g)
      BY <1>1, <3>5 DEF Pending
    <3>7. Loop!Suspended(p)' = Loop!Suspended(p)
      BY <1>1, <1>4 DEF Loop!Suspended
    <3>8. CountOK(p, g)'
      BY <1>1, <3>1, <3>2, <3>5, <3>6, <3>7 DEF CountOK
    <3>9. ForkOK(p, g)'
      <4>1. Wrappers(g)' = Wrappers(g)
        BY <1>1 DEF Wrappers
      <4>2. Cardinality(Wrappers(g)) = Len(groups[g].kids) /\ Len(groups[g].kids) \in Nat
        BY <3>1, <3>2, GroupTypes DEF ForkOK
      <4>3. \A k \in 1..Len(groups[g].kids) : ~(k > Cardinality(Wrappers(g)))
        BY <4>2
      <4> QED
        BY <1>1, <3>1, <3>2, <4>1, <4>3 DEF ForkOK
    <3>10. ASSUME NEW f \in Frame, at'[f] = "initial", serves[f] = User, owner[f] = p
           PROVE  Unclaimed(f, g)'
      <4>1. at[f] = "initial"
        BY <1>6, <3>10
      <4>2. Unclaimed(f, g)
        BY <3>1, <3>10, <4>1 DEF KidsOK
      <4>3. PICK k \in 1..Len(groups[g].kids) :
               /\ f = groups[g].kids[k]
               /\ \A w \in Frame :
                    serves[w] = <<g, k>> => groups[g].kind = "all" /\ at[w] = "initial"
        BY <4>2 DEF Unclaimed
      <4>4. \A w \in Frame :
              serves[w] = <<g, k>> => groups[g].kind = "all" /\ at'[w] = "initial"
        BY <3>4, <4>3
      <4> QED
        BY <1>1, <4>3, <4>4 DEF Unclaimed
    <3> QED
      BY <3>8, <3>9, <3>10
  <2> QED
    BY <1>1, <2>1, <2>2 DEF GroupFine, Joins
<1>22. OneWrapperPerSlot'
  BY <1>1 DEF OneWrapperPerSlot, WrappersOK
<1>23. WrappersOK' /\ ForksOK' /\ KidsOK' /\ CountsOK'
  BY <1>21, <1>22, GroupByGroup
<1> QED
  BY <1>4, <1>11, <1>12, <1>13, <1>14, <1>15, <1>16, <1>17, <1>18, <1>23

-----------------------------------------------------------------------------
(* The theorems.                                                           *)

\* The initial states are in order.
LEMMA InitInv ==
  ASSUME Init
  PROVE  Inv
<1>1. LoopInv
  <2>1. L!Init
    BY DEF Init, Loop!Init, L!Init
  <2> QED
    BY <2>1, L!IInvInit, LoopConstants DEF LoopInv
<1>2. /\ \A f \in Frame : /\ at[f] = "free" /\ owner[f] = NoFrame /\ cont[f] = NoFrame
                          /\ ~detached[f] /\ serves[f] = User
      /\ groups = <<>> /\ root = NoFrame /\ ~terminated /\ current = NoFrame
      /\ ready = <<>> /\ timers = <<>> /\ mode = "idle"
      /\ \A f \in Frame : f # NoFrame
  BY DEF Init, Loop!Init, NoFrame, Frame
<1>3. TypeOK
  <2>1. groups \in Seq(Group)
    BY <1>2
  <2>2. User \in (0..MaxFrames) \X (0..MaxFrames) /\ NoFrame \in 0..MaxFrames
    BY BoundAssumption DEF User, NoFrame
  <2> QED
    BY <1>1, <1>2, <2>1, <2>2, LoopMeans DEF Init, TypeOK, Place
<1>4. Loop!Registered = {}
  BY <1>1, <1>2, LoopMeans DEF Loop!Elements
<1>5. FreshOK
  <2>1. Allocated = 0
    <3>1. \A f \in Frame : at[f] = "free" <=> 0 < f
      BY <1>2 DEF Frame
    <3>2. 0 \in 0..MaxFrames /\ at \in [Frame -> Place]
      BY <1>3, BoundAssumption DEF TypeOK
    <3> QED
      BY <3>1, <3>2, AllocatedIs DEF Allocated
  <2> QED
    BY <1>2, <2>1, BoundAssumption DEF FreshOK, Frame
<1>6. OneOwner /\ PlacesOK /\ UnstartedOK /\ AwaitOK /\ ContOK /\ OwnsOK /\ RootOK
  BY <1>2, <1>4 DEF OneOwner, PlacesOK, UnstartedOK, AwaitOK, ContOK, OwnsOK, RootOK, Alive
<1>7. GroupsOK /\ WrappersOK /\ ForksOK /\ KidsOK /\ CountsOK
  <2>1. DOMAIN groups = {}
    BY <1>2
  <2>2. \A p \in Frame, g \in 0..MaxFrames : ~Joins(p, g)
    BY <1>2 DEF Joins
  <2> QED
    BY <1>2, <2>1, <2>2 DEF GroupsOK, WrappersOK, ForksOK, KidsOK, CountsOK
<1> QED
  BY <1>1, <1>3, <1>5, <1>6, <1>7 DEF Inv, FramesOK

\* Every step keeps them so, as long as Run returns with no WhenAny in the
\* program or with the root finished.
LEMMA StepKeeps ==
  ASSUME Inv, [Next]_vars, RunReturn => "any" \notin Uses \/ at[root] = "final"
  PROVE  Inv' /\ (Loop!Next \/ UNCHANGED loopVars)
<1>1. CASE BodyStep
  <2>1. ASSUME CallTask \/ AwaitEmpty \/ AwaitEvent \/ Finish \/ Throw \/ Catch
        PROVE  Inv' /\ (Loop!Next \/ UNCHANGED loopVars)
    BY <2>1, CallTaskKeeps, ThrowKeeps, SuspendKeeps, FinishKeeps
  <2>2. ASSUME NEW f \in Frame, AwaitTask(f) \/ Spawn(f) \/ Drop(f) \/ SignalEvent(f)
        PROVE  Inv' /\ (Loop!Next \/ UNCHANGED loopVars)
    BY <2>2, AwaitTaskKeeps, SpawnKeeps, FinishKeeps, SignalEventKeeps
  <2>3. ASSUME NEW tasks \in SUBSET Held, CallWith(tasks)
        PROVE  Inv' /\ (Loop!Next \/ UNCHANGED loopVars)
    BY <2>3, CallWithKeeps
  <2>4. ASSUME NEW deadline \in Loop!Moment, Sleep(deadline)
        PROVE  Inv' /\ (Loop!Next \/ UNCHANGED loopVars)
    BY <2>4, SuspendKeeps
  <2>5. ASSUME NEW kind \in {"all", "any"}, When(kind)
        PROVE  Inv' /\ (Loop!Next \/ UNCHANGED loopVars)
    BY <2>5, WhenKeeps
  <2> QED
    BY <1>1, <2>1, <2>2, <2>3, <2>4, <2>5 DEF BodyStep
<1>2. CASE LibraryStep
  <2>1. CASE Resume \/ TaskResume \/ GroupResume
    BY <2>1, ResumeKeeps, TaskResumeKeeps, GroupResumeKeeps
  <2>2. CASE FinalSuspend
    BY <2>2, DetachedEndKeeps, OwnedEndKeeps
  <2>3. CASE ForkChild \/ ForkDone
    BY <2>3, ForkChildKeeps, ForkDoneKeeps
  <2>4. CASE WrapperAwait \/ WrapperDone
    BY <2>4, WrapperAwaitKeeps, WrapperDoneKeeps
  <2> QED
    BY <1>2, <2>1, <2>2, <2>3, <2>4 DEF LibraryStep
<1>3. CASE HostStep
  BY <1>3, HostStartKeeps, DriveKeeps, RunReturnKeeps DEF HostStep
<1>4. CASE UNCHANGED vars
  <2>1. UNCHANGED <<ready, timers, now, mode, current, budget, batch, at, owner, cont,
                    detached, exc, waits, serves, groups, root, terminated>>
    BY <1>4 DEF vars, loopVars, frameVars, hostVars
  <2>2. LoopInv' /\ UNCHANGED loopVars
    BY <2>1, LoopInvStep DEF loopVars, Inv
  <2>3. TypeOK'
    BY <2>1, <2>2, LoopTyped DEF Inv, TypeOK
  <2>4. /\ Allocated' = Allocated /\ Loop!Registered' = Loop!Registered
        /\ \A f : Alive(f)' = Alive(f) /\ Loop!Suspended(f)' = Loop!Suspended(f)
    BY <2>1 DEF Allocated, Loop!Registered, Alive, Loop!Suspended
  <2>5. FreshOK' /\ OneOwner' /\ PlacesOK' /\ UnstartedOK' /\ AwaitOK' /\ ContOK' /\ RootOK'
    BY <2>1, <2>4 DEF Inv, FramesOK, FreshOK, OneOwner, PlacesOK, UnstartedOK, AwaitOK, Awaits,
                      ContOK, RootOK, Alive
  <2>6. OwnsOK'
    BY <2>1, <2>4 DEF Inv, FramesOK, OwnsOK, Owns, Child
  <2>7. GroupsOK' /\ WrappersOK' /\ ForksOK' /\ KidsOK' /\ CountsOK'
    <3>1. GroupsKept
      BY <2>1, <2>4, WrapperIs
         DEF Inv, FramesOK, GroupsKept, WrapperKept, ParentKept, Waiting
    <3> QED
      BY <3>1, GroupsUndisturbed DEF Inv, FramesOK
  <2> QED
    BY <2>2, <2>3, <2>5, <2>6, <2>7 DEF Inv, FramesOK
<1> QED
  BY <1>1, <1>2, <1>3, <1>4 DEF Next

\* What the invariant says of the handles.
LEMMA InvMeans ==
  ASSUME Inv
  PROVE  TypeOK /\ OneOwner /\ NoDanglingHandle
<1>1. \A f, o \in Frame : Alive(f) /\ cont[f] = o => Alive(o)
  BY DEF Inv, FramesOK, ContOK, Alive
<1>2. \A f \in Frame : Alive(f) /\ cont[f] # NoFrame => Alive(cont[f])
  BY <1>1 DEF Inv, TypeOK, Alive
<1> QED
  BY <1>2 DEF Inv, FramesOK, NoDanglingHandle, PlacesOK

=============================================================================
