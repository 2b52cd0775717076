------------------------ MODULE PumpScheduler_proofs ------------------------
(***************************************************************************)
(* PumpScheduler never oversleeps, hands timers to the pump in order and   *)
(* implements Scheduler, for every set of handles, every resolution and    *)
(* range of the host timer and every bound on the clock.  Its queues are   *)
(* those of EventLoop; P is the proof module of EventLoop with `posted' in *)
(* the place of `ready' and nobody running, for here a whole stack of      *)
(* coroutines may run.                                                     *)
(***************************************************************************)
EXTENDS PumpScheduler, SequenceTheorems, TLAPS

\* What stands for no coroutine.
Nobody == CHOOSE n : n \notin Handle

P == INSTANCE EventLoop_proofs WITH
  ready <- posted, current <- Nobody, NoHandle <- Nobody,
  mode <- "idle", budget <- 0, batch <- <<>>

\* The assumptions of EventLoop hold.
LEMMA LoopAssumptions == Nobody \notin Handle /\ MaxTime \in Nat
BY NoSetContainsEverything, TimeAssumption DEF Nobody

\* The operators this module and P have in common.
LEMMA SameOperators ==
  /\ Moment = P!Moment
  /\ \A M, H : Entry(M, H) = P!Entry(M, H)
  /\ \A s : Elements(s) = P!Elements(s) /\ Handles(s) = P!Handles(s)
  /\ \A t : Sorted(t) <=> P!Sorted(t)
  /\ \A t, w, h : Schedule(t, w, h) = P!Schedule(t, w, h)
BY DEF Moment, P!Moment, Entry, P!Entry, Elements, P!Elements, Handles, P!Handles,
       Sorted, P!Sorted, Schedule, P!Schedule, DueCount, P!DueCount

-----------------------------------------------------------------------------
(* The stack of running coroutines.                                        *)

NoneTwice(s) == \A i, j \in 1..Len(s) : s[i] = s[j] => i = j

\* The innermost coroutine is popped, or replaced by one it transfers to.
LEMMA StackProperties ==
  ASSUME NEW s \in Seq(Handle), s # <<>>, NoneTwice(s), NEW h \in Handle
  PROVE  LET top == s[Len(s)]
             front == SubSeq(s, 1, Len(s) - 1)
             swapped == [s EXCEPT ![Len(s)] = h]
         IN  /\ top \in Elements(s) /\ top \in Handle
             /\ front \in Seq(Handle) /\ NoneTwice(front)
             /\ Elements(front) = Elements(s) \ {top}
             /\ front # <<>> <=> Len(s) > 1
             /\ swapped \in Seq(Handle) /\ swapped # <<>>
             /\ Elements(swapped) = (Elements(s) \ {top}) \cup {h}
             /\ h \notin Elements(s) => NoneTwice(swapped)
<1> DEFINE n == Len(s)
           top == s[n]
           front == SubSeq(s, 1, n - 1)
           swapped == [s EXCEPT ![n] = h]
<1>1. n \in Nat /\ n # 0 /\ \A i \in 1..n : s[i] \in Handle
  BY LenProperties, EmptySeq, ElementOfSeq
<1>2. /\ front \in Seq(Handle) /\ Len(front) = n - 1
      /\ \A i \in 1..(n - 1) : front[i] = s[i]
  <2> DEFINE m == n - 1
  <2>1. m \in Nat /\ \A i \in 1..m : s[i] \in Handle
    BY <1>1
  <2> HIDE DEF m
  <2>2. /\ SubSeq(s, 1, m) \in Seq(Handle)
        /\ Len(SubSeq(s, 1, m)) = IF 1 <= m THEN m - 1 + 1 ELSE 0
        /\ \A i \in 1..(m - 1 + 1) : SubSeq(s, 1, m)[i] = s[1 + i - 1]
    BY <2>1, SubSeqProperties, 1 \in Int, m \in Int
  <2>3. Len(SubSeq(s, 1, m)) = m /\ \A i \in 1..m : SubSeq(s, 1, m)[i] = s[i]
    BY <2>1, <2>2
  <2> QED
    BY <2>2, <2>3 DEF m
<1>3. /\ swapped \in Seq(Handle) /\ Len(swapped) = n
      /\ \A i \in 1..n : swapped[i] = IF i = n THEN h ELSE s[i]
  BY <1>1, ExceptSeq
<1> HIDE DEF n, front, swapped
<1>4. top \in Elements(s) /\ top \in Handle
  BY <1>1, n \in 1..n DEF Elements, n
<1>5. NoneTwice(front) /\ (front # <<>> <=> n > 1)
  BY <1>1, <1>2, EmptySeq DEF NoneTwice, n
<1>6. Elements(front) = Elements(s) \ {top}
  <2>1. \A i \in 1..(n - 1) : s[i] # top /\ i \in 1..n
    BY <1>1 DEF NoneTwice, n
  <2>2. \A i \in 1..n : s[i] # top => i \in 1..(n - 1)
    BY <1>1
  <2>3. Elements(s) = {s[i] : i \in 1..n}
    BY DEF Elements, n
  <2>4. Elements(front) = {s[i] : i \in 1..(n - 1)}
    BY <1>1, <1>2 DEF Elements
  <2> QED
    BY <2>1, <2>2, <2>3, <2>4
<1>7. Elements(swapped) = (Elements(s) \ {top}) \cup {h}
  <2>1. \A i \in 1..n : i # n => s[i] # top
    BY <1>1 DEF NoneTwice, n
  <2>2. Elements(s) = {s[i] : i \in 1..n}
    BY DEF Elements, n
  <2>3. Elements(swapped) = {swapped[i] : i \in 1..n}
    BY <1>3 DEF Elements
  <2>4. swapped[n] = h /\ n \in 1..n
    BY <1>1, <1>3
  <2> QED
    BY <1>3, <2>1, <2>2, <2>3, <2>4
<1>8. h \notin Elements(s) => NoneTwice(swapped)
  <2>1. h \notin Elements(s) => \A i \in 1..n : s[i] # h
    BY DEF Elements, n
  <2> QED
    BY <1>3, <2>1 DEF NoneTwice, n
<1>9. swapped # <<>>
  BY <1>1, <1>3, EmptySeq
<1> QED
  BY <1>2, <1>3, <1>4, <1>5, <1>6, <1>7, <1>8, <1>9 DEF n, front, swapped

\* A coroutine that did not run is resumed.
LEMMA StackPush ==
  ASSUME NEW s \in Seq(Handle), NoneTwice(s), NEW h \in Handle
  PROVE  /\ Append(s, h) \in Seq(Handle) /\ Append(s, h) # <<>>
         /\ Elements(Append(s, h)) = Elements(s) \cup {h}
         /\ h \notin Elements(s) => NoneTwice(Append(s, h))
<1>1. /\ Append(s, h) \in Seq(Handle) /\ Len(s) \in Nat
      /\ Len(Append(s, h)) = Len(s) + 1
      /\ \A i \in 1..Len(s) : Append(s, h)[i] = s[i]
      /\ Append(s, h)[Len(s) + 1] = h
  BY LenProperties, AppendProperties
<1>2. Elements(Append(s, h)) = Elements(s) \cup {h}
  BY P!AppendAdds, LoopAssumptions, SameOperators
<1>3. Append(s, h) # <<>>
  BY <1>1, EmptySeq
<1>4. \A i \in 1..(Len(s) + 1) : i \in 1..Len(s) \/ i = Len(s) + 1
  BY <1>1
<1>5. h \notin Elements(s) => \A i \in 1..Len(s) : s[i] # h
  BY DEF Elements
<1> QED
  BY <1>1, <1>2, <1>3, <1>4, <1>5 DEF NoneTwice

-----------------------------------------------------------------------------
(* A handle is in one place: posted, parked or running, and there once.    *)

OnePlace(p, t, s) ==
  /\ NoneTwice(s)
  /\ \A c \in Elements(s) \cup {Nobody} : P!Once(p, t, c)

\* A suspended coroutine is in none of them.
LEMMA NotRegistered ==
  ASSUME TypeOK, NEW h
  PROVE  Suspended(h) <=> /\ h \notin Elements(stack)
                          /\ \A i \in 1..Len(posted) : posted[i] # h
                          /\ \A j \in 1..Len(timers) : timers[j].handle # h
<1>1. Elements(Handles(timers)) = {timers[i].handle : i \in 1..Len(timers)}
  BY P!ElementsOfHandles, LoopAssumptions, SameOperators DEF TypeOK
<1> QED
  BY <1>1 DEF Suspended, Registered, Elements

\* A coroutine that is nowhere, or that suspends, is posted or parked.
LEMMA OnePlaceRegister ==
  ASSUME NEW p \in Seq(Handle), NEW t \in Seq(P!Entry(P!Moment, Handle)), NEW s, NEW u,
         OnePlace(p, t, s), NoneTwice(u), Elements(u) \subseteq Elements(s),
         NEW h \in Handle, h \notin Elements(u),
         \A i \in 1..Len(p) : p[i] # h, \A j \in 1..Len(t) : t[j].handle # h
  PROVE  /\ OnePlace(Append(p, h), t, u)
         /\ \A w \in P!Moment : OnePlace(p, P!Schedule(t, w, h), u)
<1>1. ASSUME NEW c \in Elements(u) \cup {Nobody}
      PROVE  /\ P!Once(p, t, c) /\ h # c
             /\ \A i \in 1..Len(p) : p[i] # c
             /\ \A j \in 1..Len(t) : t[j].handle # c
  <2>1. P!Once(p, t, c) /\ h # c
    BY <1>1, LoopAssumptions DEF OnePlace
  <2> QED
    BY <2>1 DEF P!Once
<1>2. ASSUME NEW c \in Elements(u) \cup {Nobody}
      PROVE  P!Once(Append(p, h), t, c)
  BY <1>1, P!OnceAppend, LoopAssumptions
<1>3. ASSUME NEW c \in Elements(u) \cup {Nobody}, NEW w \in P!Moment
      PROVE  P!Once(p, P!Schedule(t, w, h), c)
  BY <1>1, P!OnceSchedule, LoopAssumptions
<1> QED
  BY <1>2, <1>3 DEF OnePlace

\* Coroutines leave the stack, or one that is nowhere takes a place on it.
LEMMA OnePlaceStack ==
  ASSUME NEW p, NEW t, NEW s, NEW u, OnePlace(p, t, s), NoneTwice(u), NEW h,
         \/ Elements(u) \subseteq Elements(s)
         \/ /\ Elements(u) \subseteq Elements(s) \cup {h}
            /\ \A i \in 1..Len(p) : p[i] # h
            /\ \A j \in 1..Len(t) : t[j].handle # h
  PROVE  OnePlace(p, t, u)
<1>1. ASSUME NEW c \in Elements(u) \cup {Nobody} PROVE P!Once(p, t, c)
  <2>1. CASE c \in Elements(s) \cup {Nobody}
    BY <2>1 DEF OnePlace
  <2>2. CASE c \notin Elements(s) \cup {Nobody}
    <3>1. c = h /\ P!Once(p, t, Nobody)
      BY <1>1, <2>2 DEF OnePlace
    <3> QED
      BY <3>1, <1>1, <2>2 DEF P!Once
  <2> QED
    BY <2>1, <2>2
<1> QED
  BY <1>1 DEF OnePlace

\* The pump resumes the oldest handle.
LEMMA OnePlaceDispatch ==
  ASSUME NEW p \in Seq(Handle), NEW t \in Seq(P!Entry(P!Moment, Handle)),
         NEW s \in Seq(Handle), OnePlace(p, t, s), p # <<>>
  PROVE  /\ OnePlace(Tail(p), t, Append(s, Head(p)))
         /\ Head(p) \in Handle /\ Head(p) \notin Elements(s)
<1>1. ASSUME NEW c \in Elements(s) \cup {Nobody}
      PROVE  P!Once(Tail(p), t, Head(p)) /\ P!Once(Tail(p), t, c)
  <2>1. P!Once(p, t, c)
    BY DEF OnePlace
  <2> QED
    BY <2>1, P!OncePop, LoopAssumptions
<1>2. Head(p) \in Handle /\ Head(p) = p[1] /\ 1 \in 1..Len(p)
  BY HeadTailProperties, LenProperties, EmptySeq
<1>3. Head(p) \notin Elements(s)
  BY <1>2 DEF OnePlace, P!Once
<1>4. /\ Elements(Append(s, Head(p))) = Elements(s) \cup {Head(p)}
      /\ NoneTwice(Append(s, Head(p)))
  BY <1>2, <1>3, StackPush DEF OnePlace
<1> QED
  BY <1>1, <1>2, <1>3, <1>4 DEF OnePlace

\* OnTimerExpired posts the earliest entry.
LEMMA OnePlaceDue ==
  ASSUME NEW p \in Seq(Handle), NEW t \in Seq(P!Entry(P!Moment, Handle)), NEW s,
         OnePlace(p, t, s), t # <<>>
  PROVE  OnePlace(Append(p, Head(t).handle), Tail(t), s)
<1>1. /\ Head(t) = t[1] /\ 1 \in 1..Len(t) /\ t[1].handle \in Handle
      /\ Tail(t) \in Seq(P!Entry(P!Moment, Handle))
  BY P!TailOfTimers, LoopAssumptions
<1>2. ASSUME NEW c \in Elements(s) \cup {Nobody}
      PROVE  P!Once(Append(p, t[1].handle), Tail(t), c)
  <2>1. P!Once(p, t, c)
    BY DEF OnePlace
  <2>2. P!Once(p, Tail(t), t[1].handle) /\ P!Once(p, Tail(t), c) /\ t[1].handle # c
    BY <2>1, <1>1, P!OnceFire, LoopAssumptions DEF P!Once
  <2>3. /\ \A i \in 1..Len(p) : p[i] # t[1].handle /\ p[i] # c
        /\ \A j \in 1..Len(Tail(t)) : /\ Tail(t)[j].handle # t[1].handle
                                      /\ Tail(t)[j].handle # c
    BY <2>2 DEF P!Once
  <2> QED
    BY <2>2, <2>3, <1>1, P!OnceAppend, LoopAssumptions
<1> QED
  BY <1>1, <1>2 DEF OnePlace

-----------------------------------------------------------------------------
(* The inductive invariant.  NeverOversleeps holds between two calls of    *)
(* the driver; the timer that Rearm sets is enough for what is parked then *)
(* because the queue is in order and nothing is parked without a Rearm.    *)

\* The driver is at work only while there is a scheduler, on a reading that
\* is not ahead of the clock; a destroyed scheduler has nothing left.
DriverOK ==
  /\ seen <= now
  /\ step # "free" => alive
  /\ alive \/ (posted = <<>> /\ timers = <<>>)

IInv ==
  /\ TypeOK /\ DriverOK
  /\ OnePlace(posted, timers, stack) /\ Sorted(timers)
  /\ NeverOversleeps

\* What IInv says, in the terms of P.
LEMMA IInvMeans ==
  ASSUME IInv
  PROVE  /\ posted \in Seq(Handle) /\ stack \in Seq(Handle)
         /\ timers \in Seq(P!Entry(P!Moment, Handle)) /\ P!Sorted(timers)
         /\ OnePlace(posted, timers, stack) /\ NoneTwice(stack)
         /\ now \in Nat /\ seen \in Nat /\ seen <= now
         /\ now \in P!Moment /\ \A t \in P!Moment : t \in Nat
BY SameOperators, TimeAssumption DEF IInv, TypeOK, DriverOK, OnePlace, P!Moment

\* A step that moves handles about and leaves the host's timer alone.
LEMMA QueuesInv ==
  ASSUME IInv, UNCHANGED <<host, alive, now, timer, seen>>,
         posted' \in Seq(Handle), stack' \in Seq(Handle),
         timers' \in Seq(P!Entry(P!Moment, Handle)), P!Sorted(timers'),
         OnePlace(posted', timers', stack'),
         pumping' \in BOOLEAN, pumping' => stack' # <<>>,
         alive \/ (posted' = <<>> /\ timers' = <<>>),
         \/ step' = step /\ timers' = timers
         \/ step' \in {"park", "drain"} /\ alive
  PROVE  IInv'
<1>1. TypeOK'
  BY SameOperators DEF IInv, TypeOK, timer, Moment, P!Moment
<1>2. DriverOK'
  BY DEF IInv, DriverOK
<1>3. NeverOversleeps'
  <2>1. CASE step' = step /\ timers' = timers
    BY <2>1 DEF IInv, NeverOversleeps, timer
  <2>2. CASE step' \in {"park", "drain"}
    BY <2>2 DEF NeverOversleeps
  <2> QED
    BY <2>1, <2>2
<1>4. Sorted(timers')
  BY SameOperators
<1> QED
  BY <1>1, <1>2, <1>3, <1>4 DEF IInv

\* Control returns to the pump: the innermost coroutine is registered nowhere.
LEMMA ReturnLeaves ==
  ASSUME IInv, InBody, ReturnToPump
  PROVE  /\ stack' \in Seq(Handle) /\ NoneTwice(stack')
         /\ Elements(stack') = Elements(stack) \ {Current}
         /\ Current \in Handle /\ Current \in Elements(stack)
         /\ pumping' \in BOOLEAN /\ (pumping' => stack' # <<>>)
         /\ \A i \in 1..Len(posted) : posted[i] # Current
         /\ \A j \in 1..Len(timers) : timers[j].handle # Current
<1>1. stack # <<>> /\ stack' = SubSeq(stack, 1, Len(stack) - 1) /\ pumping' = (Len(stack) > 1)
  BY DEF InBody, ReturnToPump
<1>h. Handle # {} /\ Current \in Handle
  BY <1>1, IInvMeans, LenProperties, EmptySeq, ElementOfSeq DEF Current
<1>2. /\ stack' \in Seq(Handle) /\ NoneTwice(stack')
      /\ Elements(stack') = Elements(stack) \ {Current}
      /\ Current \in Elements(stack)
      /\ stack' # <<>> <=> Len(stack) > 1
  BY <1>1, <1>h, IInvMeans, StackProperties DEF Current
<1>p. pumping' \in BOOLEAN /\ (pumping' => stack' # <<>>)
  <2>1. (Len(stack) > 1) \in BOOLEAN
    OBVIOUS
  <2> QED
    BY <1>1, <1>2, <2>1, Zenon
<1>3. P!Once(posted, timers, Current)
  BY <1>2, IInvMeans DEF OnePlace
<1> QED
  BY <1>h, <1>p, <1>2, <1>3 DEF P!Once

\* A handle that is nowhere, or suspends, is posted or parked.
LEMMA PostOrParkInv ==
  ASSUME IInv, alive, step = "free", NEW w \in Moment, NEW h \in Handle,
         \/ PostOrPark(w, h)
         \/ /\ posted' = Append(posted, h)
            /\ UNCHANGED <<host, alive, now, timers, timer, driver>>,
         stack' \in Seq(Handle), NoneTwice(stack'),
         Elements(stack') \subseteq Elements(stack), h \notin Elements(stack'),
         pumping' \in BOOLEAN, pumping' => stack' # <<>>,
         \A i \in 1..Len(posted) : posted[i] # h,
         \A j \in 1..Len(timers) : timers[j].handle # h
  PROVE  IInv'
<1>t. /\ posted \in Seq(Handle) /\ timers \in Seq(P!Entry(P!Moment, Handle))
      /\ OnePlace(posted, timers, stack) /\ P!Sorted(timers) /\ w \in P!Moment
  BY IInvMeans, SameOperators
<1>1. /\ OnePlace(Append(posted, h), timers, stack')
      /\ OnePlace(posted, P!Schedule(timers, w, h), stack')
  BY <1>t, OnePlaceRegister
<1>2. CASE posted' = Append(posted, h) /\ timers' = timers /\ step' = step
  <2>1. posted' \in Seq(Handle)
    BY <1>2, <1>t, AppendProperties
  <2>2. UNCHANGED <<host, alive, now, timer, seen>>
    BY DEF PostOrPark, driver
  <2> QED
    BY <1>1, <1>2, <1>t, <2>1, <2>2, QueuesInv
<1>3. CASE posted' = posted /\ timers' = Schedule(timers, w, h) /\ step' = "park"
  <2>1. timers' = P!Schedule(timers, w, h)
    BY <1>3, SameOperators
  <2>2. timers' \in Seq(P!Entry(P!Moment, Handle)) /\ P!Sorted(timers')
    <3>1. P!InsertsInOrder(timers, w, h, P!Entry(P!Moment, Handle))
      BY <1>t, P!MomentIsNat, P!ScheduleProperties, LoopAssumptions
    <3>2. P!Sorted(P!Schedule(timers, w, h))
      BY <1>t, P!ScheduleSorted, LoopAssumptions
    <3> QED
      BY <2>1, <3>1, <3>2 DEF P!InsertsInOrder
  <2>3. UNCHANGED <<host, alive, now, timer, seen>>
    BY DEF PostOrPark, driver
  <2> QED
    BY <1>1, <1>3, <1>t, <2>1, <2>2, <2>3, QueuesInv
<1> QED
  BY <1>2, <1>3 DEF PostOrPark, driver

\* ceil<milliseconds> rounds up, by less than a millisecond.
LEMMA CeilProperties ==
  ASSUME NEW left \in Nat
  PROVE  /\ (left + Ms - 1) \div Ms \in Nat
         /\ Ms * ((left + Ms - 1) \div Ms) <= left + Ms - 1
<1> DEFINE a == left + Ms - 1
<1>1. a \in Nat /\ Ms \in Nat /\ Ms > 0
  BY TimeAssumption
<1> HIDE DEF a
<1>2. a \div Ms \in Int /\ a \div Ms >= 0
  BY <1>1
<1>3. Ms * (a \div Ms) <= a
  BY <1>1
<1> QED
  BY <1>2, <1>3 DEF a

\* The interval that Rearm asks for ends by the deadline, give or take a grain.
LEMMA IntervalProperties ==
  ASSUME NEW left \in Nat, host \in {"qt", "win32"}
  PROVE  LET delay == IF left > 0 THEN (left + Ms - 1) \div Ms ELSE 0
             grain == IF host = "qt" THEN Ms - 1 ELSE Ms * UserTimerMinimum
         IN  /\ Ms * Interval(delay) \in Nat
             /\ Ms * Interval(delay) <= left + grain
<1> DEFINE delay == IF left > 0 THEN (left + Ms - 1) \div Ms ELSE 0
           grain == IF host = "qt" THEN Ms - 1 ELSE Ms * UserTimerMinimum
<1>1. /\ Ms \in Nat /\ Ms >= 1
      /\ UserTimerMinimum \in Nat /\ UserTimerMinimum >= 1 /\ UserTimerMaximum \in Nat
  BY TimeAssumption, ClampAssumption
<1>2. delay \in Nat /\ Ms * delay <= left + Ms - 1
  <2>1. CASE left > 0
    BY <2>1, CeilProperties
  <2>2. CASE ~(left > 0)
    BY <2>2, <1>1
  <2> QED
    BY <2>1, <2>2
<1> HIDE DEF delay
<1>3. \A m, n \in Nat : Ms * m \in Nat /\ (m <= n => Ms * m <= Ms * n)
  BY <1>1
<1>4. Ms <= Ms * UserTimerMinimum
  BY <1>1, <1>3, Ms * 1 = Ms
<1>5. CASE host = "qt"
  <2>1. Interval(delay) = delay
    BY <1>5 DEF Interval
  <2> QED
    BY <1>2, <1>3, <1>5, <2>1 DEF delay
<1>6. CASE host = "win32" /\ delay < UserTimerMinimum
  <2>1. Interval(delay) = UserTimerMinimum
    BY <1>1, <1>2, <1>6 DEF Interval
  <2>2. Ms * UserTimerMinimum \in Nat /\ grain = Ms * UserTimerMinimum
    BY <1>1, <1>3, <1>6
  <2> HIDE DEF grain
  <2>3. /\ Ms * Interval(delay) \in Nat
        /\ Ms * Interval(delay) <= left + grain
    BY <2>1, <2>2
  <2> QED
    BY <2>3 DEF delay, grain
<1>7. CASE host = "win32" /\ ~(delay < UserTimerMinimum)
  <2>1. Interval(delay) \in Nat /\ Interval(delay) <= delay
    BY <1>1, <1>2, <1>7 DEF Interval
  <2>2. Ms * Interval(delay) \in Nat /\ Ms * Interval(delay) <= Ms * delay
    BY <1>2, <1>3, <2>1
  <2>3. Ms * Interval(delay) <= left + Ms * UserTimerMinimum
    <3>1. Ms * delay \in Nat /\ Ms * UserTimerMinimum \in Nat
      BY <1>1, <1>2, <1>3
    <3> HIDE DEF Interval
    <3> QED
      BY <1>1, <1>2, <1>4, <2>2, <3>1
  <2> QED
    BY <1>7, <2>2, <2>3 DEF delay
<1> QED
  BY <1>5, <1>6, <1>7

\* A scheduler that has just been constructed.
LEMMA InitInv == Init => IInv
<1> SUFFICES ASSUME Init PROVE IInv
  OBVIOUS
<1>1. /\ <<>> \in Seq(Handle) /\ <<>> \in Seq(Entry(Moment, Handle))
      /\ Len(<<>>) = 0 /\ 0 \in Moment
  BY EmptySeq, TimeAssumption DEF Moment
<1>2. TypeOK
  BY <1>1 DEF Init, TypeOK
<1>3. OnePlace(posted, timers, stack) /\ Sorted(timers)
  BY <1>1 DEF Init, OnePlace, P!Once, NoneTwice, Sorted, Elements
<1>4. DriverOK /\ NeverOversleeps
  BY DEF Init, DriverOK, NeverOversleeps
<1> QED
  BY <1>2, <1>3, <1>4 DEF IInv

\* The calls of the scheduler.
LEMMA RegisterInv ==
  ASSUME IInv, NEW w \in Moment, NEW h \in Handle,
         Post(h) \/ ScheduleAt(w, h) \/ Yield \/ Sleep(w)
  PROVE  IInv'
<1>t. /\ stack \in Seq(Handle) /\ NoneTwice(stack)
      /\ pumping \in BOOLEAN /\ (pumping => stack # <<>>)
  BY IInvMeans DEF IInv, TypeOK
<1>1. CASE Post(h)
  <2>1. /\ alive /\ Suspended(h) /\ posted' = Append(posted, h)
        /\ UNCHANGED <<host, alive, now, timers, timer, driver, thread>>
    BY <1>1 DEF Post
  <2>2. /\ h \notin Elements(stack)
        /\ \A i \in 1..Len(posted) : posted[i] # h
        /\ \A j \in 1..Len(timers) : timers[j].handle # h
    BY <2>1, NotRegistered DEF IInv
  <2>3. OnePlace(Append(posted, h), timers, stack)
    BY <2>2, <1>t, IInvMeans, OnePlaceRegister
  <2>4. Append(posted, h) \in Seq(Handle)
    BY IInvMeans, AppendProperties
  <2>5. UNCHANGED <<host, alive, now, timer, seen, step, stack, pumping, timers>>
    BY <2>1 DEF driver, thread
  <2> QED
    BY <2>1, <2>3, <2>4, <2>5, <1>t, IInvMeans, QueuesInv
<1>2. CASE ScheduleAt(w, h)
  <2>1. alive /\ step = "free" /\ Suspended(h) /\ PostOrPark(w, h) /\ UNCHANGED thread
    BY <1>2 DEF ScheduleAt
  <2>2. /\ h \notin Elements(stack)
        /\ \A i \in 1..Len(posted) : posted[i] # h
        /\ \A j \in 1..Len(timers) : timers[j].handle # h
    BY <2>1, NotRegistered DEF IInv
  <2> QED
    BY <2>1, <2>2, <1>t, PostOrParkInv DEF thread
<1>3. CASE Yield
  <2>1. /\ InBody /\ alive /\ ReturnToPump /\ step = "free"
        /\ posted' = Append(posted, Current)
        /\ UNCHANGED <<host, alive, now, timers, timer, driver>>
    BY <1>3 DEF Yield, InBody
  <2> QED
    BY <2>1, ReturnLeaves, PostOrParkInv
<1>4. CASE Sleep(w)
  <2>1. InBody /\ alive /\ ReturnToPump /\ step = "free" /\ PostOrPark(w, Current)
    BY <1>4 DEF Sleep, InBody
  <2> QED
    BY <2>1, ReturnLeaves, PostOrParkInv
<1> QED
  BY <1>1, <1>2, <1>3, <1>4

\* What else coroutines do.
LEMMA BodyInv ==
  ASSUME IInv, \/ Leave \/ OpenDialog \/ CloseDialog
               \/ \E h \in Handle : Transfer(h)
  PROVE  IInv'
<1>t. /\ stack \in Seq(Handle) /\ NoneTwice(stack)
      /\ OnePlace(posted, timers, stack)
      /\ posted \in Seq(Handle) /\ timers \in Seq(P!Entry(P!Moment, Handle))
      /\ P!Sorted(timers) /\ (alive \/ (posted = <<>> /\ timers = <<>>))
      /\ pumping \in BOOLEAN /\ (pumping => stack # <<>>)
  BY IInvMeans DEF IInv, TypeOK, DriverOK
<1>1. CASE Leave
  <2>1. InBody /\ ReturnToPump /\ UNCHANGED <<host, alive, now, queues, timer, driver>>
    BY <1>1 DEF Leave
  <2>2. /\ stack' \in Seq(Handle) /\ NoneTwice(stack')
        /\ Elements(stack') \subseteq Elements(stack)
        /\ pumping' \in BOOLEAN /\ (pumping' => stack' # <<>>)
    BY <2>1, ReturnLeaves
  <2>3. OnePlace(posted, timers, stack')
    BY <2>2, <1>t, OnePlaceStack
  <2> QED
    BY <2>1, <2>2, <2>3, <1>t, QueuesInv DEF queues, driver
<1>2. CASE OpenDialog \/ CloseDialog
  <2>1. /\ pumping' \in BOOLEAN /\ (pumping' => stack # <<>>)
        /\ UNCHANGED <<host, alive, now, posted, timers, timer, step, seen, stack>>
    BY <1>2 DEF OpenDialog, CloseDialog, InBody, queues, driver
  <2> QED
    BY <2>1, <1>t, QueuesInv
<1>3. ASSUME NEW h \in Handle, Transfer(h) PROVE IInv'
  <2>1. /\ stack # <<>> /\ Suspended(h) /\ stack' = [stack EXCEPT ![Len(stack)] = h]
        /\ UNCHANGED <<host, alive, now, posted, timers, timer, step, seen, pumping>>
    BY <1>3 DEF Transfer, InBody, queues, driver
  <2>2. /\ h \notin Elements(stack)
        /\ \A i \in 1..Len(posted) : posted[i] # h
        /\ \A j \in 1..Len(timers) : timers[j].handle # h
    BY <2>1, NotRegistered DEF IInv
  <2>3. /\ stack' \in Seq(Handle) /\ stack' # <<>> /\ NoneTwice(stack')
        /\ Elements(stack') \subseteq Elements(stack) \cup {h}
    BY <2>1, <2>2, <1>t, StackProperties
  <2>4. OnePlace(posted, timers, stack')
    BY <2>2, <2>3, <1>t, OnePlaceStack
  <2> QED
    BY <2>1, <2>3, <2>4, <1>t, QueuesInv
<1> QED
  BY <1>1, <1>2, <1>3

\* The pump resumes a handle; OnTimerExpired posts one.
LEMMA PumpInv ==
  ASSUME IInv, Dispatch \/ PostDue
  PROVE  IInv'
<1>t. /\ stack \in Seq(Handle) /\ NoneTwice(stack)
      /\ OnePlace(posted, timers, stack)
      /\ posted \in Seq(Handle) /\ timers \in Seq(P!Entry(P!Moment, Handle))
      /\ P!Sorted(timers) /\ (alive \/ (posted = <<>> /\ timers = <<>>))
      /\ (step # "free" => alive)
      /\ pumping \in BOOLEAN /\ (pumping => stack # <<>>)
  BY IInvMeans DEF IInv, TypeOK, DriverOK
<1>1. CASE Dispatch
  <2>1. /\ posted # <<>> /\ posted' = Tail(posted)
        /\ stack' = Append(stack, Head(posted)) /\ pumping' = FALSE
        /\ UNCHANGED <<host, alive, now, timers, timer, step, seen>>
    BY <1>1 DEF Dispatch, driver
  <2>2. /\ OnePlace(posted', timers, stack')
        /\ Head(posted) \in Handle /\ posted' \in Seq(Handle)
    BY <2>1, <1>t, OnePlaceDispatch, HeadTailProperties
  <2>3. stack' \in Seq(Handle)
    BY <2>1, <2>2, <1>t, StackPush
  <2> QED
    BY <2>1, <2>2, <2>3, <1>t, QueuesInv
<1>2. CASE PostDue
  <2>1. /\ step = "drain" /\ timers # <<>> /\ timers' = Tail(timers)
        /\ posted' = Append(posted, Head(timers).handle)
        /\ UNCHANGED <<host, alive, now, timer, step, seen, stack, pumping>>
    BY <1>2 DEF PostDue, HasDue, driver, thread
  <2>2. OnePlace(posted', timers', stack)
    BY <2>1, <1>t, OnePlaceDue
  <2>3. /\ timers' \in Seq(P!Entry(P!Moment, Handle)) /\ P!Sorted(timers')
        /\ Head(timers).handle \in Handle
    BY <2>1, <1>t, P!TailOfTimers, P!TailSorted, LoopAssumptions
  <2>4. posted' \in Seq(Handle)
    BY <2>1, <2>3, <1>t, AppendProperties
  <2>5. step' \in {"park", "drain"} /\ alive
    BY <2>1, <1>t
  <2> QED
    BY <2>1, <2>2, <2>3, <2>4, <2>5, <1>t, QueuesInv
<1> QED
  BY <1>1, <1>2

\* The timer that Rearm sets fires in time for the earliest entry.
LEMMA RearmInTime ==
  ASSUME IInv, Rearm
  PROVE  /\ alarm' \in [at : Nat, every : Nat] \cup {NoAlarm}
         /\ NeverOversleeps'
<1>t. /\ timers \in Seq(P!Entry(P!Moment, Handle)) /\ now \in Nat
      /\ host \in {"qt", "win32"} /\ \A t \in P!Moment : t \in Nat
  BY IInvMeans DEF IInv, TypeOK
<1>1. CASE timers = <<>>
  BY <1>1 DEF Rearm, NeverOversleeps, queues
<1>2. CASE timers # <<>>
  <2> DEFINE when == Head(timers).when
             left == IF when > now THEN when - now ELSE 0
             delay == IF left > 0 THEN (left + Ms - 1) \div Ms ELSE 0
             every == Ms * Interval(delay)
             deadline == IF when > now THEN when ELSE now
             grain == IF host = "qt" THEN Ms - 1 ELSE Ms * UserTimerMinimum
  <2>1. when \in Nat
    BY <1>2, <1>t, P!TailOfTimers, LoopAssumptions
  <2>2. left \in Nat /\ deadline = now + left
    BY <2>1, <1>t
  <2>3. Delay = delay
    BY <2>1, <1>t DEF Delay
  <2>4. every \in Nat /\ every <= left + grain
    BY <2>2, <1>t, IntervalProperties
  <2>5. /\ alarm' = [at |-> now + every, every |-> every]
        /\ UNCHANGED <<timers, now, host>>
    BY <1>2, <2>3 DEF Rearm, queues
  <2>6. grain \in Int
    BY TimeAssumption, ClampAssumption
  <2> HIDE DEF every, grain, deadline, left
  <2>7. now + every \in Nat /\ now + every <= deadline + grain
    BY <2>2, <2>4, <2>6, <1>t
  <2>8. alarm' \in [at : Nat, every : Nat] /\ alarm'.at = now + every
    BY <2>4, <2>5, <2>7
  <2>9. alarm' # NoAlarm
    <3>1. alarm'.at # NoAlarm.at
      BY <2>7, <2>8 DEF NoAlarm, Never
    <3> QED
      BY <3>1
  <2>10. alarm' # NoAlarm /\ alarm'.at <= deadline + grain
    BY <2>7, <2>8, <2>9
  <2>11. NeverOversleeps'
    BY <2>5, <2>10 DEF NeverOversleeps, deadline, grain
  <2> QED
    BY <2>8, <2>11
<1> QED
  BY <1>1, <1>2

\* The clock, the host's timer, its dispatch and the destructor.
LEMMA TimerInv ==
  ASSUME IInv, Tick \/ HostTimerFires \/ DispatchTimer \/ Rearm \/ Destroy
  PROVE  IInv'
<1>t. /\ TypeOK /\ DriverOK /\ Sorted(timers) /\ NeverOversleeps
      /\ OnePlace(posted, timers, stack)
      /\ now \in Nat /\ seen \in Nat /\ seen <= now
  BY IInvMeans DEF IInv
<1>1. CASE Tick
  <2>1. /\ now < MaxTime /\ now' = now + 1
        /\ UNCHANGED <<host, alive, posted, timers, alarm, expired, step, seen,
                       stack, pumping>>
    BY <1>1 DEF Tick, queues, timer, driver, thread
  <2>2. TypeOK' /\ DriverOK'
    BY <2>1, <1>t, TimeAssumption DEF TypeOK, DriverOK, Moment
  <2>3. NeverOversleeps'
    <3> SUFFICES ASSUME alive, step = "free", timers # <<>>, ~expired
                 PROVE  LET deadline == IF Head(timers).when > now + 1
                                        THEN Head(timers).when ELSE now + 1
                            grain == IF host = "qt" THEN Ms - 1 ELSE Ms * UserTimerMinimum
                        IN  alarm # NoAlarm /\ alarm.at <= deadline + grain
      BY <2>1, Zenon DEF NeverOversleeps
    <3> DEFINE when == Head(timers).when
               grain == IF host = "qt" THEN Ms - 1 ELSE Ms * UserTimerMinimum
    <3>1. when \in Nat
      BY IInvMeans, P!TailOfTimers, LoopAssumptions
    <3>2. grain \in Int
      BY TimeAssumption, ClampAssumption
    <3>3. alarm # NoAlarm /\ alarm.at <= (IF when > now THEN when ELSE now) + grain
      BY <1>t DEF NeverOversleeps
    <3>4. alarm.at \in Nat
      BY <3>3, <1>t DEF TypeOK
    <3> HIDE DEF when, grain
    <3>5. alarm.at <= (IF when > now + 1 THEN when ELSE now + 1) + grain
      BY <3>1, <3>2, <3>3, <3>4, <1>t
    <3> QED
      BY <3>3, <3>5 DEF when, grain
  <2> QED
    BY <2>1, <2>2, <2>3, <1>t DEF IInv
<1>2. CASE HostTimerFires
  <2>1. /\ alarm # NoAlarm /\ expired' = TRUE
        /\ alarm' = IF host = "qt" THEN NoAlarm
                                   ELSE [alarm EXCEPT !.at = now + alarm.every]
        /\ UNCHANGED <<host, alive, now, posted, timers, step, seen, stack, pumping>>
    BY <1>2 DEF HostTimerFires, queues, driver, thread
  <2>2. alarm \in [at : Nat, every : Nat]
    BY <2>1, <1>t DEF TypeOK
  <2>3. alarm' \in [at : Nat, every : Nat] \cup {NoAlarm}
    BY <2>1, <2>2, <1>t
  <2>4. TypeOK' /\ DriverOK' /\ NeverOversleeps'
    BY <2>1, <2>3, <1>t DEF TypeOK, DriverOK, NeverOversleeps
  <2> QED
    BY <2>1, <2>4, <1>t DEF IInv
<1>3. CASE DispatchTimer
  <2>1. /\ UNCHANGED <<host, alive, now, posted, timers, alarm, stack, pumping>>
        /\ expired' = FALSE
        /\ \/ alive /\ step' = "drain" /\ seen' = now
           \/ ~alive /\ step' = step /\ seen' = seen
    BY <1>3 DEF DispatchTimer, queues, driver, thread
  <2>2. TypeOK'
    BY <2>1, <1>t DEF TypeOK
  <2>3. DriverOK'
    BY <2>1, <1>t DEF DriverOK
  <2>4. NeverOversleeps'
    BY <2>1 DEF NeverOversleeps
  <2> QED
    BY <2>1, <2>2, <2>3, <2>4, <1>t DEF IInv
<1>4. CASE Rearm
  <2>1. /\ UNCHANGED <<host, alive, now, posted, timers, stack, pumping>>
        /\ expired' = (expired /\ host = "win32")
        /\ step' = "free" /\ seen' = 0
    BY <1>4 DEF Rearm, queues, thread
  <2>2. alarm' \in [at : Nat, every : Nat] \cup {NoAlarm} /\ NeverOversleeps'
    BY <1>4, RearmInTime
  <2>3. expired' \in BOOLEAN
    <3>1. (expired /\ host = "win32") \in BOOLEAN
      OBVIOUS
    <3> QED
      BY <2>1, <3>1, Zenon
  <2>4. TypeOK'
    BY <2>1, <2>2, <2>3, <1>t, TimeAssumption DEF TypeOK, Moment
  <2>5. DriverOK'
    BY <2>1, <1>t DEF DriverOK
  <2> QED
    BY <2>1, <2>2, <2>4, <2>5, <1>t DEF IInv
<1>5. CASE Destroy
  <2>1. /\ alive' = FALSE /\ posted' = <<>> /\ timers' = <<>> /\ alarm' = NoAlarm
        /\ expired' = (expired /\ host = "win32") /\ step = "free"
        /\ UNCHANGED <<host, now, step, seen, stack, pumping>>
    BY <1>5 DEF Destroy, driver, thread
  <2>2. /\ <<>> \in Seq(Handle) /\ <<>> \in Seq(Entry(Moment, Handle))
        /\ Len(<<>>) = 0
    BY EmptySeq
  <2>3. expired' \in BOOLEAN
    <3>1. (expired /\ host = "win32") \in BOOLEAN
      OBVIOUS
    <3> QED
      BY <2>1, <3>1, Zenon
  <2>4. TypeOK' /\ DriverOK' /\ NeverOversleeps'
    BY <2>1, <2>2, <2>3, <1>t DEF TypeOK, DriverOK, NeverOversleeps
  <2>5. OnePlace(<<>>, <<>>, stack) /\ Sorted(<<>>)
    BY <2>2, <1>t DEF OnePlace, P!Once, Sorted
  <2> QED
    BY <2>1, <2>4, <2>5 DEF IInv
<1> QED
  BY <1>1, <1>2, <1>3, <1>4, <1>5

\* Every step preserves the invariant.
LEMMA StepInv == IInv /\ [Next]_vars => IInv'
<1>1. ASSUME IInv, UNCHANGED vars PROVE IInv'
  BY <1>1 DEF vars, queues, timer, driver, thread, IInv, TypeOK, DriverOK, NeverOversleeps
<1>3. ASSUME IInv, Yield PROVE IInv'
  <2>1. Current \in Handle /\ 0 \in Moment
    BY <1>3, ReturnLeaves, TimeAssumption DEF Yield, Moment
  <2> QED
    BY <1>3, <2>1, RegisterInv
<1>4. ASSUME IInv, NEW w \in Moment, Sleep(w) PROVE IInv'
  <2>1. Current \in Handle
    BY <1>4, ReturnLeaves DEF Sleep
  <2> QED
    BY <1>4, <2>1, RegisterInv
<1>5. ASSUME IInv, NEW h \in Handle, Post(h) PROVE IInv'
  <2>1. 0 \in Moment
    BY TimeAssumption DEF Moment
  <2> QED
    BY <1>5, <2>1, RegisterInv
<1> QED
  BY <1>1, <1>3, <1>4, <1>5, RegisterInv, BodyInv, PumpInv, TimerInv
     DEF Next, PumpStep, GiveUpControl

\* The inductive invariant holds throughout every behaviour of the scheduler.
THEOREM Invariant == Spec => []IInv
BY InitInv, StepInv, PTL DEF Spec

(* Every variable of the scheduler keeps its type: the host's timer is     *)
(* never due before the clock started, nor asked for a negative interval.  *)
THEOREM TypeCorrect == Spec => []TypeOK
<1>1. IInv => TypeOK
  BY DEF IInv
<1> QED
  BY <1>1, Invariant, PTL

(* No deadline is left without a timer, however calls, ticks and early,    *)
(* stale or clamped timers follow each other (PumpTimerDriver.hpp:125-137).*)
THEOREM AlwaysInTime == Spec => []NeverOversleeps
<1>1. IInv => NeverOversleeps
  BY DEF IInv
<1> QED
  BY <1>1, Invariant, PTL

(* Not only the earliest entry: the host timer is due by the deadline of   *)
(* every entry that is parked, give or take the same grain                 *)
(* (PumpTimerDriver.hpp:118-124).                                          *)
EachInTime ==
  alive /\ step = "free" /\ ~expired =>
    \A i \in 1..Len(timers) :
      LET deadline == IF timers[i].when > now THEN timers[i].when ELSE now
          grain    == IF host = "qt" THEN Ms - 1 ELSE Ms * UserTimerMinimum
      IN  alarm # NoAlarm /\ alarm.at <= deadline + grain

\* The timers are in order, so the timer that serves the first serves them all.
THEOREM AlwaysEachInTime == Spec => []EachInTime
<1>1. IInv => EachInTime
  <2> SUFFICES ASSUME IInv, alive, step = "free", ~expired, NEW i \in 1..Len(timers)
               PROVE  LET deadline == IF timers[i].when > now THEN timers[i].when ELSE now
                          grain == IF host = "qt" THEN Ms - 1 ELSE Ms * UserTimerMinimum
                      IN  alarm # NoAlarm /\ alarm.at <= deadline + grain
    BY DEF EachInTime
  <2> DEFINE grain == IF host = "qt" THEN Ms - 1 ELSE Ms * UserTimerMinimum
             first == timers[1].when
             when == timers[i].when
  <2>t. /\ timers \in Seq(P!Entry(P!Moment, Handle)) /\ P!Sorted(timers)
        /\ now \in Nat /\ \A t \in P!Moment : t \in Nat
    BY IInvMeans
  <2>1. timers # <<>> /\ grain \in Int
    BY EmptySeq, TimeAssumption, ClampAssumption
  <2>2. /\ Head(timers) = timers[1] /\ first \in Nat /\ first <= when
    BY <2>1, <2>t, P!TailOfTimers, P!TailSorted, LoopAssumptions
  <2>3. when \in Nat
    BY <2>t, P!TimerTypes, LoopAssumptions
  <2>4. /\ alarm # NoAlarm
        /\ alarm.at <= (IF first > now THEN first ELSE now) + grain
    BY <2>1, <2>2 DEF IInv, NeverOversleeps
  <2>5. alarm.at \in Nat
    BY <2>4 DEF IInv, TypeOK
  <2> HIDE DEF grain, first, when
  <2>6. alarm.at <= (IF when > now THEN when ELSE now) + grain
    BY <2>1, <2>2, <2>3, <2>4, <2>5, <2>t
  <2> QED
    BY <2>4, <2>6 DEF grain, when
<1> QED
  BY <1>1, Invariant, PTL

-----------------------------------------------------------------------------
(* What OnTimerExpired posts, and when.                                    *)

\* A timer that has been handed to the pump was the first, and due.
LEMMA InOrderStep ==
  ASSUME IInv, [Next]_vars, NEW i \in 1..Len(timers), alive',
         timers[i].handle \notin Elements(Handles(timers))'
  PROVE  /\ timers[i].when <= now
         /\ \A j \in 1..i : timers[j].handle \notin Elements(Handles(timers))'
<1>t. /\ timers \in Seq(P!Entry(P!Moment, Handle)) /\ OnePlace(posted, timers, stack)
      /\ now \in Nat /\ seen \in Nat /\ seen <= now /\ \A t \in P!Moment : t \in Nat
      /\ Len(timers) \in Nat
  BY IInvMeans, LenProperties
<1>e. \A t \in Seq(P!Entry(P!Moment, Handle)) :
        Elements(Handles(t)) = {t[j].handle : j \in 1..Len(t)}
  BY P!ElementsOfHandles, LoopAssumptions, SameOperators
<1>p. timers' \in Seq(P!Entry(P!Moment, Handle))
  BY StepInv, SameOperators DEF IInv, TypeOK, Moment, P!Moment
<1>q. timers[i].handle \notin {timers'[j].handle : j \in 1..Len(timers')}
  BY <1>e, <1>p DEF Handles, Elements
<1>1. timers' # timers
  BY <1>q
<1>2. ASSUME NEW w \in Moment, NEW h \in Handle, timers' = Schedule(timers, w, h)
      PROVE  FALSE
  <2>1. P!Elements(timers') = P!Elements(timers) \cup {[when |-> w, handle |-> h]}
    BY <1>2, <1>t, P!ScheduleAdds, LoopAssumptions, SameOperators
  <2>2. timers[i] \in P!Elements(timers')
    BY <2>1 DEF P!Elements
  <2> QED
    BY <2>2, <1>q DEF P!Elements
<1>3. CASE PostDue
  <2>1. /\ timers # <<>> /\ Head(timers).when <= seen /\ timers' = Tail(timers)
    BY <1>3 DEF PostDue, HasDue
  <2>2. /\ Head(timers) = timers[1] /\ timers[1].when \in Nat
        /\ Len(Tail(timers)) = Len(timers) - 1
        /\ \A j \in 1..(Len(timers) - 1) : Tail(timers)[j] = timers[j + 1]
    BY <2>1, <1>t, P!TailOfTimers, LoopAssumptions
  <2>3. i = 1
    <3>1. SUFFICES ASSUME i # 1 PROVE FALSE
      OBVIOUS
    <3>2. i - 1 \in 1..(Len(timers) - 1) /\ (i - 1) + 1 = i
      BY <3>1, <1>t
    <3>3. timers'[i - 1].handle = timers[i].handle /\ i - 1 \in 1..Len(timers')
      BY <3>2, <2>1, <2>2
    <3> QED
      BY <3>3, <1>q
  <2>4. timers[i].when <= now
    BY <2>1, <2>2, <2>3, <1>t
  <2>5. \A j \in 1..i : j = i
    BY <2>3
  <2> QED
    BY <2>4, <2>5
<1>4. \/ PostDue
      \/ Destroy
      \/ timers' = timers
      \/ \E w \in Moment, h \in Handle : timers' = Schedule(timers, w, h)
  <2>1. ASSUME NEW w \in Moment, Sleep(w)
        PROVE  timers' = timers \/ timers' = Schedule(timers, w, Current)
    BY <2>1 DEF Sleep, PostOrPark
  <2>2. ASSUME NEW w \in Moment, Sleep(w) PROVE Current \in Handle
    BY <2>2, ReturnLeaves DEF Sleep
  <2>3. ASSUME NEW w \in Moment, NEW h \in Handle, ScheduleAt(w, h)
        PROVE  timers' = timers \/ timers' = Schedule(timers, w, h)
    BY <2>3 DEF ScheduleAt, PostOrPark
  <2>4. ASSUME NEW h \in Handle, Post(h) \/ Transfer(h) PROVE timers' = timers
    BY <2>4 DEF Post, Transfer, queues
  <2>5. CASE Yield \/ Leave \/ OpenDialog \/ CloseDialog \/ UNCHANGED vars
    BY <2>5 DEF Yield, Leave, OpenDialog, CloseDialog, vars, queues
  <2>6. CASE Dispatch \/ DispatchTimer \/ Rearm \/ Tick \/ HostTimerFires
    BY <2>6 DEF Dispatch, DispatchTimer, Rearm, Tick, HostTimerFires, queues
  <2> QED
    BY <2>1, <2>2, <2>3, <2>4, <2>5, <2>6 DEF Next, PumpStep, GiveUpControl
<1>5. ~Destroy
  BY DEF Destroy
<1> QED
  BY <1>1, <1>2, <1>3, <1>4, <1>5

(* A parked entry is handed to the pump when it is due and in its turn,    *)
(* whatever the host timer claims (PumpTimerDriver.hpp:105-110).           *)
THEOREM TimersHandedOverInOrder == Spec => TimersInOrder
<1> DEFINE A == \A i \in 1..Len(timers) :
                  alive' /\ timers[i].handle \notin Elements(Handles(timers))' =>
                    /\ timers[i].when <= now
                    /\ \A j \in 1..i : timers[j].handle \notin Elements(Handles(timers))'
<1>1. IInv /\ [Next]_vars => [A]_vars
  BY InOrderStep
<1>2. Spec => [][A]_vars
  BY <1>1, Invariant, PTL DEF Spec
<1> QED
  BY <1>2 DEF TimersInOrder

-----------------------------------------------------------------------------
(* The refinement.                                                         *)

\* A suspended handle is free in the contract's sense.
LEMMA SuspendedIsFree ==
  ASSUME IInv, NEW h, Suspended(h)
  PROVE  Contract!Free(h)
<1>1. Elements(Handles(timers)) = {timers[i].handle : i \in 1..Len(timers)}
  BY IInvMeans, P!ElementsOfHandles, LoopAssumptions, SameOperators
<1>2. Contract!HandlesOf(Elements(timers)) = Elements(Handles(timers))
  BY <1>1 DEF Elements, Contract!HandlesOf
<1> QED
  BY <1>2 DEF Suspended, Registered, Contract!Free

\* PostOrPark is what the contract calls registering.
LEMMA PostOrParkRegisters ==
  ASSUME IInv, alive, NEW w \in Moment, NEW h \in Handle, PostOrPark(w, h)
  PROVE  Contract!Register(w, h)
<1>1. UNCHANGED <<alive, now>>
  BY DEF PostOrPark
<1>2. CASE w <= now /\ posted' = Append(posted, h) /\ timers' = timers
  <2>1. Elements(posted') = Elements(posted) \cup {h}
    BY <1>2, IInvMeans, P!AppendAdds, LoopAssumptions, SameOperators
  <2> QED
    BY <1>1, <1>2, <2>1 DEF Contract!Register, Contract!Enqueue
<1>3. CASE timers' = Schedule(timers, w, h) /\ posted' = posted
  <2>1. Elements(timers') = Elements(timers) \cup {[when |-> w, handle |-> h]}
    BY <1>3, IInvMeans, P!ScheduleAdds, LoopAssumptions, SameOperators
  <2> QED
    BY <1>1, <1>3, <2>1 DEF Contract!Register, Contract!Park
<1> QED
  BY <1>2, <1>3 DEF PostOrPark

\* What the calls and the coroutines do is what the contract lets them do.
LEMMA CallRefines ==
  ASSUME IInv, NEW w \in Moment, NEW h \in Handle,
         \/ Post(h) \/ ScheduleAt(w, h) \/ Transfer(h)
         \/ Yield \/ Sleep(w) \/ Leave
  PROVE  Contract!Next
<1>t. /\ posted \in Seq(Handle) /\ stack \in Seq(Handle) /\ NoneTwice(stack)
  BY IInvMeans
<1>a. ASSUME NEW g \in Handle, posted' = Append(posted, g)
      PROVE  Elements(posted') = Elements(posted) \cup {g}
  BY <1>a, <1>t, P!AppendAdds, LoopAssumptions, SameOperators
<1>1. CASE Post(h)
  <2>1. Contract!Free(h)
    BY <1>1, SuspendedIsFree DEF Post
  <2>2. Contract!Post(h)
    BY <1>1, <1>a, <2>1 DEF Post, thread, Contract!Post, Contract!Enqueue
  <2> QED
    BY <2>2 DEF Contract!Next
<1>2. CASE ScheduleAt(w, h)
  <2>1. Contract!Free(h) /\ Contract!Register(w, h)
    BY <1>2, SuspendedIsFree, PostOrParkRegisters DEF ScheduleAt
  <2>2. Contract!ScheduleAt(w, h)
    BY <1>2, <2>1 DEF ScheduleAt, thread, Contract!ScheduleAt
  <2> QED
    BY <2>2 DEF Contract!Next
<1>3. CASE Transfer(h)
  <2>1. /\ stack # <<>> /\ stack' = [stack EXCEPT ![Len(stack)] = h]
        /\ UNCHANGED <<alive, now, posted, timers>> /\ Contract!Free(h)
    BY <1>3, SuspendedIsFree DEF Transfer, InBody, queues
  <2>2. /\ Current \in Elements(stack) /\ Current \in Handle
        /\ Elements(stack') = (Elements(stack) \ {Current}) \cup {h}
    BY <2>1, <1>t, StackProperties DEF Current
  <2>3. Contract!Transfer(Current, h)
    BY <2>1, <2>2 DEF Contract!Transfer
  <2> QED
    BY <2>2, <2>3 DEF Contract!Next
<1>s. ASSUME InBody, ReturnToPump
      PROVE  Current \in Handle /\ Contract!Stops(Current)
  BY <1>s, ReturnLeaves DEF Contract!Stops
<1>4. CASE Yield
  <2>1. Current \in Handle /\ Contract!Stops(Current)
    BY <1>4, <1>s DEF Yield
  <2>2. Contract!Yield(Current)
    BY <1>4, <1>a, <2>1 DEF Yield, Contract!Yield, Contract!Enqueue
  <2> QED
    BY <2>1, <2>2 DEF Contract!Next
<1>5. CASE Sleep(w)
  <2>1. Current \in Handle /\ Contract!Stops(Current)
    BY <1>5, <1>s DEF Sleep
  <2>2. Contract!Sleep(w, Current)
    BY <1>5, <2>1, PostOrParkRegisters DEF Sleep, Contract!Sleep
  <2> QED
    BY <2>1, <2>2 DEF Contract!Next
<1>6. CASE Leave
  <2>1. Current \in Handle /\ Contract!Stops(Current)
    BY <1>6, <1>s DEF Leave
  <2>2. Contract!Leave(Current)
    BY <1>6, <2>1 DEF Leave, queues, Contract!Leave
  <2> QED
    BY <2>1, <2>2 DEF Contract!Next
<1> QED
  BY <1>1, <1>2, <1>3, <1>4, <1>5, <1>6

\* What the pump, the clock and the destructor do.
LEMMA HostRefines ==
  ASSUME IInv, Dispatch \/ PostDue \/ Tick \/ Destroy
  PROVE  Contract!Next
<1>t. /\ posted \in Seq(Handle) /\ stack \in Seq(Handle) /\ NoneTwice(stack)
      /\ timers \in Seq(P!Entry(P!Moment, Handle)) /\ OnePlace(posted, timers, stack)
      /\ P!Once(posted, timers, Nobody)
      /\ now \in Nat /\ seen <= now /\ seen \in Nat /\ \A t \in P!Moment : t \in Nat
      /\ now \in Moment
  BY IInvMeans, SameOperators DEF OnePlace
<1>e. Contract!HandlesOf({}) = {}
  BY DEF Contract!HandlesOf
<1>1. CASE Dispatch
  <2>1. /\ posted # <<>> /\ posted' = Tail(posted)
        /\ stack' = Append(stack, Head(posted))
        /\ UNCHANGED <<alive, now, timers>>
    BY <1>1 DEF Dispatch
  <2>2. /\ Head(posted) \in Handle /\ Head(posted) \in Elements(posted)
        /\ Elements(posted') = Elements(posted) \ {Head(posted)}
    BY <2>1, <1>t, P!PopRemoves, HeadTailProperties, LoopAssumptions, SameOperators
       DEF P!Once
  <2>3. Elements(stack') = Elements(stack) \cup {Head(posted)}
    BY <2>1, <2>2, <1>t, StackPush
  <2>4. Contract!Resume({}, Head(posted))
    BY <2>1, <2>2, <2>3, <1>t, <1>e
       DEF Contract!Resume, Contract!Elapse, Contract!TimePasses
  <2> QED
    BY <2>2, <2>4 DEF Contract!Next
<1>2. CASE PostDue
  <2> DEFINE e == Head(timers)
  <2>1. /\ timers # <<>> /\ e.when <= seen /\ timers' = Tail(timers)
        /\ posted' = Append(posted, e.handle) /\ UNCHANGED <<alive, now, stack>>
    BY <1>2 DEF PostDue, HasDue, thread
  <2>2. e.handle \in Handle /\ e.when \in Nat
    BY <2>1, <1>t, P!TailOfTimers, LoopAssumptions
  <2>3. \A i, j \in 1..Len(timers) : timers[i] = timers[j] => i = j
    BY <1>t DEF P!Once
  <2>4. /\ e \in Elements(timers)
        /\ Elements(timers') = Elements(timers) \ {e}
    BY <2>1, <2>3, <1>t, P!PopRemoves, LoopAssumptions, SameOperators
  <2>5. Elements(posted') = Elements(posted) \cup {e.handle}
    BY <2>1, <2>2, <1>t, P!AppendAdds, LoopAssumptions, SameOperators
  <2>6. Contract!HandlesOf({e}) = {e.handle}
    BY DEF Contract!HandlesOf
  <2> HIDE DEF e
  <2>7. now' = now /\ now \in Moment /\ now >= now /\ e.when <= now
    BY <2>1, <2>2, <1>t
  <2>8. Contract!Elapse({e})
    BY <2>1, <2>4, <2>7 DEF Contract!Elapse, Contract!TimePasses
  <2>9. Contract!Wait({e})
    BY <2>1, <2>5, <2>6, <2>8 DEF Contract!Wait
  <2> QED
    BY <2>4, <2>9 DEF Contract!Next
<1>3. CASE Tick
  <2>1. now' \in Moment /\ now' >= now /\ UNCHANGED <<alive, posted, timers, stack>>
    BY <1>3, <1>t, TimeAssumption DEF Tick, Moment, queues, thread
  <2>2. Contract!Wait({})
    BY <2>1, <1>e DEF Contract!Wait, Contract!Elapse, Contract!TimePasses
  <2> QED
    BY <2>2 DEF Contract!Next
<1>4. CASE Destroy
  <2>1. Elements(<<>>) = {}
    BY EmptySeq DEF Elements
  <2>2. Contract!Close
    BY <1>4, <2>1 DEF Destroy, thread, Contract!Close
  <2> QED
    BY <2>2 DEF Contract!Next
<1> QED
  BY <1>1, <1>2, <1>3, <1>4

\* Every step is one of the contract, or a stutter.
LEMMA StepRefines ==
  ASSUME IInv, [Next]_vars
  PROVE  [Contract!Next]_Contract!contractVars
<1>m. 0 \in Moment
  BY TimeAssumption DEF Moment
<1>1. ASSUME NEW w \in Moment, NEW h \in Handle, ScheduleAt(w, h) PROVE Contract!Next
  BY <1>1, CallRefines
<1>2. ASSUME NEW h \in Handle, Post(h) \/ Transfer(h) PROVE Contract!Next
  BY <1>2, <1>m, CallRefines
<1>3. ASSUME NEW w \in Moment, Yield \/ Sleep(w) \/ Leave PROVE Contract!Next
  <2>1. Current \in Handle
    BY <1>3, ReturnLeaves DEF Yield, Sleep, Leave
  <2> QED
    BY <1>3, <2>1, CallRefines
<1>4. CASE Dispatch \/ PostDue \/ Tick \/ Destroy
  BY <1>4, HostRefines
<1>5. CASE \/ OpenDialog \/ CloseDialog \/ HostTimerFires \/ DispatchTimer \/ Rearm
           \/ UNCHANGED vars
  BY <1>5 DEF OpenDialog, CloseDialog, HostTimerFires, DispatchTimer, Rearm, vars,
              queues, thread, Contract!contractVars
<1> QED
  BY <1>m, <1>1, <1>2, <1>3, <1>4, <1>5 DEF Next, PumpStep, GiveUpControl

(* Both hosts are an IScheduler, with nested pumps, early and stale ticks  *)
(* and a destructor that comes at any time between two calls               *)
(* (Scheduler.hpp:31-66).                                                  *)
THEOREM PumpIsAScheduler == Spec => ImplementsScheduler
<1>1. Init => Contract!Init
  BY DEF Init, Contract!Init, Elements
<1>2. IInv /\ [Next]_vars => [Contract!Next]_Contract!contractVars
  BY StepRefines
<1> QED
  BY <1>1, <1>2, Invariant, PTL DEF Spec, ImplementsScheduler, Contract!Spec

=============================================================================
