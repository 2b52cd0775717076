---------------------- MODULE TracingScheduler_proofs -----------------------
(***************************************************************************)
(* TracingScheduler implements Scheduler, for every set of handles, every  *)
(* clock and every sink.                                                   *)
(***************************************************************************)
EXTENDS TracingScheduler, SequenceTheorems, TLAPS

(* A handle that is on its way to the wrapped scheduler stays as it was    *)
(* when the caller passed it: nothing else resumes or registers it, and no *)
(* two calls in progress have the same.                                    *)
TransitOK ==
  /\ calls # <<>> => open
  /\ \A i \in 1..Len(calls) :
       LET h == calls[i].handle IN Free(h) \/ h \in running
  /\ \A i, j \in 1..Len(calls) : calls[i].handle = calls[j].handle => i = j

IInv == TypeOK /\ TransitOK

\* The innermost call, and the calls that remain when it returns.
LEMMA FrontOfCalls ==
  ASSUME NEW S, NEW c \in Seq(S), c # <<>>
  PROVE  /\ Len(c) \in 1..Len(c) /\ c[Len(c)] \in S
         /\ SubSeq(c, 1, Len(c) - 1) \in Seq(S)
         /\ Len(SubSeq(c, 1, Len(c) - 1)) = Len(c) - 1
         /\ \A i \in 1..(Len(c) - 1) :
              i \in 1..Len(c) /\ i # Len(c) /\ SubSeq(c, 1, Len(c) - 1)[i] = c[i]
<1>1. Len(c) \in Nat /\ Len(c) # 0
  BY EmptySeq
<1>2. c[Len(c)] \in S
  BY <1>1, ElementOfSeq
<1>3. /\ SubSeq(c, 1, Len(c) - 1) \in Seq(S)
      /\ Len(SubSeq(c, 1, Len(c) - 1)) = Len(c) - 1
      /\ \A i \in 1..(Len(c) - 1) : SubSeq(c, 1, Len(c) - 1)[i] = c[i]
  <2> DEFINE n == Len(c) - 1
  <2>1. n \in Nat /\ \A i \in 1..n : c[i] \in S
    BY <1>1, ElementOfSeq
  <2> HIDE DEF n
  <2>2. /\ SubSeq(c, 1, n) \in Seq(S)
        /\ Len(SubSeq(c, 1, n)) = IF 1 <= n THEN n - 1 + 1 ELSE 0
        /\ \A i \in 1..(n - 1 + 1) : SubSeq(c, 1, n)[i] = c[1 + i - 1]
    BY <2>1, SubSeqProperties, 1 \in Int, n \in Int
  <2>3. Len(SubSeq(c, 1, n)) = n /\ \A i \in 1..n : SubSeq(c, 1, n)[i] = c[i]
    BY <2>1, <2>2
  <2> QED
    BY <2>2, <2>3 DEF n
<1> QED
  BY <1>1, <1>2, <1>3

\* Record adds the innermost call.
LEMMA RecordAdds ==
  ASSUME IInv, NEW e \in TraceEvent, MayPass(e.handle), Record(e)
  PROVE  IInv'
<1>1. /\ Len(calls) \in Nat /\ calls' \in Seq(TraceEvent) /\ events' \in Seq(TraceEvent)
      /\ Len(calls') = Len(calls) + 1 /\ calls'[Len(calls) + 1] = e
      /\ \A i \in 1..Len(calls) : calls'[i] = calls[i]
  BY AppendProperties DEF IInv, TypeOK, Record
<1>2. /\ \A i \in 1..Len(calls) : calls[i].handle # e.handle
      /\ open /\ (Free(e.handle) \/ e.handle \in running)
  BY DEF MayPass, InTransit
<1>3. TypeOK'
  BY <1>1 DEF IInv, TypeOK, Record, contractVars
<1>4. \A i \in 1..Len(calls') : i \in 1..Len(calls) \/ i = Len(calls) + 1
  BY <1>1
<1>5. UNCHANGED <<ready, parked, running, open>>
  BY DEF Record, contractVars
<1>6. ASSUME NEW i \in 1..Len(calls')
      PROVE  (Free(calls[i].handle) \/ calls[i].handle \in running)'
  <2>1. Free(calls'[i].handle) \/ calls'[i].handle \in running
    BY <1>1, <1>2, <1>4 DEF IInv, TransitOK
  <2> QED
    BY <2>1, <1>5 DEF Free, HandlesOf
<1>7. ASSUME NEW i \in 1..Len(calls'), NEW j \in 1..Len(calls'),
             calls'[i].handle = calls'[j].handle
      PROVE  i = j
  BY <1>1, <1>2, <1>4, <1>7 DEF IInv, TransitOK
<1> QED
  BY <1>2, <1>3, <1>6, <1>7 DEF IInv, TransitOK, Record, contractVars

\* A tracer that has just been constructed.
LEMMA InitInv == TracingInit => IInv
<1> SUFFICES ASSUME TracingInit PROVE IInv
  OBVIOUS
<1>1. calls \in Seq(TraceEvent) /\ events \in Seq(TraceEvent) /\ Len(calls) = 0
  BY EmptySeq DEF TracingInit
<1>2. {open, cleared} \subseteq BOOLEAN /\ calls = <<>>
  BY Zenon DEF TracingInit, Init
<1>3. /\ ready \subseteq Handle /\ running \subseteq Handle /\ now \in Moment
      /\ parked \subseteq [when : Moment, handle : Handle]
  BY MomentAssumption DEF TracingInit, Init
<1> QED
  BY <1>1, <1>2, <1>3 DEF IInv, TypeOK, TransitOK

(* Forward is the call of IScheduler that the caller meant: that of a      *)
(* coroutine that suspends, or of one that registers another.              *)
LEMMA ForwardRefines ==
  ASSUME IInv, Forward
  PROVE  Next /\ calls[Len(calls)] \in TraceEvent
<1> DEFINE h == calls[Len(calls)].handle
           when == calls[Len(calls)].when
<1>1. /\ calls[Len(calls)] \in TraceEvent /\ open
      /\ Free(h) \/ h \in running
  BY FrontOfCalls DEF IInv, TypeOK, TransitOK, Forward
<1>2. h \in Handle /\ when \in Moment
  BY <1>1 DEF TraceEvent
<1>3. \/ Enqueue(h) \/ Park(when, h)
  BY DEF Forward, Top
<1>4. running' = running \ {h}
  BY DEF Forward, Top
<1>5. CASE Free(h)
  <2>1. UNCHANGED running
    BY <1>4, <1>5 DEF Free
  <2>2. Post(h) \/ ScheduleAt(when, h)
    BY <1>1, <1>3, <1>5, <2>1 DEF Post, ScheduleAt, Register
  <2> QED
    BY <1>1, <1>2, <2>2 DEF Next
<1>6. CASE h \in running
  <2>1. Yield(h) \/ Sleep(when, h)
    BY <1>1, <1>3, <1>4, <1>6 DEF Yield, Sleep, Stops, Register
  <2> QED
    BY <1>1, <1>2, <2>1 DEF Next
<1> QED
  BY <1>1, <1>5, <1>6

\* The innermost call returns; what becomes of its handle does not concern
\* the others.
LEMMA ReturnKeeps ==
  ASSUME IInv, calls # <<>>, Return,
         \A g : g # calls[Len(calls)].handle =>
           (Free(g) => Free(g)') /\ (g \in running => g \in running'),
         open'
  PROVE  TransitOK' /\ calls' \in Seq(TraceEvent)
<1>1. /\ calls' \in Seq(TraceEvent) /\ Len(calls') = Len(calls) - 1
      /\ Len(calls) \in 1..Len(calls)
      /\ \A i \in 1..(Len(calls) - 1) :
           i \in 1..Len(calls) /\ i # Len(calls) /\ calls'[i] = calls[i]
  BY FrontOfCalls DEF IInv, TypeOK, Return
<1>2. ASSUME NEW i \in 1..Len(calls')
      PROVE  calls'[i].handle # calls[Len(calls)].handle
  BY <1>1, <1>2 DEF IInv, TransitOK
<1>3. ASSUME NEW i \in 1..Len(calls')
      PROVE  (Free(calls[i].handle) \/ calls[i].handle \in running)'
  BY <1>1, <1>2, <1>3 DEF IInv, TransitOK
<1>4. ASSUME NEW i \in 1..Len(calls'), NEW j \in 1..Len(calls'),
             calls'[i].handle = calls'[j].handle
      PROVE  i = j
  BY <1>1, <1>4 DEF IInv, TransitOK
<1> QED
  BY <1>1, <1>3, <1>4 DEF TransitOK

\* The innermost call is forwarded, the handle it carries was in transit.
LEMMA ForwardInv ==
  ASSUME IInv, Forward
  PROVE  IInv'
<1> DEFINE top == calls[Len(calls)]
<1>1. top \in TraceEvent /\ top.handle \in Handle /\ top.when \in Moment
  BY ForwardRefines DEF TraceEvent
<1>2. /\ Enqueue(top.handle) \/ Park(top.when, top.handle)
      /\ running' = running \ {top.handle} /\ Return /\ calls # <<>>
      /\ UNCHANGED <<events, count, cleared>>
  BY DEF Forward, Top
<1>3. open' = open /\ now' = now /\ open'
  <2>1. open' = open /\ now' = now
    BY <1>2 DEF Enqueue, Park
  <2>2. open
    BY <1>2 DEF IInv, TransitOK
  <2> QED
    BY <2>1, <2>2, Zenon
<1>4. ASSUME NEW g, g # top.handle
      PROVE  (Free(g) => Free(g)') /\ (g \in running => g \in running')
  BY <1>2, <1>4 DEF Enqueue, Park, Free, HandlesOf
<1>5. TransitOK' /\ calls' \in Seq(TraceEvent)
  BY <1>2, <1>3, <1>4, ReturnKeeps
<1>6. ready' \subseteq Handle /\ parked' \subseteq [when : Moment, handle : Handle]
  BY <1>1, <1>2 DEF Enqueue, Park, IInv, TypeOK
<1> QED
  BY <1>2, <1>3, <1>5, <1>6 DEF IInv, TypeOK

\* What the wrapped scheduler and the coroutines do on their own.
LEMMA BehindInv ==
  ASSUME IInv, Behind
  PROVE  IInv' /\ Next
<1> USE DEF HandlesOf
<1>1. UNCHANGED <<events, calls, count, cleared>>
  BY DEF Behind, tracer
<1>2. ASSUME NEW due \in SUBSET parked, Elapse(due)
      PROVE  /\ now' \in Moment /\ open' = open /\ parked' \subseteq parked
             /\ HandlesOf(due) \subseteq HandlesOf(parked)
  BY <1>2 DEF Elapse, TimePasses
<1>3. ASSUME NEW due \in SUBSET parked, Wait(due)
      PROVE  IInv' /\ Next
  <2>1. Elapse(due) /\ ready' = ready \cup HandlesOf(due) /\ running' = running
    BY <1>3 DEF Wait
  <2>2. \A g : Free(g) => Free(g)'
    BY <2>1, <1>2 DEF Free
  <2>3. TransitOK'
    BY <1>1, <1>2, <2>1, <2>2 DEF IInv, TransitOK
  <2>4. TypeOK'
    BY <1>1, <1>2, <2>1 DEF IInv, TypeOK
  <2> QED
    BY <1>3, <2>3, <2>4 DEF IInv, Next
<1>4. ASSUME NEW due \in SUBSET parked, NEW h \in Handle, Resume(due, h)
      PROVE  IInv' /\ Next
  <2>1. /\ Elapse(due) /\ h \in ready \cup HandlesOf(due)
        /\ ready' = (ready \cup HandlesOf(due)) \ {h}
        /\ running' = running \cup {h}
    BY <1>4 DEF Resume
  <2>2. \A g : Free(g) => Free(g)'
    BY <2>1, <1>2 DEF Free
  <2>3. TransitOK'
    BY <1>1, <1>2, <2>1, <2>2 DEF IInv, TransitOK
  <2>4. TypeOK'
    BY <1>1, <1>2, <2>1 DEF IInv, TypeOK
  <2> QED
    BY <1>4, <2>3, <2>4 DEF IInv, Next
<1>5. ASSUME NEW h \in Handle, h \notin InTransit, Leave(h)
      PROVE  IInv' /\ Next
  <2>1. /\ running' = running \ {h} /\ UNCHANGED <<ready, parked, now, open>>
    BY <1>5 DEF Leave, Stops
  <2>2. \A i \in 1..Len(calls) : calls[i].handle # h
    BY <1>5 DEF InTransit
  <2>3. \A g : Free(g) => Free(g)'
    BY <2>1 DEF Free
  <2>4. TransitOK'
    BY <1>1, <2>1, <2>2, <2>3 DEF IInv, TransitOK
  <2>5. TypeOK'
    BY <1>1, <2>1 DEF IInv, TypeOK
  <2> QED
    BY <1>5, <2>4, <2>5 DEF IInv, Next
<1>6. ASSUME Close, calls = <<>>
      PROVE  IInv' /\ Next
  <2>1. Len(calls) = 0
    BY <1>6, EmptySeq
  <2>2. TransitOK'
    BY <1>1, <1>6, <2>1 DEF TransitOK
  <2>3. TypeOK'
    BY <1>1, <1>6 DEF IInv, TypeOK, Close
  <2> QED
    BY <1>6, <2>2, <2>3 DEF IInv, Next
<1> QED
  BY <1>3, <1>4, <1>5, <1>6 DEF Behind

\* Every step keeps the invariant, and is one of the contract or a stutter.
LEMMA StepInv ==
  ASSUME IInv, [TracingNext]_vars
  PROVE  IInv' /\ [Next]_contractVars
<1>1. CASE UNCHANGED vars
  BY <1>1 DEF vars, tracer, contractVars, IInv, TypeOK, TransitOK, Free, HandlesOf
<1>2. ASSUME NEW h \in Handle, TracedPost(h)
      PROVE  IInv' /\ UNCHANGED contractVars
  <2> DEFINE e == [kind |-> "Post", at |-> now, when |-> now, handle |-> h]
  <2>1. e \in TraceEvent /\ e.handle = h
    BY DEF IInv, TypeOK, TraceEvent, Kind
  <2>2. MayPass(e.handle) /\ Record(e)
    BY <1>2, <2>1 DEF TracedPost
  <2> QED
    BY <2>1, <2>2, RecordAdds DEF Record
<1>3. ASSUME NEW h \in Handle, NEW when \in Moment, TracedScheduleAt(when, h)
      PROVE  IInv' /\ UNCHANGED contractVars
  <2> DEFINE e == [kind |-> "ScheduleAt", at |-> now, when |-> when, handle |-> h]
  <2>1. e \in TraceEvent /\ e.handle = h
    BY DEF IInv, TypeOK, TraceEvent, Kind
  <2>2. MayPass(e.handle) /\ Record(e)
    BY <1>3, <2>1 DEF TracedScheduleAt
  <2> QED
    BY <2>1, <2>2, RecordAdds DEF Record
<1>4. CASE Forward
  BY <1>4, ForwardInv, ForwardRefines
<1>5. CASE SinkThrows
  <2>1. calls # <<>> /\ Return /\ UNCHANGED <<contractVars, events, count, cleared>>
    BY <1>5 DEF SinkThrows
  <2>2. open' /\ \A g : (Free(g) => Free(g)') /\ (g \in running => g \in running')
    BY <2>1 DEF contractVars, Free, HandlesOf, IInv, TransitOK
  <2>3. TransitOK' /\ calls' \in Seq(TraceEvent)
    BY <2>1, <2>2, ReturnKeeps
  <2> QED
    BY <2>1, <2>3 DEF IInv, TypeOK, contractVars
<1>6. CASE Clear
  <2>1. <<>> \in Seq(TraceEvent)
    BY EmptySeq
  <2> QED
    BY <1>6, <2>1 DEF Clear, contractVars, IInv, TypeOK, TransitOK, Free, HandlesOf
<1>7. CASE Behind
  BY <1>7, BehindInv
<1> QED
  BY <1>1, <1>2, <1>3, <1>4, <1>5, <1>6, <1>7 DEF TracingNext

(* The state of the tracer and of the scheduler it wraps is well-formed    *)
(* (TracingScheduler.hpp:119-131).                                         *)
THEOREM TracerTypeCorrect == TracingSpec => []TypeOK
<1>1. TracingInit => IInv
  BY InitInv
<1>2. IInv /\ [TracingNext]_vars => IInv'
  BY StepInv
<1>3. IInv => TypeOK
  BY DEF IInv
<1> QED
  BY <1>1, <1>2, <1>3, PTL DEF TracingSpec

(* However its sink posts, schedules, pumps, clears or throws, a tracer    *)
(* uses the scheduler it wraps as IScheduler demands                       *)
(* (TracingScheduler.hpp:58).                                              *)
THEOREM TracerIsAScheduler == TracingSpec => ImplementsScheduler
<1>1. TracingInit => IInv /\ Init
  BY InitInv DEF TracingInit
<1>2. IInv /\ [TracingNext]_vars => IInv' /\ [Next]_contractVars
  BY StepInv
<1> QED
  BY <1>1, <1>2, PTL DEF TracingSpec, ImplementsScheduler, Spec

-----------------------------------------------------------------------------
(* The recording.  That the events tell how the handles of the wrapped     *)
(* scheduler got there is inductive together with what they tell of the    *)
(* handles that are on their way, and with the fact that nothing that is   *)
(* registered runs: or a new call could be made about it.                  *)

PlacesOK ==
  /\ ready \cap HandlesOf(parked) = {}
  /\ running \cap (ready \cup HandlesOf(parked)) = {}
  /\ \A e, f \in parked : e.handle = f.handle => e = f

CallsTraced ==
  \A k \in 1..Len(calls) :
    /\ cleared \/ \E i \in DOMAIN events : LastAbout(calls[k].handle, i)
    /\ \A i \in DOMAIN events : LastAbout(calls[k].handle, i) => events[i] = calls[k]

EventsPast == \A i \in DOMAIN events : events[i].at \in Moment /\ events[i].at <= now

TraceInv == PlacesOK /\ CallsTraced /\ EventsPast /\ TraceIsTrue

\* LastAbout, of any recording.
LastIn(es, h, i) ==
  /\ i \in DOMAIN es /\ es[i].handle = h
  /\ \A j \in DOMAIN es : es[j].handle = h => j <= i

\* A new event is the last about its handle, and changes nothing for the others.
LEMMA RecordedLast ==
  ASSUME events \in Seq(TraceEvent), NEW e \in TraceEvent, events' = Append(events, e)
  PROVE  /\ DOMAIN events = 1..Len(events) /\ DOMAIN events' = 1..(Len(events) + 1)
         /\ Len(events) \in Nat /\ events'[Len(events) + 1] = e
         /\ \A i \in DOMAIN events : i \in DOMAIN events' /\ events'[i] = events[i]
         /\ \A i \in DOMAIN events' : i \in DOMAIN events \/ i = Len(events) + 1
         /\ \A i : LastIn(events', e.handle, i) <=> i = Len(events) + 1
         /\ \A h, i : h # e.handle => (LastIn(events', h, i) <=> LastIn(events, h, i))
<1> DEFINE n == Len(events)
<1>1. /\ n \in Nat /\ DOMAIN events = 1..n
      /\ DOMAIN events' = 1..(n + 1) /\ events'[n + 1] = e
      /\ \A i \in 1..n : events'[i] = events[i]
  BY LenProperties, AppendProperties
<1> HIDE DEF n
<1>2. \A i \in 1..(n + 1) : i \in 1..n \/ i = n + 1
  BY <1>1
<1>3. ASSUME NEW i PROVE LastIn(events', e.handle, i) <=> i = n + 1
  <2>1. ASSUME i = n + 1 PROVE LastIn(events', e.handle, i)
    BY <2>1, <1>1 DEF LastIn
  <2>2. ASSUME LastIn(events', e.handle, i) PROVE i = n + 1
    <3>1. i \in 1..(n + 1) /\ n + 1 \in 1..(n + 1) /\ n + 1 <= i
      BY <2>2, <1>1 DEF LastIn
    <3> QED
      BY <3>1, <1>1
  <2> QED
    BY <2>1, <2>2
<1>4. ASSUME NEW h, NEW i, h # e.handle PROVE LastIn(events', h, i) <=> LastIn(events, h, i)
  <2>1. \A j \in 1..(n + 1) : events'[j].handle = h <=> j \in 1..n /\ events[j].handle = h
    BY <1>1, <1>2, <1>4
  <2>2. \A j \in 1..n : j \in 1..(n + 1)
    BY <1>1
  <2> QED
    BY <1>1, <2>1, <2>2 DEF LastIn
<1> QED
  BY <1>1, <1>2, <1>3, <1>4 DEF n

\* A call begins.
LEMMA RecordTraced ==
  ASSUME IInv, TraceInv, NEW e \in TraceEvent, e.at = now,
         MayPass(e.handle), Record(e)
  PROVE  TraceInv'
<1> DEFINE n == Len(events)
<1>1. /\ events' = Append(events, e) /\ events \in Seq(TraceEvent)
      /\ UNCHANGED <<ready, parked, running, now, cleared>> /\ now \in Moment
  BY DEF Record, contractVars, IInv, TypeOK
<1>2. /\ DOMAIN events = 1..n /\ DOMAIN events' = 1..(n + 1)
      /\ n \in Nat /\ events'[n + 1] = e
      /\ \A i \in DOMAIN events : i \in DOMAIN events' /\ events'[i] = events[i]
      /\ \A i \in DOMAIN events' : i \in DOMAIN events \/ i = n + 1
      /\ \A i : LastIn(events', e.handle, i) <=> i = n + 1
      /\ \A h, i : h # e.handle => (LastIn(events', h, i) <=> LastIn(events, h, i))
  BY <1>1, RecordedLast
<1>3. /\ Len(calls) \in Nat /\ Len(calls') = Len(calls) + 1
      /\ calls'[Len(calls) + 1] = e
      /\ \A k \in 1..Len(calls) : calls'[k] = calls[k] /\ calls[k].handle # e.handle
  <2>1. /\ Len(calls) \in Nat /\ Len(calls') = Len(calls) + 1
        /\ calls'[Len(calls) + 1] = e /\ \A k \in 1..Len(calls) : calls'[k] = calls[k]
    BY AppendProperties DEF Record, IInv, TypeOK
  <2>2. DOMAIN calls = 1..Len(calls)
    BY LenProperties DEF IInv, TypeOK
  <2> QED
    BY <2>1, <2>2 DEF MayPass, InTransit
<1>4. \A g \in ready \cup HandlesOf(parked) : g # e.handle
  BY DEF MayPass, Free, TraceInv, PlacesOK
<1> HIDE DEF n
<1>5. PlacesOK'
  BY <1>1 DEF TraceInv, PlacesOK, HandlesOf
<1>6. EventsPast'
  BY <1>1, <1>2, MomentAssumption DEF TraceInv, EventsPast
<1>7. CallsTraced'
  <2>1. ASSUME NEW k \in 1..Len(calls')
        PROVE  /\ cleared \/ \E i \in DOMAIN events' : LastIn(events', calls'[k].handle, i)
               /\ \A i \in DOMAIN events' :
                    LastIn(events', calls'[k].handle, i) => events'[i] = calls'[k]
    <3>1. CASE k = Len(calls) + 1
      <4>1. calls'[k] = e /\ n + 1 \in DOMAIN events'
        BY <3>1, <1>2, <1>3
      <4>2. LastIn(events', e.handle, n + 1)
        BY <1>2
      <4> QED
        BY <4>1, <4>2, <1>2
    <3>2. CASE k \in 1..Len(calls)
      <4>1. calls'[k] = calls[k] /\ calls[k].handle # e.handle
        BY <3>2, <1>3
      <4>2. \A i : LastIn(events', calls[k].handle, i) <=> LastIn(events, calls[k].handle, i)
        BY <4>1, <1>2
      <4>3. \A i : LastIn(events, calls[k].handle, i) => i \in DOMAIN events
        BY DEF LastIn
      <4>4. /\ cleared \/ \E i \in DOMAIN events : LastIn(events, calls[k].handle, i)
            /\ \A i \in DOMAIN events : LastIn(events, calls[k].handle, i) => events[i] = calls[k]
        BY <3>2 DEF TraceInv, CallsTraced, LastAbout, LastIn
      <4> QED
        BY <4>1, <4>2, <4>3, <4>4, <1>2
    <3> QED
      BY <3>1, <3>2, <1>3
  <2> QED
    BY <2>1, <1>1 DEF CallsTraced, LastAbout, LastIn
<1>8. TraceIsTrue'
  <2>1. \A i, j \in DOMAIN events' : i < j => events'[i].at <= events'[j].at
    <3>1. ASSUME NEW i \in DOMAIN events', NEW j \in DOMAIN events', i < j
          PROVE  events'[i].at <= events'[j].at
      <4>1. CASE j \in DOMAIN events
        <5>1. i \in DOMAIN events
          BY <3>1, <4>1, <1>2
        <5> QED
          BY <3>1, <4>1, <5>1, <1>2 DEF TraceInv, TraceIsTrue, LastAbout, LastIn
      <4>2. CASE j = n + 1
        <5>1. i \in DOMAIN events
          BY <3>1, <4>2, <1>2
        <5> QED
          BY <4>2, <5>1, <1>2 DEF TraceInv, EventsPast
      <4> QED
        BY <4>1, <4>2, <1>2
    <3> QED
      BY <3>1
  <2>2. ASSUME NEW h \in ready \cup HandlesOf(parked)
        PROVE  cleared \/ \E i \in DOMAIN events' : LastIn(events', h, i)
    <3>1. cleared \/ \E i \in DOMAIN events : LastIn(events, h, i)
      BY DEF TraceInv, TraceIsTrue, LastAbout, LastIn
    <3> QED
      BY <3>1, <1>2, <1>4
  <2>3. ASSUME NEW f \in parked, NEW i \in DOMAIN events', LastIn(events', f.handle, i)
        PROVE  events'[i].kind = "ScheduleAt" /\ events'[i].when = f.when
    <3>1. f.handle # e.handle
      BY <1>4 DEF HandlesOf
    <3>2. LastIn(events, f.handle, i) /\ i \in DOMAIN events
      BY <2>3, <3>1, <1>2 DEF LastIn
    <3> QED
      BY <3>2, <1>2 DEF TraceInv, TraceIsTrue, LastAbout, LastIn
  <2> QED
    BY <2>1, <2>2, <2>3, <1>1 DEF TraceIsTrue, HandlesOf, LastAbout, LastIn
<1> QED
  BY <1>5, <1>6, <1>7, <1>8 DEF TraceInv

\* What the trace says of the other calls it still says when one has returned.
LEMMA ReturnTraced ==
  ASSUME IInv, CallsTraced, calls # <<>>, Return, UNCHANGED <<events, cleared>>
  PROVE  CallsTraced'
<1>1. /\ Len(calls) \in 1..Len(calls) /\ Len(calls') = Len(calls) - 1
      /\ \A k \in 1..(Len(calls) - 1) : k \in 1..Len(calls) /\ calls'[k] = calls[k]
  BY FrontOfCalls DEF IInv, TypeOK, Return
<1>2. ASSUME NEW k \in 1..Len(calls')
      PROVE  /\ cleared \/ \E i \in DOMAIN events : LastIn(events, calls'[k].handle, i)
             /\ \A i \in DOMAIN events :
                  LastIn(events, calls'[k].handle, i) => events[i] = calls'[k]
  <2>1. k \in 1..Len(calls) /\ calls'[k] = calls[k]
    BY <1>1
  <2> QED
    BY <2>1 DEF CallsTraced, LastAbout, LastIn
<1> QED
  BY <1>2 DEF CallsTraced, LastAbout, LastIn

\* The innermost call is forwarded: what the trace said of its handle on the
\* way, it says of the handle in its place.
LEMMA ForwardTraced ==
  ASSUME IInv, TraceInv, Forward
  PROVE  TraceInv'
<1> DEFINE top == calls[Len(calls)]
<1>1. Len(calls) \in 1..Len(calls)
  BY FrontOfCalls DEF IInv, TypeOK, Forward
<1>2. /\ \/ top.kind = "Post" /\ Enqueue(top.handle)
         \/ top.kind = "ScheduleAt" /\ Park(top.when, top.handle)
      /\ running' = running \ {top.handle}
      /\ UNCHANGED <<events, cleared>>
  BY DEF Forward, Top
<1>3. now' = now
  BY <1>2 DEF Enqueue, Park
<1>4. Free(top.handle) \/ top.handle \in running
  BY <1>1 DEF IInv, TransitOK
<1>5. top.handle \notin ready \cup HandlesOf(parked)
  BY <1>4 DEF Free, TraceInv, PlacesOK
<1>6. /\ cleared \/ \E i \in DOMAIN events : LastAbout(top.handle, i)
      /\ \A i \in DOMAIN events : LastAbout(top.handle, i) => events[i] = top
  BY <1>1 DEF TraceInv, CallsTraced
<1> HIDE DEF top
<1>7. PlacesOK'
  BY <1>2, <1>5 DEF Enqueue, Park, TraceInv, PlacesOK, HandlesOf
<1>8. EventsPast'
  BY <1>2, <1>3 DEF TraceInv, EventsPast
<1>9. CallsTraced'
  BY <1>2, ReturnTraced DEF Forward, TraceInv
<1>10. TraceIsTrue'
  <2>1. \A h \in ready' \cup HandlesOf(parked') :
          cleared \/ \E i \in DOMAIN events : LastAbout(h, i)
    BY <1>2, <1>6 DEF Enqueue, Park, HandlesOf, TraceInv, TraceIsTrue
  <2>2. ASSUME NEW f \in parked', NEW i \in DOMAIN events, LastAbout(f.handle, i)
        PROVE  events[i].kind = "ScheduleAt" /\ events[i].when = f.when
    <3>1. CASE f \in parked
      BY <2>2, <3>1 DEF TraceInv, TraceIsTrue
    <3>2. CASE f \notin parked
      <4>1. top.kind = "ScheduleAt" /\ f = [when |-> top.when, handle |-> top.handle]
        BY <3>2, <1>2 DEF Enqueue, Park
      <4>2. events[i] = top
        BY <2>2, <4>1, <1>6
      <4> QED
        BY <4>1, <4>2
    <3> QED
      BY <3>1, <3>2
  <2>3. \A i, j \in DOMAIN events : i < j => events[i].at <= events[j].at
    BY DEF TraceInv, TraceIsTrue
  <2> QED
    BY <2>1, <2>2, <2>3, <1>2 DEF TraceIsTrue, HandlesOf, LastAbout
<1> QED
  BY <1>7, <1>8, <1>9, <1>10 DEF TraceInv

\* A call that ends in an exception leaves its event, and nothing else.
LEMMA ThrowTraced ==
  ASSUME IInv, TraceInv, SinkThrows
  PROVE  TraceInv'
<1>1. UNCHANGED <<ready, parked, running, now, events, cleared>>
  BY DEF SinkThrows, contractVars
<1>2. CallsTraced'
  BY <1>1, ReturnTraced DEF SinkThrows, TraceInv
<1> QED
  BY <1>1, <1>2 DEF TraceInv, PlacesOK, EventsPast, TraceIsTrue, HandlesOf, LastAbout

\* An empty recording says nothing that is false.
LEMMA ClearTraced ==
  ASSUME IInv, TraceInv, Clear
  PROVE  TraceInv'
<1>1. /\ events' = <<>> /\ cleared' /\ UNCHANGED <<ready, parked, running, now, calls>>
  BY DEF Clear, contractVars
<1>2. DOMAIN events' = {}
  BY <1>1
<1> QED
  BY <1>1, <1>2 DEF TraceInv, PlacesOK, CallsTraced, EventsPast, TraceIsTrue, HandlesOf

\* The wrapped scheduler takes nothing that it has not been given.
LEMMA BehindTraced ==
  ASSUME IInv, TraceInv, Behind
  PROVE  TraceInv'
<1>1. UNCHANGED <<events, calls, cleared>>
  BY DEF Behind, tracer
<1> DEFINE Shrinks ==
             /\ ready' \cup HandlesOf(parked') \subseteq ready \cup HandlesOf(parked)
             /\ parked' \subseteq parked /\ now' >= now /\ now' \in Moment /\ PlacesOK'
<1>2. Shrinks
  <2>1. ASSUME NEW due \in SUBSET parked, Wait(due) \/ \E h \in Handle : Resume(due, h)
        PROVE  Shrinks
    BY <2>1 DEF Wait, Resume, Elapse, TimePasses, HandlesOf, TraceInv, PlacesOK
  <2>2. ASSUME NEW h \in Handle, Leave(h)
        PROVE  Shrinks
    BY <2>2, MomentAssumption DEF Leave, Stops, HandlesOf, TraceInv, PlacesOK, IInv, TypeOK
  <2>3. ASSUME Close
        PROVE  Shrinks
    BY <2>3, MomentAssumption DEF Close, HandlesOf, TraceInv, PlacesOK, IInv, TypeOK
  <2> HIDE DEF Shrinks
  <2> QED
    BY <2>1, <2>2, <2>3 DEF Behind
<1>3. EventsPast'
  <2>1. ASSUME NEW i \in DOMAIN events
        PROVE  events[i].at \in Moment /\ events[i].at <= now'
    <3>1. /\ events[i].at \in Moment /\ events[i].at <= now
          /\ now \in Moment /\ now' \in Moment /\ now' >= now
      BY <1>2 DEF TraceInv, EventsPast, IInv, TypeOK
    <3>2. events[i].at \in Int /\ now \in Int /\ now' \in Int
      BY <3>1, MomentAssumption
    <3> HIDE DEF Shrinks
    <3>3. \A a, b, c \in Int : a <= b /\ c >= b => a <= c
      OBVIOUS
    <3> QED
      BY <3>1, <3>2, <3>3
  <2> QED
    BY <1>1, <2>1 DEF EventsPast
<1>4. CallsTraced'
  BY <1>1 DEF TraceInv, CallsTraced, LastAbout
<1>5. TraceIsTrue'
  BY <1>1, <1>2 DEF TraceInv, TraceIsTrue, LastAbout
<1> QED
  BY <1>2, <1>3, <1>4, <1>5 DEF TraceInv, Behind

\* Every step keeps what the recording tells.
LEMMA StepTraced ==
  ASSUME IInv, TraceInv, [TracingNext]_vars
  PROVE  TraceInv'
<1>1. CASE UNCHANGED vars
  BY <1>1 DEF vars, tracer, contractVars, TraceInv, PlacesOK, CallsTraced, EventsPast,
              TraceIsTrue, HandlesOf, LastAbout
<1>2. ASSUME NEW h \in Handle, TracedPost(h)
      PROVE  TraceInv'
  <2> DEFINE e == [kind |-> "Post", at |-> now, when |-> now, handle |-> h]
  <2>1. e \in TraceEvent /\ e.handle = h /\ e.at = now
    BY DEF IInv, TypeOK, TraceEvent, Kind
  <2>2. MayPass(e.handle) /\ Record(e)
    BY <1>2, <2>1 DEF TracedPost
  <2> QED
    BY <2>1, <2>2, RecordTraced
<1>3. ASSUME NEW h \in Handle, NEW when \in Moment, TracedScheduleAt(when, h)
      PROVE  TraceInv'
  <2> DEFINE e == [kind |-> "ScheduleAt", at |-> now, when |-> when, handle |-> h]
  <2>1. e \in TraceEvent /\ e.handle = h /\ e.at = now
    BY DEF IInv, TypeOK, TraceEvent, Kind
  <2>2. MayPass(e.handle) /\ Record(e)
    BY <1>3, <2>1 DEF TracedScheduleAt
  <2> QED
    BY <2>1, <2>2, RecordTraced
<1> QED
  BY <1>1, <1>2, <1>3, ForwardTraced, ThrowTraced, ClearTraced, BehindTraced DEF TracingNext

(* What a test concludes from Events is so: they are in the order of the   *)
(* calls, and the last one about a handle that is registered tells how and *)
(* for when, however often the sink called the tracer again, threw or      *)
(* cleared the recording (TracingScheduler.hpp:51-54).                     *)
THEOREM TraceStaysTrue == TracingSpec => []TraceIsTrue
<1>1. TracingInit => IInv /\ TraceInv
  <2> SUFFICES ASSUME TracingInit PROVE IInv /\ TraceInv
    OBVIOUS
  <2>1. /\ events = <<>> /\ calls = <<>> /\ ready = {} /\ parked = {} /\ running = {}
    BY DEF TracingInit, Init
  <2>2. DOMAIN events = {} /\ Len(calls) = 0
    BY <2>1, EmptySeq
  <2> QED
    BY <2>1, <2>2, InitInv DEF TraceInv, PlacesOK, CallsTraced, EventsPast, TraceIsTrue, HandlesOf
<1>2. IInv /\ TraceInv /\ [TracingNext]_vars => IInv' /\ TraceInv'
  BY StepInv, StepTraced
<1>3. TraceInv => TraceIsTrue
  BY DEF TraceInv
<1> QED
  BY <1>1, <1>2, <1>3, PTL DEF TracingSpec

=============================================================================
