-------------------------- MODULE TimerHeap_proofs --------------------------
(***************************************************************************)
(* TimerHeap implements TimerQueueSpec, for every set of deadlines and of  *)
(* handles and any number of insertions, whatever heap push_heap and       *)
(* pop_heap build.  Loop is the proof module of EventLoop, taken for its   *)
(* lemmas about the operators of TimerQueue: they are about queues of any  *)
(* entries, so an instance with no handles and no state will do.           *)
(***************************************************************************)
EXTENDS TimerHeap, SequenceTheorems, FiniteSetTheorems, TLAPS

Loop == INSTANCE EventLoop_proofs WITH
  Handle <- {}, NoHandle <- 0, MaxTime <- 0, ready <- <<>>, timers <- <<>>,
  now <- 0, mode <- "idle", current <- 0, budget <- 0, batch <- <<>>

\* The assumptions of EventLoop hold.
LEMMA LoopAssumptions == 0 \notin {} /\ 0 \in Nat
OBVIOUS

\* Every nonempty set of naturals has a least element.
LEMMA LeastNatural ==
  ASSUME NEW S, S \subseteq Nat, S # {}
  PROVE  \E m \in S : \A n \in S : m <= n
BY Loop!LeastNatural, LoopAssumptions

\* The operators this module and Loop have in common.
LEMMA SameOperators ==
  /\ \A M, H : Loop!Entry(M, H) = Entry(M, H)
  /\ \A t, w : Loop!DueCount(t, w) = DueCount(t, w)
  /\ \A t, w, h : Loop!Schedule(t, w, h) = Schedule(t, w, h)
BY DEF Loop!Entry, Entry, Loop!DueCount, DueCount, Loop!Schedule, Schedule

\* What `while (PopDue(now))' leaves at time w.
StopsAt(t, w) ==
  /\ DueCount(t, w) \in 0..Len(t)
  /\ \A i \in 1..DueCount(t, w) : t[i].when <= w
  /\ DueCount(t, w) < Len(t) => t[DueCount(t, w) + 1].when > w

\* Draining stops at the first entry that is not due.
LEMMA DueCountProperties ==
  ASSUME NEW H, NEW t \in Seq(Entry(Nat, H)), NEW w \in Nat
  PROVE  StopsAt(t, w)
<1>1. t \in Seq(Loop!Entry(Nat, H))
  BY SameOperators
<1>2. /\ Loop!DueCount(t, w) \in 0..Len(t)
      /\ \A i \in 1..Loop!DueCount(t, w) : t[i].when <= w
      /\ Loop!DueCount(t, w) < Len(t) => t[Loop!DueCount(t, w) + 1].when > w
  BY <1>1, Loop!DueCountProperties, LoopAssumptions
<1>3. Loop!DueCount(t, w) = DueCount(t, w)
  BY SameOperators
<1> QED
  BY <1>2, <1>3, Zenon DEF StopsAt

\* One entry more, and the others in the order they had.
InsertsInOrder(s, t, k, entry, E) ==
  /\ s \in Seq(E) /\ Len(s) = Len(t) + 1
  /\ \A i \in 1..(Len(t) + 1) :
       s[i] = IF i <= k THEN t[i] ELSE IF i = k + 1 THEN entry ELSE t[i - 1]

\* Schedule puts an entry behind those that are no later.
LEMMA ScheduleProperties ==
  ASSUME NEW M, M \subseteq Nat, NEW H, NEW t \in Seq(Entry(M, H)),
         NEW w \in M, NEW h \in H
  PROVE  InsertsInOrder(Schedule(t, w, h), t, DueCount(t, w),
                        [when |-> w, handle |-> h], Entry(M, H))
<1>1. t \in Seq(Loop!Entry(M, H))
  BY SameOperators
<1>2. Loop!InsertsInOrder(t, w, h, Loop!Entry(M, H))
  BY <1>1, Loop!ScheduleProperties, LoopAssumptions
<1>3. InsertsInOrder(Loop!Schedule(t, w, h), t, Loop!DueCount(t, w),
                     [when |-> w, handle |-> h], Loop!Entry(M, H))
  BY <1>2, Zenon DEF Loop!InsertsInOrder, InsertsInOrder
<1> QED
  BY <1>3, SameOperators, Zenon

-----------------------------------------------------------------------------
(* The comparison.                                                         *)

\* A sequence is the function from its places to what stands there.
LEMMA AsFunction ==
  ASSUME NEW E, NEW s \in Seq(E)
  PROVE  s = [i \in 1..Len(s) |-> s[i]]
<1>1. PICK m \in Nat : s \in [1..m -> E]
  OBVIOUS
<1>2. Len(s) = m /\ DOMAIN s = 1..m /\ s = [i \in DOMAIN s |-> s[i]]
  BY <1>1
<1> QED
  BY <1>2

\* The front of a sequence and what follows it.
LEMMA FrontAndTail ==
  ASSUME NEW E, NEW s \in Seq(E)
  PROVE  /\ Len(s) = 0 => s = <<>>
         /\ \A m \in Nat : Len(s) = m /\ m >= 1 =>
              /\ s # <<>> /\ Head(s) = s[1] /\ 1 \in 1..m
              /\ Tail(s) = [i \in 1..(m - 1) |-> s[i + 1]]
<1>1. ASSUME NEW m \in Nat, Len(s) = m, m >= 1
      PROVE  Tail(s) = [i \in 1..(m - 1) |-> s[i + 1]]
  <2>1. s # <<>>
    BY <1>1
  <2>2. /\ Tail(s) \in Seq(E) /\ Len(Tail(s)) = m - 1
        /\ \A i \in 1..(m - 1) : Tail(s)[i] = s[i + 1]
    BY <1>1, <2>1
  <2>3. Tail(s) = [i \in 1..Len(Tail(s)) |-> Tail(s)[i]]
    BY <2>2, AsFunction
  <2> QED
    BY <2>2, <2>3
<1> QED
  BY <1>1

\* What entries are made of.
LEMMA EntryTypes ==
  ASSUME NEW e \in HeapEntry
  PROVE  e.when \in Nat /\ e.when \in Moment /\ e.handle \in Handle /\ e.sequence \in Nat
<1>1. e.when \in Moment /\ e.handle \in Handle /\ e.sequence \in 0..MaxSchedules
  BY DEF HeapEntry
<1>2. \A t \in Moment : t \in Nat
  BY HeapAssumption
<1>3. \A s \in 0..MaxSchedules : s \in Nat
  BY HeapAssumption
<1> QED
  BY <1>1, <1>2, <1>3

\* Later is a strict order in which entries with different sequence numbers
\* can be compared.
LEMMA LaterOrders ==
  ASSUME NEW a \in HeapEntry, NEW b \in HeapEntry, NEW c \in HeapEntry
  PROVE  /\ ~(Later(a, b) /\ Later(b, a))
         /\ Later(a, b) /\ Later(b, c) => Later(a, c)
         /\ ~Later(a, b) /\ ~Later(b, c) => ~Later(a, c)
         /\ a.sequence # b.sequence => Later(a, b) \/ Later(b, a)
BY EntryTypes DEF Later

-----------------------------------------------------------------------------
(* Heaps.                                                                  *)

\* What push_heap and pop_heap leave: the same entries, each of them once.
LEMMA HeapProperties ==
  ASSUME NEW S, S \subseteq HeapEntry, IsFiniteSet(S), NEW v \in HeapsOf(S)
  PROVE  /\ v \in Seq(HeapEntry) /\ Len(v) = Cardinality(S) /\ Elements(v) = S
         /\ \A i, j \in 1..Len(v) : v[i] = v[j] => i = j
         /\ IsHeap(v)
<1> DEFINE n == Cardinality(S)
<1>1. n \in Nat
  BY FS_CardinalityType
<1>2. v \in [1..n -> S] /\ (\A i, j \in 1..n : v[i] = v[j] => i = j) /\ IsHeap(v)
  BY DEF HeapsOf
<1>3. v \in Seq(HeapEntry) /\ Len(v) = n
  BY <1>1, <1>2
<1>4. IsFiniteSet(1..n) /\ Cardinality(1..n) = n
  BY <1>1, FS_Interval
<1>5. v \in Injection(1..n, S)
  BY <1>2 DEF Injection, IsInjective
<1>6. v \in Surjection(1..n, S)
  BY <1>4, <1>5, FS_Injection
<1>7. Elements(v) = S
  BY <1>2, <1>3, <1>6 DEF Elements, Surjection
<1> QED
  BY <1>2, <1>3, <1>7

\* The front of a heap is an entry that no other one is due before: if one
\* were, the first of those in the vector would have a parent that is not.
LEMMA FrontIsFirst ==
  ASSUME NEW v \in Seq(HeapEntry), IsHeap(v), NEW i \in 1..Len(v)
  PROVE  ~Later(v[1], v[i])
<1> DEFINE early == {j \in 1..Len(v) : Later(v[1], v[j])}
<1> SUFFICES ASSUME early # {} PROVE FALSE
  OBVIOUS
<1>1. Len(v) \in Nat /\ \A j \in 1..Len(v) : v[j] \in HeapEntry
  OBVIOUS
<1>2. PICK m \in early : \A j \in early : m <= j
  <2>1. early \subseteq Nat
    BY <1>1
  <2> HIDE DEF early
  <2> QED
    BY <2>1, LeastNatural
<1>3. m # 1
  BY <1>1, <1>2, LaterOrders
<1>4. m \div 2 \in 1..Len(v) /\ m \div 2 < m /\ m \in 2..Len(v)
  BY <1>1, <1>2, <1>3
<1>5. ~Later(v[1], v[m \div 2])
  BY <1>2, <1>4
<1>6. ~Later(v[m \div 2], v[m])
  BY <1>4 DEF IsHeap
<1>7. ~Later(v[1], v[m])
  <2>1. v[1] \in HeapEntry /\ v[m \div 2] \in HeapEntry /\ v[m] \in HeapEntry
    BY <1>1, <1>4
  <2> QED
    BY <1>5, <1>6, <2>1, LaterOrders
<1> QED
  BY <1>2, <1>7

-----------------------------------------------------------------------------
(* The order of popping.                                                   *)

\* p has the entries of S in the order in which they will be popped.
Ranking(p, S) ==
  /\ p \in Seq(HeapEntry) /\ S = {p[i] : i \in 1..Len(p)}
  /\ \A i, j \in 1..Len(p) : i < j => Later(p[j], p[i])

\* The entries without their sequence numbers.
Plain(p) == [i \in 1..Len(p) |-> [when |-> p[i].when, handle |-> p[i].handle]]

\* PopOrder, of any vector.
OrderOf(v) ==
  [r \in 1..Len(v) |->
     LET e == CHOOSE f \in Elements(v) :
                Cardinality({g \in Elements(v) : Later(f, g)}) + 1 = r
     IN  [when |-> e.when, handle |-> e.handle]]

\* An entry of a ranking comes once, behind as many entries as it is later than.
LEMMA RankIs ==
  ASSUME NEW p, NEW S, Ranking(p, S), NEW i \in 1..Len(p)
  PROVE  /\ Cardinality({g \in S : Later(p[i], g)}) + 1 = i
         /\ \A j \in 1..Len(p) : p[i] = p[j] => i = j
<1> USE DEF Ranking
<1>1. /\ Len(p) \in Nat /\ i \in Nat /\ i - 1 \in Nat
      /\ \A j \in 1..Len(p) : p[j] \in HeapEntry
  OBVIOUS
<1>2. \A j, k \in 1..Len(p) : p[j] = p[k] => j = k
  <2> SUFFICES ASSUME NEW j \in 1..Len(p), NEW k \in 1..Len(p), p[j] = p[k], j < k
               PROVE  FALSE
    BY <1>1
  <2> QED
    BY <1>1, LaterOrders
<1>3. \A j \in 1..Len(p) : Later(p[i], p[j]) <=> j < i
  <2> SUFFICES ASSUME NEW j \in 1..Len(p) PROVE Later(p[i], p[j]) <=> j < i
    OBVIOUS
  <2>1. CASE j < i
    BY <2>1
  <2>2. CASE j = i
    BY <1>1, <2>2, LaterOrders
  <2>3. CASE i < j
    BY <1>1, <2>3, LaterOrders
  <2> QED
    BY <1>1, <2>1, <2>2, <2>3
<1> DEFINE T == {g \in S : Later(p[i], g)}
           f == [j \in 1..(i - 1) |-> p[j]]
<1>4. \A j \in 1..(i - 1) : j \in 1..Len(p) /\ j < i
  BY <1>1
<1>5. f \in [1..(i - 1) -> T]
  BY <1>3, <1>4
<1>6. \A j, k \in 1..(i - 1) : f[j] = f[k] => j = k
  BY <1>2, <1>4
<1>7. \A g \in T : \E j \in 1..(i - 1) : f[j] = g
  <2> SUFFICES ASSUME NEW g \in T PROVE \E j \in 1..(i - 1) : f[j] = g
    OBVIOUS
  <2>1. PICK j \in 1..Len(p) : g = p[j]
    OBVIOUS
  <2>2. j \in 1..(i - 1)
    BY <1>1, <1>3, <2>1
  <2> QED
    BY <2>1, <2>2
<1> HIDE DEF T, f
<1>8. f \in Bijection(1..(i - 1), T)
  BY <1>5, <1>6, <1>7 DEF Bijection, Injection, Surjection, IsInjective
<1>9. IsFiniteSet(1..(i - 1)) /\ Cardinality(1..(i - 1)) = i - 1
  <2>1. \A n \in Nat : IsFiniteSet(1..n) /\ Cardinality(1..n) = n
    BY FS_Interval
  <2> QED
    BY <1>1, <2>1
<1>10. Cardinality(T) = i - 1
  BY <1>8, <1>9, FS_Bijection DEF ExistsBijection
<1> QED
  BY <1>1, <1>2, <1>10 DEF T

\* So the order of popping can be read off it.
LEMMA OrderIs ==
  ASSUME NEW v \in Seq(HeapEntry), NEW p, Ranking(p, Elements(v)),
         \A i, j \in 1..Len(v) : v[i] = v[j] => i = j
  PROVE  OrderOf(v) = Plain(p) /\ Len(p) = Len(v)
<1> DEFINE S == Elements(v)
<1>1. Len(v) \in Nat /\ Len(p) \in Nat
  BY DEF Ranking
<1>2. Len(p) = Len(v)
  <2>1. v \in Bijection(1..Len(v), S)
    <3>1. v \in [1..Len(v) -> S]
      BY <1>1 DEF Elements
    <3>2. \A g \in S : \E j \in 1..Len(v) : v[j] = g
      BY DEF Elements
    <3> QED
      BY <3>1, <3>2 DEF Bijection, Injection, Surjection, IsInjective
  <2>2. p \in Bijection(1..Len(p), S)
    <3>1. p \in [1..Len(p) -> S]
      BY <1>1 DEF Ranking
    <3>2. \A g \in S : \E j \in 1..Len(p) : p[j] = g
      BY DEF Ranking
    <3>3. \A i, j \in 1..Len(p) : p[i] = p[j] => i = j
      BY RankIs
    <3> QED
      BY <3>1, <3>2, <3>3 DEF Bijection, Injection, Surjection, IsInjective
  <2>3. \A n \in Nat : IsFiniteSet(1..n) /\ Cardinality(1..n) = n
    BY FS_Interval
  <2>4. Cardinality(S) = Len(v)
    BY <1>1, <2>1, <2>3, FS_Bijection DEF ExistsBijection
  <2>5. Cardinality(S) = Len(p)
    BY <1>1, <2>2, <2>3, FS_Bijection DEF ExistsBijection
  <2> QED
    BY <2>4, <2>5
<1> DEFINE R(f) == Cardinality({g \in S : Later(f, g)}) + 1
<1>3. ASSUME NEW r \in 1..Len(v) PROVE (CHOOSE f \in S : R(f) = r) = p[r]
  <2>1. p[r] \in S /\ \A f \in S : \E j \in 1..Len(p) : f = p[j]
    BY <1>2 DEF Ranking
  <2>2. \A j \in 1..Len(p) : R(p[j]) = j
    BY RankIs
  <2> HIDE DEF R, S
  <2>3. R(p[r]) = r /\ \A f \in S : R(f) = r => f = p[r]
    BY <1>2, <2>1, <2>2
  <2> QED
    BY <2>1, <2>3
<1> HIDE DEF R
<1>4. OrderOf(v) = [r \in 1..Len(v) |-> LET e == CHOOSE f \in S : R(f) = r
                                       IN  [when |-> e.when, handle |-> e.handle]]
  BY DEF OrderOf, R
<1> HIDE DEF S
<1> QED
  BY <1>2, <1>3, <1>4 DEF Plain

\* Its entries are what callers passed to Schedule, in the order of deadlines.
LEMMA PlainProperties ==
  ASSUME NEW p \in Seq(HeapEntry), \A i, j \in 1..Len(p) : i < j => Later(p[j], p[i])
  PROVE  /\ Plain(p) \in Seq(Entry(Moment, Handle)) /\ Len(Plain(p)) = Len(p)
         /\ \A i \in 1..Len(p) :
              Plain(p)[i] = [when |-> p[i].when, handle |-> p[i].handle]
         /\ \A i, j \in 1..Len(p) : i < j => p[i].when <= p[j].when
<1>1. Len(p) \in Nat /\ \A i \in 1..Len(p) : p[i] \in HeapEntry
  OBVIOUS
<1>2. \A i \in 1..Len(p) : [when |-> p[i].when, handle |-> p[i].handle] \in Entry(Moment, Handle)
  BY <1>1, EntryTypes DEF Entry
<1>3. Plain(p) \in [1..Len(p) -> Entry(Moment, Handle)]
  BY <1>2 DEF Plain
<1>4. Plain(p) \in Seq(Entry(Moment, Handle)) /\ Len(Plain(p)) = Len(p)
  BY <1>1, <1>3
<1>5. ASSUME NEW i \in 1..Len(p), NEW j \in 1..Len(p), i < j
      PROVE  p[i].when <= p[j].when
  <2>1. Later(p[j], p[i]) /\ p[i].when \in Nat /\ p[j].when \in Nat
    BY <1>1, <1>5, EntryTypes
  <2> QED
    BY <2>1 DEF Later
<1> QED
  BY <1>4, <1>5 DEF Plain

-----------------------------------------------------------------------------
(* The invariant.                                                          *)

\* A sequence number stands for one entry.
Numbered(S) == \A e, f \in S : e.sequence = f.sequence => e = f

\* No two places of the vector hold one sequence number, and the counter is past
\* all that it holds.
SequenceOK ==
  /\ \A i, j \in 1..Len(entries) :
       entries[i].sequence = entries[j].sequence => i = j
  /\ \A i \in 1..Len(entries) : entries[i].sequence < nextSequence

\* The vector is in heap order, and its entries can be ranked.
HeapOK ==
  /\ IsHeap(entries)
  /\ SequenceOK
  /\ \E p : Ranking(p, Elements(entries))

IInv == TypeOK /\ HeapOK

\* The same of the set of its entries.
LEMMA SequenceMeans ==
  ASSUME entries \in Seq(HeapEntry)
  PROVE  SequenceOK <=> /\ \A i, j \in 1..Len(entries) : entries[i] = entries[j] => i = j
                        /\ Numbered(Elements(entries))
                        /\ \A e \in Elements(entries) : e.sequence < nextSequence
BY DEF SequenceOK, Numbered, Elements

\* What it says of the order of popping, and of the front of the vector.
LEMMA IInvMeans ==
  ASSUME IInv
  PROVE  \E p : /\ Ranking(p, Elements(entries)) /\ Len(p) = Len(entries)
                /\ PopOrder = Plain(p)
                /\ entries # <<>> => p # <<>> /\ entries[1] = p[1]
<1> USE DEF IInv, TypeOK, HeapOK
<1>1. \A i, j \in 1..Len(entries) : entries[i] = entries[j] => i = j
  BY SequenceMeans
<1>2. PICK p : Ranking(p, Elements(entries))
  OBVIOUS
<1>3. PopOrder = Plain(p) /\ Len(p) = Len(entries)
  <2>1. OrderOf(entries) = PopOrder
    BY DEF OrderOf, PopOrder, Rank
  <2> QED
    BY <1>1, <1>2, <2>1, OrderIs
<1>4. ASSUME entries # <<>> PROVE p # <<>> /\ entries[1] = p[1]
  <2>1. Len(entries) \in Nat /\ Len(entries) > 0 /\ p \in Seq(HeapEntry)
    BY <1>2, <1>4 DEF Ranking
  <2>2. PICK j \in 1..Len(p) : entries[1] = p[j]
    <3>1. entries[1] \in Elements(entries)
      BY <2>1 DEF Elements
    <3> QED
      BY <1>2, <3>1 DEF Ranking
  <2>3. PICK i \in 1..Len(entries) : entries[i] = p[1]
    <3>1. 1 \in 1..Len(p)
      BY <1>3, <2>1
    <3>2. p[1] \in Elements(entries)
      BY <1>2, <3>1 DEF Ranking
    <3> QED
      BY <3>2 DEF Elements
  <2>4. ~Later(p[j], p[1])
    BY <2>2, <2>3, FrontIsFirst
  <2>5. j = 1
    BY <1>2, <1>3, <2>1, <2>4 DEF Ranking
  <2> QED
    BY <1>3, <2>1, <2>2, <2>5
<1> QED
  BY <1>2, <1>3, <1>4

\* It holds at first.
LEMMA InitIInv == Init => IInv /\ Queue!Init
<1> SUFFICES ASSUME Init PROVE IInv /\ Queue!Init
  OBVIOUS
<1>1. entries = <<>> /\ nextSequence = 0 /\ popped = None /\ Len(entries) = 0
  BY DEF Init
<1>2. TypeOK
  BY <1>1, HeapAssumption DEF TypeOK
<1>3. Elements(entries) = {} /\ 1..Len(entries) = {}
  BY <1>1 DEF Elements
<1>4. Ranking(<<>>, {})
  BY DEF Ranking
<1>5. HeapOK
  <2>1. SequenceOK
    BY <1>3 DEF SequenceOK
  <2>2. IsHeap(entries)
    BY <1>1 DEF IsHeap
  <2> QED
    BY <1>3, <1>4, <2>1, <2>2 DEF HeapOK
<1>6. PopOrder = <<>>
  BY <1>1 DEF PopOrder
<1> QED
  BY <1>1, <1>2, <1>5, <1>6 DEF IInv, Queue!Init, NextDeadline

-----------------------------------------------------------------------------
(* Insertion.                                                              *)

\* The new entry is the last of those with its deadline, as in Schedule.
LEMMA RankedInsert ==
  ASSUME NEW p, NEW S, Ranking(p, S), NEW e \in HeapEntry,
         \A f \in S : f.sequence < e.sequence
  PROVE  \E q : /\ Ranking(q, S \cup {e})
                /\ Plain(q) = Schedule(Plain(p), e.when, e.handle)
<1> DEFINE n == Len(p)
           k == DueCount(Plain(p), e.when)
           q == [i \in 1..(n + 1) |-> IF i <= k THEN p[i] ELSE IF i = k + 1 THEN e ELSE p[i - 1]]
<1>1. /\ p \in Seq(HeapEntry) /\ n \in Nat /\ \A i \in 1..n : p[i] \in HeapEntry
      /\ \A i, j \in 1..n : i < j => Later(p[j], p[i])
      /\ S = {p[i] : i \in 1..n}
  BY DEF Ranking
<1>2. /\ Plain(p) \in Seq(Entry(Moment, Handle)) /\ Len(Plain(p)) = n
      /\ \A i \in 1..n : Plain(p)[i] = [when |-> p[i].when, handle |-> p[i].handle]
      /\ \A i, j \in 1..n : i < j => p[i].when <= p[j].when
  BY <1>1, PlainProperties
<1>3. e.when \in Moment /\ e.when \in Nat /\ e.handle \in Handle /\ e.sequence \in Nat
  BY EntryTypes
<1>4. InsertsInOrder(Schedule(Plain(p), e.when, e.handle), Plain(p), k,
                     [when |-> e.when, handle |-> e.handle], Entry(Moment, Handle))
  BY <1>2, <1>3, HeapAssumption, ScheduleProperties
<1>5. /\ k \in 0..n
      /\ \A i \in 1..k : p[i].when <= e.when
      /\ k < n => p[k + 1].when > e.when
  <2>1. /\ k \in 0..Len(Plain(p))
        /\ \A i \in 1..k : Plain(p)[i].when <= e.when
        /\ k < Len(Plain(p)) => Plain(p)[k + 1].when > e.when
    <3>1. Plain(p) \in Seq(Entry(Nat, Handle))
      <4>1. Entry(Moment, Handle) \subseteq Entry(Nat, Handle)
        BY HeapAssumption DEF Entry
      <4> QED
        BY <1>2, <4>1
    <3> QED
      BY <1>3, <3>1, DueCountProperties DEF StopsAt
  <2> HIDE DEF k, n
  <2> QED
    BY <1>1, <1>2, <2>1
<1> HIDE DEF k, n
<1>6. ASSUME NEW i \in (k + 1)..n PROVE p[i].when > e.when
  <2>1. k + 1 \in 1..n /\ i \in 1..n /\ k < n /\ (k + 1 < i \/ k + 1 = i)
    BY <1>1, <1>5
  <2>2. p[k + 1].when <= p[i].when
    BY <1>1, <1>2, <2>1, EntryTypes
  <2>3. p[k + 1].when \in Nat /\ p[i].when \in Nat
    BY <1>1, <2>1, EntryTypes
  <2> QED
    BY <1>3, <1>5, <2>1, <2>2, <2>3
<1>7. ASSUME NEW i \in 1..k PROVE i \in 1..n /\ Later(e, p[i])
  <2>1. i \in 1..n /\ p[i].when <= e.when /\ p[i] \in S
    BY <1>1, <1>5
  <2>2. p[i].when \in Nat /\ p[i].sequence \in Nat /\ p[i].sequence < e.sequence
    BY <1>1, <2>1, EntryTypes
  <2> QED
    BY <1>3, <2>1, <2>2 DEF Later
<1>8. ASSUME NEW i \in (k + 1)..n PROVE i \in 1..n /\ Later(p[i], e)
  <2>1. i \in 1..n
    BY <1>1, <1>5
  <2>2. p[i].when \in Nat
    BY <1>1, <2>1, EntryTypes
  <2> QED
    BY <1>3, <1>6, <2>1, <2>2 DEF Later
<1>9. /\ q \in Seq(HeapEntry) /\ Len(q) = n + 1
      /\ \A i \in 1..k : q[i] = p[i]
      /\ q[k + 1] = e
      /\ \A i \in (k + 2)..(n + 1) : i - 1 \in (k + 1)..n /\ q[i] = p[i - 1]
  <2>1. \A i \in 1..(n + 1) : q[i] \in HeapEntry
    BY <1>1, <1>5
  <2>2. q \in [1..(n + 1) -> HeapEntry]
    BY <2>1
  <2>3. q \in Seq(HeapEntry) /\ Len(q) = n + 1
    <3> HIDE DEF q
    <3>1. n + 1 \in Nat
      BY <1>1
    <3>2. \A m \in Nat : \A f \in [1..m -> HeapEntry] : f \in Seq(HeapEntry) /\ Len(f) = m
      OBVIOUS
    <3> QED
      BY <2>2, <3>1, <3>2
  <2> QED
    BY <1>1, <1>5, <2>3
<1>10. \A i \in 1..(n + 1) : i \in 1..k \/ i = k + 1 \/ i \in (k + 2)..(n + 1)
  BY <1>1, <1>5
<1>11. Plain(q) = Schedule(Plain(p), e.when, e.handle)
  <2> DEFINE s == Schedule(Plain(p), e.when, e.handle)
  <2>1. /\ s \in Seq(Entry(Moment, Handle)) /\ Len(s) = n + 1
        /\ \A i \in 1..(n + 1) :
             s[i] = IF i <= k THEN Plain(p)[i]
                    ELSE IF i = k + 1 THEN [when |-> e.when, handle |-> e.handle]
                    ELSE Plain(p)[i - 1]
    BY <1>2, <1>4 DEF InsertsInOrder
  <2>2. Plain(q) = [i \in 1..(n + 1) |-> [when |-> q[i].when, handle |-> q[i].handle]]
    BY <1>9 DEF Plain
  <2>3. s = [i \in 1..(n + 1) |-> s[i]]
    <3> HIDE DEF s
    <3>1. s = [i \in 1..Len(s) |-> s[i]]
      BY <2>1, AsFunction
    <3> QED
      BY <2>1, <3>1
  <2> HIDE DEF s, q
  <2>4. \A i \in 1..(n + 1) : s[i] = [when |-> q[i].when, handle |-> q[i].handle]
    <3> SUFFICES ASSUME NEW i \in 1..(n + 1)
                 PROVE  s[i] = [when |-> q[i].when, handle |-> q[i].handle]
      OBVIOUS
    <3>1. CASE i \in 1..k
      <4>1. i \in 1..n /\ i <= k
        BY <1>1, <1>5, <3>1
      <4>2. s[i] = Plain(p)[i] /\ q[i] = p[i]
        BY <1>9, <2>1, <3>1, <4>1
      <4> QED
        BY <1>2, <4>1, <4>2
    <3>2. CASE i = k + 1
      <4>1. ~(i <= k)
        BY <1>5, <3>2
      <4> QED
        BY <1>9, <2>1, <3>2, <4>1
    <3>3. CASE i \in (k + 2)..(n + 1)
      <4>1. ~(i <= k) /\ i # k + 1 /\ i - 1 \in 1..n
        BY <1>1, <1>5, <3>3
      <4>2. s[i] = Plain(p)[i - 1] /\ q[i] = p[i - 1]
        BY <1>9, <2>1, <3>3, <4>1
      <4> QED
        BY <1>2, <4>1, <4>2
    <3> QED
      BY <1>10, <3>1, <3>2, <3>3
  <2> QED
    BY <2>2, <2>3, <2>4 DEF s
<1> HIDE DEF q
<1>12. S \cup {e} = {q[i] : i \in 1..Len(q)}
  <2>1. \A i \in 1..(n + 1) : q[i] \in S \cup {e}
    BY <1>1, <1>5, <1>9, <1>10
  <2>2. \A i \in 1..n : \E j \in 1..(n + 1) : q[j] = p[i]
    <3> SUFFICES ASSUME NEW i \in 1..n PROVE \E j \in 1..(n + 1) : q[j] = p[i]
      OBVIOUS
    <3>1. CASE i <= k
      BY <1>1, <1>5, <1>9, <3>1
    <3>2. CASE i > k
      <4>1. i + 1 \in (k + 2)..(n + 1) /\ i + 1 \in 1..(n + 1) /\ (i + 1) - 1 = i
        BY <1>1, <1>5, <3>2
      <4> QED
        BY <1>9, <4>1
    <3> QED
      BY <1>1, <1>5, <3>1, <3>2
  <2>3. k + 1 \in 1..(n + 1)
    BY <1>1, <1>5
  <2>4. \A x \in S \cup {e} : \E j \in 1..(n + 1) : q[j] = x
    BY <1>1, <1>9, <2>2, <2>3
  <2>5. Len(q) = n + 1
    BY <1>9
  <2> QED
    BY <2>1, <2>4, <2>5
<1>13. ASSUME NEW i \in 1..(n + 1), NEW j \in 1..(n + 1), i < j
       PROVE  Later(q[j], q[i])
  <2>1. CASE j \in 1..k
    <3>1. i \in 1..k /\ i \in 1..n /\ j \in 1..n
      BY <1>1, <1>5, <1>13, <2>1
    <3> QED
      BY <1>1, <1>9, <1>13, <2>1, <3>1
  <2>2. CASE j = k + 1
    <3>1. i \in 1..k
      BY <1>1, <1>5, <1>13, <2>2
    <3> QED
      BY <1>7, <1>9, <2>2, <3>1
  <2>3. CASE j \in (k + 2)..(n + 1)
    <3>1. q[j] = p[j - 1] /\ j - 1 \in 1..n /\ j - 1 \in (k + 1)..n
      BY <1>1, <1>5, <1>9, <2>3
    <3>2. CASE i \in 1..k
      <4>1. i \in 1..n /\ i < j - 1
        BY <1>1, <1>5, <2>3, <3>2
      <4> QED
        BY <1>1, <1>9, <3>1, <3>2, <4>1
    <3>3. CASE i = k + 1
      BY <1>8, <1>9, <3>1, <3>3
    <3>4. CASE i \in (k + 2)..(n + 1)
      <4>1. i - 1 \in 1..n /\ i - 1 < j - 1
        BY <1>1, <1>5, <1>13, <3>4
      <4> QED
        BY <1>1, <1>9, <3>1, <3>4, <4>1
    <3> QED
      BY <1>10, <3>2, <3>3, <3>4
  <2> QED
    BY <1>10, <2>1, <2>2, <2>3
<1>14. Ranking(q, S \cup {e})
  BY <1>9, <1>12, <1>13 DEF Ranking
<1> QED
  BY <1>11, <1>14

-----------------------------------------------------------------------------
(* Removal.                                                                *)

\* What remains when the first entry is popped is ranked as before.
LEMMA RankedTail ==
  ASSUME NEW p, NEW S, Ranking(p, S), p # <<>>
  PROVE  Ranking(Tail(p), S \ {p[1]}) /\ Plain(Tail(p)) = Tail(Plain(p))
<1> DEFINE n == Len(p)
<1>1. /\ p \in Seq(HeapEntry) /\ n \in Nat /\ n >= 1
      /\ \A i, j \in 1..n : i < j => Later(p[j], p[i])
      /\ S = {p[i] : i \in 1..n}
  BY DEF Ranking
<1>2. /\ Tail(p) \in Seq(HeapEntry) /\ Len(Tail(p)) = n - 1
      /\ \A i \in 1..(n - 1) : i + 1 \in 1..n /\ Tail(p)[i] = p[i + 1]
  BY <1>1
<1>3. \A i, j \in 1..(n - 1) : i < j => Later(Tail(p)[j], Tail(p)[i])
  BY <1>1, <1>2
<1>4. S \ {p[1]} = {Tail(p)[i] : i \in 1..(n - 1)}
  <2>1. ASSUME NEW i \in 1..(n - 1) PROVE p[i + 1] \in S \ {p[1]}
    <3>1. i + 1 \in 1..n /\ 1 \in 1..n /\ i + 1 # 1
      BY <1>1
    <3>2. p[i + 1] # p[1]
      BY <3>1, RankIs
    <3> QED
      BY <1>1, <3>1, <3>2
  <2>2. ASSUME NEW x \in S \ {p[1]} PROVE \E i \in 1..(n - 1) : Tail(p)[i] = x
    <3>1. PICK j \in 1..n : x = p[j]
      BY <1>1
    <3>2. j - 1 \in 1..(n - 1) /\ (j - 1) + 1 = j
      BY <1>1, <2>2, <3>1
    <3> QED
      BY <1>2, <3>1, <3>2
  <2> QED
    BY <1>2, <2>1, <2>2
<1>5. Ranking(Tail(p), S \ {p[1]})
  BY <1>2, <1>3, <1>4 DEF Ranking
<1>6. Plain(Tail(p)) = Tail(Plain(p))
  <2>1. /\ Plain(p) \in Seq(Entry(Moment, Handle)) /\ Len(Plain(p)) = n
        /\ \A i \in 1..n : Plain(p)[i] = [when |-> p[i].when, handle |-> p[i].handle]
    BY <1>1, PlainProperties
  <2>2. Tail(Plain(p)) = [i \in 1..(n - 1) |-> Plain(p)[i + 1]]
    BY <1>1, <2>1, FrontAndTail
  <2>3. Plain(Tail(p)) = [i \in 1..(n - 1) |->
                            [when |-> Tail(p)[i].when, handle |-> Tail(p)[i].handle]]
    BY <1>2 DEF Plain
  <2> QED
    BY <1>2, <2>1, <2>2, <2>3
<1> QED
  BY <1>5, <1>6

-----------------------------------------------------------------------------
(* The steps.                                                              *)

\* The elements of the vector are finitely many.
LEMMA ElementsFinite ==
  ASSUME entries \in Seq(HeapEntry)
  PROVE  IsFiniteSet(Elements(entries)) /\ Elements(entries) \subseteq HeapEntry
<1>1. Len(entries) \in Nat /\ \A i \in 1..Len(entries) : entries[i] \in HeapEntry
  OBVIOUS
<1>2. IsFiniteSet(1..Len(entries))
  BY <1>1, FS_Interval
<1>3. entries \in Surjection(1..Len(entries), Elements(entries))
  BY <1>1 DEF Surjection, Elements
<1> QED
  BY <1>1, <1>2, <1>3, FS_Surjection DEF Elements

\* The order of popping after a step that rebuilds the heap from ranked entries.
LEMMA Rebuilt ==
  ASSUME NEW S, S \subseteq HeapEntry, IsFiniteSet(S), entries' \in HeapsOf(S),
         nextSequence' \in 0..MaxSchedules, \A e \in S : e.sequence < nextSequence',
         Numbered(S),
         popped' \in Entry(Moment, Handle) \cup {None},
         NEW q, Ranking(q, S)
  PROVE  IInv' /\ PopOrder' = Plain(q) /\ NextDeadline' = Queue!Earliest(Plain(q))
<1>1. /\ entries' \in Seq(HeapEntry) /\ Elements(entries') = S
      /\ \A i, j \in 1..Len(entries') : entries'[i] = entries'[j] => i = j
      /\ IsHeap(entries')
  BY HeapProperties
<1>2. IInv'
  <2>1. SequenceOK'
    BY <1>1 DEF SequenceOK, Numbered, Elements
  <2> QED
    BY <1>1, <2>1 DEF IInv, TypeOK, HeapOK
<1>3. OrderOf(entries') = PopOrder'
  BY DEF OrderOf, PopOrder, Rank
<1>4. OrderOf(entries') = Plain(q) /\ Len(q) = Len(entries')
  BY <1>1, OrderIs
<1>5. q \in Seq(HeapEntry) /\ Plain(q) \in Seq(Entry(Moment, Handle)) /\ Len(Plain(q)) = Len(q)
      /\ \A i \in 1..Len(q) : Plain(q)[i] = [when |-> q[i].when, handle |-> q[i].handle]
  BY PlainProperties DEF Ranking
<1>6. NextDeadline' = Queue!Earliest(Plain(q))
  <2>1. CASE entries' = <<>>
    <3>1. Len(Plain(q)) = 0
      BY <1>4, <1>5, <2>1
    <3>2. Plain(q) = <<>>
      BY <1>5, <3>1
    <3> QED
      BY <2>1, <3>2 DEF NextDeadline, Queue!Earliest
  <2>2. CASE entries' # <<>>
    <3>1. Len(entries') \in Nat /\ Len(entries') > 0 /\ 1 \in 1..Len(q)
      BY <1>1, <1>4, <2>2
    <3>2. entries'[1] = q[1]
      <4>1. PICK j \in 1..Len(q) : entries'[1] = q[j]
        <5>1. entries'[1] \in Elements(entries')
          BY <3>1 DEF Elements
        <5> QED
          BY <1>1, <5>1 DEF Ranking
      <4>2. PICK i \in 1..Len(entries') : entries'[i] = q[1]
        <5>1. q[1] \in Elements(entries')
          BY <1>1, <3>1 DEF Ranking
        <5> QED
          BY <5>1 DEF Elements
      <4>3. ~Later(q[j], q[1])
        BY <1>1, <4>1, <4>2, FrontIsFirst
      <4>4. j = 1
        BY <3>1, <4>3 DEF Ranking
      <4> QED
        BY <4>1, <4>4
    <3>3. Plain(q) # <<>> /\ Head(Plain(q)).when = q[1].when
      <4>1. Len(q) \in Nat /\ Len(q) >= 1
        BY <1>4, <3>1
      <4>2. Plain(q) # <<>> /\ Head(Plain(q)) = Plain(q)[1]
        BY <1>5, <4>1, FrontAndTail
      <4>3. Plain(q)[1] = [when |-> q[1].when, handle |-> q[1].handle]
        BY <1>5, <3>1
      <4> QED
        BY <4>2, <4>3
    <3> QED
      BY <2>2, <3>2, <3>3 DEF NextDeadline, Queue!Earliest
  <2> QED
    BY <2>1, <2>2
<1> QED
  BY <1>2, <1>3, <1>4, <1>6

\* Insertion is that of the queue.
LEMMA InsertStep ==
  ASSUME IInv, NEW when \in Moment, NEW handle \in Handle, Insert(when, handle)
  PROVE  IInv' /\ Queue!Insert(when, handle)
<1> DEFINE e == [when |-> when, handle |-> handle, sequence |-> nextSequence]
           S == Elements(entries)
<1>1. /\ entries' \in HeapsOf(S \cup {e}) /\ nextSequence' = nextSequence + 1
      /\ popped' = None /\ nextSequence < MaxSchedules
  BY DEF Insert
<1>2. nextSequence \in 0..MaxSchedules /\ entries \in Seq(HeapEntry)
      /\ \A f \in S : f.sequence < nextSequence
      /\ Numbered(S)
  BY SequenceMeans DEF IInv, TypeOK, HeapOK
<1>3. e \in HeapEntry
  BY <1>2 DEF HeapEntry
<1>4. IsFiniteSet(S) /\ S \subseteq HeapEntry
  BY <1>2, ElementsFinite
<1>5. nextSequence' \in 0..MaxSchedules
  BY <1>1, <1>2, HeapAssumption
<1>6. \A f \in S \cup {e} : f.sequence < nextSequence'
  <2>1. \A f \in S : f.sequence \in Nat
    BY <1>4, EntryTypes
  <2> QED
    BY <1>1, <1>2, <2>1, HeapAssumption
<1>7. PICK p : Ranking(p, S) /\ PopOrder = Plain(p)
  BY IInvMeans
<1> HIDE DEF S
<1>8. e.when = when /\ e.handle = handle /\ e.sequence = nextSequence
  OBVIOUS
<1> HIDE DEF e
<1>9. PICK q : Ranking(q, S \cup {e}) /\ Plain(q) = Schedule(Plain(p), when, handle)
  BY <1>2, <1>3, <1>7, <1>8, RankedInsert
<1>10. IsFiniteSet(S \cup {e}) /\ S \cup {e} \subseteq HeapEntry
  BY <1>3, <1>4, FS_AddElement
<1>11. Numbered(S \cup {e})
  <2>1. nextSequence \in Nat /\ \A f \in S : f.sequence \in Nat
    BY <1>2, <1>4, EntryTypes, HeapAssumption
  <2> QED
    BY <1>2, <1>8, <2>1 DEF Numbered
<1>12. IInv' /\ PopOrder' = Plain(q) /\ NextDeadline' = Queue!Earliest(Plain(q))
  BY <1>1, <1>5, <1>6, <1>9, <1>10, <1>11, Rebuilt
<1>13. \A t, w, h : Queue!Schedule(t, w, h) = Schedule(t, w, h)
  BY DEF Queue!Schedule, Schedule, Queue!DueCount, DueCount
<1> QED
  BY <1>1, <1>7, <1>9, <1>12, <1>13 DEF Queue!Insert

\* So is removal.
LEMMA PopDueStep ==
  ASSUME IInv, NEW now \in Moment, PopDue(now)
  PROVE  IInv' /\ Queue!PopDue(now)
<1> DEFINE S == Elements(entries)
<1>1. PICK p : /\ Ranking(p, S) /\ Len(p) = Len(entries) /\ PopOrder = Plain(p)
               /\ entries # <<>> => p # <<>> /\ entries[1] = p[1]
  BY IInvMeans
<1>2. /\ p \in Seq(HeapEntry) /\ Len(p) \in Nat
      /\ Plain(p) \in Seq(Entry(Moment, Handle)) /\ Len(Plain(p)) = Len(p)
      /\ \A i \in 1..Len(p) : Plain(p)[i] = [when |-> p[i].when, handle |-> p[i].handle]
  BY <1>1, PlainProperties DEF Ranking
<1> DEFINE First == Plain(p) # <<>> /\ Head(Plain(p)) = Plain(p)[1]
                    /\ Head(Plain(p)).when = p[1].when /\ p[1].when \in Nat
<1>3. ASSUME 1 \in 1..Len(p) PROVE First
  <2>1. Len(p) >= 1 /\ p[1] \in HeapEntry
    BY <1>2, <1>3
  <2>2. Plain(p) # <<>> /\ Head(Plain(p)) = Plain(p)[1]
    BY <1>2, <2>1, FrontAndTail
  <2>3. p[1].when \in Nat
    BY <2>1, EntryTypes
  <2>4. Plain(p)[1] = [when |-> p[1].when, handle |-> p[1].handle]
    BY <1>2, <1>3
  <2> QED
    BY <2>2, <2>3, <2>4
<1>4. now \in Nat
  BY HeapAssumption
<1>5. \A t, n : Queue!HasDue(t, n) <=> HasDue(t, n)
  BY DEF Queue!HasDue, HasDue
<1>6. entries \in Seq(HeapEntry) /\ IsFiniteSet(S) /\ S \subseteq HeapEntry
  BY ElementsFinite DEF IInv, TypeOK
<1>7. CASE entries = <<>> \/ entries[1].when > now
  <2>1. popped' = None /\ UNCHANGED <<entries, nextSequence>>
    BY <1>7 DEF PopDue
  <2>2. IInv'
    BY <2>1 DEF IInv, TypeOK, HeapOK, SequenceOK
  <2>3. PopOrder' = PopOrder /\ NextDeadline' = NextDeadline
    BY <2>1 DEF PopOrder, Rank, NextDeadline
  <2>4. ~HasDue(PopOrder, now)
    <3>1. CASE entries = <<>>
      <4>1. Len(Plain(p)) = 0
        BY <1>1, <1>2, <3>1
      <4>2. Plain(p) = <<>>
        BY <1>2, <4>1
      <4> QED
        BY <1>1, <4>2 DEF HasDue
    <3>2. CASE entries # <<>>
      <4>1. 1 \in 1..Len(p) /\ p[1] \in HeapEntry
        BY <1>1, <1>2, <3>2
      <4>2. Head(Plain(p)).when = entries[1].when /\ entries[1].when \in Nat
        BY <1>1, <1>3, <3>2, <4>1
      <4> QED
        BY <1>1, <1>7, <1>4, <3>2, <4>2 DEF HasDue
    <3> QED
      BY <3>1, <3>2
  <2>5. NextDeadline = Queue!Earliest(PopOrder)
    <3>1. CASE entries = <<>>
      <4>1. Len(Plain(p)) = 0
        BY <1>1, <1>2, <3>1
      <4>2. Plain(p) = <<>>
        BY <1>2, <4>1
      <4> QED
        BY <1>1, <3>1, <4>2 DEF NextDeadline, Queue!Earliest
    <3>2. CASE entries # <<>>
      <4>1. 1 \in 1..Len(p)
        BY <1>1, <1>2, <3>2
      <4>2. Plain(p) # <<>> /\ Head(Plain(p)).when = p[1].when
        BY <1>3, <4>1
      <4> QED
        BY <1>1, <3>2, <4>2 DEF NextDeadline, Queue!Earliest
    <3> QED
      BY <3>1, <3>2
  <2> QED
    BY <1>5, <2>1, <2>2, <2>3, <2>4, <2>5 DEF Queue!PopDue
<1>8. CASE ~(entries = <<>> \/ entries[1].when > now)
  <2>1. /\ entries' \in HeapsOf(S \ {p[1]}) /\ UNCHANGED nextSequence
        /\ popped' = [when |-> p[1].when, handle |-> p[1].handle]
    BY <1>1, <1>8 DEF PopDue
  <2>2. 1 \in 1..Len(p) /\ p[1] \in HeapEntry /\ p # <<>>
    BY <1>1, <1>2, <1>8
  <2>3. Ranking(Tail(p), S \ {p[1]}) /\ Plain(Tail(p)) = Tail(Plain(p))
    BY <1>1, <2>2, RankedTail
  <2>4. popped' = Plain(p)[1] /\ popped' \in Entry(Moment, Handle)
    BY <1>2, <2>1, <2>2
  <2>5. /\ nextSequence' \in 0..MaxSchedules /\ \A e \in S : e.sequence < nextSequence'
        /\ Numbered(S)
    BY <2>1, SequenceMeans DEF IInv, TypeOK, HeapOK
  <2>6. IsFiniteSet(S \ {p[1]}) /\ S \ {p[1]} \subseteq HeapEntry
    BY <1>6, FS_RemoveElement
  <2> HIDE DEF S
  <2>7. IInv' /\ PopOrder' = Plain(Tail(p)) /\ NextDeadline' = Queue!Earliest(Plain(Tail(p)))
    <3>1. Numbered(S \ {p[1]})
      BY <2>5 DEF Numbered
    <3> QED
      BY <2>1, <2>3, <2>4, <2>5, <2>6, <3>1, Rebuilt
  <2>8. Plain(p) # <<>> /\ Head(Plain(p)) = Plain(p)[1]
    BY <1>3, <2>2
  <2>9. HasDue(PopOrder, now)
    <3>1. Head(Plain(p)).when = p[1].when /\ p[1].when \in Nat /\ now \in Nat
      BY <1>3, <1>4, <2>2
    <3>2. ~(p[1].when > now)
      BY <1>1, <1>8
    <3> QED
      BY <1>1, <2>8, <3>1, <3>2 DEF HasDue
  <2> QED
    BY <1>1, <1>5, <2>3, <2>4, <2>7, <2>8, <2>9 DEF Queue!PopDue
<1> QED
  BY <1>7, <1>8

\* Every step of the vector is one of the queue.
LEMMA StepRefines ==
  ASSUME IInv, [Next]_vars
  PROVE  IInv' /\ [Queue!Next]_(Queue!vars)
<1>1. CASE Next
  BY <1>1, InsertStep, PopDueStep DEF Next, Queue!Next
<1>2. CASE UNCHANGED vars
  <2>1. UNCHANGED <<entries, nextSequence, popped>>
    BY <1>2 DEF vars
  <2>2. IInv'
    BY <2>1 DEF IInv, TypeOK, HeapOK, SequenceOK
  <2>3. PopOrder' = PopOrder /\ NextDeadline' = NextDeadline
    BY <2>1 DEF PopOrder, Rank, NextDeadline
  <2> QED
    BY <2>1, <2>2, <2>3 DEF Queue!vars
<1> QED
  BY <1>1, <1>2

-----------------------------------------------------------------------------
(* The theorems.                                                           *)

\* The invariant holds in every behaviour.
THEOREM Invariant == Spec => []IInv
BY InitIInv, StepRefines, PTL DEF Spec

\* Entries, counter and what PopDue returns keep their types, and whatever
\* push_heap and pop_heap choose, the vector is in heap order, holds no sequence
\* number twice and none that Schedule has yet to give out.
THEOREM HeapStaysOrdered == Spec => [](TypeOK /\ IsHeap(entries) /\ SequenceOK)
<1>1. IInv => TypeOK /\ IsHeap(entries) /\ SequenceOK
  BY DEF IInv, HeapOK
<1> QED
  BY <1>1, Invariant, PTL

\* TimerQueue pops the earliest deadline first and equal ones in the order of
\* their insertion, and tells the deadline of the entry it will pop next.
THEOREM HeapIsAQueue == Spec => ImplementsQueue
<1>1. Init => Queue!Init
  BY InitIInv
<1>2. IInv /\ [Next]_vars => [Queue!Next]_(Queue!vars)
  BY StepRefines
<1> QED
  BY <1>1, <1>2, Invariant, PTL DEF Spec, ImplementsQueue, Queue!Spec

=============================================================================
