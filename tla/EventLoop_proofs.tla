-------------------------- MODULE EventLoop_proofs --------------------------
(***************************************************************************)
(* Theorems about module EventLoop, for every set of handles and every     *)
(* bound on the clock: its invariant, and that it implements Scheduler.    *)
(* The lemmas about the operators of TimerQueue come first.                *)
(***************************************************************************)
EXTENDS EventLoop, SequenceTheorems, WellFoundedInduction, TLAPS

-----------------------------------------------------------------------------
(* The queue of timers, for entries of any deadlines and handles.          *)

(* Every nonempty set of naturals has a least element. *)
LEMMA LeastNatural ==
  ASSUME NEW S, S \subseteq Nat, S # {}
  PROVE  \E m \in S : \A n \in S : m <= n
<1>1. PICK R : /\ IsWellFoundedOn(R, Nat)
               /\ \A m, n \in Nat : <<n, m>> \in R <=> n < m
  <2>1. \A m, n \in Nat : <<n, m>> \in OpToRel(<, Nat) <=> n < m
    BY DEF OpToRel
  <2> QED
    BY <2>1, NatLessThanWellFounded, Zenon
<1>2. PICK m \in S : \A n \in S : ~ (<<n, m>> \in R)
  BY <1>1, WFMin
<1>3. \A n \in S : m \in Nat /\ n \in Nat /\ ~ (n < m)
  BY <1>1, <1>2
<1>4. \A n \in S : m <= n
  BY <1>3
<1> QED
  BY <1>4

(* DueCount is what its definition says: `while (PopDue(now))' stops, and  *)
(* where it stops is determined by the queue and the clock.                *)
LEMMA DueCountProperties ==
  ASSUME NEW H, NEW queue \in Seq(Entry(Nat, H)), NEW time \in Nat
  PROVE  /\ DueCount(queue, time) \in 0..Len(queue)
         /\ \A i \in 1..DueCount(queue, time) : queue[i].when <= time
         /\ DueCount(queue, time) < Len(queue) =>
              queue[DueCount(queue, time) + 1].when > time
<1> DEFINE Stop(n) == n < Len(queue) => queue[n + 1].when > time
           P(n) == (\A i \in 1..n : queue[i].when <= time) /\ Stop(n)
           S == {n \in Nat : n <= Len(queue) /\ Stop(n)}
<1>1. Len(queue) \in Nat /\ \A i \in 1..Len(queue) : queue[i].when \in Nat
  <2>1. Len(queue) \in Nat
    BY LenProperties
  <2>2. ASSUME NEW i \in 1..Len(queue) PROVE queue[i].when \in Nat
    <3>1. queue[i] \in Entry(Nat, H)
      BY ElementOfSeq
    <3> QED
      BY <3>1 DEF Entry
  <2> QED
    BY <2>1, <2>2
<1>2. PICK m \in S : \A n \in S : m <= n
  <2>1. Len(queue) \in S
    BY <1>1
  <2> QED
    BY <2>1, LeastNatural
<1>3. m \in 0..Len(queue) /\ P(m)
  <2>1. ASSUME NEW i \in 1..m PROVE queue[i].when <= time
    <3>1. i - 1 \in Nat /\ i - 1 < m /\ i - 1 < Len(queue) /\ (i - 1) + 1 = i
      BY <1>1, <1>2
    <3>2. i - 1 \notin S
      BY <3>1, <1>2
    <3>3. ~ (queue[(i - 1) + 1].when > time)
      BY <3>1, <3>2
    <3> QED
      BY <3>1, <3>3, <1>1
  <2> QED
    BY <2>1, <1>1, <1>2
<1>4. DueCount(queue, time) = CHOOSE n \in 0..Len(queue) : P(n)
  BY DEF DueCount
<1>5. LET d == CHOOSE n \in 0..Len(queue) : P(n)
      IN  d \in 0..Len(queue) /\ P(d)
  BY <1>3
<1> QED
  BY <1>4, <1>5

(* The handles of a queue, one per entry, in the same order. *)
LEMMA HandlesProperties ==
  ASSUME NEW M, NEW H, NEW queue \in Seq(Entry(M, H))
  PROVE  /\ Handles(queue) \in Seq(H)
         /\ Len(Handles(queue)) = Len(queue)
         /\ \A i \in 1..Len(queue) : Handles(queue)[i] = queue[i].handle
<1>1. Len(queue) \in Nat /\ \A i \in 1..Len(queue) : queue[i] \in Entry(M, H)
  BY LenProperties, ElementOfSeq
<1>2. \A i \in 1..Len(queue) : queue[i].handle \in H
  BY <1>1 DEF Entry
<1>3. Handles(queue) \in [1..Len(queue) -> H]
  BY <1>2 DEF Handles
<1> QED
  BY <1>1, <1>3 DEF Handles

(* Draining splits the queue in two: the due entries and the others, both  *)
(* in the order they had.                                                  *)
SplitsInOrder(queue, time, E) ==
  /\ DueCount(queue, time) \in 0..Len(queue)
  /\ Due(queue, time) \in Seq(E)
  /\ Len(Due(queue, time)) = DueCount(queue, time)
  /\ \A i \in 1..DueCount(queue, time) : Due(queue, time)[i] = queue[i]
  /\ NotDue(queue, time) \in Seq(E)
  /\ Len(NotDue(queue, time)) = Len(queue) - DueCount(queue, time)
  /\ \A i \in 1..(Len(queue) - DueCount(queue, time)) :
       NotDue(queue, time)[i] = queue[DueCount(queue, time) + i]

\* What has expired is a prefix of the queue, what has not is the rest.
LEMMA DrainProperties ==
  ASSUME NEW M, M \subseteq Nat, NEW H, NEW queue \in Seq(Entry(M, H)), NEW time \in Nat
  PROVE  SplitsInOrder(queue, time, Entry(M, H))
<1> DEFINE n == DueCount(queue, time)
           E == Entry(M, H)
<1>1. Len(queue) \in Nat /\ \A i \in 1..Len(queue) : queue[i] \in E
  BY LenProperties, ElementOfSeq
<1>2. n \in 0..Len(queue)
  <2>1. queue \in Seq(Entry(Nat, H))
    <3>1. E \subseteq Entry(Nat, H)
      BY DEF Entry
    <3> QED
      BY <3>1, SeqMonotonic
  <2> QED
    BY <2>1, DueCountProperties
<1> HIDE DEF n, E
<1>3. /\ SubSeq(queue, 1, n) \in Seq(E)
      /\ Len(SubSeq(queue, 1, n)) = n
      /\ \A i \in 1..n : SubSeq(queue, 1, n)[i] = queue[i]
  BY <1>1, <1>2, SubSeqProperties
<1>4. /\ SubSeq(queue, n + 1, Len(queue)) \in Seq(E)
      /\ Len(SubSeq(queue, n + 1, Len(queue))) = Len(queue) - n
      /\ \A i \in 1..(Len(queue) - n) :
           SubSeq(queue, n + 1, Len(queue))[i] = queue[n + i]
  BY <1>1, <1>2, SubSeqProperties
<1> QED
  BY <1>2, <1>3, <1>4 DEF SplitsInOrder, Due, NotDue, n, E

(* Scheduling inserts one entry and keeps the others in order. *)
InsertsInOrder(queue, when, handle, E) ==
  /\ DueCount(queue, when) \in 0..Len(queue)
  /\ Schedule(queue, when, handle) \in Seq(E)
  /\ Len(Schedule(queue, when, handle)) = Len(queue) + 1
  /\ \A i \in 1..(Len(queue) + 1) :
       Schedule(queue, when, handle)[i] =
         IF i <= DueCount(queue, when) THEN queue[i]
         ELSE IF i = DueCount(queue, when) + 1
           THEN [when |-> when, handle |-> handle]
         ELSE queue[i - 1]

\* A new entry goes behind those that are no later, and before the others.
LEMMA ScheduleProperties ==
  ASSUME NEW M, M \subseteq Nat, NEW H, NEW queue \in Seq(Entry(M, H)),
         NEW when \in M, NEW handle \in H
  PROVE  InsertsInOrder(queue, when, handle, Entry(M, H))
<1>0. SplitsInOrder(queue, when, Entry(M, H))
  <2>1. when \in Nat
    OBVIOUS
  <2> QED
    BY <2>1, DrainProperties
<1> DEFINE k == DueCount(queue, when)
           E == Entry(M, H)
           one == <<[when |-> when, handle |-> handle]>>
           early == SubSeq(queue, 1, k)
           late == SubSeq(queue, k + 1, Len(queue))
<1>1. /\ k \in 0..Len(queue)
      /\ early \in Seq(E) /\ Len(early) = k
      /\ \A i \in 1..k : early[i] = queue[i]
      /\ late \in Seq(E) /\ Len(late) = Len(queue) - k
      /\ \A i \in 1..(Len(queue) - k) : late[i] = queue[k + i]
  <2>1. early = Due(queue, when) /\ late = NotDue(queue, when)
    BY DEF Due, NotDue
  <2> QED
    BY <1>0, <2>1 DEF SplitsInOrder
<1>2. one \in Seq(E) /\ Len(one) = 1 /\ one[1] = [when |-> when, handle |-> handle]
  BY DEF Entry
<1>3. Len(queue) \in Nat
  BY LenProperties
<1> HIDE DEF k, E, one, early, late
<1>4. /\ early \o one \in Seq(E)
      /\ Len(early \o one) = Len(early) + Len(one)
      /\ \A i \in 1..(Len(early) + Len(one)) :
           (early \o one)[i] = IF i <= Len(early) THEN early[i] ELSE one[i - Len(early)]
  <2>1. early \in Seq(E) /\ one \in Seq(E)
    BY <1>1, <1>2
  <2> QED
    BY <2>1, ConcatProperties, Zenon
<1>5. /\ (early \o one) \o late \in Seq(E)
      /\ Len((early \o one) \o late) = Len(early \o one) + Len(late)
      /\ \A i \in 1..(Len(early \o one) + Len(late)) :
           ((early \o one) \o late)[i] =
             IF i <= Len(early \o one) THEN (early \o one)[i]
                                       ELSE late[i - Len(early \o one)]
  <2>1. (early \o one) \in Seq(E) /\ late \in Seq(E)
    BY <1>1, <1>4
  <2> QED
    BY <2>1, ConcatProperties, Zenon
<1> DEFINE new == (early \o one) \o late
<1>6. Schedule(queue, when, handle) = new
  BY DEF Schedule, early, one, late, k
<1>7. Len(new) = Len(queue) + 1
  BY <1>1, <1>2, <1>3, <1>4, <1>5
<1> HIDE DEF new
<1>8. ASSUME NEW i \in 1..(Len(queue) + 1)
      PROVE  new[i] = IF i <= k THEN queue[i]
                      ELSE IF i = k + 1 THEN [when |-> when, handle |-> handle]
                      ELSE queue[i - 1]
  <2>1. CASE i <= k
    BY <2>1, <1>1, <1>2, <1>3, <1>4, <1>5 DEF new
  <2>2. CASE i = k + 1
    BY <2>2, <1>1, <1>2, <1>3, <1>4, <1>5 DEF new
  <2>3. CASE i > k + 1
    <3>1. i - (k + 1) \in 1..(Len(queue) - k) /\ k + (i - (k + 1)) = i - 1
      BY <2>3, <1>1, <1>3
    <3>2. late[i - (k + 1)] = queue[i - 1]
      BY <3>1, <1>1
    <3>3. /\ Len(early \o one) = k + 1 /\ ~ (i <= k + 1)
          /\ i \in 1..(Len(early \o one) + Len(late))
      BY <2>3, <1>1, <1>2, <1>3, <1>4
    <3>4. new[i] = late[i - (k + 1)]
      BY <3>3, <1>5 DEF new
    <3> QED
      BY <2>3, <3>2, <3>4, <1>1, <1>3
  <2> QED
    <3>1. i \in Int /\ k \in Int
      BY <1>1, <1>3
    <3> QED
      BY <3>1, <2>1, <2>2, <2>3
<1>9. new \in Seq(E)
  BY <1>5 DEF new
<1> QED
  BY <1>1, <1>6, <1>7, <1>8, <1>9 DEF InsertsInOrder, k, E

-----------------------------------------------------------------------------
(* The queues of the loop.                                                 *)

\* Clock readings are naturals.
LEMMA MomentIsNat == Moment \subseteq Nat /\ \A t \in Moment : t \in Nat
  BY TimeAssumption DEF Moment

(* What the entries of a timer sequence are. *)
LEMMA TimerTypes ==
  ASSUME NEW t \in Seq(Entry(Moment, Handle))
  PROVE  /\ Len(t) \in Nat
         /\ \A i \in 1..Len(t) : t[i].when \in Moment /\ t[i].handle \in Handle
<1>1. Len(t) \in Nat /\ \A i \in 1..Len(t) : t[i] \in Entry(Moment, Handle)
  BY LenProperties, ElementOfSeq
<1> QED
  BY <1>1 DEF Entry

\* What the elements of a ready queue are.
LEMMA ReadyTypes ==
  ASSUME NEW r \in Seq(Handle)
  PROVE  Len(r) \in Nat /\ \A i \in 1..Len(r) : r[i] \in Handle
BY LenProperties, ElementOfSeq

(* RegisteredOnce, position by position: the form in which the proofs use  *)
(* it.                                                                     *)
Once(r, t, c) ==
  /\ \A i, j \in 1..Len(r) : r[i] = r[j] => i = j
  /\ \A i, j \in 1..Len(t) : t[i].handle = t[j].handle => i = j
  /\ \A i \in 1..Len(r), j \in 1..Len(t) : r[i] # t[j].handle
  /\ \A i \in 1..Len(r) : r[i] # c
  /\ \A j \in 1..Len(t) : t[j].handle # c

\* The set of handles that a timer sequence holds.
LEMMA ElementsOfHandles ==
  ASSUME NEW t \in Seq(Entry(Moment, Handle))
  PROVE  Elements(Handles(t)) = {t[i].handle : i \in 1..Len(t)}
<1>1. /\ Len(Handles(t)) = Len(t)
      /\ \A i \in 1..Len(t) : Handles(t)[i] = t[i].handle
  BY HandlesProperties
<1> QED
  BY <1>1 DEF Elements

(* Once is RegisteredOnce, with the sets it mentions taken apart. *)
LEMMA OnceMeans ==
  ASSUME NEW r \in Seq(Handle), NEW t \in Seq(Entry(Moment, Handle)), NEW c
  PROVE  Once(r, t, c) <=>
           /\ \A i, j \in 1..Len(r) : r[i] = r[j] => i = j
           /\ \A i, j \in 1..Len(t) : t[i].handle = t[j].handle => i = j
           /\ Elements(r) \cap Elements(Handles(t)) = {}
           /\ c \notin Elements(r) \cup Elements(Handles(t))
<1>1. Elements(Handles(t)) = {t[i].handle : i \in 1..Len(t)}
  BY ElementsOfHandles
<1>2. Elements(r) = {r[i] : i \in 1..Len(r)}
  BY DEF Elements
<1>3. Elements(r) \cap Elements(Handles(t)) = {}
        <=> \A i \in 1..Len(r), j \in 1..Len(t) : r[i] # t[j].handle
  BY <1>1, <1>2
<1>4. c \notin Elements(r) \cup Elements(Handles(t))
        <=> /\ \A i \in 1..Len(r) : r[i] # c
            /\ \A j \in 1..Len(t) : t[j].handle # c
  BY <1>1, <1>2
<1> QED
  BY <1>3, <1>4, Zenon DEF Once

-----------------------------------------------------------------------------
(* The ways in which the queues change preserve Once.                      *)

(* A handle that is nowhere is appended to the ready queue. *)
LEMMA OnceAppend ==
  ASSUME NEW r \in Seq(Handle), NEW t \in Seq(Entry(Moment, Handle)), NEW c, NEW d,
         NEW h \in Handle, Once(r, t, c), h # d,
         \A i \in 1..Len(r) : r[i] # h, \A j \in 1..Len(t) : t[j].handle # h,
         \A i \in 1..Len(r) : r[i] # d, \A j \in 1..Len(t) : t[j].handle # d
  PROVE  Once(Append(r, h), t, d)
<1> DEFINE s == Append(r, h)
<1>1. /\ Len(r) \in Nat
      /\ Len(s) = Len(r) + 1
      /\ \A i \in 1..Len(r) : s[i] = r[i]
      /\ s[Len(r) + 1] = h
  BY LenProperties, AppendProperties
<1> HIDE DEF s
<1>2. \A i \in 1..Len(s) : i \in 1..Len(r) \/ i = Len(r) + 1
  BY <1>1
<1>3. ASSUME NEW i \in 1..Len(s), NEW j \in 1..Len(s), s[i] = s[j]
      PROVE  i = j
  BY <1>1, <1>2, <1>3 DEF Once
<1>4. \A i \in 1..Len(s), j \in 1..Len(t) : s[i] # t[j].handle
  BY <1>1, <1>2 DEF Once
<1>5. \A i \in 1..Len(s) : s[i] # d
  BY <1>1, <1>2
<1>6. \A i, j \in 1..Len(t) : t[i].handle = t[j].handle => i = j
  BY DEF Once
<1> QED
  BY <1>3, <1>4, <1>5, <1>6, Zenon DEF Once, s

(* A handle that is nowhere is scheduled. *)
LEMMA OnceSchedule ==
  ASSUME NEW r \in Seq(Handle), NEW t \in Seq(Entry(Moment, Handle)), NEW c, NEW d,
         NEW h \in Handle, NEW w \in Moment, Once(r, t, c), h # d,
         \A i \in 1..Len(r) : r[i] # h, \A j \in 1..Len(t) : t[j].handle # h,
         \A i \in 1..Len(r) : r[i] # d, \A j \in 1..Len(t) : t[j].handle # d
  PROVE  Once(r, Schedule(t, w, h), d)
<1> DEFINE k == DueCount(t, w)
           s == Schedule(t, w, h)
<1>1. Len(r) \in Nat /\ Len(t) \in Nat
  BY LenProperties
<1>2. InsertsInOrder(t, w, h, Entry(Moment, Handle))
  BY MomentIsNat, ScheduleProperties
<1>3. /\ k \in 0..Len(t) /\ Len(s) = Len(t) + 1
      /\ \A i \in 1..(Len(t) + 1) :
           s[i].handle = IF i <= k THEN t[i].handle
                         ELSE IF i = k + 1 THEN h ELSE t[i - 1].handle
  BY <1>2 DEF InsertsInOrder
<1> HIDE DEF k, s
<1>4. ASSUME NEW i \in 1..Len(s)
      PROVE  s[i].handle = h \/ \E j \in 1..Len(t) : s[i].handle = t[j].handle
  <2>1. CASE i <= k
    BY <2>1, <1>1, <1>3
  <2>2. CASE i = k + 1
    BY <2>2, <1>1, <1>3
  <2>3. CASE i > k + 1
    <3>1. i - 1 \in 1..Len(t) /\ s[i].handle = t[i - 1].handle
      BY <2>3, <1>1, <1>3
    <3> QED
      BY <3>1
  <2> QED
    BY <2>1, <2>2, <2>3, <1>1, <1>3
<1>5. ASSUME NEW i \in 1..Len(s), NEW j \in 1..Len(s), s[i].handle = s[j].handle
      PROVE  i = j
  <2> DEFINE Source(n) == IF n <= k THEN n ELSE n - 1
  <2>1. ASSUME NEW n \in 1..Len(s), n # k + 1
        PROVE  Source(n) \in 1..Len(t) /\ s[n].handle = t[Source(n)].handle
    <3>1. CASE n <= k
      BY <3>1, <1>1, <1>3
    <3>2. CASE n > k
      <4>1. n > k + 1 /\ n \in 1..(Len(t) + 1)
        BY <3>2, <2>1, <1>1, <1>3
      <4> QED
        BY <4>1, <1>1, <1>3
    <3> QED
      BY <3>1, <3>2, <1>3
  <2>2. s[k + 1].handle = h
    BY <1>1, <1>3
  <2>3. CASE i = k + 1
    BY <2>1, <2>2, <2>3, <1>5
  <2>4. CASE j = k + 1
    BY <2>1, <2>2, <2>4, <1>5
  <2>5. CASE i # k + 1 /\ j # k + 1
    <3>1. /\ Source(i) \in 1..Len(t) /\ s[i].handle = t[Source(i)].handle
          /\ Source(j) \in 1..Len(t) /\ s[j].handle = t[Source(j)].handle
      BY <2>1, <2>5
    <3>2. Source(i) = Source(j)
      BY <3>1, <1>5, Zenon DEF Once
    <3> QED
      BY <3>2, <2>5, <1>1, <1>3
  <2> QED
    BY <2>3, <2>4, <2>5
<1>6. \A i \in 1..Len(r), j \in 1..Len(s) : r[i] # s[j].handle
  BY <1>4 DEF Once
<1>7. \A j \in 1..Len(s) : s[j].handle # d
  BY <1>4
<1>8. \A i, j \in 1..Len(r) : r[i] = r[j] => i = j
  BY DEF Once
<1> QED
  BY <1>5, <1>6, <1>7, <1>8, Zenon DEF Once, s

(* DrainExpiredTimers moves handles from the timers to the ready queue. *)
LEMMA OnceDrain ==
  ASSUME NEW r \in Seq(Handle), NEW t \in Seq(Entry(Moment, Handle)), NEW c,
         NEW w \in Moment, Once(r, t, c)
  PROVE  Once(r \o Handles(Due(t, w)), NotDue(t, w), c)
<1> DEFINE n == DueCount(t, w)
           b == Handles(Due(t, w))
           s == r \o b
           u == NotDue(t, w)
<1>1. SplitsInOrder(t, w, Entry(Moment, Handle))
  BY MomentIsNat, DrainProperties
<1>2. /\ Len(r) \in Nat /\ Len(t) \in Nat /\ n \in 0..Len(t)
      /\ Len(u) = Len(t) - n
      /\ \A i \in 1..(Len(t) - n) : u[i].handle = t[n + i].handle
  BY <1>1, LenProperties DEF SplitsInOrder
<1>3. b \in Seq(Handle) /\ Len(b) = n /\ \A i \in 1..n : b[i] = t[i].handle
  <2>1. /\ Due(t, w) \in Seq(Entry(Moment, Handle)) /\ Len(Due(t, w)) = n
        /\ \A i \in 1..n : Due(t, w)[i] = t[i]
    BY <1>1 DEF SplitsInOrder
  <2> QED
    BY <2>1, HandlesProperties
<1>4. Len(s) = Len(r) + n /\
      \A i \in 1..Len(s) : s[i] = IF i <= Len(r) THEN r[i] ELSE t[i - Len(r)].handle
  <2> HIDE DEF b, n
  <2>1. /\ Len(s) = Len(r) + Len(b)
        /\ \A i \in 1..(Len(r) + Len(b)) :
             s[i] = IF i <= Len(r) THEN r[i] ELSE b[i - Len(r)]
    BY <1>3, ConcatProperties, Zenon
  <2> QED
    BY <2>1, <1>2, <1>3
<1> HIDE DEF n, s, u
<1>5. ASSUME NEW i \in 1..Len(s)
      PROVE  \/ i \in 1..Len(r) /\ s[i] = r[i]
             \/ /\ i > Len(r) /\ i - Len(r) \in 1..Len(t) /\ i - Len(r) <= n
                /\ s[i] = t[i - Len(r)].handle
  BY <1>2, <1>4
<1>6. \A i \in 1..Len(u) : n + i \in 1..Len(t) /\ n + i > n
  BY <1>2
<1>7. ASSUME NEW i \in 1..Len(s), NEW j \in 1..Len(s), s[i] = s[j]
      PROVE  i = j
  <2>1. CASE i \in 1..Len(r) /\ s[i] = r[i]
    <3>1. j \in 1..Len(r) /\ s[j] = r[j]
      BY <2>1, <1>5, <1>7, Zenon DEF Once
    <3> QED
      BY <2>1, <3>1, <1>7, Zenon DEF Once
  <2>2. CASE i > Len(r) /\ i - Len(r) \in 1..Len(t) /\ s[i] = t[i - Len(r)].handle
    <3>1. j > Len(r) /\ j - Len(r) \in 1..Len(t) /\ s[j] = t[j - Len(r)].handle
      BY <2>2, <1>5, <1>7, Zenon DEF Once
    <3>2. i - Len(r) = j - Len(r)
      BY <2>2, <3>1, <1>7, Zenon DEF Once
    <3> QED
      BY <3>2, <1>2
  <2> QED
    BY <2>1, <2>2, <1>5
<1>8. ASSUME NEW i \in 1..Len(u), NEW j \in 1..Len(u), u[i].handle = u[j].handle
      PROVE  i = j
  <2>1. n + i = n + j
    BY <1>2, <1>6, <1>8 DEF Once
  <2> QED
    BY <2>1, <1>2
<1>9. ASSUME NEW i \in 1..Len(s), NEW j \in 1..Len(u), s[i] = u[j].handle
      PROVE  FALSE
  <2>1. u[j].handle = t[n + j].handle /\ n + j \in 1..Len(t) /\ n + j > n
    BY <1>2, <1>6
  <2>2. CASE i \in 1..Len(r) /\ s[i] = r[i]
    BY <2>1, <2>2, <1>9, Zenon DEF Once
  <2>3. CASE /\ i - Len(r) \in 1..Len(t) /\ i - Len(r) <= n
             /\ s[i] = t[i - Len(r)].handle
    <3>1. i - Len(r) = n + j
      BY <2>3, <2>1, <1>9, Zenon DEF Once
    <3> QED
      BY <3>1, <2>1, <2>3, <1>2
  <2> QED
    BY <2>2, <2>3, <1>5
<1>10. \A i \in 1..Len(s) : s[i] # c
  BY <1>5, Zenon DEF Once
<1>11. \A j \in 1..Len(u) : u[j].handle # c
  BY <1>2, <1>6 DEF Once
<1> QED
  BY <1>7, <1>8, <1>9, <1>10, <1>11, Zenon DEF Once, s, u

(* The oldest ready handle is popped and becomes the running coroutine. *)
LEMMA OncePop ==
  ASSUME NEW r \in Seq(Handle), NEW t \in Seq(Entry(Moment, Handle)), NEW c,
         Once(r, t, c), r # <<>>
  PROVE  Once(Tail(r), t, Head(r)) /\ Once(Tail(r), t, c)
<1> DEFINE s == Tail(r)
<1>1. /\ Len(r) \in Nat /\ Len(r) >= 1 /\ Head(r) = r[1]
      /\ Len(s) = Len(r) - 1
      /\ \A i \in 1..Len(s) : s[i] = r[i + 1]
  BY LenProperties, HeadTailProperties, EmptySeq
<1> HIDE DEF s
<1>2. \A i \in 1..Len(s) : i + 1 \in 1..Len(r) /\ i + 1 # 1
  BY <1>1
<1>3. ASSUME NEW i \in 1..Len(s), NEW j \in 1..Len(s), s[i] = s[j]
      PROVE  i = j
  <2>1. i + 1 = j + 1
    BY <1>1, <1>2, <1>3 DEF Once
  <2> QED
    BY <2>1, <1>1
<1>4. \A i \in 1..Len(s), j \in 1..Len(t) : s[i] # t[j].handle
  BY <1>1, <1>2 DEF Once
<1>5. \A i \in 1..Len(s) : s[i] # Head(r)
  BY <1>1, <1>2 DEF Once
<1>6. \A j \in 1..Len(t) : t[j].handle # Head(r)
  BY <1>1 DEF Once
<1>7. \A i, j \in 1..Len(t) : t[i].handle = t[j].handle => i = j
  BY DEF Once
<1>8. \A i \in 1..Len(s) : s[i] # c
  BY <1>1, <1>2 DEF Once
<1>9. \A j \in 1..Len(t) : t[j].handle # c
  BY DEF Once
<1> QED
  BY <1>3, <1>4, <1>5, <1>6, <1>7, <1>8, <1>9, Zenon DEF Once, s

\* Popping the first timer leaves the others where they were.
LEMMA TailOfTimers ==
  ASSUME NEW t \in Seq(Entry(Moment, Handle)), t # <<>>
  PROVE  /\ Head(t) = t[1] /\ 1 \in 1..Len(t)
         /\ t[1].when \in Moment /\ t[1].handle \in Handle
         /\ Tail(t) \in Seq(Entry(Moment, Handle))
         /\ Len(t) \in Nat /\ Len(Tail(t)) = Len(t) - 1
         /\ \A i \in 1..(Len(t) - 1) : i + 1 \in 1..Len(t) /\ Tail(t)[i] = t[i + 1]
<1>1. /\ Len(t) \in Nat /\ Len(t) >= 1 /\ Head(t) = t[1]
      /\ Tail(t) \in Seq(Entry(Moment, Handle)) /\ Len(Tail(t)) = Len(t) - 1
      /\ \A i \in 1..Len(Tail(t)) : Tail(t)[i] = t[i + 1]
  BY LenProperties, HeadTailProperties, EmptySeq
<1>2. t[1].when \in Moment /\ t[1].handle \in Handle
  BY <1>1, TimerTypes, 1 \in 1..Len(t)
<1> QED
  BY <1>1, <1>2

\* The handle of the first timer moves out of the queue.
LEMMA OnceFire ==
  ASSUME NEW r \in Seq(Handle), NEW t \in Seq(Entry(Moment, Handle)), NEW c,
         Once(r, t, c), t # <<>>
  PROVE  Once(r, Tail(t), t[1].handle) /\ Once(r, Tail(t), c)
<1>1. /\ 1 \in 1..Len(t) /\ Len(t) \in Nat /\ Len(Tail(t)) = Len(t) - 1
      /\ \A i \in 1..(Len(t) - 1) : i + 1 \in 1..Len(t) /\ Tail(t)[i] = t[i + 1]
  BY TailOfTimers
<1>2. ASSUME NEW i \in 1..Len(Tail(t)) PROVE i + 1 \in 1..Len(t) /\ i + 1 # 1
  BY <1>1
<1> QED
  BY <1>1, <1>2 DEF Once

-----------------------------------------------------------------------------
(* Types of what the drivers and ScheduleAt make of the queues. *)

\* DrainExpiredTimers leaves a ready queue and a timer queue behind.
LEMMA DrainTypes ==
  ASSUME TypeOK
  PROVE  Drained \in Seq(Handle) /\ NotDue(timers, now) \in Seq(Entry(Moment, Handle))
<1>1. SplitsInOrder(timers, now, Entry(Moment, Handle))
  BY MomentIsNat, DrainProperties DEF TypeOK
<1>2. Handles(Due(timers, now)) \in Seq(Handle)
  BY <1>1, HandlesProperties DEF SplitsInOrder
<1>3. Drained \in Seq(Handle)
  BY <1>2, ConcatProperties, Zenon DEF Drained, TypeOK
<1> QED
  BY <1>1, <1>3 DEF SplitsInOrder

\* ScheduleAt leaves a timer queue behind.
LEMMA ScheduleTypes ==
  ASSUME TypeOK, NEW w \in Moment, NEW h \in Handle
  PROVE  Schedule(timers, w, h) \in Seq(Entry(Moment, Handle))
<1>1. InsertsInOrder(timers, w, h, Entry(Moment, Handle))
  BY MomentIsNat, ScheduleProperties DEF TypeOK
<1> QED
  BY <1>1 DEF InsertsInOrder

(* The batch that RunOnce still has to resume, position by position. *)
LEMMA SnapshotMeans ==
  ASSUME NEW r \in Seq(Handle), NEW b \in Seq(Handle), NEW n \in Nat
  PROVE  (n = Len(b) /\ n <= Len(r) /\ SubSeq(r, 1, n) = b)
           <=> (n = Len(b) /\ n <= Len(r) /\ \A i \in 1..n : r[i] = b[i])
<1> SUFFICES ASSUME n = Len(b), n <= Len(r)
             PROVE  SubSeq(r, 1, n) = b <=> \A i \in 1..n : r[i] = b[i]
  OBVIOUS
<1>1. \A i \in 1..n : r[i] \in Handle
  BY ReadyTypes
<1>2. /\ SubSeq(r, 1, n) \in Seq(Handle)
      /\ Len(SubSeq(r, 1, n)) = n
      /\ \A i \in 1..n : SubSeq(r, 1, n)[i] = r[i]
  BY <1>1, SubSeqProperties
<1>3. ASSUME \A i \in 1..n : r[i] = b[i]
      PROVE  SubSeq(r, 1, n) = b
  BY <1>2, <1>3, SeqEqual
<1> QED
  BY <1>2, <1>3

-----------------------------------------------------------------------------
(* TypeOK is inductive only together with SnapshotServed, which is what    *)
(* keeps RunOnceResume from popping an empty queue.                        *)

\* Every step of the loop preserves TypeOK.
LEMMA TypeStep ==
  ASSUME TypeOK, SnapshotServed, [Next]_vars
  PROVE  TypeOK'
<1> USE DEF TypeOK
<1>1. ASSUME NEW h \in Handle, Post(h) PROVE TypeOK'
  BY <1>1, AppendProperties DEF Post, driver
<1>2. ASSUME NEW w \in Moment, NEW h \in Handle, ScheduleAt(w, h) PROVE TypeOK'
  BY <1>2, ScheduleTypes DEF ScheduleAt, driver
<1>3. CASE Yield
  BY <1>3, AppendProperties DEF Yield, driver
<1>4. ASSUME NEW w \in Moment, Sleep(w) PROVE TypeOK'
  <2>1. current \in Handle
    BY <1>4 DEF Sleep
  <2> QED
    BY <1>4, <2>1, ScheduleTypes DEF Sleep, driver
<1>5. CASE Leave
  BY <1>5 DEF Leave, driver, queues
<1>6. ASSUME NEW h \in Handle, Transfer(h) PROVE TypeOK'
  BY <1>6 DEF Transfer, driver, queues
<1>7. ASSUME NEW h \in Handle, Run(h) PROVE TypeOK'
  BY <1>7, AppendProperties DEF Run
<1>8. CASE RunResume
  <2>1. Drained \in Seq(Handle) /\ NotDue(timers, now) \in Seq(Entry(Moment, Handle))
    BY DrainTypes
  <2>2. Head(Drained) \in Handle /\ Tail(Drained) \in Seq(Handle)
    BY <1>8, <2>1, HeadTailProperties DEF RunResume
  <2> QED
    BY <1>8, <2>1, <2>2 DEF RunResume, driver
<1>9. CASE RunWait
  BY <1>9 DEF RunWait, WaitUntil, driver, queues
<1>10. CASE RunReturn
  BY <1>10 DEF RunReturn, queues
<1>11. CASE RunOnce
  <2>1. Drained \in Seq(Handle) /\ NotDue(timers, now) \in Seq(Entry(Moment, Handle))
    BY DrainTypes
  <2>2. Len(Drained) \in Nat
    BY <2>1, LenProperties
  <2> QED
    BY <1>11, <2>1, <2>2 DEF RunOnce
<1>12. CASE RunOnceResume
  <2>1. budget \in Nat /\ budget > 0 /\ budget = Len(batch) /\ budget <= Len(ready)
    BY <1>12 DEF RunOnceResume, SnapshotServed
  <2>2. Head(ready) \in Handle /\ Tail(ready) \in Seq(Handle)
    <3>1. ready # <<>>
      BY <2>1, EmptySeq
    <3> QED
      BY <3>1, HeadTailProperties
  <2>3. SubSeq(batch, 2, Len(batch)) \in Seq(Handle)
    <3>1. \A i \in 2..Len(batch) : batch[i] \in Handle
      BY <2>1, ReadyTypes
    <3> QED
      BY <2>1, <3>1, SubSeqProperties
  <2> QED
    BY <1>12, <2>1, <2>2, <2>3 DEF RunOnceResume
<1>13. CASE RunOnceReturn
  BY <1>13 DEF RunOnceReturn, queues
<1>14. CASE Tick
  BY <1>14, TimeAssumption DEF Tick, Moment, driver, queues
<1>15. CASE UNCHANGED vars
  BY <1>15 DEF vars
<1> QED
  BY <1>1, <1>2, <1>3, <1>4, <1>5, <1>6, <1>7, <1>8, <1>9, <1>10, <1>11, <1>12,
     <1>13, <1>14, <1>15 DEF Next, LoopStep, BodyStep, GiveUpControl

\* Every step preserves SnapshotServed: what is posted meanwhile goes behind it.
LEMMA SnapshotStep ==
  ASSUME TypeOK, SnapshotServed, [Next]_vars
  PROVE  SnapshotServed'
<1> USE DEF TypeOK, SnapshotServed
<1>0. ASSUME NEW h \in Handle, ready' = Append(ready, h),
             UNCHANGED <<mode, budget, batch>>
      PROVE  SnapshotServed'
  <2> SUFFICES ASSUME mode = "once"
               PROVE  /\ budget = Len(batch) /\ budget <= Len(Append(ready, h))
                      /\ SubSeq(Append(ready, h), 1, budget) = batch
    BY <1>0
  <2>1. /\ Append(ready, h) \in Seq(Handle)
        /\ Len(Append(ready, h)) = Len(ready) + 1
        /\ \A i \in 1..Len(ready) : Append(ready, h)[i] = ready[i]
    BY AppendProperties
  <2>2. Len(ready) \in Nat /\ budget = Len(batch) /\ budget <= Len(ready)
    BY LenProperties
  <2>3. \A i \in 1..budget : ready[i] = batch[i]
    BY <2>2, SnapshotMeans
  <2>4. \A i \in 1..budget : Append(ready, h)[i] = batch[i]
    BY <2>1, <2>2, <2>3
  <2>5. budget <= Len(Append(ready, h))
    BY <2>1, <2>2
  <2> QED
    BY <2>1, <2>2, <2>4, <2>5, SnapshotMeans
<1>1. ASSUME NEW h \in Handle, Post(h) PROVE SnapshotServed'
  BY <1>0, <1>1 DEF Post, driver
<1>2. ASSUME NEW w \in Moment, NEW h \in Handle, ScheduleAt(w, h) PROVE SnapshotServed'
  BY <1>2 DEF ScheduleAt, driver
<1>3. CASE Yield
  BY <1>0, <1>3 DEF Yield, driver
<1>4. ASSUME NEW w \in Moment, Sleep(w) PROVE SnapshotServed'
  BY <1>4 DEF Sleep, driver
<1>5. CASE Leave
  BY <1>5 DEF Leave, driver, queues
<1>6. ASSUME NEW h \in Handle, Transfer(h) PROVE SnapshotServed'
  BY <1>6 DEF Transfer, driver, queues
<1>7. ASSUME NEW h \in Handle, Run(h) PROVE SnapshotServed'
  BY <1>7 DEF Run
<1>8. CASE RunResume
  BY <1>8 DEF RunResume, driver
<1>9. CASE RunWait
  BY <1>9 DEF RunWait, driver, queues
<1>10. CASE RunReturn
  BY <1>10 DEF RunReturn, queues
<1>11. CASE RunOnce
  <2>1. Drained \in Seq(Handle)
    BY DrainTypes
  <2>2. Len(Drained) \in Nat /\ SubSeq(Drained, 1, Len(Drained)) = Drained
    BY <2>1, LenProperties, SubSeqFull
  <2> QED
    BY <1>11, <2>2 DEF RunOnce
<1>12. CASE RunOnceResume
  <2> DEFINE r == Tail(ready)
             b == SubSeq(batch, 2, Len(batch))
             n == budget - 1
  <2>1. /\ budget > 0 /\ budget = Len(batch) /\ budget <= Len(ready)
        /\ SubSeq(ready, 1, budget) = batch /\ Len(ready) \in Nat
    BY <1>12, LenProperties DEF RunOnceResume
  <2>2. \A i \in 1..budget : ready[i] = batch[i]
    BY <2>1, SnapshotMeans
  <2>3. /\ r \in Seq(Handle) /\ Len(r) = Len(ready) - 1
        /\ \A i \in 1..Len(r) : r[i] = ready[i + 1]
    <3>1. ready # <<>>
      BY <2>1, EmptySeq
    <3> QED
      BY <3>1, HeadTailProperties
  <2>4. /\ b \in Seq(Handle) /\ Len(b) = n
        /\ \A i \in 1..n : b[i] = batch[i + 1]
    <3>1. \A i \in 2..Len(batch) : batch[i] \in Handle
      BY <2>1, ReadyTypes
    <3> QED
      BY <2>1, <3>1, SubSeqProperties
  <2>5. n \in Nat /\ n <= Len(r)
    BY <2>1, <2>3
  <2> HIDE DEF r, b
  <2>6. \A i \in 1..n : r[i] = b[i]
    BY <2>1, <2>2, <2>3, <2>4
  <2>7. n = Len(b) /\ n <= Len(r) /\ SubSeq(r, 1, n) = b
    <3> HIDE DEF n
    <3> QED
      BY <2>3, <2>4, <2>5, <2>6, SnapshotMeans
  <2> QED
    BY <1>12, <2>7 DEF RunOnceResume, r, b
<1>13. CASE RunOnceReturn
  BY <1>13 DEF RunOnceReturn, queues
<1>14. CASE Tick
  BY <1>14 DEF Tick, driver, queues
<1>15. CASE UNCHANGED vars
  BY <1>15 DEF vars
<1> QED
  BY <1>1, <1>2, <1>3, <1>4, <1>5, <1>6, <1>7, <1>8, <1>9, <1>10, <1>11, <1>12,
     <1>13, <1>14, <1>15 DEF Next, LoopStep, BodyStep, GiveUpControl

-----------------------------------------------------------------------------
(* RegisteredOnce is preserved by every step. *)

\* RegisteredOnce is Once of the loop's own queues.
LEMMA RegisteredOnceMeans ==
  ASSUME TypeOK
  PROVE  RegisteredOnce <=> Once(ready, timers, current)
BY OnceMeans, Zenon DEF TypeOK, RegisteredOnce, Registered

(* The position-by-position form of "h is in neither queue". *)
LEMMA NotRegistered ==
  ASSUME TypeOK, NEW h
  PROVE  h \notin Registered <=> /\ \A i \in 1..Len(ready) : ready[i] # h
                                 /\ \A j \in 1..Len(timers) : timers[j].handle # h
<1>1. Elements(Handles(timers)) = {timers[i].handle : i \in 1..Len(timers)}
  BY ElementsOfHandles DEF TypeOK
<1> QED
  BY <1>1 DEF Registered, Elements

\* The value that stands for no coroutine is in no queue.
LEMMA NoHandleNotRegistered ==
  ASSUME TypeOK
  PROVE  NoHandle \notin Registered
<1>1. \A i \in 1..Len(ready) : ready[i] # NoHandle
  BY ReadyTypes, HandleAssumption DEF TypeOK
<1>2. \A j \in 1..Len(timers) : timers[j].handle # NoHandle
  BY TimerTypes, HandleAssumption DEF TypeOK
<1> QED
  BY <1>1, <1>2, NotRegistered

\* Every step preserves RegisteredOnce.
LEMMA RegisteredOnceStep ==
  ASSUME TypeOK, SnapshotServed, RegisteredOnce, [Next]_vars
  PROVE  RegisteredOnce'
<1>0. Once(ready, timers, current)
  BY RegisteredOnceMeans
<1>t. /\ ready \in Seq(Handle) /\ timers \in Seq(Entry(Moment, Handle))
      /\ current \in Handle \cup {NoHandle} /\ now \in Moment
  BY DEF TypeOK
<1>g. SUFFICES Once(ready', timers', current')
  <2>1. TypeOK'
    BY TypeStep
  <2>2. ready' \in Seq(Handle) /\ timers' \in Seq(Entry(Moment, Handle))
    BY <2>1 DEF TypeOK
  <2> QED
    BY <1>g, <2>2, OnceMeans DEF RegisteredOnce, Registered, Elements, Handles
<1>n. current # NoHandle => NoHandle \notin Registered
  BY NoHandleNotRegistered
<1>1. ASSUME NEW h \in Handle, h # current, h \notin Registered,
             ready' = Append(ready, h), UNCHANGED <<timers, current>>
      PROVE  Once(ready', timers', current')
  <2>1. /\ \A i \in 1..Len(ready) : ready[i] # h
        /\ \A j \in 1..Len(timers) : timers[j].handle # h
    BY <1>1, NotRegistered
  <2>2. /\ \A i \in 1..Len(ready) : ready[i] # current
        /\ \A j \in 1..Len(timers) : timers[j].handle # current
    BY <1>0 DEF Once
  <2>3. Once(Append(ready, h), timers, current)
    BY <1>0, <1>1, <1>t, <2>1, <2>2, OnceAppend
  <2> QED
    BY <1>1, <2>3
<1>2. ASSUME NEW w \in Moment, NEW h \in Handle, ScheduleAt(w, h)
      PROVE  Once(ready', timers', current')
  <2>1. h # current /\ h \notin Registered
    BY <1>2 DEF ScheduleAt, Suspended
  <2>2. /\ \A i \in 1..Len(ready) : ready[i] # h
        /\ \A j \in 1..Len(timers) : timers[j].handle # h
    BY <2>1, NotRegistered
  <2>3. /\ \A i \in 1..Len(ready) : ready[i] # current
        /\ \A j \in 1..Len(timers) : timers[j].handle # current
    BY <1>0 DEF Once
  <2>4. Once(ready, Schedule(timers, w, h), current)
    BY <1>0, <1>t, <2>1, <2>2, <2>3, OnceSchedule
  <2> QED
    BY <1>2, <2>4 DEF ScheduleAt
<1>3. ASSUME current # NoHandle
      PROVE  /\ \A i \in 1..Len(ready) : ready[i] # current /\ ready[i] # NoHandle
             /\ \A j \in 1..Len(timers) : /\ timers[j].handle # current
                                          /\ timers[j].handle # NoHandle
  BY <1>0, <1>3, NoHandleNotRegistered, NotRegistered DEF Once
<1>4. CASE Yield
  <2>1. current \in Handle /\ current # NoHandle
    BY <1>4, <1>t DEF Yield
  <2>2. Once(Append(ready, current), timers, NoHandle)
    BY <1>0, <1>3, <1>t, <2>1, OnceAppend
  <2> QED
    BY <1>4, <2>2 DEF Yield
<1>5. ASSUME NEW w \in Moment, Sleep(w) PROVE Once(ready', timers', current')
  <2>1. current \in Handle /\ current # NoHandle
    BY <1>5, <1>t DEF Sleep
  <2>2. Once(ready, Schedule(timers, w, current), NoHandle)
    BY <1>0, <1>3, <1>t, <2>1, OnceSchedule
  <2> QED
    BY <1>5, <2>2 DEF Sleep
<1>6. CASE Leave
  BY <1>0, <1>3, <1>6 DEF Leave, queues, Once
<1>7. ASSUME NEW h \in Handle, Transfer(h) PROVE Once(ready', timers', current')
  <2>1. /\ \A i \in 1..Len(ready) : ready[i] # h
        /\ \A j \in 1..Len(timers) : timers[j].handle # h
    BY <1>7, NotRegistered DEF Transfer, Suspended
  <2> QED
    BY <1>0, <1>7, <2>1 DEF Transfer, queues, Once
<1>8. CASE RunResume
  <2>1. Once(Drained, NotDue(timers, now), current)
    BY <1>0, <1>t, OnceDrain DEF Drained
  <2>2. Once(Tail(Drained), NotDue(timers, now), Head(Drained))
    BY <1>8, <2>1, DrainTypes, OncePop DEF RunResume
  <2> QED
    BY <1>8, <2>2 DEF RunResume
<1>9. CASE RunOnce
  <2>1. Once(Drained, NotDue(timers, now), current)
    BY <1>0, <1>t, OnceDrain DEF Drained
  <2> QED
    BY <1>9, <2>1 DEF RunOnce
<1>10. CASE RunOnceResume
  <2>1. ready # <<>>
    BY <1>10, <1>t, EmptySeq DEF RunOnceResume, SnapshotServed, TypeOK
  <2>2. Once(Tail(ready), timers, Head(ready))
    BY <1>0, <1>t, <2>1, OncePop
  <2> QED
    BY <1>10, <2>2 DEF RunOnceResume
<1>11. CASE \/ RunWait \/ RunReturn \/ RunOnceReturn \/ Tick \/ UNCHANGED vars
  <2>1. UNCHANGED <<ready, timers, current>>
    BY <1>11 DEF RunWait, RunReturn, RunOnceReturn, Tick, vars, queues
  <2> QED
    BY <1>0, <2>1
<1>12. ASSUME NEW h \in Handle, Post(h) PROVE Once(ready', timers', current')
  BY <1>1, <1>12 DEF Post, Suspended
<1>13. ASSUME NEW h \in Handle, Run(h) PROVE Once(ready', timers', current')
  BY <1>1, <1>13 DEF Run, Suspended
<1> QED
  BY <1>2, <1>4, <1>5, <1>6, <1>7, <1>8, <1>9, <1>10, <1>11, <1>12, <1>13
     DEF Next, LoopStep, BodyStep, GiveUpControl

-----------------------------------------------------------------------------
(* The timers stay sorted: Schedule inserts behind what is not later, and  *)
(* draining keeps a suffix.                                                *)

\* TimerQueue::Schedule keeps a sorted queue sorted.
LEMMA ScheduleSorted ==
  ASSUME NEW t \in Seq(Entry(Moment, Handle)), NEW w \in Moment, NEW h \in Handle,
         Sorted(t)
  PROVE  Sorted(Schedule(t, w, h))
<1> DEFINE k == DueCount(t, w)
           s == Schedule(t, w, h)
<1>1. Len(t) \in Nat /\ w \in Nat /\ \A i \in 1..Len(t) : t[i].when \in Nat
  BY MomentIsNat, TimerTypes
<1>2. InsertsInOrder(t, w, h, Entry(Moment, Handle))
  BY MomentIsNat, ScheduleProperties
<1>3. /\ \A i \in 1..k : t[i].when <= w
      /\ k < Len(t) => t[k + 1].when > w
  <2>1. t \in Seq(Entry(Nat, Handle))
    <3>1. Entry(Moment, Handle) \subseteq Entry(Nat, Handle)
      BY MomentIsNat DEF Entry
    <3> QED
      BY <3>1, SeqMonotonic
  <2> QED
    BY <1>1, <2>1, DueCountProperties
<1>4. /\ k \in 0..Len(t) /\ Len(s) = Len(t) + 1
      /\ \A i \in 1..(Len(t) + 1) :
           s[i].when = IF i <= k THEN t[i].when
                       ELSE IF i = k + 1 THEN w ELSE t[i - 1].when
  BY <1>2 DEF InsertsInOrder
<1> HIDE DEF k, s
<1>5. \A i \in 1..Len(t) : i > k => t[i].when > w
  BY <1>1, <1>3, <1>4 DEF Sorted
<1>6. ASSUME NEW i \in 1..Len(s), NEW j \in 1..Len(s), i < j
      PROVE  s[i].when <= s[j].when
  <2>1. CASE j <= k
    BY <2>1, <1>1, <1>4, <1>6 DEF Sorted
  <2>2. CASE j = k + 1
    BY <2>2, <1>1, <1>3, <1>4, <1>6
  <2>3. CASE j > k + 1
    <3>1. j - 1 \in 1..Len(t) /\ j - 1 > k /\ s[j].when = t[j - 1].when
      BY <2>3, <1>1, <1>4
    <3>2. t[j - 1].when > w /\ t[j - 1].when \in Nat
      BY <3>1, <1>1, <1>5
    <3>3. CASE i <= k
      <4>1. i \in 1..Len(t) /\ s[i].when = t[i].when /\ t[i].when <= w
        BY <3>3, <1>1, <1>3, <1>4
      <4> QED
        BY <4>1, <3>1, <3>2, <1>1
    <3>4. CASE i = k + 1
      BY <3>4, <3>1, <3>2, <1>1, <1>4
    <3>5. CASE i > k + 1
      <4>1. i - 1 \in 1..Len(t) /\ i - 1 < j - 1 /\ s[i].when = t[i - 1].when
        BY <3>5, <3>1, <1>1, <1>4, <1>6
      <4> QED
        BY <4>1, <3>1 DEF Sorted
    <3> QED
      BY <3>3, <3>4, <3>5, <1>4
  <2> QED
    BY <2>1, <2>2, <2>3, <1>4
<1> QED
  BY <1>6 DEF Sorted, s

\* Draining a sorted queue leaves a sorted queue.
LEMMA NotDueSorted ==
  ASSUME NEW t \in Seq(Entry(Moment, Handle)), NEW w \in Moment, Sorted(t)
  PROVE  Sorted(NotDue(t, w))
<1> DEFINE n == DueCount(t, w)
           u == NotDue(t, w)
<1>1. SplitsInOrder(t, w, Entry(Moment, Handle))
  BY MomentIsNat, DrainProperties
<1>2. /\ Len(t) \in Nat /\ n \in 0..Len(t) /\ Len(u) = Len(t) - n
      /\ \A i \in 1..(Len(t) - n) : u[i] = t[n + i]
  BY <1>1, LenProperties DEF SplitsInOrder
<1> HIDE DEF n, u
<1>3. ASSUME NEW i \in 1..Len(u), NEW j \in 1..Len(u), i < j
      PROVE  u[i].when <= u[j].when
  <2>1. n + i \in 1..Len(t) /\ n + j \in 1..Len(t) /\ n + i < n + j
    BY <1>2, <1>3
  <2>2. u[i] = t[n + i] /\ u[j] = t[n + j]
    BY <1>2
  <2> QED
    BY <2>1, <2>2 DEF Sorted
<1> QED
  BY <1>3 DEF Sorted, u

\* The first timer is the earliest, and without it the rest stays in order.
LEMMA TailSorted ==
  ASSUME NEW t \in Seq(Entry(Moment, Handle)), t # <<>>, Sorted(t)
  PROVE  /\ Sorted(Tail(t))
         /\ \A i \in 1..Len(t) : t[1].when <= t[i].when
<1>1. /\ 1 \in 1..Len(t) /\ Len(t) \in Nat /\ Len(Tail(t)) = Len(t) - 1
      /\ \A i \in 1..(Len(t) - 1) : i + 1 \in 1..Len(t) /\ Tail(t)[i] = t[i + 1]
      /\ t[1].when \in Moment
  BY TailOfTimers
<1>2. t[1].when <= t[1].when
  BY <1>1, TimeAssumption DEF Moment
<1>3. ASSUME NEW i \in 1..Len(t) PROVE t[1].when <= t[i].when
  BY <1>1, <1>2, i = 1 \/ 1 < i DEF Sorted
<1>4. Sorted(Tail(t))
  BY <1>1 DEF Sorted
<1> QED
  BY <1>3, <1>4

\* Every step preserves TimersSorted.
LEMMA TimersSortedStep ==
  ASSUME TypeOK, TimersSorted, [Next]_vars
  PROVE  TimersSorted'
<1>1. ASSUME NEW w \in Moment, NEW h \in Handle, timers' = Schedule(timers, w, h)
      PROVE  TimersSorted'
  <2>1. Sorted(Schedule(timers, w, h))
    BY ScheduleSorted DEF TypeOK, TimersSorted
  <2> QED
    BY <1>1, <2>1 DEF TimersSorted, Sorted
<1>2. ASSUME timers' = NotDue(timers, now)
      PROVE  TimersSorted'
  <2>1. Sorted(NotDue(timers, now))
    BY NotDueSorted DEF TypeOK, TimersSorted
  <2> QED
    BY <1>2, <2>1 DEF TimersSorted, Sorted
<1>3. ASSUME timers' = timers
      PROVE  TimersSorted'
  BY <1>3 DEF TimersSorted, Sorted
<1>4. ASSUME NEW w \in Moment, NEW h \in Handle, ScheduleAt(w, h) PROVE TimersSorted'
  BY <1>1, <1>4 DEF ScheduleAt
<1>5. ASSUME NEW w \in Moment, Sleep(w) PROVE TimersSorted'
  <2>1. current \in Handle
    BY <1>5 DEF Sleep, TypeOK
  <2> QED
    BY <1>1, <1>5, <2>1 DEF Sleep
<1>6. CASE RunResume \/ RunOnce
  BY <1>2, <1>6 DEF RunResume, RunOnce
<1>7. ASSUME NEW h \in Handle, Post(h) \/ Transfer(h) \/ Run(h) PROVE TimersSorted'
  BY <1>3, <1>7 DEF Post, Transfer, Run, queues
<1>8. CASE \/ Yield \/ Leave \/ RunWait \/ RunReturn \/ RunOnceResume
           \/ RunOnceReturn \/ Tick \/ UNCHANGED vars
  BY <1>3, <1>8 DEF Yield, Leave, RunWait, RunReturn, RunOnceResume, RunOnceReturn,
                    Tick, vars, queues
<1> QED
  BY <1>4, <1>5, <1>6, <1>7, <1>8 DEF Next, LoopStep, BodyStep, GiveUpControl

-----------------------------------------------------------------------------
(* The inductive invariant.  TypeOK needs SnapshotServed (RunOnceResume),  *)
(* RegisteredOnce needs both.                                              *)
IInv == TypeOK /\ SnapshotServed /\ RegisteredOnce /\ TimersSorted

\* The loop starts in the inductive invariant.
LEMMA IInvInit == Init => IInv
<1> SUFFICES ASSUME Init PROVE IInv
  OBVIOUS
<1>1. <<>> \in Seq(Handle) /\ <<>> \in Seq(Entry(Moment, Handle)) /\ Len(<<>>) = 0
  BY EmptySeq
<1>2. TypeOK
  BY <1>1, TimeAssumption DEF Init, TypeOK, Moment
<1>3. SnapshotServed
  BY DEF Init, SnapshotServed
<1>4. RegisteredOnce
  <2>1. Once(ready, timers, current)
    BY <1>1 DEF Init, Once
  <2> QED
    BY <1>2, <2>1, RegisteredOnceMeans
<1>5. TimersSorted
  BY <1>1 DEF Init, TimersSorted, Sorted
<1> QED
  BY <1>2, <1>3, <1>4, <1>5 DEF IInv

\* No step leaves the inductive invariant.
LEMMA IInvStep == IInv /\ [Next]_vars => IInv'
BY TypeStep, SnapshotStep, RegisteredOnceStep, TimersSortedStep DEF IInv

\* The inductive invariant holds throughout every behaviour of the loop.
THEOREM Invariant == Spec => []IInv
BY IInvInit, IInvStep, PTL DEF Spec

(* Every variable of the loop keeps its type; in particular RunOnce's      *)
(* countdown never falls below zero and nothing is popped from an empty    *)
(* ready queue.                                                            *)
THEOREM TypeCorrect == Spec => []TypeOK
<1>1. IInv => TypeOK
  BY DEF IInv
<1> QED
  BY <1>1, Invariant, PTL

(* No handle is in two places of the loop, whatever the coroutines do      *)
(* within the contract Suspended states.                                   *)
THEOREM NeverRegisteredTwice == Spec => []RegisteredOnce
<1>1. IInv => RegisteredOnce
  BY DEF IInv
<1> QED
  BY <1>1, Invariant, PTL

(* RunOnce resumes its snapshot of the ready queue and nothing else. *)
THEOREM RunOnceServesItsSnapshot == Spec => []SnapshotServed
<1>1. IInv => SnapshotServed
  BY DEF IInv
<1> QED
  BY <1>1, Invariant, PTL

(* The timer queue is in deadline order whenever it is looked at. *)
THEOREM TimersAlwaysSorted == Spec => []TimersSorted
<1>1. IInv => TimersSorted
  BY DEF IInv
<1> QED
  BY <1>1, Invariant, PTL

-----------------------------------------------------------------------------
(* What the operations on the queues do to the sets of handles in them. *)

\* Post adds one handle.
LEMMA ElementsAppend ==
  ASSUME NEW r \in Seq(Handle), NEW h \in Handle
  PROVE  Elements(r) \subseteq Elements(Append(r, h)) /\ h \in Elements(Append(r, h))
<1>1. /\ Len(r) \in Nat /\ Len(Append(r, h)) = Len(r) + 1
      /\ \A i \in 1..Len(r) : Append(r, h)[i] = r[i]
      /\ Append(r, h)[Len(r) + 1] = h
  BY LenProperties, AppendProperties
<1> QED
  BY <1>1 DEF Elements

\* Popping removes the head at most.
LEMMA ElementsPop ==
  ASSUME NEW r \in Seq(Handle), r # <<>>
  PROVE  Elements(r) \subseteq {Head(r)} \cup Elements(Tail(r))
<1>1. /\ Len(r) \in Nat /\ Head(r) = r[1] /\ Len(Tail(r)) = Len(r) - 1
      /\ \A i \in 1..Len(Tail(r)) : Tail(r)[i] = r[i + 1]
  BY LenProperties, HeadTailProperties, EmptySeq
<1>2. ASSUME NEW i \in 1..Len(r)
      PROVE  r[i] \in {Head(r)} \cup Elements(Tail(r))
  <2>1. CASE i = 1
    BY <2>1, <1>1
  <2>2. CASE i # 1
    <3>1. i - 1 \in 1..Len(Tail(r)) /\ (i - 1) + 1 = i
      BY <2>2, <1>1
    <3>2. Tail(r)[i - 1] = r[i]
      BY <3>1, <1>1
    <3> QED
      BY <3>1, <3>2 DEF Elements
  <2> QED
    BY <2>1, <2>2
<1> QED
  BY <1>2 DEF Elements

\* TimerQueue::Schedule adds one handle.
LEMMA ElementsSchedule ==
  ASSUME NEW t \in Seq(Entry(Moment, Handle)), NEW w \in Moment, NEW h \in Handle
  PROVE  /\ Elements(Handles(t)) \subseteq Elements(Handles(Schedule(t, w, h)))
         /\ h \in Elements(Handles(Schedule(t, w, h)))
<1> DEFINE k == DueCount(t, w)
           s == Schedule(t, w, h)
<1>1. InsertsInOrder(t, w, h, Entry(Moment, Handle))
  BY MomentIsNat, ScheduleProperties
<1>2. /\ Len(t) \in Nat /\ k \in 0..Len(t) /\ Len(s) = Len(t) + 1
      /\ s \in Seq(Entry(Moment, Handle))
      /\ \A i \in 1..(Len(t) + 1) :
           s[i].handle = IF i <= k THEN t[i].handle
                         ELSE IF i = k + 1 THEN h ELSE t[i - 1].handle
  BY <1>1, LenProperties DEF InsertsInOrder
<1>3. /\ Elements(Handles(t)) = {t[i].handle : i \in 1..Len(t)}
      /\ Elements(Handles(s)) = {s[i].handle : i \in 1..Len(s)}
  BY <1>2, ElementsOfHandles
<1> HIDE DEF k, s
<1>4. ASSUME NEW i \in 1..Len(t)
      PROVE  \E j \in 1..Len(s) : s[j].handle = t[i].handle
  <2>1. CASE i <= k
    <3>1. i \in 1..Len(s) /\ s[i].handle = t[i].handle
      BY <2>1, <1>2
    <3> QED
      BY <3>1
  <2>2. CASE i > k
    <3>1. i + 1 \in 1..Len(s) /\ i + 1 > k + 1 /\ (i + 1) - 1 = i
      BY <2>2, <1>2
    <3>2. s[i + 1].handle = t[i].handle
      BY <3>1, <1>2
    <3> QED
      BY <3>1, <3>2
  <2> QED
    BY <2>1, <2>2, <1>2
<1>5. k + 1 \in 1..Len(s) /\ s[k + 1].handle = h
  BY <1>2
<1>6. h \in Elements(Handles(s)) /\ Elements(Handles(t)) \subseteq Elements(Handles(s))
  BY <1>3, <1>4, <1>5
<1> QED
  BY <1>6 DEF s

\* DrainExpiredTimers drops no handle.
LEMMA ElementsDrain ==
  ASSUME NEW r \in Seq(Handle), NEW t \in Seq(Entry(Moment, Handle)), NEW w \in Moment
  PROVE  Elements(r) \cup Elements(Handles(t)) \subseteq
           Elements(r \o Handles(Due(t, w))) \cup Elements(Handles(NotDue(t, w)))
<1> DEFINE n == DueCount(t, w)
           b == Handles(Due(t, w))
           u == NotDue(t, w)
           s == r \o b
<1>1. SplitsInOrder(t, w, Entry(Moment, Handle))
  BY MomentIsNat, DrainProperties
<1>2. /\ Len(r) \in Nat /\ Len(t) \in Nat /\ n \in 0..Len(t)
      /\ u \in Seq(Entry(Moment, Handle)) /\ Len(u) = Len(t) - n
      /\ \A i \in 1..(Len(t) - n) : u[i].handle = t[n + i].handle
  BY <1>1, LenProperties DEF SplitsInOrder
<1>3. b \in Seq(Handle) /\ Len(b) = n /\ \A i \in 1..n : b[i] = t[i].handle
  <2>1. /\ Due(t, w) \in Seq(Entry(Moment, Handle)) /\ Len(Due(t, w)) = n
        /\ \A i \in 1..n : Due(t, w)[i] = t[i]
    BY <1>1 DEF SplitsInOrder
  <2> QED
    BY <2>1, HandlesProperties
<1>4. /\ Elements(Handles(t)) = {t[i].handle : i \in 1..Len(t)}
      /\ Elements(Handles(u)) = {u[i].handle : i \in 1..Len(u)}
  BY <1>2, ElementsOfHandles
<1> HIDE DEF n, u, b
<1>5. /\ Len(s) = Len(r) + Len(b)
      /\ \A i \in 1..(Len(r) + Len(b)) :
           s[i] = IF i <= Len(r) THEN r[i] ELSE b[i - Len(r)]
  BY <1>3, ConcatProperties, Zenon
<1> HIDE DEF s
<1>6. ASSUME NEW i \in 1..Len(r)
      PROVE  r[i] \in Elements(s)
  <2>1. i \in 1..Len(s) /\ s[i] = r[i]
    BY <1>2, <1>3, <1>5
  <2> QED
    BY <2>1 DEF Elements
<1>7. ASSUME NEW i \in 1..Len(t)
      PROVE  t[i].handle \in Elements(s) \cup Elements(Handles(u))
  <2>1. CASE i <= n
    <3>1. Len(r) + i \in 1..Len(s) /\ (Len(r) + i) - Len(r) = i /\ ~ (Len(r) + i <= Len(r))
      BY <2>1, <1>2, <1>3, <1>5
    <3>2. s[Len(r) + i] = b[i]
      BY <3>1, <1>2, <1>3, <1>5
    <3>3. b[i] = t[i].handle
      BY <2>1, <1>2, <1>3
    <3> QED
      BY <3>1, <3>2, <3>3 DEF Elements
  <2>2. CASE i > n
    <3>1. i - n \in 1..Len(u) /\ n + (i - n) = i
      BY <2>2, <1>2
    <3>2. u[i - n].handle = t[i].handle
      BY <3>1, <1>2
    <3> QED
      BY <3>1, <3>2, <1>4
  <2> QED
    BY <2>1, <2>2, <1>2
<1>8. Elements(r) \cup Elements(Handles(t)) \subseteq Elements(s) \cup Elements(Handles(u))
  BY <1>4, <1>6, <1>7 DEF Elements
<1> QED
  BY <1>8 DEF s, b, u

-----------------------------------------------------------------------------
(* Nothing the loop does drops a handle. *)

Kept == \A h \in Registered : h \in Registered' \/ current' = h

\* Every step keeps every registered handle, or resumes it.
LEMMA KeptStep ==
  ASSUME TypeOK, SnapshotServed, [Next]_vars
  PROVE  Kept
<1> DEFINE R == Elements(ready)
           T == Elements(Handles(timers))
<1>0. /\ Registered = R \cup T
      /\ Registered' = Elements(ready') \cup Elements(Handles(timers'))
  BY DEF Registered, Elements, Handles
<1>t. ready \in Seq(Handle) /\ timers \in Seq(Entry(Moment, Handle)) /\ now \in Moment
  BY DEF TypeOK
<1> HIDE DEF R, T
<1>1. ASSUME NEW h \in Handle, ready' = Append(ready, h), timers' = timers PROVE Kept
  BY <1>0, <1>1, <1>t, ElementsAppend DEF Kept, R, T
<1>2. ASSUME NEW w \in Moment, NEW h \in Handle,
             timers' = Schedule(timers, w, h), ready' = ready
      PROVE  Kept
  BY <1>0, <1>2, <1>t, ElementsSchedule DEF Kept, R, T
<1>3. ASSUME ready' = ready, timers' = timers PROVE Kept
  BY <1>0, <1>3 DEF Kept, R, T
<1>4. R \cup T \subseteq Elements(Drained) \cup Elements(Handles(NotDue(timers, now)))
  BY <1>t, ElementsDrain DEF R, T, Drained
<1>5. CASE RunResume
  <2>1. Elements(Drained) \subseteq {Head(Drained)} \cup Elements(Tail(Drained))
    BY <1>5, DrainTypes, ElementsPop DEF RunResume
  <2> QED
    BY <1>0, <1>4, <1>5, <2>1 DEF Kept, RunResume
<1>6. CASE RunOnce
  BY <1>0, <1>4, <1>6 DEF Kept, RunOnce
<1>7. CASE RunOnceResume
  <2>1. ready # <<>>
    BY <1>7, <1>t, EmptySeq DEF RunOnceResume, SnapshotServed, TypeOK
  <2>2. Elements(ready) \subseteq {Head(ready)} \cup Elements(Tail(ready))
    BY <2>1, <1>t, ElementsPop
  <2> QED
    BY <1>0, <1>7, <2>2 DEF Kept, RunOnceResume, R, T
<1>8. ASSUME NEW h \in Handle, Post(h) \/ Run(h) PROVE Kept
  BY <1>1, <1>8 DEF Post, Run
<1>9. CASE Yield
  BY <1>1, <1>9 DEF Yield, TypeOK
<1>10. ASSUME NEW w \in Moment, NEW h \in Handle, ScheduleAt(w, h) PROVE Kept
  BY <1>2, <1>10 DEF ScheduleAt
<1>11. ASSUME NEW w \in Moment, Sleep(w) PROVE Kept
  BY <1>2, <1>11 DEF Sleep, TypeOK
<1>12. ASSUME NEW h \in Handle, Transfer(h) PROVE Kept
  BY <1>3, <1>12 DEF Transfer, queues
<1>13. CASE Leave \/ RunWait \/ RunReturn \/ RunOnceReturn \/ Tick \/ UNCHANGED vars
  BY <1>3, <1>13 DEF Leave, RunWait, RunReturn, RunOnceReturn, Tick, vars, queues
<1> QED
  BY <1>5, <1>6, <1>7, <1>8, <1>9, <1>10, <1>11, <1>12, <1>13
     DEF Next, LoopStep, BodyStep, GiveUpControl

(* A handle that leaves the queues is the coroutine that runs next. *)
THEOREM NothingLost == Spec => NoneLost
<1>1. IInv /\ [Next]_vars => [Kept]_vars
  BY KeptStep DEF IInv
<1> QED
  BY <1>1, Invariant, PTL DEF Spec, NoneLost, Kept

-----------------------------------------------------------------------------
(* Timers leave the timer queue on time and in order. *)

InOrder(t, u, moment) ==
  \A j \in 1..Len(t) :
    t[j].handle \notin Elements(Handles(u)) =>
      /\ t[j].when <= moment
      /\ \A i \in 1..j : t[i].handle \notin Elements(Handles(u))

\* Draining removes a prefix of the timers, all of it due.
LEMMA InOrderNotDue ==
  ASSUME NEW t \in Seq(Entry(Moment, Handle)), NEW w \in Moment,
         \A i, j \in 1..Len(t) : t[i].handle = t[j].handle => i = j
  PROVE  InOrder(t, NotDue(t, w), w)
<1> DEFINE n == DueCount(t, w)
           u == NotDue(t, w)
<1>1. SplitsInOrder(t, w, Entry(Moment, Handle))
  BY MomentIsNat, DrainProperties
<1>2. /\ Len(t) \in Nat /\ n \in 0..Len(t)
      /\ u \in Seq(Entry(Moment, Handle)) /\ Len(u) = Len(t) - n
      /\ \A i \in 1..(Len(t) - n) : u[i].handle = t[n + i].handle
  BY <1>1, LenProperties DEF SplitsInOrder
<1>3. \A i \in 1..n : t[i].when <= w
  <2>1. t \in Seq(Entry(Nat, Handle))
    <3>1. Entry(Moment, Handle) \subseteq Entry(Nat, Handle)
      BY MomentIsNat DEF Entry
    <3> QED
      BY <3>1, SeqMonotonic
  <2> QED
    BY <2>1, MomentIsNat, DueCountProperties
<1>4. Elements(Handles(u)) = {u[i].handle : i \in 1..Len(u)}
  BY <1>2, ElementsOfHandles
<1> HIDE DEF n, u
<1>5. ASSUME NEW i \in 1..Len(t), i > n
      PROVE  t[i].handle \in Elements(Handles(u))
  <2>1. i - n \in 1..Len(u) /\ n + (i - n) = i
    BY <1>2, <1>5
  <2>2. u[i - n].handle = t[i].handle
    BY <2>1, <1>2
  <2> QED
    BY <2>1, <2>2, <1>4
<1>6. ASSUME NEW i \in 1..Len(t), i <= n
      PROVE  t[i].handle \notin Elements(Handles(u))
  <2>1. SUFFICES ASSUME NEW m \in 1..Len(u), u[m].handle = t[i].handle
                 PROVE  FALSE
    BY <1>4
  <2>2. n + m \in 1..Len(t) /\ n + m > n /\ t[n + m].handle = t[i].handle
    BY <2>1, <1>2
  <2>3. n + m = i
    BY <2>2
  <2> QED
    BY <2>2, <2>3, <1>6, <1>2
<1>7. ASSUME NEW j \in 1..Len(t), t[j].handle \notin Elements(Handles(u))
      PROVE  t[j].when <= w /\ \A i \in 1..j : t[i].handle \notin Elements(Handles(u))
  <2>1. j <= n
    BY <1>2, <1>5, <1>7
  <2>2. t[j].when <= w
    BY <2>1, <1>3, <1>2
  <2>3. \A i \in 1..j : i \in 1..Len(t) /\ i <= n
    BY <2>1, <1>2
  <2> QED
    BY <2>2, <2>3, <1>6
<1> QED
  BY <1>7 DEF InOrder, u

\* Every step removes timers in order, if any.
LEMMA InOrderStep ==
  ASSUME TypeOK, RegisteredOnce, [Next]_vars
  PROVE  InOrder(timers, timers', now)
<1>t. timers \in Seq(Entry(Moment, Handle)) /\ now \in Moment
  BY DEF TypeOK
<1>1. \A j \in 1..Len(timers) : timers[j].handle \in Elements(Handles(timers))
  BY <1>t, ElementsOfHandles
<1>2. ASSUME NEW w \in Moment, NEW h \in Handle, timers' = Schedule(timers, w, h)
      PROVE  InOrder(timers, timers', now)
  BY <1>1, <1>2, <1>t, ElementsSchedule DEF InOrder
<1>3. ASSUME timers' = timers PROVE InOrder(timers, timers', now)
  BY <1>1, <1>3 DEF InOrder
<1>4. CASE RunResume \/ RunOnce
  <2>1. InOrder(timers, NotDue(timers, now), now)
    BY <1>t, InOrderNotDue DEF RegisteredOnce
  <2> QED
    BY <1>4, <2>1 DEF RunResume, RunOnce
<1>5. ASSUME NEW w \in Moment, NEW h \in Handle, ScheduleAt(w, h)
      PROVE  InOrder(timers, timers', now)
  BY <1>2, <1>5 DEF ScheduleAt
<1>6. ASSUME NEW w \in Moment, Sleep(w) PROVE InOrder(timers, timers', now)
  BY <1>2, <1>6 DEF Sleep, TypeOK
<1>7. ASSUME NEW h \in Handle, Post(h) \/ Transfer(h) \/ Run(h)
      PROVE  InOrder(timers, timers', now)
  BY <1>3, <1>7 DEF Post, Transfer, Run, queues
<1>8. CASE \/ Yield \/ Leave \/ RunWait \/ RunReturn \/ RunOnceResume
           \/ RunOnceReturn \/ Tick \/ UNCHANGED vars
  BY <1>3, <1>8 DEF Yield, Leave, RunWait, RunReturn, RunOnceResume, RunOnceReturn,
                    Tick, vars, queues
<1> QED
  BY <1>4, <1>5, <1>6, <1>7, <1>8 DEF Next, LoopStep, BodyStep, GiveUpControl

(* A timer never fires before its deadline, nor before an earlier one. *)
THEOREM TimersFireInOrder == Spec => TimersInOrder
<1> DEFINE A == \A j \in 1..Len(timers) :
                  timers[j].handle \notin Elements(Handles(timers))' =>
                    /\ timers[j].when <= now
                    /\ \A i \in 1..j :
                         timers[i].handle \notin Elements(Handles(timers))'
<1>1. IInv /\ [Next]_vars => [A]_vars
  <2>1. ASSUME IInv, [Next]_vars PROVE InOrder(timers, timers', now)
    BY <2>1, InOrderStep DEF IInv
  <2>2. Elements(Handles(timers))' = Elements(Handles(timers'))
    BY DEF Elements, Handles
  <2>3. InOrder(timers, timers', now) => A
    BY <2>2, Zenon DEF InOrder
  <2> QED
    BY <2>1, <2>3
<1> QED
  BY <1>1, Invariant, PTL DEF Spec, TimersInOrder

-----------------------------------------------------------------------------
(* EventLoop implements Scheduler.  The queues of the loop are sequences,  *)
(* those of the contract are sets; the lemmas say what each operation on a *)
(* sequence does to the set of its elements.                               *)

\* push_back adds one element.
LEMMA AppendAdds ==
  ASSUME NEW S, NEW r \in Seq(S), NEW h \in S
  PROVE  Elements(Append(r, h)) = Elements(r) \cup {h}
<1>1. /\ Len(r) \in Nat /\ Len(Append(r, h)) = Len(r) + 1
      /\ \A i \in 1..Len(r) : Append(r, h)[i] = r[i]
      /\ Append(r, h)[Len(r) + 1] = h
  BY LenProperties, AppendProperties
<1>2. ASSUME NEW i \in 1..(Len(r) + 1)
      PROVE  Append(r, h)[i] \in Elements(r) \cup {h}
  <2>1. i \in 1..Len(r) \/ i = Len(r) + 1
    BY <1>1
  <2> QED
    BY <2>1, <1>1 DEF Elements
<1>3. ASSUME NEW i \in 1..Len(r) PROVE r[i] \in Elements(Append(r, h))
  BY <1>1, <1>3, i \in 1..(Len(r) + 1) DEF Elements
<1>4. h \in Elements(Append(r, h))
  BY <1>1, Len(r) + 1 \in 1..(Len(r) + 1) DEF Elements
<1> QED
  BY <1>1, <1>2, <1>3, <1>4, Zenon DEF Elements

\* pop_front takes the oldest element, and no other that equals it.
LEMMA PopRemoves ==
  ASSUME NEW S, NEW r \in Seq(S), r # <<>>,
         \A i, j \in 1..Len(r) : r[i] = r[j] => i = j
  PROVE  Head(r) \in Elements(r) /\ Elements(Tail(r)) = Elements(r) \ {Head(r)}
<1>1. /\ Len(r) \in Nat /\ Len(r) >= 1 /\ Head(r) = r[1]
      /\ Len(Tail(r)) = Len(r) - 1
      /\ \A i \in 1..Len(Tail(r)) : Tail(r)[i] = r[i + 1]
  BY LenProperties, HeadTailProperties, EmptySeq
<1>2. Head(r) \in Elements(r)
  BY <1>1, 1 \in 1..Len(r) DEF Elements
<1>3. ASSUME NEW i \in 1..Len(Tail(r)) PROVE Tail(r)[i] \in Elements(r) \ {Head(r)}
  <2>1. i + 1 \in 1..Len(r) /\ 1 \in 1..Len(r) /\ i + 1 # 1
    BY <1>1
  <2> QED
    BY <2>1, <1>1 DEF Elements
<1>4. ASSUME NEW i \in 1..Len(r), r[i] # Head(r) PROVE r[i] \in Elements(Tail(r))
  <2>1. i - 1 \in 1..Len(Tail(r)) /\ (i - 1) + 1 = i
    BY <1>1, <1>4
  <2>2. Tail(r)[i - 1] = r[i]
    BY <2>1, <1>1
  <2> QED
    BY <2>1, <2>2 DEF Elements
<1>5. ASSUME NEW x \in Elements(r), x # Head(r) PROVE x \in Elements(Tail(r))
  BY <1>4, <1>5 DEF Elements
<1>6. ASSUME NEW x \in Elements(Tail(r)) PROVE x \in Elements(r) \ {Head(r)}
  BY <1>3, <1>6 DEF Elements
<1> QED
  BY <1>2, <1>5, <1>6

\* TimerQueue::Schedule adds one entry.
LEMMA ScheduleAdds ==
  ASSUME NEW t \in Seq(Entry(Moment, Handle)), NEW w \in Moment, NEW h \in Handle
  PROVE  Elements(Schedule(t, w, h)) = Elements(t) \cup {[when |-> w, handle |-> h]}
<1> DEFINE k == DueCount(t, w)
           s == Schedule(t, w, h)
           e == [when |-> w, handle |-> h]
<1>0. InsertsInOrder(t, w, h, Entry(Moment, Handle))
  BY MomentIsNat, ScheduleProperties
<1>1. /\ Len(t) \in Nat /\ k \in 0..Len(t) /\ Len(s) = Len(t) + 1
      /\ \A i \in 1..(Len(t) + 1) :
           s[i] = IF i <= k THEN t[i] ELSE IF i = k + 1 THEN e ELSE t[i - 1]
  BY <1>0, LenProperties DEF InsertsInOrder
<1> HIDE DEF k, s, e
<1>2. ASSUME NEW i \in 1..(Len(t) + 1) PROVE s[i] \in Elements(t) \cup {e}
  <2>1. CASE i <= k
    BY <2>1, <1>1, i \in 1..Len(t) DEF Elements
  <2>2. CASE i = k + 1
    BY <2>2, <1>1
  <2>3. CASE i > k + 1
    BY <2>3, <1>1, i - 1 \in 1..Len(t) DEF Elements
  <2> QED
    BY <2>1, <2>2, <2>3, <1>1
<1>3. ASSUME NEW i \in 1..Len(t) PROVE t[i] \in Elements(s)
  <2>1. CASE i <= k
    BY <2>1, <1>1, i \in 1..(Len(t) + 1) DEF Elements
  <2>2. CASE i > k
    <3>1. i + 1 \in 1..(Len(t) + 1) /\ ~(i + 1 <= k) /\ i + 1 # k + 1 /\ (i + 1) - 1 = i
      BY <2>2, <1>1
    <3>2. s[i + 1] = t[i]
      BY <3>1, <1>1
    <3> QED
      BY <3>1, <3>2, <1>1 DEF Elements
  <2> QED
    BY <2>1, <2>2, <1>1
<1>4. e \in Elements(s)
  <2>1. k + 1 \in 1..(Len(t) + 1) /\ ~(k + 1 <= k)
    BY <1>1
  <2>2. s[k + 1] = e
    BY <2>1, <1>1
  <2> QED
    BY <2>1, <2>2, <1>1 DEF Elements
<1>5. Elements(s) = Elements(t) \cup {e}
  BY <1>1, <1>2, <1>3, <1>4, Zenon DEF Elements
<1> QED
  BY <1>5 DEF s, e

(* DrainExpiredTimers moves the elapsed entries, and only those.           *)
LEMMA DrainMoves ==
  ASSUME NEW r \in Seq(Handle), NEW t \in Seq(Entry(Moment, Handle)), NEW w \in Moment,
         \A i, j \in 1..Len(t) : t[i].handle = t[j].handle => i = j
  PROVE  /\ Elements(Due(t, w)) \subseteq Elements(t)
         /\ \A e \in Elements(Due(t, w)) : e.when <= w
         /\ Elements(NotDue(t, w)) = Elements(t) \ Elements(Due(t, w))
         /\ Elements(r \o Handles(Due(t, w)))
              = Elements(r) \cup Contract!HandlesOf(Elements(Due(t, w)))
<1> DEFINE n == DueCount(t, w)
           d == Due(t, w)
           u == NotDue(t, w)
           b == Handles(d)
<1>0. SplitsInOrder(t, w, Entry(Moment, Handle))
  BY MomentIsNat, DrainProperties
<1>1. /\ Len(t) \in Nat /\ n \in 0..Len(t)
      /\ d \in Seq(Entry(Moment, Handle)) /\ Len(d) = n
      /\ \A i \in 1..n : d[i] = t[i]
      /\ Len(u) = Len(t) - n
      /\ \A i \in 1..(Len(t) - n) : u[i] = t[n + i]
  BY <1>0, LenProperties DEF SplitsInOrder
<1>2. \A i \in 1..n : t[i].when <= w
  <2>1. t \in Seq(Entry(Nat, Handle)) /\ w \in Nat
    <3>1. Entry(Moment, Handle) \subseteq Entry(Nat, Handle)
      BY MomentIsNat DEF Entry
    <3> QED
      BY <3>1, MomentIsNat, SeqMonotonic
  <2> QED
    BY <2>1, DueCountProperties
<1>3. /\ b \in Seq(Handle) /\ Len(b) = n
      /\ \A i \in 1..n : b[i] = d[i].handle
  BY <1>1, HandlesProperties
<1> HIDE DEF n, d, u, b
<1>4. /\ Len(r) \in Nat /\ Len(r \o b) = Len(r) + n
      /\ \A i \in 1..(Len(r) + n) :
           (r \o b)[i] = IF i <= Len(r) THEN r[i] ELSE b[i - Len(r)]
  <2>1. /\ Len(r \o b) = Len(r) + Len(b)
        /\ \A i \in 1..(Len(r) + Len(b)) :
             (r \o b)[i] = IF i <= Len(r) THEN r[i] ELSE b[i - Len(r)]
    BY <1>3, ConcatProperties, Zenon
  <2> QED
    BY <2>1, <1>3, LenProperties
<1>5. Elements(d) \subseteq Elements(t) /\ \A e \in Elements(d) : e.when <= w
  <2>1. \A i \in 1..n : i \in 1..Len(t)
    BY <1>1
  <2> QED
    BY <2>1, <1>1, <1>2 DEF Elements
<1>6. Elements(u) \subseteq Elements(t) \ Elements(d)
  <2>1. ASSUME NEW i \in 1..(Len(t) - n), NEW j \in 1..n PROVE t[n + i] # t[j]
    <3>1. n + i \in 1..Len(t) /\ j \in 1..Len(t) /\ n + i # j
      BY <1>1
    <3> QED
      BY <3>1
  <2>2. \A i \in 1..(Len(t) - n) : n + i \in 1..Len(t)
    BY <1>1
  <2> QED
    BY <2>1, <2>2, <1>1 DEF Elements
<1>7. Elements(t) \ Elements(d) \subseteq Elements(u)
  <2>1. ASSUME NEW i \in 1..Len(t), t[i] \notin Elements(d)
        PROVE  t[i] \in Elements(u)
    <3>1. ~(i \in 1..n)
      BY <2>1, <1>1 DEF Elements
    <3>2. i - n \in 1..(Len(t) - n) /\ n + (i - n) = i
      BY <3>1, <1>1
    <3>3. u[i - n] = t[i]
      BY <3>2, <1>1
    <3> QED
      BY <3>2, <3>3, <1>1 DEF Elements
  <2> QED
    BY <2>1 DEF Elements
<1>8. Elements(r \o b) \subseteq Elements(r) \cup Contract!HandlesOf(Elements(d))
  <2>1. ASSUME NEW i \in 1..(Len(r) + n)
        PROVE  (r \o b)[i] \in Elements(r) \cup Contract!HandlesOf(Elements(d))
    <3>1. CASE i <= Len(r)
      BY <3>1, <1>4, i \in 1..Len(r) DEF Elements
    <3>2. CASE i > Len(r)
      <4>1. i - Len(r) \in 1..n /\ ~(i <= Len(r))
        BY <3>2, <1>1, <1>4
      <4>2. (r \o b)[i] = d[i - Len(r)].handle /\ d[i - Len(r)] \in Elements(d)
        BY <4>1, <1>1, <1>3, <1>4 DEF Elements
      <4> QED
        BY <4>2 DEF Contract!HandlesOf
    <3> QED
      BY <3>1, <3>2, <1>1, <1>4
  <2> QED
    BY <2>1, <1>4 DEF Elements
<1>9. Elements(r) \subseteq Elements(r \o b)
  <2>1. \A i \in 1..Len(r) : i \in 1..(Len(r) + n) /\ i <= Len(r)
    BY <1>1, <1>4
  <2> QED
    BY <2>1, <1>4 DEF Elements
<1>10. Contract!HandlesOf(Elements(d)) \subseteq Elements(r \o b)
  <2>1. ASSUME NEW i \in 1..n PROVE d[i].handle \in Elements(r \o b)
    <3>1. Len(r) + i \in 1..(Len(r) + n) /\ ~(Len(r) + i <= Len(r))
          /\ (Len(r) + i) - Len(r) = i
      BY <1>1, <1>4
    <3>2. (r \o b)[Len(r) + i] = d[i].handle
      BY <3>1, <1>3, <1>4
    <3> QED
      BY <3>1, <3>2, <1>4 DEF Elements
  <2>2. ASSUME NEW e \in Elements(d) PROVE e.handle \in Elements(r \o b)
    BY <2>1, <2>2, <1>1 DEF Elements
  <2> QED
    BY <2>2 DEF Contract!HandlesOf
<1> QED
  BY <1>5, <1>6, <1>7, <1>8, <1>9, <1>10 DEF d, u, b

-----------------------------------------------------------------------------
(* The refinement. *)

\* The handles of the parked entries are those of the timer queue.
LEMMA ParkedHandles ==
  ASSUME TypeOK
  PROVE  Contract!HandlesOf(Elements(timers)) = Elements(Handles(timers))
<1>1. Elements(Handles(timers)) = {timers[i].handle : i \in 1..Len(timers)}
  BY ElementsOfHandles DEF TypeOK
<1> QED
  BY <1>1 DEF Elements, Contract!HandlesOf

\* A suspended handle is free in the contract's sense.
LEMMA SuspendedIsFree ==
  ASSUME TypeOK, NEW h \in Handle, Suspended(h)
  PROVE  Contract!Free(h)
BY ParkedHandles DEF Suspended, Registered, Contract!Free

\* The initial states are those of the contract.
LEMMA InitRefines == Init => Contract!Init
BY DEF Init, Contract!Init, Elements

(* What the coroutines do to the loop is what the contract lets them do.   *)
LEMMA BodyRefines ==
  ASSUME IInv, BodyStep
  PROVE  Contract!Next
<1>t. /\ TypeOK /\ ready \in Seq(Handle) /\ timers \in Seq(Entry(Moment, Handle))
      /\ now \in Moment /\ current \in Handle \cup {NoHandle}
  BY DEF IInv, TypeOK
<1>1. ASSUME NEW h \in Handle, Post(h) PROVE Contract!Next
  <2>1. Elements(ready') = Elements(ready) \cup {h}
    BY <1>1, <1>t, AppendAdds DEF Post
  <2>2. Contract!Free(h)
    BY <1>1, <1>t, SuspendedIsFree DEF Post
  <2>3. Contract!Post(h)
    BY <1>1, <2>1, <2>2 DEF Post, Contract!Post, Contract!Enqueue
  <2> QED
    BY <2>3 DEF Contract!Next
<1>2. ASSUME NEW w \in Moment, NEW h \in Handle, ScheduleAt(w, h) PROVE Contract!Next
  <2>1. Elements(timers') = Elements(timers) \cup {[when |-> w, handle |-> h]}
    BY <1>2, <1>t, ScheduleAdds DEF ScheduleAt
  <2>2. Contract!Free(h)
    BY <1>2, <1>t, SuspendedIsFree DEF ScheduleAt
  <2>3. Contract!ScheduleAt(w, h)
    BY <1>2, <2>1, <2>2
       DEF ScheduleAt, Contract!ScheduleAt, Contract!Register, Contract!Park
  <2> QED
    BY <2>3 DEF Contract!Next
<1>3. CASE Yield
  <2>1. current \in Handle /\ current # NoHandle
    BY <1>3, <1>t DEF Yield
  <2>2. Elements(ready') = Elements(ready) \cup {current}
    BY <1>3, <2>1, <1>t, AppendAdds DEF Yield
  <2>3. Contract!Yield(current)
    BY <1>3, <2>1, <2>2 DEF Yield, Contract!Yield, Contract!Stops, Contract!Enqueue
  <2> QED
    BY <2>1, <2>3 DEF Contract!Next
<1>4. ASSUME NEW w \in Moment, Sleep(w) PROVE Contract!Next
  <2>1. current \in Handle /\ current # NoHandle
    BY <1>4, <1>t DEF Sleep
  <2>2. Elements(timers') = Elements(timers) \cup {[when |-> w, handle |-> current]}
    BY <1>4, <2>1, <1>t, ScheduleAdds DEF Sleep
  <2>3. Contract!Sleep(w, current)
    BY <1>4, <2>1, <2>2
       DEF Sleep, Contract!Sleep, Contract!Stops, Contract!Register, Contract!Park
  <2> QED
    BY <2>1, <2>3 DEF Contract!Next
<1>5. CASE Leave
  <2>1. current \in Handle /\ current # NoHandle
    BY <1>5, <1>t DEF Leave
  <2>2. Contract!Leave(current)
    BY <1>5, <2>1 DEF Leave, queues, Contract!Leave, Contract!Stops
  <2> QED
    BY <2>1, <2>2 DEF Contract!Next
<1>6. ASSUME NEW h \in Handle, Transfer(h) PROVE Contract!Next
  <2>1. current \in Handle /\ current # NoHandle /\ h # NoHandle
    BY <1>6, <1>t, HandleAssumption DEF Transfer
  <2>2. Contract!Free(h)
    BY <1>6, <1>t, SuspendedIsFree DEF Transfer
  <2>3. Contract!Transfer(current, h)
    BY <1>6, <2>1, <2>2 DEF Transfer, queues, Contract!Transfer
  <2> QED
    BY <2>1, <2>3 DEF Contract!Next
<1> QED
  BY <1>1, <1>2, <1>3, <1>4, <1>5, <1>6 DEF BodyStep, GiveUpControl

(* A drive drains elapsed entries, all of them, and no other; then it may  *)
(* resume the oldest handle.                                               *)
LEMMA LoopRefines ==
  ASSUME IInv, LoopStep \/ RunOnce
  PROVE  Contract!Next \/ UNCHANGED Contract!contractVars
<1> DEFINE due == Elements(Due(timers, now))
<1>t. /\ TypeOK /\ ready \in Seq(Handle) /\ timers \in Seq(Entry(Moment, Handle))
      /\ now \in Moment /\ now <= now /\ current \in Handle \cup {NoHandle}
  BY MomentIsNat DEF IInv, TypeOK
<1>o. Once(ready, timers, current)
  BY <1>t, RegisteredOnceMeans DEF IInv
<1>d. /\ due \subseteq Elements(timers)
      /\ \A e \in due : e.when <= now
      /\ Elements(NotDue(timers, now)) = Elements(timers) \ due
      /\ Elements(Drained) = Elements(ready) \cup Contract!HandlesOf(due)
  BY <1>t, <1>o, DrainMoves DEF Once, Drained
<1> HIDE DEF due
<1>1. CASE RunResume
  <2>1. Drained \in Seq(Handle) /\ Drained # <<>>
    BY <1>1, <1>t, DrainTypes DEF RunResume
  <2>2. \A i, j \in 1..Len(Drained) : Drained[i] = Drained[j] => i = j
    <3>1. Once(Drained, NotDue(timers, now), current)
      BY <1>t, <1>o, OnceDrain DEF Drained
    <3> QED
      BY <3>1 DEF Once
  <2>3. Head(Drained) \in Elements(Drained)
        /\ Elements(Tail(Drained)) = Elements(Drained) \ {Head(Drained)}
    BY <2>1, <2>2, PopRemoves
  <2>4. Head(Drained) \in Handle
    BY <2>1, HeadTailProperties
  <2>5. Contract!Resume(due, Head(Drained))
    BY <1>1, <1>t, <1>d, <2>3, <2>4, HandleAssumption
       DEF RunResume, Contract!Resume, Contract!Elapse, Contract!TimePasses
  <2> QED
    BY <2>4, <2>5, <1>d DEF Contract!Next
<1>2. CASE RunOnce
  <2>1. Contract!Wait(due)
    BY <1>2, <1>t, <1>d DEF RunOnce, Contract!Wait, Contract!Elapse, Contract!TimePasses
  <2> QED
    BY <2>1, <1>d DEF Contract!Next
<1>3. CASE RunOnceResume
  <2>1. ready # <<>>
    BY <1>3, <1>t, EmptySeq DEF RunOnceResume, IInv, SnapshotServed, TypeOK
  <2>2. Head(ready) \in Elements(ready)
        /\ Elements(Tail(ready)) = Elements(ready) \ {Head(ready)}
    BY <2>1, <1>t, <1>o, PopRemoves DEF Once
  <2>3. Head(ready) \in Handle
    BY <2>1, <1>t, HeadTailProperties
  <2>4. Contract!HandlesOf({}) = {}
    BY DEF Contract!HandlesOf
  <2>5. Contract!Resume({}, Head(ready))
    BY <1>3, <1>t, <2>2, <2>3, <2>4, HandleAssumption
       DEF RunOnceResume, Contract!Resume, Contract!Elapse, Contract!TimePasses
  <2> QED
    BY <2>3, <2>5 DEF Contract!Next
<1>4. CASE RunWait
  <2>1. now' \in Moment /\ now' >= now
    BY <1>4 DEF RunWait, WaitUntil
  <2>2. Contract!Wait({})
    BY <1>4, <2>1 DEF RunWait, queues, Contract!Wait, Contract!Elapse,
                      Contract!TimePasses, Contract!HandlesOf
  <2> QED
    BY <2>2 DEF Contract!Next
<1>5. CASE RunReturn \/ RunOnceReturn
  BY <1>5 DEF RunReturn, RunOnceReturn, queues, Contract!contractVars
<1> QED
  BY <1>1, <1>2, <1>3, <1>4, <1>5 DEF LoopStep

\* Every step of the loop is a step of the contract, or none.
LEMMA StepRefines ==
  ASSUME IInv, [Next]_vars
  PROVE  [Contract!Next]_Contract!contractVars
<1>1. CASE BodyStep
  BY <1>1, BodyRefines
<1>2. CASE LoopStep \/ RunOnce
  BY <1>2, LoopRefines
<1>3. ASSUME NEW h \in Handle, Run(h) PROVE Contract!Next
  <2>1. TypeOK /\ ready \in Seq(Handle)
    BY DEF IInv, TypeOK
  <2>2. Elements(ready') = Elements(ready) \cup {h}
    BY <1>3, <2>1, AppendAdds DEF Run
  <2>3. Contract!Free(h)
    BY <1>3, <2>1, SuspendedIsFree DEF Run
  <2>4. Contract!Post(h)
    BY <1>3, <2>2, <2>3 DEF Run, Contract!Post, Contract!Enqueue
  <2> QED
    BY <2>4 DEF Contract!Next
<1>4. CASE Tick
  <2>1. now' \in Moment /\ now' >= now
    BY <1>4, MomentIsNat, TimeAssumption DEF Tick, IInv, TypeOK, Moment
  <2>2. Contract!Wait({})
    BY <1>4, <2>1 DEF Tick, queues, Contract!Wait, Contract!Elapse,
                      Contract!TimePasses, Contract!HandlesOf
  <2> QED
    BY <2>2 DEF Contract!Next
<1>5. CASE UNCHANGED vars
  BY <1>5 DEF vars, Contract!contractVars
<1> QED
  BY <1>1, <1>2, <1>3, <1>4, <1>5 DEF Next

(* The event loop implements IScheduler: each handle that is posted or     *)
(* scheduled is resumed at most once, not before its time, and never       *)
(* dropped, whatever coroutines do meanwhile.                              *)
THEOREM EventLoopIsAScheduler == Spec => ImplementsScheduler
<1>1. Init => Contract!Init
  BY InitRefines
<1>2. IInv /\ [Next]_vars => [Contract!Next]_Contract!contractVars
  BY StepRefines
<1> QED
  BY <1>1, <1>2, Invariant, PTL DEF Spec, ImplementsScheduler, Contract!Spec

=============================================================================
