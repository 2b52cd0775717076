------------------------ MODULE FetchBackend_proofs -------------------------
(***************************************************************************)
(* What FetchBackend tells the UI is so, and a cancelled sequence fetches  *)
(* nothing more, for every number of calls of start(), every order in      *)
(* which sleeping sequences wake and every slot on its signals.            *)
(***************************************************************************)
EXTENDS FetchBackend, FiniteSetTheorems, SequenceTheorems, TLAPS

-----------------------------------------------------------------------------
(* What a call in progress has left to do.                                 *)

StartStage ==
  {<<Set("result", FALSE), Set("step", 0), Set("busy", TRUE), Spawn>>,
   <<Set("step", 0), Set("busy", TRUE), Spawn>>,
   <<Set("busy", TRUE), Spawn>>,
   <<Spawn>>}

SequenceStage ==
  {<<Set("step", k), Check>> : k \in 1..stepCount}
    \cup {<<Set("status", s), Fetch>> : s \in Status}
    \cup {<<Check>>, <<Fetch>>,
          <<Set("status", "Cancelled"), Set("busy", FALSE)>>,
          <<Set("result", TRUE), Set("status", "Done"), Set("busy", FALSE)>>,
          <<Set("status", "Done"), Set("busy", FALSE)>>,
          <<Set("busy", FALSE)>>,
          <<>>}

StageOf(seq) == IF seq = NoSequence THEN StartStage ELSE SequenceStage

\* A setter of one of the properties, with a value of its type.
IsSetter(op) ==
  \/ op.property = "status" /\ op.value \in Status
  \/ op.property = "step" /\ op.value \in 0..stepCount
  \/ op.property \in {"busy", "result"} /\ op.value \in BOOLEAN

Ui == [status : Status, step : 0..stepCount, busy : BOOLEAN, result : BOOLEAN]

\* Taking the first element off a short tuple.
LEMMA Tuples ==
  /\ \A a : Head(<<a>>) = a /\ Tail(<<a>>) = <<>> /\ <<a>> # <<>> /\ Len(<<a>>) = 1
  /\ \A a, b : Head(<<a, b>>) = a /\ Tail(<<a, b>>) = <<b>> /\ <<a, b>> # <<>>
               /\ Len(<<a, b>>) = 2
  /\ \A a, b, c : Head(<<a, b, c>>) = a /\ Tail(<<a, b, c>>) = <<b, c>>
                  /\ <<a, b, c>> # <<>> /\ Len(<<a, b, c>>) = 3
  /\ \A a, b, c, d : Head(<<a, b, c, d>>) = a /\ Tail(<<a, b, c, d>>) = <<b, c, d>>
                     /\ <<a, b, c, d>> # <<>> /\ Len(<<a, b, c, d>>) = 4
OBVIOUS

\* There are three fetches.
LEMMA ThreeSteps ==
  /\ stepCount = 3
  /\ \A k \in 1..3 : FetchSteps[k] \in Status
  /\ {"Idle", "Cancelled", "Done"} \subseteq Status
<1>1. stepCount = 3
  BY DEF stepCount, FetchSteps
<1> QED
  BY <1>1 DEF Status

\* The kinds of operations differ, and what they carry is what was put in.
LEMMA Operations ==
  /\ \A p, v : /\ Set(p, v).op = "set" /\ Set(p, v).property = p /\ Set(p, v).value = v
  /\ Spawn.op = "spawn" /\ Check.op = "check" /\ Fetch.op = "fetch"
BY DEF Set, Spawn, Check, Fetch

\* What is set is of the type of its property.
LEMMA Setters ==
  /\ \A v \in BOOLEAN : IsSetter(Set("busy", v)) /\ IsSetter(Set("result", v))
  /\ \A s \in Status : IsSetter(Set("status", s))
  /\ \A k \in 0..stepCount : IsSetter(Set("step", k))
<1>1. ASSUME NEW v \in BOOLEAN PROVE IsSetter(Set("busy", v)) /\ IsSetter(Set("result", v))
  <2>1. "busy" \in {"busy", "result"} /\ "result" \in {"busy", "result"}
    OBVIOUS
  <2> QED
    BY <2>1, Operations, Zenon DEF IsSetter
<1>2. ASSUME NEW s \in Status PROVE IsSetter(Set("status", s))
  BY Operations, Zenon DEF IsSetter
<1>3. ASSUME NEW k \in 0..stepCount PROVE IsSetter(Set("step", k))
  BY Operations, Zenon DEF IsSetter
<1> QED
  BY <1>1, <1>2, <1>3

\* start() sets three properties, and spawns a sequence last.
LEMMA StartStages ==
  ASSUME NEW t \in StartStage
  PROVE  /\ t # <<>>
         /\ \/ /\ Len(t) = 4 /\ Head(t) = Set("result", FALSE)
               /\ Tail(t) \in StartStage /\ Len(Tail(t)) = 3
            \/ /\ Len(t) = 3 /\ Head(t) = Set("step", 0)
               /\ Tail(t) \in StartStage /\ Len(Tail(t)) = 2
            \/ /\ Len(t) = 2 /\ Head(t) = Set("busy", TRUE)
               /\ Tail(t) \in StartStage /\ Tail(t) = <<Spawn>>
            \/ Len(t) = 1 /\ Head(t) = Spawn /\ t = <<Spawn>>
<1> DEFINE a == Set("result", FALSE)
           b == Set("step", 0)
           c == Set("busy", TRUE)
<1>1. StartStage = {<<a, b, c, Spawn>>, <<b, c, Spawn>>, <<c, Spawn>>, <<Spawn>>}
  BY DEF StartStage
<1> HIDE DEF a, b, c
<1>2. /\ <<b, c, Spawn>> \in StartStage /\ <<c, Spawn>> \in StartStage
      /\ <<Spawn>> \in StartStage
  BY <1>1, Zenon
<1>3. CASE t = <<a, b, c, Spawn>>
  <2>1. Head(t) = a /\ Tail(t) = <<b, c, Spawn>> /\ Len(t) = 4 /\ Len(Tail(t)) = 3 /\ t # <<>>
    BY <1>3, Tuples
  <2> QED
    BY <1>2, <2>1 DEF a
<1>4. CASE t = <<b, c, Spawn>>
  <2>1. Head(t) = b /\ Tail(t) = <<c, Spawn>> /\ Len(t) = 3 /\ Len(Tail(t)) = 2 /\ t # <<>>
    BY <1>4, Tuples
  <2> QED
    BY <1>2, <2>1 DEF b
<1>5. CASE t = <<c, Spawn>>
  <2>1. Head(t) = c /\ Tail(t) = <<Spawn>> /\ Len(t) = 2 /\ t # <<>>
    BY <1>5, Tuples
  <2> QED
    BY <1>2, <2>1 DEF c
<1>6. CASE t = <<Spawn>>
  BY <1>6, Tuples
<1> QED
  BY <1>1, <1>3, <1>4, <1>5, <1>6

\* Until it spawns, start() has more than that left to do.
LEMMA StartLengths ==
  ASSUME NEW t \in StartStage
  PROVE  Len(t) \in 1..4 /\ (t # <<Spawn>> => Len(t) > 1)
<1>1. \/ Len(t) = 4
      \/ Len(t) = 3
      \/ Len(t) = 2
      \/ Len(t) = 1 /\ t = <<Spawn>>
  BY StartStages, Zenon
<1> QED
  BY <1>1

\* The stages of a sequence, by name.
LEMMA IsASequenceStage ==
  /\ \A k \in 1..stepCount : <<Set("step", k), Check>> \in SequenceStage
  /\ \A s \in Status : <<Set("status", s), Fetch>> \in SequenceStage
  /\ <<Check>> \in SequenceStage /\ <<Fetch>> \in SequenceStage
  /\ <<Set("status", "Cancelled"), Set("busy", FALSE)>> \in SequenceStage
  /\ <<Set("result", TRUE), Set("status", "Done"), Set("busy", FALSE)>> \in SequenceStage
  /\ <<Set("status", "Done"), Set("busy", FALSE)>> \in SequenceStage
  /\ <<Set("busy", FALSE)>> \in SequenceStage /\ <<>> \in SequenceStage
<1>1. \A k \in 1..stepCount : <<Set("step", k), Check>> \in SequenceStage
  BY Zenon DEF SequenceStage
<1>2. \A s \in Status : <<Set("status", s), Fetch>> \in SequenceStage
  BY Zenon DEF SequenceStage
<1>3. <<Check>> \in SequenceStage /\ <<Fetch>> \in SequenceStage
  BY Zenon DEF SequenceStage
<1>4. <<Set("status", "Cancelled"), Set("busy", FALSE)>> \in SequenceStage
  BY Zenon DEF SequenceStage
<1>5. <<Set("result", TRUE), Set("status", "Done"), Set("busy", FALSE)>> \in SequenceStage
  BY Zenon DEF SequenceStage
<1>6. <<Set("status", "Done"), Set("busy", FALSE)>> \in SequenceStage
  BY Zenon DEF SequenceStage
<1>7. <<Set("busy", FALSE)>> \in SequenceStage /\ <<>> \in SequenceStage
  BY Zenon DEF SequenceStage
<1> QED
  BY <1>1, <1>2, <1>3, <1>4, <1>5, <1>6, <1>7, Zenon

\* A sequence that was resumed reports, looks at its token and sleeps or ends.
LEMMA SequenceStages ==
  ASSUME NEW t \in SequenceStage, t # <<>>
  PROVE  \/ Head(t).op = "set" /\ IsSetter(Head(t)) /\ Tail(t) \in SequenceStage
         \/ Head(t).op = "check" /\ t = <<Check>>
         \/ Head(t).op = "fetch" /\ t = <<Fetch>>
<1> DEFINE Good(a) == a.op = "set" /\ IsSetter(a)
<1>1. /\ Good(Set("busy", FALSE)) /\ Good(Set("result", TRUE))
      /\ \A s \in Status : Good(Set("status", s))
      /\ \A k \in 1..stepCount : Good(Set("step", k))
  <2>1. TRUE \in BOOLEAN /\ FALSE \in BOOLEAN /\ \A k \in 1..stepCount : k \in 0..stepCount
    BY ThreeSteps
  <2> QED
    BY <2>1, Setters, Operations, Zenon
<1>2. ASSUME NEW k \in 1..stepCount, t = <<Set("step", k), Check>>
      PROVE  Good(Head(t)) /\ Tail(t) \in SequenceStage
  <2>1. Head(t) = Set("step", k) /\ Tail(t) = <<Check>>
    BY <1>2, Tuples, Zenon
  <2> QED
    BY <1>1, <2>1, IsASequenceStage, Zenon
<1>3. ASSUME NEW s \in Status, t = <<Set("status", s), Fetch>>
      PROVE  Good(Head(t)) /\ Tail(t) \in SequenceStage
  <2>1. Head(t) = Set("status", s) /\ Tail(t) = <<Fetch>>
    BY <1>3, Tuples, Zenon
  <2> QED
    BY <1>1, <2>1, IsASequenceStage, Zenon
<1>4. CASE t \in {<<Check>>, <<Fetch>>}
  BY <1>4, Tuples, Operations
<1>5. ASSUME NEW s \in Status, t = <<Set("status", s), Set("busy", FALSE)>>
      PROVE  Good(Head(t)) /\ Tail(t) \in SequenceStage
  <2>1. Head(t) = Set("status", s) /\ Tail(t) = <<Set("busy", FALSE)>>
    BY <1>5, Tuples, Zenon
  <2> QED
    BY <1>1, <2>1, IsASequenceStage, Zenon
<1>6. ASSUME t = <<Set("result", TRUE), Set("status", "Done"), Set("busy", FALSE)>>
      PROVE  Good(Head(t)) /\ Tail(t) \in SequenceStage
  <2>1. Head(t) = Set("result", TRUE) /\ Tail(t) = <<Set("status", "Done"), Set("busy", FALSE)>>
    <3> DEFINE a == Set("result", TRUE)
               b == Set("status", "Done")
               c == Set("busy", FALSE)
    <3>1. t = <<a, b, c>>
      BY <1>6
    <3> HIDE DEF a, b, c
    <3>2. Head(t) = a /\ Tail(t) = <<b, c>>
      BY <3>1, Tuples
    <3> QED
      BY <3>2 DEF a, b, c
  <2> QED
    BY <1>1, <2>1, IsASequenceStage, Zenon
<1>7. ASSUME t = <<Set("busy", FALSE)>>
      PROVE  Good(Head(t)) /\ Tail(t) \in SequenceStage
  <2>1. Head(t) = Set("busy", FALSE) /\ Tail(t) = <<>>
    BY <1>7, Tuples, Zenon
  <2> QED
    BY <1>1, <2>1, IsASequenceStage, Zenon
<1>8. "Cancelled" \in Status /\ "Done" \in Status
  BY ThreeSteps
<1>9. \/ \E k \in 1..stepCount : t = <<Set("step", k), Check>>
      \/ \E s \in Status : t = <<Set("status", s), Fetch>>
      \/ t \in {<<Check>>, <<Fetch>>}
      \/ t = <<Set("status", "Cancelled"), Set("busy", FALSE)>>
      \/ t = <<Set("result", TRUE), Set("status", "Done"), Set("busy", FALSE)>>
      \/ t = <<Set("status", "Done"), Set("busy", FALSE)>>
      \/ t = <<Set("busy", FALSE)>>
  BY Zenon DEF SequenceStage
<1> QED
  BY <1>2, <1>3, <1>4, <1>5, <1>6, <1>7, <1>8, <1>9, Zenon

\* What either kind of call does next.
LEMMA Stages ==
  ASSUME NEW seq, NEW t \in StageOf(seq)
  PROVE  /\ t = <<>> => seq # NoSequence
         /\ t # <<>> /\ Head(t).op = "set" => IsSetter(Head(t)) /\ Tail(t) \in StageOf(seq)
         /\ t # <<>> /\ Head(t).op = "spawn" => seq = NoSequence /\ t = <<Spawn>>
         /\ t # <<>> /\ Head(t).op = "check" => seq # NoSequence /\ t = <<Check>>
         /\ t # <<>> /\ Head(t).op = "fetch" => seq # NoSequence /\ t = <<Fetch>>
<1>1. CASE seq = NoSequence
  <2>1. t \in StartStage
    BY <1>1 DEF StageOf
  <2>2. IsSetter(Set("result", FALSE)) /\ IsSetter(Set("step", 0)) /\ IsSetter(Set("busy", TRUE))
    <3>1. TRUE \in BOOLEAN /\ FALSE \in BOOLEAN /\ 0 \in 0..stepCount
      BY ThreeSteps
    <3> QED
      BY <3>1, Setters, Zenon
  <2>3. /\ Set("result", FALSE).op = "set" /\ Set("step", 0).op = "set"
        /\ Set("busy", TRUE).op = "set" /\ Spawn.op = "spawn"
    BY Operations, Zenon
  <2> QED
    BY <1>1, <2>1, <2>2, <2>3, StartStages DEF StageOf
<1>2. CASE seq # NoSequence
  <2>1. t \in SequenceStage
    BY <1>2 DEF StageOf
  <2> QED
    BY <1>2, <2>1, SequenceStages DEF StageOf
<1> QED
  BY <1>1, <1>2

-----------------------------------------------------------------------------
(* The inductive invariant.                                                *)

CallInProgress ==
  [seq : Sequence \cup {NoSequence}, todo : StartStage \cup SequenceStage, emitting : BOOLEAN]

StackOK ==
  /\ calls \in Seq(CallInProgress)
  /\ \A i \in 1..Len(calls) : calls[i].todo \in StageOf(calls[i].seq)
  /\ calls # <<>> => open

(* A sequence waits in one place or is resumed by one call, and only those *)
(* that start() has spawned do either.                                     *)
OnePlaceOK ==
  /\ \A i, j \in 1..Len(calls) :
       calls[i].seq = calls[j].seq /\ calls[i].seq # NoSequence => i = j
  /\ Waiting \cap running = {} /\ ready \cap Pump!HandlesOf(parked) = {}
  /\ \A q \in Waiting \cup running : frame[q].token # 0

Spawned == {q \in Sequence : frame[q].token # 0}

Starts == {i \in 1..Len(calls) : calls[i].seq = NoSequence}

\* Every start() that found the backend idle spawns one sequence, in its turn.
SpawnedOK == \E n \in 0..MaxStarts : Spawned = 1..n /\ n + Cardinality(Starts) = source

(* Without overlap one thing goes on at a time: a call that has something  *)
(* left to do, a sequence that sleeps, or nothing.  Fits says what the UI  *)
(* shows while a call with this much left to do is in progress.            *)
AtRest(u) == /\ u.status \in {"Idle", "Cancelled", "Done"}
             /\ u.result <=> u.status = "Done"
             /\ u.result => u.step = stepCount

Fits(seq, todo, u, f) ==
  IF seq = NoSequence
    THEN Len(todo) = 4 \/ ~u.result
    ELSE \/ todo = <<Set("step", f.fetch), Check>> /\ ~u.result
         \/ todo = <<Check>> /\ ~u.result /\ (f.fetch # 0 => u.step = f.fetch)
         \/ (\E s \in Status : todo = <<Set("status", s), Fetch>>) /\ ~u.result
         \/ todo = <<Fetch>> /\ ~u.result
         \/ todo = <<Set("status", "Cancelled"), Set("busy", FALSE)>> /\ ~u.result
         \/ /\ todo = <<Set("result", TRUE), Set("status", "Done"), Set("busy", FALSE)>>
            /\ u.step = stepCount
         \/ /\ todo = <<Set("status", "Done"), Set("busy", FALSE)>>
            /\ u.result /\ u.step = stepCount
         \/ todo = <<Set("busy", FALSE)>> /\ AtRest(u)

Busy(seq, todo) == seq # NoSequence \/ todo = <<Spawn>>

Live == {i \in 1..Len(calls) : calls[i].todo # <<>>}

Active(i) ==
  LET c == calls[i]
  IN  /\ Live = {i} /\ Waiting = {}
      /\ Fits(c.seq, c.todo, ui, frame[c.seq])
      /\ ui.busy <=> Busy(c.seq, c.todo)

Sleeping(q) == Live = {} /\ Waiting = {q} /\ ui.busy /\ ~ui.result

Resting == Live = {} /\ Waiting = {} /\ ~ui.busy /\ AtRest(ui)

OneActivity == (\E i \in Live : Active(i)) \/ (\E q \in Waiting : Sleeping(q)) \/ Resting

TruthOK == overlapped \/ ~open \/ OneActivity

IInv == TypeOK /\ StackOK /\ OnePlaceOK /\ SpawnedOK /\ TruthOK

-----------------------------------------------------------------------------
(* A setter changes one property.                                          *)

Assign(u, op) == [u EXCEPT ![op.property] = op.value]

\* The UI keeps its type.
LEMMA SetterKeepsType ==
  ASSUME NEW u \in Ui, NEW op, IsSetter(op)
  PROVE  Assign(u, op) \in Ui
BY DEF IsSetter, Ui, Assign

\* A status message changes the status and nothing else.
LEMMA AssignedStatus ==
  ASSUME NEW u \in Ui, NEW s \in Status, NEW w, w = Assign(u, Set("status", s))
  PROVE  w.status = s /\ w.step = u.step /\ (w.busy <=> u.busy) /\ (w.result <=> u.result)
BY DEF Ui, Assign, Set

\* A step counter changes the step and nothing else.
LEMMA AssignedStep ==
  ASSUME NEW u \in Ui, NEW k \in 0..stepCount, NEW w, w = Assign(u, Set("step", k))
  PROVE  w.status = u.status /\ w.step = k /\ (w.busy <=> u.busy) /\ (w.result <=> u.result)
BY DEF Ui, Assign, Set

\* The flags that say whether work runs and whether a result is shown: one
\* changes and nothing else.
LEMMA Assigned ==
  ASSUME NEW u \in Ui, NEW w
  PROVE  /\ w = Assign(u, Set("busy", TRUE)) =>
              w.status = u.status /\ w.step = u.step /\ w.busy /\ (w.result <=> u.result)
         /\ w = Assign(u, Set("busy", FALSE)) =>
              w.status = u.status /\ w.step = u.step /\ ~w.busy /\ (w.result <=> u.result)
         /\ w = Assign(u, Set("result", TRUE)) =>
              w.status = u.status /\ w.step = u.step /\ (w.busy <=> u.busy) /\ w.result
         /\ w = Assign(u, Set("result", FALSE)) =>
              w.status = u.status /\ w.step = u.step /\ (w.busy <=> u.busy) /\ ~w.result
BY DEF Ui, Assign, Set

(* What is left after a setter fits what the property now says; when       *)
(* nothing is left, the backend rests.                                     *)
LEMMA Advances ==
  ASSUME NEW u \in Ui, NEW seq, NEW todo \in StageOf(seq), todo # <<>>,
         Head(todo).op = "set", NEW f, Fits(seq, todo, u, f),
         u.busy <=> Busy(seq, todo),
         NEW v, v = Assign(u, Head(todo))
  PROVE  IF Tail(todo) = <<>>
           THEN AtRest(v) /\ ~v.busy
           ELSE /\ Fits(seq, Tail(todo), v, f)
                /\ v.busy <=> Busy(seq, Tail(todo))
<1>1. TRUE \in BOOLEAN /\ FALSE \in BOOLEAN /\ 0 \in 0..stepCount /\ stepCount # 0
  BY ThreeSteps
<1>2. "Cancelled" \in Status /\ "Done" \in Status
  BY ThreeSteps
<1> DEFINE Is(p, x) == Head(todo) = Set(p, x)
<1>3. \A t \in StartStage : t # <<>>
  BY StartStages
<1>4. \A t : Len(t) # 1 => t # <<Spawn>>
  BY Tuples, Zenon
<1>5. CASE seq = NoSequence
  <2>1. todo \in StartStage /\ (Len(todo) = 4 \/ ~u.result)
    BY <1>5 DEF StageOf, Fits
  <2>2. ~u.busy <=> todo # <<Spawn>>
    BY <1>5 DEF Busy, Ui
  <2>3. Spawn.op = "spawn" /\ Len(<<Spawn>>) = 1 /\ <<Spawn>> # <<>>
    BY Operations, Tuples
  <2>4. CASE Len(todo) = 4 /\ Is("result", FALSE) /\ Tail(todo) \in StartStage /\ Len(Tail(todo)) = 3
    <3>1. v = Assign(u, Set("result", FALSE))
      BY <2>4
    <3>2. ~v.result /\ (v.busy <=> u.busy)
      BY <1>1, <3>1, Assigned
    <3>3. todo # <<Spawn>> /\ Tail(todo) # <<Spawn>> /\ Tail(todo) # <<>>
      <4>1. Len(todo) # 1 /\ Tail(todo) \in StartStage /\ Len(Tail(todo)) # 1
        BY <2>4
      <4> QED
        BY <1>3, <1>4, <4>1, Zenon
    <3> QED
      BY <1>5, <2>2, <3>2, <3>3 DEF Fits, Busy
  <2>5. CASE Len(todo) = 3 /\ Is("step", 0) /\ Tail(todo) \in StartStage /\ Len(Tail(todo)) = 2
    <3>1. v = Assign(u, Set("step", 0))
      BY <2>5
    <3>2. (v.result <=> u.result) /\ (v.busy <=> u.busy)
      BY <1>1, <3>1, AssignedStep, Zenon
    <3>3. todo # <<Spawn>> /\ Tail(todo) # <<Spawn>> /\ Tail(todo) # <<>> /\ ~u.result
      <4>1. Len(todo) # 1 /\ Tail(todo) \in StartStage /\ Len(Tail(todo)) # 1
        BY <2>5
      <4>2. Len(todo) # 4
        BY <2>5
      <4> QED
        BY <1>3, <1>4, <2>1, <4>1, <4>2, Zenon
    <3> QED
      BY <1>5, <2>2, <3>2, <3>3 DEF Fits, Busy
  <2>6. CASE Len(todo) = 2 /\ Is("busy", TRUE) /\ Tail(todo) = <<Spawn>>
    <3>1. v = Assign(u, Set("busy", TRUE))
      BY <2>6
    <3>2. (v.result <=> u.result) /\ v.busy
      BY <1>1, <3>1, Assigned
    <3>3. Tail(todo) # <<>> /\ ~u.result
      BY <2>1, <2>3, <2>6
    <3> QED
      BY <1>5, <2>6, <3>2, <3>3 DEF Fits, Busy
  <2> QED
    BY <2>1, <2>3, <2>4, <2>5, <2>6, StartStages
<1>6. CASE seq # NoSequence
  <2>1. u.busy /\ \A t : Busy(seq, t)
    BY <1>6 DEF Busy
  <2>2. ASSUME todo = <<Set("step", f.fetch), Check>>, ~u.result
        PROVE  Tail(todo) # <<>> /\ Fits(seq, Tail(todo), v, f) /\ v.busy
    <3>1. Is("step", f.fetch) /\ Tail(todo) = <<Check>> /\ Tail(todo) # <<>>
      BY <2>2, Tuples, Zenon
    <3>2. v = Assign(u, Set("step", f.fetch)) /\ f.fetch \in 0..stepCount
      <4>1. todo \in SequenceStage
        BY <1>6 DEF StageOf
      <4>2. IsSetter(Set("step", f.fetch))
        BY <3>1, <1>6, Stages
      <4>3. f.fetch \in 0..stepCount
        BY <4>2 DEF IsSetter, Set
      <4> QED
        BY <3>1, <4>3
    <3>3. (v.result <=> u.result) /\ (v.busy <=> u.busy) /\ v.step = f.fetch
      BY <3>2, AssignedStep, Zenon
    <3> QED
      BY <1>6, <2>1, <2>2, <3>1, <3>3 DEF Fits
  <2>3. ASSUME NEW s \in Status, todo = <<Set("status", s), Fetch>>, ~u.result
        PROVE  Tail(todo) # <<>> /\ Fits(seq, Tail(todo), v, f) /\ v.busy
    <3>1. Is("status", s) /\ Tail(todo) = <<Fetch>> /\ Tail(todo) # <<>>
      BY <2>3, Tuples, Zenon
    <3>2. v = Assign(u, Set("status", s))
      BY <3>1
    <3>3. (v.result <=> u.result) /\ (v.busy <=> u.busy)
      BY <3>2, AssignedStatus, Zenon
    <3> QED
      BY <1>6, <2>1, <2>3, <3>1, <3>3 DEF Fits
  <2>4. ASSUME todo = <<Set("status", "Cancelled"), Set("busy", FALSE)>>, ~u.result
        PROVE  Tail(todo) # <<>> /\ Fits(seq, Tail(todo), v, f) /\ v.busy
    <3>1. Is("status", "Cancelled") /\ Tail(todo) = <<Set("busy", FALSE)>> /\ Tail(todo) # <<>>
      BY <2>4, Tuples, Zenon
    <3>2. v = Assign(u, Set("status", "Cancelled"))
      BY <3>1
    <3>3. (v.result <=> u.result) /\ (v.busy <=> u.busy) /\ v.status = "Cancelled"
      BY <1>2, <3>2, AssignedStatus, Zenon
    <3>4. AtRest(v)
      BY <2>4, <3>3 DEF AtRest
    <3> QED
      BY <1>6, <2>1, <3>1, <3>3, <3>4 DEF Fits
  <2>5. ASSUME todo = <<Set("result", TRUE), Set("status", "Done"), Set("busy", FALSE)>>,
               u.step = stepCount
        PROVE  Tail(todo) # <<>> /\ Fits(seq, Tail(todo), v, f) /\ v.busy
    <3> DEFINE a == Set("result", TRUE)
               b == Set("status", "Done")
               c == Set("busy", FALSE)
    <3>1. todo = <<a, b, c>>
      BY <2>5
    <3> HIDE DEF a, b, c
    <3>2. Is("result", TRUE) /\ Tail(todo) = <<b, c>> /\ Tail(todo) # <<>>
      BY <3>1, Tuples DEF a
    <3>3. v = Assign(u, Set("result", TRUE))
      BY <3>2
    <3>4. v.result /\ (v.busy <=> u.busy) /\ v.step = u.step
      BY <1>1, <3>3, Assigned
    <3> QED
      BY <1>6, <2>1, <2>5, <3>2, <3>4 DEF Fits, b, c
  <2>6. ASSUME todo = <<Set("status", "Done"), Set("busy", FALSE)>>, u.result, u.step = stepCount
        PROVE  Tail(todo) # <<>> /\ Fits(seq, Tail(todo), v, f) /\ v.busy
    <3>1. Is("status", "Done") /\ Tail(todo) = <<Set("busy", FALSE)>> /\ Tail(todo) # <<>>
      BY <2>6, Tuples, Zenon
    <3>2. v = Assign(u, Set("status", "Done"))
      BY <3>1
    <3>3. (v.result <=> u.result) /\ (v.busy <=> u.busy) /\ v.status = "Done" /\ v.step = u.step
      <4>1. "Done" \in Status
        BY <1>2
      <4> QED
        BY <3>2, <4>1, AssignedStatus, Zenon
    <3>4. AtRest(v)
      BY <2>6, <3>3 DEF AtRest
    <3> QED
      BY <1>6, <2>1, <3>1, <3>3, <3>4 DEF Fits
  <2>7. ASSUME todo = <<Set("busy", FALSE)>>, AtRest(u)
        PROVE  Tail(todo) = <<>> /\ AtRest(v) /\ ~v.busy
    <3>1. Is("busy", FALSE) /\ Tail(todo) = <<>>
      BY <2>7, Tuples, Zenon
    <3>2. v = Assign(u, Set("busy", FALSE))
      BY <3>1
    <3>3. (v.result <=> u.result) /\ ~v.busy /\ v.status = u.status /\ v.step = u.step
      BY <1>1, <3>2, Assigned
    <3> QED
      BY <2>7, <3>1, <3>3 DEF AtRest
  <2>8. todo # <<Check>> /\ todo # <<Fetch>>
    <3>1. Head(<<Check>>).op = "check" /\ Head(<<Fetch>>).op = "fetch"
      BY Operations, Tuples
    <3> QED
      BY <3>1
  <2>9. \/ todo = <<Set("step", f.fetch), Check>> /\ ~u.result
        \/ (\E s \in Status : todo = <<Set("status", s), Fetch>>) /\ ~u.result
        \/ todo = <<Set("status", "Cancelled"), Set("busy", FALSE)>> /\ ~u.result
        \/ /\ todo = <<Set("result", TRUE), Set("status", "Done"), Set("busy", FALSE)>>
           /\ u.step = stepCount
        \/ /\ todo = <<Set("status", "Done"), Set("busy", FALSE)>>
           /\ u.result /\ u.step = stepCount
        \/ todo = <<Set("busy", FALSE)>> /\ AtRest(u)
    BY <1>6, <2>8, Zenon DEF Fits
  <2>10. (Tail(todo) = <<>> /\ AtRest(v) /\ ~v.busy)
           \/ (Tail(todo) # <<>> /\ Fits(seq, Tail(todo), v, f) /\ v.busy)
    BY <2>2, <2>3, <2>4, <2>5, <2>6, <2>7, <2>9, Zenon
  <2> QED
    BY <2>1, <2>10
<1> QED
  BY <1>5, <1>6

-----------------------------------------------------------------------------
(* The calls in progress.                                                  *)

\* The innermost call.
LEMMA TopProperties ==
  ASSUME StackOK, calls # <<>>
  PROVE  /\ Len(calls) \in Nat /\ Len(calls) >= 1 /\ Len(calls) \in 1..Len(calls) /\ open
         /\ Top.seq \in Sequence \cup {NoSequence} /\ Top.todo \in StageOf(Top.seq)
         /\ Top \in CallInProgress
<1>1. Len(calls) \in Nat /\ Len(calls) # 0 /\ \A i \in 1..Len(calls) : calls[i] \in CallInProgress
  BY DEF StackOK
<1>2. Len(calls) \in 1..Len(calls)
  BY <1>1
<1> QED
  BY <1>1, <1>2 DEF StackOK, Top, CallInProgress

\* A call is made.
LEMMA Pushed ==
  ASSUME StackOK, NEW seq \in Sequence \cup {NoSequence}, NEW todo \in StageOf(seq),
         Call(seq, todo), open, open'
  PROVE  /\ StackOK' /\ Len(calls) \in Nat /\ Len(calls') = Len(calls) + 1
         /\ \A i \in 1..Len(calls) : calls'[i] = calls[i]
         /\ calls'[Len(calls) + 1].seq = seq /\ calls'[Len(calls) + 1].todo = todo
<1> DEFINE c == [seq |-> seq, todo |-> todo, emitting |-> FALSE]
           n == Len(calls)
<1>1. c \in CallInProgress /\ c.seq = seq /\ c.todo = todo
  BY DEF StageOf, CallInProgress
<1>2. calls' = Append(calls, c) /\ calls \in Seq(CallInProgress)
  BY DEF Call, StackOK
<1> HIDE DEF c
<1>3. /\ n \in Nat /\ calls' \in Seq(CallInProgress) /\ Len(calls') = n + 1
      /\ \A i \in 1..n : calls'[i] = calls[i]
      /\ calls'[n + 1] = c
  BY <1>1, <1>2
<1>4. \A i \in 1..(n + 1) : i \in 1..n \/ i = n + 1
  BY <1>3
<1>5. \A i \in 1..Len(calls') : calls'[i].todo \in StageOf(calls'[i].seq)
  BY <1>1, <1>3, <1>4 DEF StackOK
<1> QED
  BY <1>1, <1>3, <1>5 DEF StackOK

\* The innermost call has something else left to do.
LEMMA Continued ==
  ASSUME StackOK, calls # <<>>, NEW todo \in StageOf(Top.seq), NEW emitting \in BOOLEAN,
         Continue(todo, emitting), open'
  PROVE  /\ StackOK' /\ Len(calls') = Len(calls)
         /\ \A i \in 1..Len(calls) : /\ calls'[i].seq = calls[i].seq
                                     /\ i # Len(calls) => calls'[i] = calls[i]
         /\ calls'[Len(calls)].todo = todo
<1> DEFINE n == Len(calls)
           c == [calls[n] EXCEPT !.todo = todo, !.emitting = emitting]
<1>1. /\ n \in Nat /\ n \in 1..n /\ calls \in Seq(CallInProgress) /\ calls[n] \in CallInProgress
      /\ Top = calls[n]
  BY TopProperties DEF StackOK, Top
<1>2. c \in CallInProgress /\ c.seq = calls[n].seq /\ c.todo = todo
  BY <1>1 DEF StageOf, CallInProgress
<1>3. calls' = [calls EXCEPT ![n] = c]
  BY <1>1 DEF Continue
<1> HIDE DEF c
<1>4. /\ calls' \in Seq(CallInProgress) /\ Len(calls') = n
      /\ \A i \in 1..n : i # n => calls'[i] = calls[i]
      /\ calls'[n] = c
  BY <1>1, <1>2, <1>3
<1>5. \A i \in 1..n : calls'[i].seq = calls[i].seq
  BY <1>1, <1>2, <1>4
<1>6. \A i \in 1..n : calls'[i].todo \in StageOf(calls'[i].seq)
  BY <1>1, <1>2, <1>4 DEF StackOK
<1> QED
  BY <1>1, <1>2, <1>4, <1>5, <1>6 DEF StackOK

\* The innermost call returns.
LEMMA Returned ==
  ASSUME StackOK, calls # <<>>, Return, open'
  PROVE  /\ StackOK' /\ Len(calls') = Len(calls) - 1
         /\ \A i \in 1..(Len(calls) - 1) :
              i \in 1..Len(calls) /\ i # Len(calls) /\ calls'[i] = calls[i]
<1> DEFINE n == Len(calls)
<1>1. n \in Nat /\ n >= 1 /\ calls \in Seq(CallInProgress)
  BY TopProperties DEF StackOK
<1>2. calls' = SubSeq(calls, 1, n - 1)
  BY DEF Return
<1>3. n - 1 \in Nat /\ \A i \in 1..(n - 1) : i \in 1..n /\ i # n
  BY <1>1
<1>4. /\ calls' \in Seq(CallInProgress) /\ Len(calls') = n - 1
      /\ \A i \in 1..(n - 1) : calls'[i] = calls[i]
  <2> DEFINE m == n - 1
  <2>1. m \in Nat /\ m \in Int /\ 1 \in Int /\ \A i \in 1..m : calls[i] \in CallInProgress
    BY <1>1, <1>3
  <2> HIDE DEF m
  <2>2. /\ SubSeq(calls, 1, m) \in Seq(CallInProgress)
        /\ Len(SubSeq(calls, 1, m)) = IF 1 <= m THEN m - 1 + 1 ELSE 0
        /\ \A i \in 1..(m - 1 + 1) : SubSeq(calls, 1, m)[i] = calls[1 + i - 1]
    BY <2>1, SubSeqProperties
  <2>3. Len(SubSeq(calls, 1, m)) = m /\ \A i \in 1..m : SubSeq(calls, 1, m)[i] = calls[i]
    BY <2>1, <2>2
  <2> QED
    BY <1>2, <2>2, <2>3 DEF m
<1>5. \A i \in 1..Len(calls') : calls'[i].todo \in StageOf(calls'[i].seq)
  BY <1>3, <1>4 DEF StackOK
<1> QED
  BY <1>3, <1>4, <1>5 DEF StackOK

-----------------------------------------------------------------------------
(* Who waits.                                                              *)

\* A sequence that goes to sleep or is posted waits, in the place it is put.
LEMMA WaitsAt ==
  ASSUME OnePlaceOK, NEW q, q \notin Waiting,
         \/ ready' = ready \cup {q} /\ parked' = parked
         \/ parked' = parked \cup {[when |-> 0, handle |-> q]} /\ ready' = ready
  PROVE  Waiting' = Waiting \cup {q} /\ ready' \cap Pump!HandlesOf(parked)' = {}
<1>1. CASE ready' = ready \cup {q} /\ parked' = parked
  BY <1>1 DEF OnePlaceOK, Waiting, Pump!HandlesOf
<1>2. CASE parked' = parked \cup {[when |-> 0, handle |-> q]} /\ ready' = ready
  <2>1. Pump!HandlesOf(parked)' = Pump!HandlesOf(parked) \cup {q}
    <3> DEFINE e == [when |-> 0, handle |-> q]
    <3>1. e.handle = q /\ parked' = parked \cup {e}
      BY <1>2
    <3> HIDE DEF e
    <3>2. \A x : x \in Pump!HandlesOf(parked)' <=> x \in Pump!HandlesOf(parked) \/ x = q
      BY <3>1 DEF Pump!HandlesOf
    <3> QED
      BY <3>2
  <2> QED
    BY <1>2, <2>1 DEF OnePlaceOK, Waiting
<1> QED
  BY <1>1, <1>2

\* A sequence that is resumed waits no longer, and the others still do.
LEMMA WaitsNoLonger ==
  ASSUME TypeOK, OnePlaceOK, NEW q, NEW due \in SUBSET parked, Pump!Resume(due, q)
  PROVE  /\ q \in Waiting /\ q \in Sequence /\ Waiting' = Waiting \ {q}
         /\ ready' \cap Pump!HandlesOf(parked)' = {} /\ ready' \subseteq Sequence
         /\ parked' \subseteq parked
         /\ running' = running \cup {q} /\ open' = open
<1> DEFINE D == Pump!HandlesOf(due)
           P == Pump!HandlesOf(parked)
<1>1. /\ parked' = parked \ due /\ open' = open /\ running' = running \cup {q}
      /\ q \in ready \cup D /\ ready' = (ready \cup D) \ {q}
  BY DEF Pump!Resume, Pump!Elapse
<1>2. D \subseteq P /\ ready \cap P = {} /\ ready \subseteq Sequence
  BY DEF Pump!HandlesOf, OnePlaceOK, TypeOK
<1>3. \A d, e \in parked : d.handle = e.handle => d = e
  <2>1. \A d \in parked : d = [when |-> 0, handle |-> d.handle]
    BY DEF TypeOK
  <2> QED
    BY <2>1
<1>4. P' = P \ D
  <2>1. ASSUME NEW x \in P' PROVE x \in P \ D
    <3>1. PICK e \in parked \ due : x = e.handle
      BY <1>1, <2>1 DEF Pump!HandlesOf
    <3>2. x \notin D
      BY <1>3, <3>1 DEF Pump!HandlesOf
    <3> QED
      BY <3>1, <3>2 DEF Pump!HandlesOf
  <2>2. ASSUME NEW x \in P \ D PROVE x \in P'
    <3>1. PICK e \in parked : x = e.handle
      BY <2>2 DEF Pump!HandlesOf
    <3>2. e \notin due
      BY <2>2, <3>1 DEF Pump!HandlesOf
    <3> QED
      BY <1>1, <3>1, <3>2 DEF Pump!HandlesOf
  <2> QED
    BY <2>1, <2>2
<1>5. P \subseteq Sequence
  BY DEF TypeOK, Pump!HandlesOf
<1>6. Waiting = ready \cup P /\ Waiting' = ready' \cup P'
  BY DEF Waiting
<1> HIDE DEF P, D
<1> QED
  BY <1>1, <1>2, <1>4, <1>5, <1>6 DEF P

\* Nothing is said of a call that is over, and a call that is not is the only one.
LEMMA TopIsActive ==
  ASSUME StackOK, TruthOK, ~overlapped, calls # <<>>, Top.todo # <<>>
  PROVE  /\ Live = {Len(calls)} /\ Waiting = {}
         /\ Fits(Top.seq, Top.todo, ui, frame[Top.seq])
         /\ ui.busy <=> Busy(Top.seq, Top.todo)
<1>1. Len(calls) \in Live /\ open
  BY TopProperties DEF Live, Top
<1>2. OneActivity
  BY <1>1 DEF TruthOK
<1>3. PICK i \in Live : Active(i)
  BY <1>1, <1>2 DEF OneActivity, Sleeping, Resting
<1>4. i = Len(calls)
  BY <1>1, <1>3 DEF Active
<1> QED
  BY <1>3, <1>4 DEF Active, Top

\* A step after which only this call has something left to do.
LEMMA BecomesActive ==
  ASSUME NEW i, Live' = {i}, Waiting' = {},
         Fits(calls'[i].seq, calls'[i].todo, ui', frame'[calls'[i].seq]),
         ui'.busy <=> Busy(calls'[i].seq, calls'[i].todo)
  PROVE  OneActivity'
BY DEF OneActivity, Active

\* What the UI shows at the boundary, and before a fetch.
LEMMA FitsAtBoundary ==
  ASSUME NEW seq, seq # NoSequence, NEW u, NEW f
  PROVE  /\ Fits(seq, <<Check>>, u, f) => ~u.result /\ (f.fetch # 0 => u.step = f.fetch)
         /\ Fits(seq, <<Fetch>>, u, f) => ~u.result
<1>1. (\A a, b : Head(<<a, b>>) = a) /\ (\A a, b, c : Head(<<a, b, c>>) = a)
  BY Tuples, Zenon
<1>2. \A a : Head(<<a>>) = a
  BY Tuples, Zenon
<1>3. "check" # "set" /\ "fetch" # "set" /\ "check" # "fetch"
  OBVIOUS
<1>4. \A t \in {<<Check>>, <<Fetch>>} : Head(t).op # "set"
  BY <1>2, <1>3, Operations, Zenon
<1>5. /\ \A k : Head(<<Set("step", k), Check>>).op = "set"
      /\ \A s : Head(<<Set("status", s), Fetch>>).op = "set"
      /\ \A s : Head(<<Set("status", s), Set("busy", FALSE)>>).op = "set"
      /\ Head(<<Set("result", TRUE), Set("status", "Done"), Set("busy", FALSE)>>).op = "set"
      /\ Head(<<Set("busy", FALSE)>>).op = "set"
  <2>1. \A p, v : Set(p, v).op = "set"
    BY Operations
  <2>2. ASSUME NEW p, NEW v, NEW b PROVE Head(<<Set(p, v), b>>).op = "set"
    <3>1. Head(<<Set(p, v), b>>) = Set(p, v)
      BY <1>1, Zenon
    <3> QED
      BY <2>1, <3>1
  <2>3. ASSUME NEW p, NEW v, NEW b, NEW c PROVE Head(<<Set(p, v), b, c>>).op = "set"
    <3>1. Head(<<Set(p, v), b, c>>) = Set(p, v)
      BY <1>1, Zenon
    <3> QED
      BY <2>1, <3>1
  <2>4. \A p, v : Head(<<Set(p, v)>>).op = "set"
    BY <1>2, <2>1, Zenon
  <2> QED
    BY <2>2, <2>3, <2>4, Zenon
<1>6. <<Check>> # <<Fetch>>
  <2>1. Head(<<Check>>).op = "check" /\ Head(<<Fetch>>).op = "fetch"
    BY <1>2, Operations, Zenon
  <2> QED
    BY <1>3, <2>1, Zenon
<1>7. ASSUME Fits(seq, <<Check>>, u, f) PROVE ~u.result /\ (f.fetch # 0 => u.step = f.fetch)
  BY <1>4, <1>5, <1>6, <1>7, Zenon DEF Fits
<1>8. ASSUME Fits(seq, <<Fetch>>, u, f) PROVE ~u.result
  BY <1>4, <1>5, <1>6, <1>8, Zenon DEF Fits
<1> QED
  BY <1>7, <1>8

-----------------------------------------------------------------------------
(* The steps.                                                              *)

\* A setter.
LEMMA SetPropertyInv ==
  ASSUME IInv, SetProperty
  PROVE  IInv'
<1> DEFINE t == Top.todo
           n == Len(calls)
           changes == ui[Head(t).property] # Head(t).value
<1>1. /\ calls # <<>> /\ t # <<>> /\ Head(t).op = "set"
      /\ ui' = Assign(ui, Head(t)) /\ Continue(Tail(t), changes)
      /\ UNCHANGED <<ready, parked, running, open, source, stopped, frame, overlapped>>
  BY DEF SetProperty, Reached, Assign, scheduler
<1>2. TypeOK /\ StackOK /\ OnePlaceOK /\ SpawnedOK /\ TruthOK
  BY DEF IInv
<1>3. n \in Nat /\ n \in 1..n /\ open /\ t \in StageOf(Top.seq) /\ Top = calls[n]
  BY <1>1, <1>2, TopProperties DEF Top
<1>4. IsSetter(Head(t)) /\ Tail(t) \in StageOf(Top.seq)
  BY <1>1, <1>3, Stages
<1>5. changes \in BOOLEAN /\ open'
  BY <1>1, <1>3
<1> HIDE DEF changes
<1>6. /\ StackOK' /\ Len(calls') = n
      /\ \A i \in 1..n : calls'[i].seq = calls[i].seq /\ (i # n => calls'[i] = calls[i])
      /\ calls'[n].todo = Tail(t)
  BY <1>1, <1>2, <1>4, <1>5, Continued
<1>7. ui \in Ui /\ ui' \in Ui
  BY <1>1, <1>2, <1>4, SetterKeepsType DEF TypeOK, Ui
<1>8. TypeOK'
  BY <1>1, <1>2, <1>6, <1>7 DEF TypeOK, Ui
<1>9. Waiting' = Waiting /\ Pump!HandlesOf(parked)' = Pump!HandlesOf(parked)
  BY <1>1 DEF Waiting, Pump!HandlesOf
<1>10. OnePlaceOK'
  BY <1>1, <1>2, <1>6, <1>9 DEF OnePlaceOK
<1>11. SpawnedOK'
  <2>1. Starts' = Starts
    BY <1>6 DEF Starts
  <2>2. Spawned' = Spawned
    BY <1>1 DEF Spawned
  <2> QED
    BY <1>1, <1>2, <2>1, <2>2 DEF SpawnedOK
<1>12. ASSUME ~overlapped PROVE OneActivity'
  <2>1. /\ Live = {n} /\ Waiting = {}
        /\ Fits(Top.seq, t, ui, frame[Top.seq]) /\ (ui.busy <=> Busy(Top.seq, t))
    BY <1>1, <1>2, <1>12, TopIsActive
  <2>2. IF Tail(t) = <<>>
          THEN AtRest(ui') /\ ~ui'.busy
          ELSE Fits(Top.seq, Tail(t), ui', frame[Top.seq]) /\ (ui'.busy <=> Busy(Top.seq, Tail(t)))
    BY <1>1, <1>3, <1>7, <2>1, Advances
  <2>3. \A i \in 1..n : i # n => calls'[i].todo = <<>>
    BY <1>6, <2>1 DEF Live
  <2>4. CASE Tail(t) = <<>>
    <3>1. Live' = {}
      BY <1>6, <2>3, <2>4 DEF Live
    <3> QED
      BY <1>9, <2>1, <2>2, <2>4, <3>1 DEF OneActivity, Resting
  <2>5. CASE Tail(t) # <<>>
    <3>1. Live' = {n}
      BY <1>3, <1>6, <2>3, <2>5 DEF Live
    <3>2. calls'[n].seq = Top.seq
      BY <1>3, <1>6
    <3>3. /\ Fits(calls'[n].seq, calls'[n].todo, ui', frame'[calls'[n].seq])
          /\ ui'.busy <=> Busy(calls'[n].seq, calls'[n].todo)
      BY <1>1, <1>6, <2>2, <2>5, <3>2
    <3>4. Waiting' = {}
      BY <1>9, <2>1
    <3> HIDE DEF n
    <3> QED
      BY <3>1, <3>3, <3>4, BecomesActive
  <2> QED
    BY <2>4, <2>5
<1> QED
  BY <1>1, <1>6, <1>8, <1>10, <1>11, <1>12 DEF IInv, TruthOK

\* start() finds the backend idle.
LEMMA StartInv ==
  ASSUME IInv, Start
  PROVE  IInv'
<1> DEFINE t == <<Set("result", FALSE), Set("step", 0), Set("busy", TRUE), Spawn>>
           n == Len(calls)
<1>1. /\ open /\ ~ui.busy /\ source < MaxStarts /\ source' = source + 1
      /\ Call(NoSequence, t) /\ overlapped' = (overlapped \/ Starting)
      /\ UNCHANGED <<ready, parked, running, open, ui, stopped, frame>>
  BY DEF Start, MayCall, scheduler
<1>2. TypeOK /\ StackOK /\ OnePlaceOK /\ SpawnedOK /\ TruthOK
  BY DEF IInv
<1>3. t \in StartStage /\ t \in StageOf(NoSequence) /\ Len(t) = 4
  <2>1. t \in StartStage
    BY Zenon DEF StartStage
  <2> QED
    BY <2>1, Tuples DEF StageOf
<1> HIDE DEF t
<1>4. t # <<>> /\ t # <<Spawn>>
  <2>1. Len(<<Spawn>>) = 1 /\ t # <<>>
    BY <1>3, StartStages, Tuples
  <2> QED
    BY <1>3, <2>1
<1>5. /\ StackOK' /\ n \in Nat /\ Len(calls') = n + 1
      /\ \A i \in 1..n : calls'[i] = calls[i]
      /\ calls'[n + 1].seq = NoSequence /\ calls'[n + 1].todo = t
  BY <1>1, <1>2, <1>3, Pushed
<1>6. 1..(n + 1) = 1..n \cup {n + 1} /\ n + 1 \notin 1..n
  BY <1>5
<1>7. TypeOK'
  <2>1. overlapped' \in BOOLEAN
    BY <1>1
  <2>2. \A i \in 1..Len(calls') : calls'[i].seq \in running' \cup {NoSequence}
    BY <1>1, <1>2, <1>5, <1>6 DEF TypeOK
  <2>3. source' \in 0..MaxStarts
    BY <1>1, <1>2, StartsAssumption DEF TypeOK
  <2> QED
    BY <1>1, <1>2, <2>1, <2>2, <2>3 DEF TypeOK
<1>8. Waiting' = Waiting /\ Pump!HandlesOf(parked)' = Pump!HandlesOf(parked)
  BY <1>1 DEF Waiting, Pump!HandlesOf
<1>9. OnePlaceOK'
  BY <1>1, <1>2, <1>5, <1>6, <1>8 DEF OnePlaceOK
<1>10. SpawnedOK'
  <2>1. Starts' = Starts \cup {n + 1} /\ n + 1 \notin Starts
    BY <1>5, <1>6 DEF Starts
  <2>2. IsFiniteSet(Starts)
    <3>1. IsFiniteSet(1..n)
      BY <1>5, FS_Interval
    <3> QED
      BY <3>1, FS_Subset DEF Starts
  <2>3. Cardinality(Starts') = Cardinality(Starts) + 1 /\ Cardinality(Starts) \in Nat
    BY <2>1, <2>2, FS_AddElement, FS_CardinalityType
  <2>4. Spawned' = Spawned
    BY <1>1 DEF Spawned
  <2>5. PICK k \in 0..MaxStarts : Spawned = 1..k /\ k + Cardinality(Starts) = source
    BY <1>2 DEF SpawnedOK
  <2> QED
    BY <1>1, <2>3, <2>4, <2>5 DEF SpawnedOK
<1>11. ASSUME ~overlapped' PROVE OneActivity'
  <2>1. ~overlapped /\ ~Starting /\ OneActivity
    BY <1>1, <1>2, <1>11 DEF TruthOK
  <2>2. ~\E q \in Waiting : Sleeping(q)
    BY <1>1 DEF Sleeping
  <2>3. ~\E i \in Live : Active(i)
    <3> SUFFICES ASSUME NEW i \in Live, Active(i) PROVE FALSE
      OBVIOUS
    <3>1. i \in 1..n /\ calls[i].seq = NoSequence /\ calls[i].todo # <<Spawn>>
      BY <1>1 DEF Active, Busy, Live
    <3>2. calls[i].todo \in StartStage
      BY <1>2, <3>1 DEF StackOK, StageOf
    <3>3. Len(calls[i].todo) > 1
      BY <3>1, <3>2, StartLengths
    <3> QED
      BY <2>1, <3>1, <3>3 DEF Starting
  <2>4. Live = {} /\ Waiting = {}
    BY <2>1, <2>2, <2>3 DEF OneActivity, Resting
  <2>5. Live' = {n + 1}
    BY <1>4, <1>5, <1>6, <2>4 DEF Live
  <2>6. Fits(NoSequence, t, ui', frame'[NoSequence])
    BY <1>3 DEF Fits
  <2>7. ~Busy(NoSequence, t)
    BY <1>4 DEF Busy
  <2>8. Waiting' = {} /\ ~ui'.busy
    BY <1>1, <1>8, <2>4
  <2> QED
    BY <1>5, <2>5, <2>6, <2>7, <2>8, BecomesActive
<1> QED
  BY <1>5, <1>7, <1>9, <1>10, <1>11 DEF IInv, TruthOK

\* start() spawns its sequence.
LEMMA SpawnSequenceInv ==
  ASSUME IInv, SpawnSequence
  PROVE  IInv'
<1> DEFINE n == Len(calls)
           q == Cardinality(Spawned) + 1
<1>1. /\ calls # <<>> /\ Top.todo # <<>> /\ Head(Top.todo).op = "spawn" /\ open
      /\ ready' = ready \cup {q} /\ frame' = [frame EXCEPT ![q].token = source] /\ Return
      /\ UNCHANGED <<parked, running, open, ui, source, stopped, overlapped>>
  BY DEF SpawnSequence, Reached, Spawned, Pump!Post, Pump!Enqueue
<1>2. TypeOK /\ StackOK /\ OnePlaceOK /\ SpawnedOK /\ TruthOK
  BY DEF IInv
<1>3. /\ n \in Nat /\ n \in 1..n /\ Top = calls[n]
      /\ Top.seq = NoSequence /\ Top.todo = <<Spawn>>
  BY <1>1, <1>2, TopProperties, Stages DEF Top
<1>4. /\ StackOK' /\ Len(calls') = n - 1
      /\ \A i \in 1..(n - 1) : i \in 1..n /\ i # n /\ calls'[i] = calls[i]
  BY <1>1, <1>2, Returned
<1>5. 1..n = 1..(n - 1) \cup {n} /\ n \notin 1..(n - 1)
  BY <1>3
<1>6. Starts = Starts' \cup {n} /\ n \notin Starts'
  BY <1>3, <1>4, <1>5 DEF Starts
<1>7. IsFiniteSet(Starts') /\ Cardinality(Starts) = Cardinality(Starts') + 1
      /\ Cardinality(Starts') \in Nat
  <2>1. n - 1 \in Nat /\ Starts' \subseteq 1..(n - 1)
    BY <1>3, <1>4 DEF Starts
  <2>2. \A m \in Nat : IsFiniteSet(1..m)
    BY FS_Interval
  <2>3. IsFiniteSet(Starts')
    BY <2>1, <2>2, FS_Subset
  <2> QED
    BY <1>6, <2>3, FS_AddElement, FS_CardinalityType
<1>8. PICK k \in 0..MaxStarts : Spawned = 1..k /\ k + Cardinality(Starts) = source
  BY <1>2 DEF SpawnedOK
<1>9. k \in Nat /\ source \in 0..MaxStarts /\ k + 1 \in 1..MaxStarts /\ source # 0
  BY <1>2, <1>7, <1>8, StartsAssumption DEF TypeOK
<1>10. q = k + 1
  <2>1. \A m \in Nat : Cardinality(1..m) = m
    BY FS_Interval
  <2> QED
    BY <1>8, <1>9, <2>1
<1> HIDE DEF q
<1>11. q \in Sequence /\ q \notin Spawned
  BY <1>8, <1>9, <1>10 DEF Sequence
<1>12. /\ frame' \in [Sequence -> [token : 0..MaxStarts, fetch : 0..stepCount]]
       /\ frame'[q].token = source /\ \A p \in Sequence : p # q => frame'[p] = frame[p]
  BY <1>1, <1>2, <1>9, <1>11 DEF TypeOK
<1>13. Spawned' = 1..(k + 1)
  <2>1. Spawned' = Spawned \cup {q}
    BY <1>9, <1>11, <1>12 DEF Spawned
  <2>2. 1..(k + 1) = 1..k \cup {k + 1}
    BY <1>9
  <2> QED
    BY <1>8, <1>10, <2>1, <2>2
<1>14. SpawnedOK'
  BY <1>1, <1>7, <1>8, <1>9, <1>13, StartsAssumption DEF SpawnedOK
<1>15. TypeOK'
  BY <1>1, <1>2, <1>4, <1>11, <1>12 DEF TypeOK
<1>16. q \notin Waiting /\ q \notin running
  BY <1>2, <1>11 DEF OnePlaceOK, Spawned
<1>17. Waiting' = Waiting \cup {q} /\ ready' \cap Pump!HandlesOf(parked)' = {}
  BY <1>1, <1>2, <1>16, WaitsAt
<1>18. OnePlaceOK'
  <2>1. Waiting \cup running \subseteq Sequence
    BY <1>2 DEF TypeOK, Waiting, Pump!HandlesOf
  <2>2. \A p \in Waiting' \cup running' : frame'[p].token # 0
    BY <1>1, <1>2, <1>9, <1>12, <1>17, <2>1 DEF OnePlaceOK
  <2>3. Waiting' \cap running' = {}
    BY <1>1, <1>2, <1>16, <1>17 DEF OnePlaceOK
  <2> QED
    BY <1>2, <1>4, <1>17, <2>2, <2>3 DEF OnePlaceOK
<1>19. ASSUME ~overlapped PROVE OneActivity'
  <2>1. /\ Live = {n} /\ Waiting = {}
        /\ Fits(Top.seq, Top.todo, ui, frame[Top.seq]) /\ (ui.busy <=> Busy(Top.seq, Top.todo))
    BY <1>1, <1>2, <1>19, TopIsActive
  <2>2. ui.busy /\ ~ui.result
    <3>1. Len(<<Spawn>>) # 4
      BY Tuples
    <3> QED
      BY <1>3, <2>1, <3>1, Zenon DEF Fits, Busy
  <2>3. Live' = {}
    BY <1>4, <2>1 DEF Live
  <2>4. Waiting' = {q}
    BY <1>17, <2>1
  <2> QED
    BY <1>1, <2>2, <2>3, <2>4 DEF OneActivity, Sleeping
<1> QED
  BY <1>1, <1>4, <1>14, <1>15, <1>18, <1>19 DEF IInv, TruthOK

\* cancel(), and steps that leave everything but the stop states alone.
LEMMA StoppedInv ==
  ASSUME IInv, stopped' \subseteq 0..MaxStarts,
         UNCHANGED <<ready, parked, running, open, ui, source, frame, calls, overlapped>>
  PROVE  IInv'
<1>1. TypeOK /\ StackOK /\ OnePlaceOK /\ SpawnedOK /\ TruthOK
  BY DEF IInv
<1>2. TypeOK' /\ StackOK'
  BY <1>1 DEF TypeOK, StackOK
<1>3. /\ Waiting' = Waiting /\ Pump!HandlesOf(parked)' = Pump!HandlesOf(parked)
      /\ Live' = Live /\ Starts' = Starts /\ Spawned' = Spawned
  BY DEF Waiting, Pump!HandlesOf, Live, Starts, Spawned
<1>4. OnePlaceOK' /\ SpawnedOK'
  BY <1>1, <1>3 DEF OnePlaceOK, SpawnedOK
<1>5. OneActivity' <=> OneActivity
  BY <1>3 DEF OneActivity, Active, Sleeping, Resting
<1> QED
  BY <1>1, <1>2, <1>4, <1>5 DEF IInv, TruthOK

\* The pump resumes a sequence.
LEMMA ResumeInv ==
  ASSUME IInv, NEW q \in Sequence, Resume(q)
  PROVE  IInv'
<1> DEFINE n == Len(calls)
           t == IF frame[q].fetch = 0 THEN <<Check>> ELSE <<Set("step", frame[q].fetch), Check>>
<1>1. /\ open /\ Call(q, t) /\ \E due \in SUBSET parked : Pump!Resume(due, q)
      /\ UNCHANGED <<ui, source, stopped, frame, overlapped>>
  BY DEF Resume, MayCall
<1>2. TypeOK /\ StackOK /\ OnePlaceOK /\ SpawnedOK /\ TruthOK
  BY DEF IInv
<1>3. /\ q \in Waiting /\ Waiting' = Waiting \ {q}
      /\ ready' \cap Pump!HandlesOf(parked)' = {} /\ ready' \subseteq Sequence
      /\ parked' \subseteq parked
      /\ running' = running \cup {q} /\ open' = open
  BY <1>1, <1>2, WaitsNoLonger
<1>4. q # NoSequence /\ q \notin running /\ frame[q].token # 0
  BY <1>2, <1>3 DEF OnePlaceOK, Sequence, NoSequence
<1>5. t \in StageOf(q) /\ t # <<>>
  <2>1. CASE frame[q].fetch = 0
    BY <1>4, <2>1, IsASequenceStage, Tuples DEF StageOf
  <2>2. CASE frame[q].fetch # 0
    <3>1. frame[q].fetch \in 1..stepCount
      BY <1>2, <2>2, ThreeSteps DEF TypeOK
    <3>2. <<Set("step", frame[q].fetch), Check>> \in SequenceStage
      BY <3>1, IsASequenceStage, Zenon
    <3> QED
      BY <1>4, <2>2, <3>2, Tuples DEF StageOf
  <2> QED
    BY <2>1, <2>2
<1> HIDE DEF t
<1>6. /\ StackOK' /\ n \in Nat /\ Len(calls') = n + 1
      /\ \A i \in 1..n : calls'[i] = calls[i]
      /\ calls'[n + 1].seq = q /\ calls'[n + 1].todo = t
  BY <1>1, <1>2, <1>3, <1>5, Pushed
<1>7. 1..(n + 1) = 1..n \cup {n + 1} /\ n + 1 \notin 1..n
  BY <1>6
<1>8. \A i \in 1..n : calls[i].seq \in running \cup {NoSequence}
  BY <1>2 DEF TypeOK
<1>9. TypeOK'
  <2>1. \A i \in 1..Len(calls') : calls'[i].seq \in running' \cup {NoSequence}
    BY <1>3, <1>6, <1>7, <1>8
  <2> QED
    BY <1>1, <1>2, <1>3, <2>1 DEF TypeOK
<1>10. OnePlaceOK'
  <2>1. \A i \in 1..n : calls'[i].seq # q
    BY <1>4, <1>6, <1>8
  <2>2. \A i, j \in 1..Len(calls') :
          calls'[i].seq = calls'[j].seq /\ calls'[i].seq # NoSequence => i = j
    BY <1>2, <1>6, <1>7, <2>1 DEF OnePlaceOK
  <2>3. Waiting' \cap running' = {}
    BY <1>2, <1>3 DEF OnePlaceOK
  <2>4. \A p \in Waiting' \cup running' : frame'[p].token # 0
    BY <1>1, <1>2, <1>3, <1>4 DEF OnePlaceOK
  <2> QED
    BY <1>3, <2>2, <2>3, <2>4 DEF OnePlaceOK
<1>11. SpawnedOK'
  <2>1. Starts' = Starts
    BY <1>4, <1>6, <1>7 DEF Starts
  <2>2. Spawned' = Spawned
    BY <1>1 DEF Spawned
  <2> QED
    BY <1>1, <1>2, <2>1, <2>2 DEF SpawnedOK
<1>12. ASSUME ~overlapped PROVE OneActivity'
  <2>1. OneActivity
    BY <1>1, <1>2, <1>12 DEF TruthOK
  <2>2. PICK p \in Waiting : Sleeping(p)
    BY <1>3, <2>1 DEF OneActivity, Active, Resting
  <2>3. Live = {} /\ Waiting = {q} /\ ui.busy /\ ~ui.result
    BY <1>3, <2>2 DEF Sleeping
  <2>4. Live' = {n + 1}
    BY <1>5, <1>6, <1>7, <2>3 DEF Live
  <2>5. Fits(q, t, ui, frame[q])
    BY <1>4, <2>3, Zenon DEF Fits, t
  <2>6. Busy(q, t)
    BY <1>4 DEF Busy
  <2>7. Waiting' = {} /\ ui' = ui /\ frame' = frame
    BY <1>1, <1>3, <2>3
  <2> QED
    BY <1>6, <2>3, <2>4, <2>5, <2>6, <2>7, BecomesActive
<1> QED
  BY <1>1, <1>6, <1>9, <1>10, <1>11, <1>12 DEF IInv, TruthOK

\* A sequence looks at its token.
LEMMA AtBoundaryInv ==
  ASSUME IInv, AtBoundary
  PROVE  IInv'
<1> DEFINE n == Len(calls)
           q == Top.seq
           f == frame[q]
<1>1. /\ calls # <<>> /\ Top.todo # <<>> /\ Head(Top.todo).op = "check"
      /\ UNCHANGED <<ready, parked, running, open, ui, source, stopped, overlapped>>
  BY DEF AtBoundary, Reached, scheduler
<1>2. TypeOK /\ StackOK /\ OnePlaceOK /\ SpawnedOK /\ TruthOK
  BY DEF IInv
<1>3. /\ n \in Nat /\ n \in 1..n /\ Top = calls[n] /\ open
      /\ q \in Sequence /\ q # NoSequence /\ Top.todo = <<Check>>
  BY <1>1, <1>2, TopProperties, Stages DEF Top
<1>4. f.fetch < stepCount => FetchSteps[f.fetch + 1] \in Status
  <2>1. f.fetch \in 0..3
    BY <1>2, <1>3, ThreeSteps DEF TypeOK
  <2>2. f.fetch < 3 => f.fetch + 1 \in 1..3
    BY <2>1
  <2> QED
    BY <2>2, ThreeSteps
<1>5. PICK t \in SequenceStage :
        /\ Continue(t, FALSE) /\ t # <<>>
        /\ \/ /\ t = <<Set("status", "Cancelled"), Set("busy", FALSE)>>
              /\ UNCHANGED frame
           \/ /\ t = <<Set("status", FetchSteps[f.fetch + 1]), Fetch>> /\ f.fetch < stepCount
              /\ frame' = [frame EXCEPT ![q].fetch = @ + 1]
           \/ /\ t = <<Set("result", TRUE), Set("status", "Done"), Set("busy", FALSE)>>
              /\ f.fetch = stepCount /\ UNCHANGED frame
  <2>1. CASE /\ Continue(<<Set("status", "Cancelled"), Set("busy", FALSE)>>, FALSE)
             /\ UNCHANGED frame
    BY <2>1, IsASequenceStage, Tuples, Zenon
  <2>2. CASE /\ f.fetch < stepCount
             /\ Continue(<<Set("status", FetchSteps[f.fetch + 1]), Fetch>>, FALSE)
             /\ frame' = [frame EXCEPT ![q].fetch = @ + 1]
    <3>1. FetchSteps[f.fetch + 1] \in Status
      BY <1>4, <2>2
    <3> QED
      BY <2>2, <3>1, IsASequenceStage, Tuples, Zenon
  <2>3. CASE /\ f.fetch = stepCount
             /\ Continue(<<Set("result", TRUE), Set("status", "Done"), Set("busy", FALSE)>>, FALSE)
             /\ UNCHANGED frame
    BY <2>3, IsASequenceStage, Tuples, Zenon
  <2> QED
    BY <2>1, <2>2, <2>3, Zenon DEF AtBoundary
<1>6. t \in StageOf(q) /\ FALSE \in BOOLEAN /\ open'
  BY <1>1, <1>3, <1>5 DEF StageOf
<1>7. /\ StackOK' /\ Len(calls') = n
      /\ \A i \in 1..n : calls'[i].seq = calls[i].seq /\ (i # n => calls'[i] = calls[i])
      /\ calls'[n].todo = t
  BY <1>1, <1>2, <1>5, <1>6, Continued
<1>8. /\ frame' \in [Sequence -> [token : 0..MaxStarts, fetch : 0..stepCount]]
      /\ \A p \in Sequence : frame'[p].token = frame[p].token
  <2>1. CASE UNCHANGED frame
    BY <1>2, <2>1 DEF TypeOK
  <2>2. CASE f.fetch < stepCount /\ frame' = [frame EXCEPT ![q].fetch = @ + 1]
    <3>1. f.fetch + 1 \in 0..stepCount
      BY <1>2, <1>3, <2>2, ThreeSteps DEF TypeOK
    <3> QED
      BY <1>2, <1>3, <2>2, <3>1 DEF TypeOK
  <2> QED
    BY <1>5, <2>1, <2>2
<1>9. TypeOK'
  BY <1>1, <1>2, <1>7, <1>8 DEF TypeOK
<1>10. Waiting' = Waiting /\ Pump!HandlesOf(parked)' = Pump!HandlesOf(parked)
  BY <1>1 DEF Waiting, Pump!HandlesOf
<1>11. OnePlaceOK'
  <2>1. Waiting \cup running \subseteq Sequence
    BY <1>2 DEF TypeOK, Waiting, Pump!HandlesOf
  <2>2. \A p \in Waiting' \cup running' : frame'[p].token # 0
    BY <1>1, <1>2, <1>8, <1>10, <2>1 DEF OnePlaceOK
  <2> QED
    BY <1>1, <1>2, <1>7, <1>10, <2>2 DEF OnePlaceOK
<1>12. SpawnedOK'
  <2>1. Starts' = Starts
    BY <1>7 DEF Starts
  <2>2. Spawned' = Spawned
    BY <1>8 DEF Spawned
  <2> QED
    BY <1>1, <1>2, <2>1, <2>2 DEF SpawnedOK
<1>13. ASSUME ~overlapped PROVE OneActivity'
  <2>1. /\ Live = {n} /\ Waiting = {}
        /\ Fits(q, <<Check>>, ui, f) /\ (ui.busy <=> Busy(q, <<Check>>))
    BY <1>1, <1>2, <1>3, <1>13, TopIsActive
  <2>2. ui.busy /\ ~ui.result /\ (f.fetch # 0 => ui.step = f.fetch)
    BY <1>3, <2>1, FitsAtBoundary DEF Busy
  <2>3. Live' = {n}
    BY <1>3, <1>5, <1>7, <2>1 DEF Live
  <2>4. Fits(q, t, ui, frame'[q])
    <3>1. CASE t = <<Set("status", "Cancelled"), Set("busy", FALSE)>>
      BY <1>3, <2>2, <3>1, Zenon DEF Fits
    <3>2. CASE t = <<Set("status", FetchSteps[f.fetch + 1]), Fetch>> /\ f.fetch < stepCount
      <4>1. FetchSteps[f.fetch + 1] \in Status
        BY <1>4, <3>2
      <4> QED
        BY <1>3, <2>2, <3>2, <4>1, Zenon DEF Fits
    <3>3. CASE /\ t = <<Set("result", TRUE), Set("status", "Done"), Set("busy", FALSE)>>
               /\ f.fetch = stepCount
      <4>1. ui.step = stepCount
        BY <2>2, <3>3, ThreeSteps
      <4> QED
        BY <1>3, <2>2, <3>3, <4>1, Zenon DEF Fits
    <3> QED
      BY <1>5, <3>1, <3>2, <3>3, Zenon
  <2>5. calls'[n].seq = q /\ calls'[n].todo = t /\ ui' = ui /\ Waiting' = {}
    BY <1>1, <1>3, <1>7, <1>10, <2>1
  <2>6. Busy(q, t)
    BY <1>3 DEF Busy
  <2> HIDE DEF n, q, f
  <2> QED
    BY <2>2, <2>3, <2>4, <2>5, <2>6, BecomesActive
<1> QED
  BY <1>1, <1>7, <1>9, <1>11, <1>12, <1>13 DEF IInv, TruthOK

\* A sequence goes to sleep.
LEMMA AwaitFetchInv ==
  ASSUME IInv, AwaitFetch
  PROVE  IInv'
<1> DEFINE n == Len(calls)
           q == Top.seq
<1>1. /\ calls # <<>> /\ Top.todo # <<>> /\ Head(Top.todo).op = "fetch"
      /\ q \in running /\ running' = running \ {q}
      /\ parked' = parked \cup {[when |-> 0, handle |-> q]} /\ Return
      /\ UNCHANGED <<ready, open, ui, source, stopped, frame, overlapped>>
  BY DEF AwaitFetch, Reached, Pump!Stops, Pump!Park
<1>2. TypeOK /\ StackOK /\ OnePlaceOK /\ SpawnedOK /\ TruthOK
  BY DEF IInv
<1>3. /\ n \in Nat /\ n \in 1..n /\ Top = calls[n] /\ open
      /\ q \in Sequence /\ q # NoSequence /\ Top.todo = <<Fetch>>
  BY <1>1, <1>2, TopProperties, Stages DEF Top
<1>4. /\ StackOK' /\ Len(calls') = n - 1
      /\ \A i \in 1..(n - 1) : i \in 1..n /\ i # n /\ calls'[i] = calls[i]
  BY <1>1, <1>2, <1>3, Returned
<1>5. \A i \in 1..(n - 1) : calls[i].seq # q
  BY <1>2, <1>3, <1>4 DEF OnePlaceOK
<1>6. q \notin Waiting
  BY <1>1, <1>2 DEF OnePlaceOK
<1>7. Waiting' = Waiting \cup {q} /\ ready' \cap Pump!HandlesOf(parked)' = {}
  BY <1>1, <1>2, <1>6, WaitsAt
<1>8. TypeOK'
  <2>1. \A i \in 1..Len(calls') : calls'[i].seq \in running' \cup {NoSequence}
    BY <1>1, <1>2, <1>4, <1>5 DEF TypeOK
  <2>2. parked' \subseteq [when : {0}, handle : Sequence]
    BY <1>1, <1>2, <1>3 DEF TypeOK
  <2> QED
    BY <1>1, <1>2, <2>1, <2>2 DEF TypeOK
<1>9. OnePlaceOK'
  <2>1. Waiting' \cap running' = {}
    BY <1>1, <1>2, <1>7 DEF OnePlaceOK
  <2>2. \A p \in Waiting' \cup running' : frame'[p].token # 0
    BY <1>1, <1>2, <1>7 DEF OnePlaceOK
  <2> QED
    BY <1>2, <1>4, <1>7, <2>1, <2>2 DEF OnePlaceOK
<1>10. SpawnedOK'
  <2>1. 1..n = 1..(n - 1) \cup {n}
    BY <1>3
  <2>2. Starts' = Starts
    BY <1>3, <1>4, <2>1 DEF Starts
  <2>3. Spawned' = Spawned
    BY <1>1 DEF Spawned
  <2> QED
    BY <1>1, <1>2, <2>2, <2>3 DEF SpawnedOK
<1>11. ASSUME ~overlapped PROVE OneActivity'
  <2>1. /\ Live = {n} /\ Waiting = {}
        /\ Fits(q, <<Fetch>>, ui, frame[q]) /\ (ui.busy <=> Busy(q, <<Fetch>>))
    BY <1>1, <1>2, <1>3, <1>11, TopIsActive
  <2>2. ui.busy /\ ~ui.result
    BY <1>3, <2>1, FitsAtBoundary DEF Busy
  <2>3. Live' = {}
    BY <1>4, <2>1 DEF Live
  <2>4. Waiting' = {q} /\ ui' = ui
    BY <1>1, <1>7, <2>1
  <2> HIDE DEF q
  <2> QED
    BY <2>2, <2>3, <2>4 DEF OneActivity, Sleeping
<1> QED
  BY <1>1, <1>4, <1>8, <1>9, <1>10, <1>11 DEF IInv, TruthOK

\* A sequence ends.
LEMMA FinishInv ==
  ASSUME IInv, Finish
  PROVE  IInv'
<1> DEFINE n == Len(calls)
           q == Top.seq
<1>1. /\ calls # <<>> /\ Top.todo = <<>> /\ q \in running /\ running' = running \ {q} /\ Return
      /\ UNCHANGED <<ready, parked, open, ui, source, stopped, frame, overlapped>>
  BY DEF Finish, Pump!Leave, Pump!Stops
<1>2. TypeOK /\ StackOK /\ OnePlaceOK /\ SpawnedOK /\ TruthOK
  BY DEF IInv
<1>3. n \in Nat /\ n \in 1..n /\ Top = calls[n] /\ open /\ q # NoSequence
  BY <1>1, <1>2, TopProperties, Stages DEF Top
<1>4. /\ StackOK' /\ Len(calls') = n - 1
      /\ \A i \in 1..(n - 1) : i \in 1..n /\ i # n /\ calls'[i] = calls[i]
  BY <1>1, <1>2, <1>3, Returned
<1>5. 1..n = 1..(n - 1) \cup {n}
  BY <1>3
<1>6. \A i \in 1..(n - 1) : calls[i].seq # q
  BY <1>2, <1>3, <1>4 DEF OnePlaceOK
<1>7. TypeOK'
  <2>1. \A i \in 1..Len(calls') : calls'[i].seq \in running' \cup {NoSequence}
    BY <1>1, <1>2, <1>4, <1>6 DEF TypeOK
  <2> QED
    BY <1>1, <1>2, <2>1 DEF TypeOK
<1>8. Waiting' = Waiting /\ Pump!HandlesOf(parked)' = Pump!HandlesOf(parked)
  BY <1>1 DEF Waiting, Pump!HandlesOf
<1>9. OnePlaceOK'
  BY <1>1, <1>2, <1>4, <1>8 DEF OnePlaceOK
<1>10. SpawnedOK'
  <2>1. Starts' = Starts
    BY <1>3, <1>4, <1>5 DEF Starts
  <2>2. Spawned' = Spawned
    BY <1>1 DEF Spawned
  <2> QED
    BY <1>1, <1>2, <2>1, <2>2 DEF SpawnedOK
<1>11. ASSUME ~overlapped PROVE OneActivity'
  <2>1. OneActivity
    BY <1>2, <1>3, <1>11 DEF TruthOK
  <2>2. Live' = Live /\ \A i \in Live : calls'[i] = calls[i]
    BY <1>1, <1>3, <1>4, <1>5 DEF Live
  <2>3. ui' = ui /\ frame' = frame
    BY <1>1
  <2>4. CASE \E i \in Live : Active(i)
    <3>1. PICK i \in Live : Active(i)
      BY <2>4
    <3>2. calls'[i] = calls[i] /\ Live' = {i} /\ Waiting' = {}
      BY <1>8, <2>2, <3>1 DEF Active
    <3>3. /\ Fits(calls'[i].seq, calls'[i].todo, ui', frame'[calls'[i].seq])
          /\ ui'.busy <=> Busy(calls'[i].seq, calls'[i].todo)
      BY <2>3, <3>1, <3>2 DEF Active
    <3> QED
      BY <3>2, <3>3, BecomesActive
  <2>5. CASE \E p \in Waiting : Sleeping(p)
    BY <1>8, <2>2, <2>3, <2>5 DEF OneActivity, Sleeping
  <2>6. CASE Resting
    BY <1>8, <2>2, <2>3, <2>6 DEF OneActivity, Resting
  <2> QED
    BY <2>1, <2>4, <2>5, <2>6 DEF OneActivity
<1> QED
  BY <1>1, <1>4, <1>7, <1>9, <1>10, <1>11 DEF IInv, TruthOK

\* The backend goes.
LEMMA DestroyInv ==
  ASSUME IInv, Destroy
  PROVE  IInv'
<1>1. /\ calls = <<>> /\ open' = FALSE /\ ready' = {} /\ parked' = {}
      /\ stopped' = stopped \cup {source}
      /\ UNCHANGED <<running, ui, source, frame, calls, overlapped>>
  BY DEF Destroy, Pump!Close
<1>2. TypeOK /\ StackOK /\ OnePlaceOK /\ SpawnedOK
  BY DEF IInv
<1>3. TypeOK' /\ StackOK'
  BY <1>1, <1>2 DEF TypeOK, StackOK
<1>4. Waiting' = {} /\ Pump!HandlesOf(parked)' = {}
  BY <1>1 DEF Waiting, Pump!HandlesOf
<1>5. OnePlaceOK'
  BY <1>1, <1>2, <1>4 DEF OnePlaceOK
<1>6. SpawnedOK'
  BY <1>1, <1>2 DEF SpawnedOK, Starts, Spawned
<1>7. ~open'
  BY <1>1
<1> QED
  BY <1>3, <1>5, <1>6, <1>7 DEF IInv, TruthOK

\* It holds at first.
LEMMA InitIInv == Init => IInv
<1> SUFFICES ASSUME Init PROVE IInv
  OBVIOUS
<1>1. /\ ready = {} /\ parked = {} /\ running = {} /\ open = TRUE
      /\ ui = [status |-> "Idle", step |-> 0, busy |-> FALSE, result |-> FALSE]
      /\ source = 0 /\ stopped = {} /\ calls = <<>> /\ overlapped = FALSE
      /\ frame = [q \in Sequence |-> [token |-> 0, fetch |-> 0]]
      /\ Len(calls) = 0 /\ 1..Len(calls) = {}
  BY DEF Init, Pump!Init
<1>2. ui \in Ui
  BY <1>1, ThreeSteps DEF Ui
<1>3. frame \in [Sequence -> [token : 0..MaxStarts, fetch : 0..stepCount]]
  <2>1. 0 \in 0..MaxStarts /\ 0 \in 0..stepCount
    BY ThreeSteps, StartsAssumption
  <2> QED
    BY <1>1, <2>1
<1>4. TypeOK
  <2>1. open \in BOOLEAN /\ overlapped \in BOOLEAN
    BY <1>1
  <2>2. source \in 0..MaxStarts
    BY <1>1, StartsAssumption
  <2>3. \A i \in 1..Len(calls) : calls[i].seq \in running \cup {NoSequence}
    BY <1>1
  <2> QED
    BY <1>1, <1>2, <1>3, <2>1, <2>3, <2>2 DEF TypeOK, Ui
<1>5. StackOK
  BY <1>1 DEF StackOK
<1>6. Waiting = {} /\ Pump!HandlesOf(parked) = {}
  BY <1>1 DEF Waiting, Pump!HandlesOf
<1>7. OnePlaceOK
  BY <1>1, <1>6 DEF OnePlaceOK
<1>8. SpawnedOK
  <2>1. Starts = {} /\ Cardinality(Starts) = 0
    BY <1>1, FS_EmptySet DEF Starts
  <2>2. Spawned = {} /\ 1..0 = {} /\ 0 \in 0..MaxStarts
    BY <1>1, StartsAssumption DEF Spawned
  <2> QED
    BY <1>1, <2>1, <2>2 DEF SpawnedOK
<1>9. Resting
  <2>1. Live = {}
    BY <1>1 DEF Live
  <2> QED
    BY <1>1, <1>6, <2>1 DEF Resting, AtRest
<1> QED
  BY <1>4, <1>5, <1>7, <1>8, <1>9 DEF IInv, TruthOK, OneActivity

\* Every step keeps it.
LEMMA StepIInv ==
  ASSUME IInv, [Next]_vars
  PROVE  IInv'
<1>1. ASSUME Cancel PROVE IInv'
  <2>1. stopped' = stopped \cup {source} /\ stopped \subseteq 0..MaxStarts /\ source \in 0..MaxStarts
    BY <1>1 DEF Cancel, IInv, TypeOK
  <2> QED
    BY <1>1, <2>1, StoppedInv DEF Cancel, scheduler
<1>2. ASSUME UNCHANGED vars PROVE IInv'
  <2>1. stopped' \subseteq 0..MaxStarts
    BY <1>2 DEF vars, IInv, TypeOK
  <2> QED
    BY <1>2, <2>1, StoppedInv DEF vars, scheduler
<1> QED
  BY <1>1, <1>2, SetPropertyInv, SpawnSequenceInv, AtBoundaryInv, AwaitFetchInv, FinishInv,
     ResumeInv, StartInv, DestroyInv
     DEF Next, CallStep, ResumeStep

-----------------------------------------------------------------------------
(* What the invariant says of the UI, and of a cancelled sequence.         *)

\* What is in flight is what goes on, and busy says whether something does.
LEMMA InvMeans == IInv => TellsTheTruth
<1> SUFFICES ASSUME IInv, ~overlapped PROVE BusyIsTrue /\ RestIsConsistent
  BY DEF TellsTheTruth
<1> SUFFICES ASSUME open PROVE BusyIsTrue /\ RestIsConsistent
  BY DEF BusyIsTrue, RestIsConsistent
<1>1. OneActivity /\ StackOK
  BY DEF IInv, TruthOK
<1> DEFINE Lives == {calls[i].seq : i \in {j \in 1..Len(calls) :
                       calls[j].seq # NoSequence /\ calls[j].todo # <<>>}}
<1>2. /\ InFlight = Waiting \cup Lives
      /\ \A x : x \in Lives <=> \E i \in Live : calls[i].seq # NoSequence /\ x = calls[i].seq
  BY DEF InFlight, Live
<1>3. Spawning <=> \E i \in Live : calls[i].todo = <<Spawn>>
  BY Tuples DEF Spawning, Live
<1>4. Cardinality({}) = 0 /\ \A x : Cardinality({x}) = 1
  BY FS_EmptySet, FS_Singleton
<1> HIDE DEF Lives
<1>5. CASE \E i \in Live : Active(i)
  <2>1. PICK i \in Live : Active(i)
    BY <1>5
  <2>2. Live = {i} /\ Waiting = {} /\ (ui.busy <=> Busy(calls[i].seq, calls[i].todo))
    BY <2>1 DEF Active
  <2>3. CASE calls[i].seq = NoSequence
    <3>1. InFlight = {}
      BY <1>2, <2>2, <2>3
    <3>2. Spawning <=> calls[i].todo = <<Spawn>>
      BY <1>3, <2>2
    <3>3. calls # <<>> \/ Live = {}
      BY DEF Live
    <3>4. ui.busy <=> Spawning
      BY <2>2, <2>3, <3>2 DEF Busy
    <3> QED
      BY <1>4, <2>2, <3>1, <3>3, <3>4 DEF BusyIsTrue, RestIsConsistent
  <2>4. CASE calls[i].seq # NoSequence
    <3>1. InFlight = {calls[i].seq}
      BY <1>2, <2>2, <2>4
    <3>2. ui.busy
      BY <2>2, <2>4 DEF Busy
    <3>3. Cardinality(InFlight) = 1 /\ InFlight # {}
      BY <1>4, <3>1
    <3> QED
      BY <3>2, <3>3 DEF BusyIsTrue, RestIsConsistent
  <2> QED
    BY <2>3, <2>4
<1>6. CASE \E q \in Waiting : Sleeping(q)
  <2>1. PICK q \in Waiting : Sleeping(q)
    BY <1>6
  <2>2. InFlight = {q} /\ ui.busy
    BY <1>2, <2>1 DEF Sleeping
  <2>3. Cardinality(InFlight) = 1 /\ InFlight # {}
    BY <1>4, <2>2
  <2> QED
    BY <2>2, <2>3 DEF BusyIsTrue, RestIsConsistent
<1>7. CASE Resting
  <2>1. InFlight = {} /\ ~Spawning /\ ~ui.busy /\ AtRest(ui)
    BY <1>2, <1>3, <1>7 DEF Resting
  <2> QED
    BY <1>4, <2>1 DEF BusyIsTrue, RestIsConsistent, AtRest
<1> QED
  BY <1>1, <1>5, <1>6, <1>7 DEF OneActivity

(* A sequence that is stopped and has no fetch left to do before it looks  *)
(* at its token again will not sleep again.                                *)
Fetches(todo) ==
  /\ todo # <<>>
  /\ Head(todo).op = "fetch" \/ (Tail(todo) # <<>> /\ Head(Tail(todo)).op = "fetch")

Doomed(q) ==
  /\ frame[q].token # 0 /\ frame[q].token \in stopped
  /\ \A i \in 1..Len(calls) : calls[i].seq = q => ~Fetches(calls[i].todo)

Wakes(q) == q \in Waiting /\ frame[q].token \in stopped

Awake(q) == q \notin Waiting

\* A sequence that is cancelled while it waits is doomed.
LEMMA WakesDoomed ==
  ASSUME IInv, NEW q \in Sequence, Wakes(q)
  PROVE  Doomed(q)
<1>1. q \in Waiting /\ frame[q].token \in stopped /\ frame[q].token # 0 /\ q \notin running
  BY DEF IInv, OnePlaceOK, Wakes
<1>2. \A i \in 1..Len(calls) : calls[i].seq # q
  BY <1>1 DEF IInv, TypeOK, Sequence, NoSequence
<1> QED
  BY <1>1, <1>2 DEF Doomed

\* The stages from which no fetch is reached without a look at the token.
LEMMA FetchStages ==
  /\ ~Fetches(<<Check>>)
  /\ \A k : ~Fetches(<<Set("step", k), Check>>)
  /\ ~Fetches(<<Set("status", "Cancelled"), Set("busy", FALSE)>>)
  /\ ~Fetches(<<Set("result", TRUE), Set("status", "Done"), Set("busy", FALSE)>>)
<1>1. ASSUME NEW a, a.op # "fetch" PROVE ~Fetches(<<a>>)
  <2>1. Head(<<a>>) = a /\ Tail(<<a>>) = <<>>
    BY Tuples, Zenon
  <2> QED
    BY <1>1, <2>1 DEF Fetches
<1>2. ASSUME NEW a, NEW b, a.op # "fetch", b.op # "fetch" PROVE ~Fetches(<<a, b>>)
  <2>1. Head(<<a, b>>) = a /\ Tail(<<a, b>>) = <<b>> /\ Head(<<b>>) = b
    BY Tuples, Zenon
  <2> QED
    BY <1>2, <2>1, Zenon DEF Fetches
<1>3. ASSUME NEW a, NEW b, NEW c, a.op # "fetch", b.op # "fetch" PROVE ~Fetches(<<a, b, c>>)
  <2>1. Head(<<a, b, c>>) = a /\ Tail(<<a, b, c>>) = <<b, c>> /\ Head(<<b, c>>) = b
    BY Tuples
  <2> QED
    BY <1>3, <2>1, Zenon DEF Fetches
<1>4. Check.op # "fetch" /\ \A p, v : Set(p, v).op # "fetch"
  BY Operations
<1> QED
  BY <1>1, <1>2, <1>3, <1>4, Zenon

\* A setter brings no fetch nearer that was not near before.
LEMMA FetchNearer ==
  ASSUME NEW t \in SequenceStage, t # <<>>, Head(t).op = "set", Fetches(Tail(t))
  PROVE  Fetches(t)
<1>1. \A a : Tail(<<a>>) = <<>> /\ ~Fetches(<<>>)
  BY Tuples DEF Fetches
<1>2. ASSUME NEW a, NEW b, t = <<a, b>>
      PROVE  Tail(t) = <<b>>
  BY <1>2, Tuples, Zenon
<1>3. ASSUME NEW a, NEW b, NEW c, t = <<a, b, c>>
      PROVE  Tail(t) = <<b, c>> /\ Head(<<b, c>>) = b /\ Tail(<<b, c>>) = <<c>> /\ Head(<<c>>) = c
  BY <1>3, Tuples
<1>4. ASSUME NEW b, Tail(t) = <<b>>
      PROVE  Fetches(t)
  <2>1. Tail(<<b>>) = <<>> /\ Head(<<b>>) = b /\ <<b>> # <<>>
    BY Tuples, Zenon
  <2>2. b.op = "fetch"
    BY <1>4, <2>1, Zenon DEF Fetches
  <2> QED
    BY <1>4, <2>1, <2>2, Zenon DEF Fetches
<1>5. Set("status", "Done").op # "fetch" /\ Set("busy", FALSE).op # "fetch"
  BY Operations
<1>6. t # <<Set("result", TRUE), Set("status", "Done"), Set("busy", FALSE)>>
  <2> SUFFICES ASSUME t = <<Set("result", TRUE), Set("status", "Done"), Set("busy", FALSE)>>
               PROVE  FALSE
    OBVIOUS
  <2>1. Tail(t) = <<Set("status", "Done"), Set("busy", FALSE)>>
    BY <1>3, Zenon
  <2>2. Head(<<Set("status", "Done"), Set("busy", FALSE)>>) = Set("status", "Done")
    BY Tuples, Zenon
  <2>3. Tail(<<Set("status", "Done"), Set("busy", FALSE)>>) = <<Set("busy", FALSE)>>
    BY Tuples, Zenon
  <2>4. Head(<<Set("busy", FALSE)>>) = Set("busy", FALSE)
    BY Tuples, Zenon
  <2> QED
    BY <1>5, <2>1, <2>2, <2>3, <2>4, Zenon DEF Fetches
<1>7. Head(<<Check>>).op = "check" /\ Head(<<Fetch>>).op = "fetch"
  BY Tuples, Operations
<1>8. \/ \E a, b : t = <<a, b>>
      \/ \E a : t = <<a>>
  <2>1. \/ \E k \in 1..stepCount : t = <<Set("step", k), Check>>
        \/ \E s \in Status : t = <<Set("status", s), Fetch>>
        \/ t = <<Check>> \/ t = <<Fetch>>
        \/ t = <<Set("status", "Cancelled"), Set("busy", FALSE)>>
        \/ t = <<Set("status", "Done"), Set("busy", FALSE)>>
        \/ t = <<Set("busy", FALSE)>>
    BY <1>6, Zenon DEF SequenceStage
  <2> QED
    BY <2>1, Zenon
<1>9. ASSUME NEW a, t = <<a>> PROVE FALSE
  <2>1. Tail(t) = <<>>
    BY <1>1, <1>9, Zenon
  <2> QED
    BY <2>1 DEF Fetches
<1> QED
  BY <1>2, <1>4, <1>8, <1>9, Zenon

\* A doomed sequence stays doomed, and once awake it stays awake.
LEMMA StaysDoomed ==
  ASSUME IInv, NEW q \in Sequence, Doomed(q), [Next]_vars
  PROVE  Doomed(q)' /\ (Awake(q) => Awake(q)')
<1> DEFINE n == Len(calls)
<1>1. TypeOK /\ StackOK /\ OnePlaceOK /\ SpawnedOK
  BY DEF IInv
<1>2. q # NoSequence
  BY DEF Sequence, NoSequence
<1>3. CASE SetProperty
  <2>1. /\ calls # <<>> /\ Top.todo # <<>> /\ Head(Top.todo).op = "set"
        /\ Continue(Tail(Top.todo), ui[Head(Top.todo).property] # Head(Top.todo).value)
        /\ UNCHANGED <<ready, parked, running, open, source, stopped, frame, overlapped>>
    BY <1>3 DEF SetProperty, Reached, scheduler
  <2>2. /\ n \in Nat /\ n \in 1..n /\ open /\ Top.todo \in StageOf(Top.seq) /\ Top = calls[n]
        /\ Tail(Top.todo) \in StageOf(Top.seq)
    BY <1>1, <2>1, TopProperties, Stages DEF Top
  <2> DEFINE changes == ui[Head(Top.todo).property] # Head(Top.todo).value
  <2>3. changes \in BOOLEAN /\ open'
    BY <2>1, <2>2
  <2> HIDE DEF changes
  <2>4. /\ Len(calls') = n
        /\ \A i \in 1..n : calls'[i].seq = calls[i].seq /\ (i # n => calls'[i] = calls[i])
        /\ calls'[n].todo = Tail(Top.todo)
    BY <1>1, <2>1, <2>2, <2>3, Continued DEF changes
  <2>5. Top.seq = q => Top.todo \in SequenceStage /\ ~Fetches(Top.todo)
    BY <1>2, <2>2 DEF Doomed, StageOf
  <2>6. Top.seq = q => ~Fetches(Tail(Top.todo))
    BY <2>1, <2>5, FetchNearer
  <2>7. Waiting' = Waiting
    BY <2>1 DEF Waiting, Pump!HandlesOf
  <2> QED
    BY <2>1, <2>2, <2>4, <2>6, <2>7 DEF Doomed, Awake
<1>4. CASE SpawnSequence
  <2> DEFINE p == Cardinality(Spawned) + 1
  <2>1. /\ calls # <<>> /\ Pump!Free(p)
        /\ ready' = ready \cup {p} /\ frame' = [frame EXCEPT ![p].token = source] /\ Return
        /\ UNCHANGED <<parked, running, open, ui, source, stopped, overlapped>>
    BY <1>4 DEF SpawnSequence, Reached, Spawned, Pump!Post, Pump!Enqueue
  <2>2. PICK k \in 0..MaxStarts : Spawned = 1..k
    BY <1>1 DEF SpawnedOK
  <2>3. p = k + 1
    <3>1. \A m \in Nat : Cardinality(1..m) = m
      BY FS_Interval
    <3> QED
      BY <2>2, <3>1
  <2>4. p # q
    <3>1. q \in Spawned
      BY DEF Spawned, Doomed
    <3> QED
      BY <2>2, <2>3, <3>1
  <2> HIDE DEF p
  <2>5. frame'[q] = frame[q]
    BY <1>1, <2>1, <2>4 DEF TypeOK
  <2>6. open /\ Len(calls) \in Nat
    BY <1>1, <2>1, TopProperties
  <2>7. Len(calls') = n - 1 /\ \A i \in 1..(n - 1) : i \in 1..n /\ calls'[i] = calls[i]
    BY <1>1, <2>1, <2>6, Returned
  <2>8. Waiting' = Waiting \cup {p}
    BY <2>1 DEF Waiting, Pump!HandlesOf
  <2> QED
    BY <2>1, <2>4, <2>5, <2>7, <2>8 DEF Doomed, Awake
<1>5. CASE AtBoundary
  <2>1. /\ calls # <<>> /\ Top.todo # <<>> /\ Head(Top.todo).op = "check"
        /\ UNCHANGED <<ready, parked, running, open, ui, source, stopped, overlapped>>
    BY <1>5 DEF AtBoundary, Reached, scheduler
  <2>2. /\ n \in Nat /\ n \in 1..n /\ open /\ Top = calls[n] /\ Top.seq \in Sequence
        /\ Top.seq # NoSequence
    BY <1>1, <2>1, TopProperties, Stages DEF Top
  <2>3. frame'[q].token = frame[q].token
    <3>1. CASE UNCHANGED frame
      BY <3>1
    <3>2. CASE frame' = [frame EXCEPT ![Top.seq].fetch = @ + 1]
      BY <1>1, <2>2, <3>2 DEF TypeOK
    <3> QED
      BY <1>5, <3>1, <3>2 DEF AtBoundary
  <2>4. Waiting' = Waiting
    BY <2>1 DEF Waiting, Pump!HandlesOf
  <2>5. PICK t \in SequenceStage : /\ Continue(t, FALSE)
                                   /\ frame[Top.seq].token \in stopped => ~Fetches(t)
    <3>1. frame[Top.seq].fetch < stepCount => FetchSteps[frame[Top.seq].fetch + 1] \in Status
      <4>1. frame[Top.seq].fetch \in 0..3
        BY <1>1, <2>2, ThreeSteps DEF TypeOK
      <4>2. frame[Top.seq].fetch < 3 => frame[Top.seq].fetch + 1 \in 1..3
        BY <4>1
      <4> QED
        BY <4>2, ThreeSteps
    <3> QED
      BY <1>5, <3>1, IsASequenceStage, FetchStages, Zenon DEF AtBoundary
  <2>6. t \in StageOf(Top.seq) /\ FALSE \in BOOLEAN /\ open'
    BY <2>1, <2>2, <2>5 DEF StageOf
  <2>7. /\ Len(calls') = n
        /\ \A i \in 1..n : calls'[i].seq = calls[i].seq /\ (i # n => calls'[i] = calls[i])
        /\ calls'[n].todo = t
    BY <1>1, <2>1, <2>5, <2>6, Continued
  <2>8. Top.seq = q => ~Fetches(t)
    BY <2>5 DEF Doomed
  <2> QED
    BY <2>1, <2>2, <2>3, <2>4, <2>7, <2>8 DEF Doomed, Awake
<1>6. CASE AwaitFetch
  <2>1. /\ calls # <<>> /\ Top.todo # <<>> /\ Head(Top.todo).op = "fetch"
        /\ parked' = parked \cup {[when |-> 0, handle |-> Top.seq]} /\ Return
        /\ UNCHANGED <<ready, open, ui, source, stopped, frame, overlapped>>
    BY <1>6 DEF AwaitFetch, Reached, Pump!Stops, Pump!Park
  <2>2. n \in Nat /\ n \in 1..n /\ open /\ Top = calls[n]
    BY <1>1, <2>1, TopProperties DEF Top
  <2>3. Top.seq # q
    BY <2>1, <2>2 DEF Doomed, Fetches
  <2>4. Len(calls') = n - 1 /\ \A i \in 1..(n - 1) : i \in 1..n /\ calls'[i] = calls[i]
    BY <1>1, <2>1, <2>2, Returned
  <2>5. \A x : x \in Waiting' => x \in Waiting \/ x = Top.seq
    <3> DEFINE e == [when |-> 0, handle |-> Top.seq]
    <3>1. e.handle = Top.seq /\ parked' = parked \cup {e}
      BY <2>1
    <3> HIDE DEF e
    <3> QED
      BY <2>1, <3>1 DEF Waiting, Pump!HandlesOf
  <2> QED
    BY <2>1, <2>3, <2>4, <2>5 DEF Doomed, Awake
<1>7. CASE Finish
  <2>1. calls # <<>> /\ Return
        /\ UNCHANGED <<ready, parked, open, ui, source, stopped, frame, overlapped>>
    BY <1>7 DEF Finish, Pump!Leave
  <2>2. open
    BY <1>1, <2>1, TopProperties
  <2>3. Len(calls') = n - 1 /\ \A i \in 1..(n - 1) : i \in 1..n /\ calls'[i] = calls[i]
    BY <1>1, <2>1, <2>2, Returned
  <2>4. Waiting' = Waiting
    BY <2>1 DEF Waiting, Pump!HandlesOf
  <2> QED
    BY <2>1, <2>3, <2>4 DEF Doomed, Awake
<1>8. ASSUME NEW p \in Sequence, Resume(p) PROVE Doomed(q)' /\ (Awake(q) => Awake(q)')
  <2> DEFINE t == IF frame[p].fetch = 0 THEN <<Check>>
                                        ELSE <<Set("step", frame[p].fetch), Check>>
  <2>1. /\ open /\ Call(p, t) /\ \E due \in SUBSET parked : Pump!Resume(due, p)
        /\ UNCHANGED <<ui, source, stopped, frame, overlapped>>
    BY <1>8 DEF Resume, MayCall
  <2>2. Waiting' = Waiting \ {p}
    BY <1>1, <2>1, WaitsNoLonger
  <2>3. ~Fetches(t)
    BY FetchStages
  <2> HIDE DEF t
  <2>4. /\ n \in Nat /\ Len(calls') = n + 1 /\ \A i \in 1..n : calls'[i] = calls[i]
        /\ calls'[n + 1].todo = t
    <3>1. calls \in Seq(CallInProgress)
      BY <1>1 DEF StackOK
    <3> QED
      BY <2>1, <3>1 DEF Call
  <2>5. \A i \in 1..(n + 1) : i \in 1..n \/ i = n + 1
    BY <2>4
  <2> QED
    BY <2>1, <2>2, <2>3, <2>4, <2>5 DEF Doomed, Awake
<1>9. CASE Start
  <2> DEFINE t == <<Set("result", FALSE), Set("step", 0), Set("busy", TRUE), Spawn>>
  <2>1. /\ Call(NoSequence, t)
        /\ UNCHANGED <<ready, parked, running, open, ui, stopped, frame>>
    BY <1>9 DEF Start, scheduler
  <2> HIDE DEF t
  <2>2. /\ n \in Nat /\ Len(calls') = n + 1 /\ \A i \in 1..n : calls'[i] = calls[i]
        /\ calls'[n + 1].seq = NoSequence
    <3>1. calls \in Seq(CallInProgress)
      BY <1>1 DEF StackOK
    <3> QED
      BY <2>1, <3>1 DEF Call
  <2>3. \A i \in 1..(n + 1) : i \in 1..n \/ i = n + 1
    BY <2>2
  <2>4. Waiting' = Waiting
    BY <2>1 DEF Waiting, Pump!HandlesOf
  <2> QED
    BY <1>2, <2>1, <2>2, <2>3, <2>4 DEF Doomed, Awake
<1>10. CASE Cancel \/ UNCHANGED vars
  BY <1>10 DEF Cancel, vars, scheduler, Doomed, Awake, Waiting, Pump!HandlesOf
<1>11. CASE Destroy
  BY <1>11 DEF Destroy, Pump!Close, Doomed, Awake, Waiting, Pump!HandlesOf
<1> QED
  BY <1>3, <1>4, <1>5, <1>6, <1>7, <1>8, <1>9, <1>10, <1>11 DEF Next, CallStep, ResumeStep

-----------------------------------------------------------------------------
(* The theorems.                                                           *)

\* The invariant holds in every behaviour, fair or not.
THEOREM Invariant == Spec => []IInv
BY InitIInv, StepIInv, PTL DEF Spec

\* However slots nest calls of start(), cancel() and the pump: the properties keep
\* their types (TypeOK); what is left of each call is one of the stages of start() or
\* of RunSequence (StackOK); no sequence is resumed by two calls or waits while it
\* is, and none without a token does either (OnePlaceOK); and each start() that got
\* past its check of _busy spawns one sequence or is still about to (SpawnedOK).
THEOREM CallsStayInStages ==
  Spec => [](TypeOK /\ StackOK /\ OnePlaceOK /\ SpawnedOK)
<1>1. IInv => TypeOK /\ StackOK /\ OnePlaceOK /\ SpawnedOK
  BY DEF IInv
<1> QED
  BY <1>1, Invariant, PTL

\* Unless a slot overlaps two calls of start(), busy is true just while one
\* sequence is in flight or about to be, and the status, the step and the
\* result that are left when it has ended agree with each other.
THEOREM BackendTellsTheTruth == Spec => []TellsTheTruth
BY InvMeans, Invariant, PTL

\* A sequence that is cancelled while it sleeps, or before it has begun, does
\* not sleep again once it is resumed, whatever slots call meanwhile.
THEOREM CancelIsHonoured == Spec => CancelHonoured
<1> SUFFICES ASSUME NEW q \in Sequence
             PROVE  Spec => [](Wakes(q) => [](Awake(q) => []Awake(q)))
  BY DEF CancelHonoured, Wakes, Awake
<1>1. IInv /\ Wakes(q) => Doomed(q)
  BY WakesDoomed
<1>2. IInv /\ Doomed(q) /\ [Next]_vars => Doomed(q)' /\ (Awake(q) => Awake(q)')
  BY StaysDoomed
<1> QED
  BY <1>1, <1>2, Invariant, PTL DEF Spec

=============================================================================
