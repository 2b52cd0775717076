------------------------ MODULE CoroCompletion_proofs -------------------------
(***************************************************************************)
(* What becomes of the frames of CoroRuntime: who will resume each of      *)
(* them, what a combinator hands to its parent, and that Run returns with  *)
(* the work done.                                                          *)
(***************************************************************************)
EXTENDS CoroRuntime_proofs

-----------------------------------------------------------------------------
(* The rest of the invariant.                                              *)

\* Frame o awaits task t, which has not started or has finished.
Lagging(o, t) == at[o] = "task" /\ waits[o] = t /\ at[t] \in {"initial", "final"}

\* Frames that nobody else can resume or destroy are with the loop; and an
\* await passes straight on, to the task and back.
WakersOK ==
  /\ \A f \in Frame : at[f] = "timer" => ~Loop!Suspended(f)
  /\ \A f \in Frame : at[f] = "initial" /\ (owner[f] = NoFrame \/ serves[f] # User)
                        => ~Loop!Suspended(f)
  /\ \A f \in Frame : at[f] = "final" /\ detached[f] => f = current
  /\ \A o, t \in Frame : Lagging(o, t) => current \in {o, t}

\* What wrapper w of slot k has learnt of its child, and told its group g.
Told(w, g, k) ==
  LET c == groups[g].kids[k]
  IN  /\ at[w] = "task" => waits[w] = c
      /\ at[w] = "body" => at[c] = "destroyed" /\ exc[w] = exc[c]
      /\ at[w] \in {"final", "destroyed"} => at[c] = "destroyed"
      /\ \A p \in Frame :
           at[w] \in {"final", "destroyed"} /\ groups[g].kind = "all" /\ Joins(p, g)
             => groups[g].exceptions[k] = exc[c]

\* A group of kind "all" has no winner; that of a group of kind "any" is done.
WinnerOK(g) ==
  IF groups[g].kind = "all" THEN groups[g].winner = 0
  ELSE \A k \in 1..Len(groups[g].kids) : groups[g].winner = k =>
         /\ at[groups[g].kids[k]] = "destroyed"
         /\ groups[g].exceptions[k] = exc[groups[g].kids[k]]

OutcomeOK ==
  /\ \A w \in Frame, g, k \in 0..MaxFrames :
       serves[w] = <<g, k>> /\ <<g, k>> # User => Told(w, g, k)
  /\ \A g \in DOMAIN groups : WinnerOK(g)

\* Frame o owns f, or waits for it.
Below(f, o) ==
  Alive(f) /\ (owner[f] = o \/ (serves[f] # User /\ Joins(o, serves[f][1])))

Ranks(r, b) == r \in [Frame -> 0..b] /\ \A f, o \in Frame : Below(f, o) => r[f] < r[o]

\* No ring of frames own, or wait for, one another.
RankOK == \E b \in Nat : \E r : Ranks(r, b)

More == WakersOK /\ OutcomeOK /\ RankOK

-----------------------------------------------------------------------------
(* What the parts of the invariant need of a step.                         *)

\* The loop forgets no handle but to resume it.
LEMMA StaysWithLoop ==
  ASSUME LoopInv, Loop!Next \/ UNCHANGED loopVars, NEW f \in Frame, f # current,
         ~Loop!Suspended(f)
  PROVE  ~Loop!Suspended(f)'
<1>1. L!TypeOK /\ L!SnapshotServed
  BY DEF LoopInv, L!IInv
<1>2. L!Kept
  BY <1>1, SameSteps, L!KeptStep, LoopConstants
<1>3. L!Registered = Loop!Registered /\ L!Registered' = Loop!Registered'
  BY SameOperators DEF L!Registered, Loop!Registered
<1> QED
  BY <1>2, <1>3 DEF L!Kept, Loop!Suspended

\* A step in which every frame that is with the loop, or lags behind, was so
\* before it and is not the one that gave up control.
WakersCarry ==
  /\ \A f \in Frame : at'[f] = "timer" =>
       f \in Loop!Registered' \/ (at[f] = "timer" /\ (f = current => current' = f))
  /\ \A f \in Frame : at'[f] = "initial" /\ (owner'[f] = NoFrame \/ serves'[f] # User) =>
       \/ f \in Loop!Registered'
       \/ /\ at[f] = "initial" /\ (owner[f] = NoFrame \/ serves[f] # User)
          /\ f = current => current' = f
  /\ \A f \in Frame : at'[f] = "final" /\ detached'[f] =>
       f = current' \/ (at[f] = "final" /\ detached[f] /\ f # current)
  /\ \A o, t \in Frame : Lagging(o, t)' =>
       \/ current' \in {o, t}
       \/ Lagging(o, t) /\ current \notin {o, t}

\* It keeps WakersOK.
LEMMA WakersCarried ==
  ASSUME LoopInv, Loop!Next \/ UNCHANGED loopVars, WakersOK, WakersCarry
  PROVE  WakersOK'
<1>1. \A f \in Frame : f # current /\ ~Loop!Suspended(f) => ~Loop!Suspended(f)'
  BY StaysWithLoop
<1>2. \A f \in Frame : f \in Loop!Registered' => ~Loop!Suspended(f)'
  BY DEF Loop!Suspended
<1>3. \A f \in Frame : f = current' => ~Loop!Suspended(f)'
  BY DEF Loop!Suspended
<1>4. \A f \in Frame : at'[f] = "timer" => ~Loop!Suspended(f)'
  BY <1>1, <1>2, <1>3 DEF WakersOK, WakersCarry
<1>5. \A f \in Frame : at'[f] = "initial" /\ (owner'[f] = NoFrame \/ serves'[f] # User)
                         => ~Loop!Suspended(f)'
  BY <1>1, <1>2, <1>3 DEF WakersOK, WakersCarry
<1>6. \A f \in Frame : at'[f] = "final" /\ detached'[f] => f = current'
  BY DEF WakersOK, WakersCarry
<1>7. \A o, t \in Frame : Lagging(o, t)' => current' \in {o, t}
  BY DEF WakersOK, WakersCarry
<1> QED
  BY <1>4, <1>5, <1>6, <1>7 DEF WakersOK

\* A step that revives nothing, and neither starts nor ends what a wrapper
\* does, but for the wrappers of W.
OutcomeBut(W) ==
  /\ \A g \in DOMAIN groups : g \in DOMAIN groups' /\ groups'[g] = groups[g]
  /\ \A g \in DOMAIN groups' : g \notin DOMAIN groups => WinnerOK(g)'
  /\ \A w \in Frame : w \notin W /\ serves'[w] # User /\ at'[w] # "initial" =>
       /\ serves'[w] = serves[w]
       /\ \/ at'[w] = at[w] /\ exc'[w] = exc[w] /\ waits'[w] = waits[w]
          \/ at'[w] = "destroyed" /\ at[w] \in {"final", "destroyed"}
  /\ \A c \in Frame : at[c] = "destroyed" => at'[c] = "destroyed" /\ exc'[c] = exc[c]
  /\ \A p \in Frame, g \in DOMAIN groups : Joins(p, g)' => Joins(p, g)

OutcomeCarry == OutcomeBut({})

\* It keeps OutcomeOK if what the wrappers of W have told is right.
LEMMA OutcomeCarriedBut ==
  ASSUME TypeOK, WrappersOK, OutcomeOK, NEW W, OutcomeBut(W),
         \A w \in W \cap Frame, g, k \in 0..MaxFrames :
           serves'[w] = <<g, k>> /\ <<g, k>> # User => Told(w, g, k)'
  PROVE  OutcomeOK'
<1>1. ASSUME NEW w \in Frame, NEW g \in 0..MaxFrames, NEW k \in 0..MaxFrames,
             serves'[w] = <<g, k>>, <<g, k>> # User, at'[w] # "initial", w \notin W
      PROVE  Told(w, g, k)'
  <2>1. serves[w] = <<g, k>>
    BY <1>1 DEF OutcomeBut
  <2>2. Told(w, g, k) /\ g \in DOMAIN groups /\ k \in 1..Len(groups[g].kids)
    BY <1>1, <2>1 DEF OutcomeOK, WrappersOK, WrapperOK
  <2>3. PICK c \in Frame : c = groups[g].kids[k]
    BY <2>2, GroupTypes
  <2>4. \/ at'[w] = at[w] /\ exc'[w] = exc[w] /\ waits'[w] = waits[w]
        \/ at'[w] = "destroyed" /\ at[w] \in {"final", "destroyed"}
    BY <1>1 DEF OutcomeBut
  <2>5. at[c] = "destroyed" => at'[c] = "destroyed" /\ exc'[c] = exc[c]
    BY DEF OutcomeBut
  <2>6. groups'[g] = groups[g] /\ \A p \in Frame : Joins(p, g)' => Joins(p, g)
    BY <2>2 DEF OutcomeBut
  <2> QED
    BY <2>2, <2>3, <2>4, <2>5, <2>6 DEF Told
<1>2. \A w \in Frame, g, k \in 0..MaxFrames : at'[w] = "initial" => Told(w, g, k)'
  BY DEF Told
<1>3. ASSUME NEW g \in DOMAIN groups PROVE WinnerOK(g)'
  <2>1. WinnerOK(g) /\ groups'[g] = groups[g]
    BY DEF OutcomeOK, OutcomeBut
  <2>2. \A k \in 1..Len(groups[g].kids) : groups[g].kids[k] \in Frame
    BY GroupTypes
  <2> QED
    BY <2>1, <2>2 DEF WinnerOK, OutcomeBut
<1>4. \A g \in DOMAIN groups' : WinnerOK(g)'
  BY <1>3 DEF OutcomeBut
<1> QED
  BY <1>1, <1>2, <1>4 DEF OutcomeOK

\* And with no such wrappers.
LEMMA OutcomeCarried ==
  ASSUME TypeOK, WrappersOK, OutcomeOK, OutcomeCarry
  PROVE  OutcomeOK'
BY OutcomeCarriedBut DEF OutcomeCarry

\* A step that puts no frame below another.
RankCarry == \A f, o \in Frame : Below(f, o)' => Below(f, o)

\* It keeps RankOK.
LEMMA RankCarried ==
  ASSUME RankOK, RankCarry
  PROVE  RankOK'
<1>1. PICK b \in Nat : \E r : Ranks(r, b)
  BY DEF RankOK
<1>2. PICK r : Ranks(r, b)
  BY <1>1
<1>3. Ranks(r, b)'
  BY <1>2 DEF Ranks, RankCarry
<1> QED
  BY <1>3 DEF RankOK

\* A step that puts frame n right below p, and below n some of what was below p.
Inserts(n, p) ==
  /\ n # p
  /\ \A f, o \in Frame : Below(f, o)' =>
       \/ f # n /\ o # n /\ Below(f, o)
       \/ f = n /\ o = p
       \/ f # n /\ o = n /\ Below(f, p)

\* It keeps RankOK: n gets a rank between p's and those below p.
LEMMA RankInserted ==
  ASSUME RankOK, NEW n \in Frame, NEW p \in Frame, Inserts(n, p)
  PROVE  RankOK'
<1>1. PICK b \in Nat : \E r : Ranks(r, b)
  BY DEF RankOK
<1>2. PICK r : Ranks(r, b)
  BY <1>1
<1> DEFINE s == [f \in Frame |-> IF f = n THEN 2 * r[p] + 1 ELSE 2 * r[f] + 2]
           d == 2 * b + 2
<1>3. d \in Nat /\ s \in [Frame -> 0..d]
  <2>1. \A f \in Frame : r[f] \in 0..b
    BY <1>2 DEF Ranks
  <2>2. \A x \in 0..b : 2 * x + 1 \in 0..d /\ 2 * x + 2 \in 0..d
    OBVIOUS
  <2> QED
    BY <2>1, <2>2
<1>4. ASSUME NEW f \in Frame, NEW o \in Frame, Below(f, o)'
      PROVE  s[f] < s[o]
  <2>1. \A q \in Frame : r[q] \in Nat
    BY <1>2 DEF Ranks
  <2>2. \A x, y \in Frame : Below(x, y) => r[x] < r[y]
    BY <1>2 DEF Ranks
  <2>3. CASE f # n /\ o # n /\ Below(f, o)
    BY <2>1, <2>2, <2>3
  <2>4. CASE f = n /\ o = p
    BY <2>1, <2>4 DEF Inserts
  <2>5. CASE f # n /\ o = n /\ Below(f, p)
    BY <2>1, <2>2, <2>5
  <2> QED
    BY <1>4, <2>3, <2>4, <2>5 DEF Inserts
<1> HIDE DEF s, d
<1>5. Ranks(s, d)'
  BY <1>3, <1>4 DEF Ranks
<1> QED
  BY <1>3, <1>5 DEF RankOK

-----------------------------------------------------------------------------
(* The steps.                                                              *)

Carry == WakersCarry /\ OutcomeCarry /\ RankCarry

\* A posted handle is with the loop.
LEMMA PostedStays ==
  ASSUME LoopInv, NEW h \in Frame, ready' = Append(ready, h)
  PROVE  h \in Loop!Registered'
<1>1. Loop!Elements(Append(ready, h)) = Loop!Elements(ready) \cup {h}
  BY LoopMeans, L!AppendAdds, LoopConstants, SameOperators
<1> QED
  BY <1>1 DEF Loop!Registered

\* The running coroutine of the user's is nobody's child or wrapper.
LEMMA RunningIs ==
  ASSUME Inv, current # NoFrame, at[current] # "destroyed"
  PROVE  \E o \in Frame :
           /\ o = current /\ Alive(o) /\ ~terminated
           /\ serves[o] = User \/ at[o] \in {"initial", "task", "body", "final"}
<1>1. PICK o \in Frame : o = current
  BY LoopMeans DEF Inv
<1>2. Alive(o) /\ ~terminated
  BY <1>1 DEF Inv, FramesOK, PlacesOK, Alive
<1>3. serves[o] = User \/ at[o] \in {"initial", "task", "body", "final"}
  BY <1>2, WrapperIs DEF Inv, FramesOK, Alive
<1> QED
  BY <1>1, <1>2, <1>3

\* A coroutine starts or goes on, throws or catches.
LEMMA ResumeCarries ==
  ASSUME Inv, Resume \/ AwaitEmpty \/ Catch
  PROVE  Carry
<1>1. PICK o \in Frame :
         /\ o = current /\ Alive(o) /\ serves[o] = User
         /\ at[o] \in {"initial", "timer", "event", "body"}
  <2>1. current # NoFrame /\ serves[current] = User
        /\ at[current] \in {"initial", "timer", "event", "body"}
    BY DEF Resume, AwaitEmpty, Catch, Normal, InBody
  <2> QED
    BY <2>1, RunningIs
<1>2. UNCHANGED <<ready, timers, now, mode, current, budget, batch, owner, cont, detached,
                  waits, serves, groups>>
  BY DEF Resume, AwaitEmpty, Catch, loopVars
<1>3. \A f \in Frame : f # o => at'[f] = at[f] /\ exc'[f] = exc[f]
  BY <1>1 DEF Resume, AwaitEmpty, Catch, Inv, TypeOK
<1>4. at'[o] = "body"
  BY <1>1 DEF Resume, AwaitEmpty, Catch, Normal, InBody, Inv, TypeOK
<1>5. WakersCarry
  BY <1>1, <1>2, <1>3, <1>4 DEF WakersCarry, Lagging
<1>6. OutcomeCarry
  BY <1>1, <1>2, <1>3, <1>4 DEF OutcomeCarry, OutcomeBut, Joins, Alive
<1>7. RankCarry
  BY <1>1, <1>2, <1>3, <1>4 DEF RankCarry, Below, Joins, Alive
<1> QED
  BY <1>5, <1>6, <1>7 DEF Carry

\* A coroutine is called, by the host or in a body, perhaps with tasks that
\* move into its frame.
LEMMA CallCarries ==
  ASSUME Inv, RankOK, CallTask \/ Run \/ HostSpawn \/ \E tasks \in SUBSET Held : CallWith(tasks)
  PROVE  WakersCarry /\ OutcomeCarry /\ RankOK'
<1> USE DEF Inv, FramesOK
<1>1. PICK n \in Frame : n = NewFrame /\ at[n] = "free"
  <2>1. Room(1)
    BY DEF CallTask, CallWith, Run, HostSpawn
  <2> QED
    BY <2>1, NewFrameIsFree
<1>2. /\ owner[n] = NoFrame /\ serves[n] = User /\ n # current /\ n # NoFrame
      /\ \A f \in Frame : owner[f] # n
  BY <1>1 DEF FreshOK, NoFrame, Frame
<1>3. UNCHANGED <<timers, now, current, budget, batch, cont, exc, waits, groups>>
  BY DEF CallTask, CallWith, Run, HostSpawn, Loop!Run, loopVars
<1>4. /\ at' = [at EXCEPT ![n] = "initial"]
      /\ \A f \in Frame : serves'[f] = serves[f]
  BY <1>1, <1>2 DEF CallTask, CallWith, Run, HostSpawn, Call, TypeOK
<1>5. \A f \in Frame : at'[f] = IF f = n THEN "initial" ELSE at[f]
  BY <1>4 DEF TypeOK
<1>6. CASE CallTask \/ \E tasks \in SUBSET Held : CallWith(tasks)
  <2>1. PICK o \in Frame : o = current /\ Alive(o)
    BY <1>6, RunningIs DEF CallTask, CallWith, Normal, InBody
  <2>2. /\ UNCHANGED <<ready, detached>> /\ owner'[n] = o
        /\ \A f \in Frame : f # n =>
             owner'[f] = owner[f] \/ (owner[f] = o /\ owner'[f] = n /\ at[f] = "initial"
                                        /\ serves[f] = User)
    <3>1. CASE CallTask
      BY <1>1, <2>1, <3>1 DEF CallTask, Call, loopVars, TypeOK
    <3>2. ASSUME NEW tasks \in SUBSET Held, CallWith(tasks)
          PROVE  /\ UNCHANGED <<ready, detached>> /\ owner'[n] = o
                 /\ \A f \in Frame : f # n =>
                      owner'[f] = owner[f] \/ (owner[f] = o /\ owner'[f] = n /\ at[f] = "initial"
                                                 /\ serves[f] = User)
      <4>1. \A f \in tasks : at[f] = "initial" /\ owner[f] = o /\ serves[f] = User
        BY <2>1, <3>2, BodyIs DEF CallWith, Normal, Held
      <4> QED
        BY <1>1, <2>1, <3>2, <4>1 DEF CallWith, loopVars
    <3> QED
      BY <1>6, <3>1, <3>2
  <2>3. WakersCarry
    BY <1>1, <1>2, <1>3, <1>4, <1>5, <2>1, <2>2 DEF WakersCarry, Lagging, Alive, NoFrame, Frame, AwaitOK, Awaits
  <2>4. Inserts(n, o)
    BY <1>1, <1>2, <1>3, <1>4, <1>5, <2>1, <2>2 DEF Inserts, Below, Joins, Alive
  <2>5. RankOK'
    BY <2>4, RankInserted
  <2>6. OutcomeCarry
    BY <1>1, <1>2, <1>3, <1>4, <1>5 DEF OutcomeCarry, OutcomeBut, Joins
  <2> QED
    BY <2>3, <2>5, <2>6
<1>7. CASE Run \/ HostSpawn
  <2>1. /\ ready' = Append(ready, n)
        /\ \A f \in Frame : owner'[f] = owner[f]
        /\ \A f \in Frame : f # n => detached'[f] = detached[f]
    BY <1>1, <1>2, <1>7 DEF Run, HostSpawn, Loop!Run, Call, TypeOK
  <2>2. n \in Loop!Registered'
    BY <2>1, PostedStays
  <2>3. WakersCarry
    BY <1>1, <1>2, <1>3, <1>4, <1>5, <2>1, <2>2 DEF WakersCarry, Lagging, Alive, AwaitOK, Awaits
  <2>4. RankCarry
    BY <1>1, <1>2, <1>3, <1>4, <1>5, <2>1 DEF RankCarry, Below, Joins, Alive, NoFrame, Frame
  <2>5. OutcomeCarry
    BY <1>1, <1>2, <1>3, <1>4, <1>5 DEF OutcomeCarry, OutcomeBut, Joins
  <2> QED
    BY <2>3, <2>4, <2>5, RankCarried
<1> QED
  BY <1>6, <1>7

\* A body awaits a task it holds.
LEMMA AwaitTaskCarries ==
  ASSUME Inv, NEW t \in Frame, AwaitTask(t)
  PROVE  Carry
<1> USE DEF Inv, FramesOK
<1>1. PICK o \in Frame : o = current /\ Alive(o) /\ at[o] = "body" /\ serves[o] = User
  BY RunningIs DEF AwaitTask, Normal, InBody
<1>2. at[t] = "initial" /\ owner[t] = o /\ serves[t] = User /\ t # o
  BY <1>1, BodyIs DEF AwaitTask, Normal, Held
<1>3. UNCHANGED <<ready, timers, now, mode, budget, batch, owner, detached, exc, serves, groups>>
  BY DEF AwaitTask
<1>4. /\ current' = t /\ waits' = [waits EXCEPT ![o] = t] /\ at' = [at EXCEPT ![o] = "task"]
      /\ \A f \in Frame : at'[f] = IF f = o THEN "task" ELSE at[f]
      /\ \A f \in Frame : waits'[f] = IF f = o THEN t ELSE waits[f]
  BY <1>1, BoundAssumption DEF AwaitTask, TypeOK, Frame
<1>5. WakersCarry
  BY <1>1, <1>2, <1>3, <1>4 DEF WakersCarry, Lagging
<1>6. OutcomeCarry
  BY <1>1, <1>2, <1>3, <1>4 DEF OutcomeCarry, OutcomeBut, Joins
<1>7. RankCarry
  BY <1>1, <1>2, <1>3, <1>4 DEF RankCarry, Below, Joins, Alive
<1> QED
  BY <1>5, <1>6, <1>7 DEF Carry

\* A body hands a task to the loop, or the handle of a waiting coroutine.
LEMMA PostCarries ==
  ASSUME Inv, NEW t \in Frame, Spawn(t) \/ SignalEvent(t)
  PROVE  Carry
<1> USE DEF Inv, FramesOK
<1>1. PICK o \in Frame : o = current /\ Alive(o) /\ at[o] = "body" /\ serves[o] = User
  BY RunningIs DEF Spawn, SignalEvent, Normal, InBody
<1>2. /\ UNCHANGED <<timers, now, mode, current, budget, batch, at, cont, exc, waits, serves, groups>>
      /\ \A f \in Frame : f # t => owner'[f] = owner[f] /\ detached'[f] = detached[f]
      /\ owner'[t] \in {owner[t], NoFrame}
      /\ at[t] \in {"initial", "event"}
      /\ t \in Loop!Registered'
  BY PostedStays DEF Spawn, SignalEvent, Held, frameVars, TypeOK
<1>3. WakersCarry
  BY <1>1, <1>2 DEF WakersCarry, Lagging
<1>4. OutcomeCarry
  BY <1>1, <1>2 DEF OutcomeCarry, OutcomeBut, Joins
<1>5. RankCarry
  BY <1>1, <1>2 DEF RankCarry, Below, Joins, Alive, NoFrame, Frame
<1> QED
  BY <1>3, <1>4, <1>5 DEF Carry

\* A coroutine suspends until a time or an event, or for its group.
LEMMA SuspendCarries ==
  ASSUME Inv, (\E deadline \in Loop!Moment : Sleep(deadline)) \/ AwaitEvent \/ ForkDone
  PROVE  Carry
<1> USE DEF Inv, FramesOK
<1>1. PICK o \in Frame :
         /\ o = current /\ Alive(o) /\ o # NoFrame
         /\ (at[o] = "body" /\ serves[o] = User) \/ (at[o] = "fork" /\ ForkDone)
  <2>1. /\ current # NoFrame
        /\ (at[current] = "body" /\ serves[current] = User) \/ (at[current] = "fork" /\ ForkDone)
    <3>1. ASSUME NEW deadline \in Loop!Moment, Sleep(deadline) PROVE InBody
      BY <3>1 DEF Sleep, Normal
    <3>2. AwaitEvent => InBody
      BY DEF AwaitEvent, Normal
    <3>3. ForkDone => current # NoFrame /\ at[current] = "fork"
      BY DEF ForkDone
    <3> QED
      BY <3>1, <3>2, <3>3 DEF InBody
  <2> QED
    BY <2>1, RunningIs
<1>2. PICK p \in {"timer", "event", "group"} :
         /\ at' = [at EXCEPT ![o] = p]
         /\ p = "group" => at[o] = "fork"
         /\ p = "timer" => o \in Loop!Registered'
  <2>1. ASSUME NEW deadline \in Loop!Moment, Sleep(deadline)
        PROVE  at' = [at EXCEPT ![o] = "timer"] /\ o \in Loop!Registered'
    BY <1>1, <2>1, LoopSleeps DEF Sleep
  <2> QED
    BY <1>1, <2>1 DEF AwaitEvent, ForkDone
<1>3. /\ UNCHANGED <<now, mode, budget, batch, owner, cont, detached, exc, waits, serves, groups>>
      /\ current' = NoFrame /\ \A f \in Frame : f # NoFrame
  BY DEF Sleep, AwaitEvent, ForkDone, NoFrame, Frame
<1>4. \A f \in Frame : at'[f] = IF f = o THEN p ELSE at[f]
  BY <1>2 DEF TypeOK
<1>5. serves[o] = User
  BY <1>1, WrapperIs
<1>6. WakersCarry
  BY <1>1, <1>2, <1>3, <1>4 DEF WakersCarry, Lagging
<1>7. OutcomeCarry
  BY <1>1, <1>2, <1>3, <1>4, <1>5 DEF OutcomeCarry, OutcomeBut, Joins, Alive
<1>8. RankCarry
  BY <1>1, <1>2, <1>3, <1>4 DEF RankCarry, Below, Joins, Alive
<1> QED
  BY <1>6, <1>7, <1>8 DEF Carry

\* A body drops a task, or ends and drops all it holds.
LEMMA FinishCarries ==
  ASSUME Inv, (\E t \in Frame : Drop(t)) \/ Finish \/ Throw
  PROVE  Carry
<1> USE DEF Inv, FramesOK
<1>1. InBody
  BY DEF Drop, Finish, Throw, Normal
<1>2. PICK o \in Frame : o = current /\ Alive(o) /\ at[o] = "body" /\ serves[o] = User
  BY RunningIs DEF Drop, Finish, Throw, Normal, InBody
<1>3. PICK S \in SUBSET Held, p \in {"body", "final"} :
         at' = [Destroy(S) EXCEPT ![o] = p]
  <2>1. ASSUME NEW t \in Frame, Drop(t)
        PROVE  {t} \in SUBSET Held /\ at' = [Destroy({t}) EXCEPT ![o] = "body"]
    <3>1. t \in Held /\ at' = Destroy({t})
      BY <2>1 DEF Drop
    <3>2. {t} \in SUBSET Held
      BY <3>1
    <3>3. Destroy({t}) \in [Frame -> Place] /\ Destroy({t})[o] = "body"
      <4>1. o \notin Closure({t})
        BY <1>1, <1>2, <3>2, DroppedAre DEF Alive
      <4>2. {t} \subseteq Frame /\ \A f \in {t} : at[f] # "free"
        BY <1>1, <3>2, DroppedAre
      <4>3. /\ Destroy({t}) = [f \in Frame |-> IF f \in Closure({t}) THEN "destroyed" ELSE at[f]]
            /\ Destroy({t}) \in [Frame -> Place]
        BY <4>2, DestroyIs
      <4> QED
        BY <1>2, <4>1, <4>3
    <3> QED
      BY <3>1, <3>2, <3>3
  <2> QED
    BY <1>2, <2>1 DEF Finish, Throw, FinishWith
<1>4. /\ UNCHANGED <<ready, timers, now, mode, current, budget, batch,
                     owner, cont, detached, waits, serves, groups>>
      /\ \A f \in Frame : f # o => exc'[f] = exc[f]
  BY <1>2 DEF Drop, Finish, Throw, FinishWith, loopVars, TypeOK
<1> DEFINE C == Closure(S)
<1>5. /\ S \subseteq Frame /\ \A f \in S : at[f] # "free"
      /\ \A f \in C : f \in Frame /\ (at[f] # "destroyed" => at[f] = "initial" /\ serves[f] = User)
  <2>1. S \subseteq Frame
    BY DEF Held
  <2> QED
    BY <1>1, <2>1, DroppedAre, ClosureIs
<1>6. \A f \in Frame : at'[f] = IF f = o THEN p ELSE IF f \in C THEN "destroyed" ELSE at[f]
  <2>1. Destroy(S) = [f \in Frame |-> IF f \in C THEN "destroyed" ELSE at[f]]
    BY <1>5, DestroyIs
  <2> QED
    BY <1>2, <1>3, <2>1
<1> HIDE DEF C
<1>7. WakersCarry
  BY <1>2, <1>4, <1>5, <1>6 DEF WakersCarry, Lagging
<1>8. OutcomeCarry
  BY <1>2, <1>4, <1>5, <1>6 DEF OutcomeCarry, OutcomeBut, Joins
<1>9. RankCarry
  BY <1>2, <1>4, <1>5, <1>6 DEF RankCarry, Below, Joins, Alive
<1> QED
  BY <1>7, <1>8, <1>9 DEF Carry

\* A coroutine ends.
LEMMA FinalCarries ==
  ASSUME Inv, FinalSuspend
  PROVE  Carry
<1> USE DEF Inv, FramesOK
<1>1. PICK o \in Frame : o = current /\ Alive(o) /\ at[o] = "final"
  BY RunningIs DEF FinalSuspend
<1>2. UNCHANGED <<ready, timers, now, mode, budget, batch, root,
                  owner, cont, detached, exc, waits, serves, groups>>
  BY DEF FinalSuspend
<1>3. /\ \A f \in Frame : f # o => at'[f] = at[f]
      /\ IF detached[o] THEN at'[o] = "destroyed" ELSE at'[o] = "final" /\ current' = cont[o]
  <2>1. {o} \subseteq Frame /\ \A f \in {o} : at[f] \in {"final", "destroyed"}
    BY <1>1
  <2>2. Destroy({o}) = [f \in Frame |-> IF f \in {o} THEN "destroyed" ELSE at[f]]
    BY <2>1, FinishedAre
  <2> QED
    BY <1>1, <2>2 DEF FinalSuspend
<1>4. \A q \in Frame : at[q] = "task" /\ waits[q] = o => ~detached[o] /\ cont[o] = q
  BY <1>1 DEF AwaitOK, Awaits, OneOwner, NoFrame, Frame
<1>5. WakersCarry
  BY <1>1, <1>2, <1>3, <1>4 DEF WakersCarry, Lagging
<1>6. OutcomeCarry
  BY <1>1, <1>2, <1>3 DEF OutcomeCarry, OutcomeBut, Joins
<1>7. RankCarry
  BY <1>1, <1>2, <1>3 DEF RankCarry, Below, Joins, Alive
<1> QED
  BY <1>5, <1>6, <1>7 DEF Carry

\* A parent posts the next wrapper of its group.
LEMMA ForkChildCarries ==
  ASSUME Inv, RankOK, ForkChild
  PROVE  WakersCarry /\ OutcomeCarry /\ RankOK'
<1> USE DEF Inv, FramesOK
<1>1. PICK o \in Frame : o = current /\ at[o] = "fork"
  BY LoopMeans DEF ForkChild
<1>2. PICK g \in 1..MaxFrames :
        /\ waits[o] = g /\ g \in DOMAIN groups /\ groups[g].parent = o /\ ForkOK(o, g)
        /\ Len(groups[g].kids) \in 1..MaxFrames
  BY <1>1, ParentIs DEF AtGroup
<1>3. PICK m \in Nat, N \in 1..MaxFrames : m = Cardinality(Wrappers(g)) /\ N = Len(groups[g].kids)
  BY <1>2, BoundAssumption DEF ForkOK
<1>4. PICK k \in 1..N : k = m + 1
  BY <1>1, <1>2, <1>3 DEF ForkChild
<1>5. PICK c \in Frame : c = groups[g].kids[k] /\ Waiting(c, o)
  <2>1. groups[g].kids[k] \in Frame
    BY <1>2, <1>3, GroupTypes
  <2> QED
    BY <1>2, <1>3, <1>4, <2>1 DEF ForkOK
<1>6. PICK w \in Frame : w = NewFrame /\ at[w] = "free"
  <2>1. Allocated + (N - m) <= MaxFrames
    BY <1>1, <1>2, <1>3 DEF ForkOK
  <2>2. Room(1)
    BY <1>3, <1>4, <2>1, BoundAssumption DEF Room, FreshOK
  <2> QED
    BY <2>2, NewFrameIsFree
<1>7. /\ owner[w] = NoFrame /\ serves[w] = User /\ w # o /\ w # NoFrame /\ o # NoFrame
      /\ \A f \in Frame : owner[f] # w
  BY <1>1, <1>6 DEF FreshOK, NoFrame, Frame
<1>8. PICK any \in BOOLEAN : any <=> groups[g].kind = "any"
  OBVIOUS
<1>9. /\ UNCHANGED <<timers, now, mode, current, budget, batch, cont, exc, waits, groups>>
      /\ ready' = Append(ready, w)
  BY <1>1, <1>6 DEF ForkChild
<1>10. /\ at' = [at EXCEPT ![w] = "initial"]
       /\ serves' = [serves EXCEPT ![w] = <<g, k>>]
       /\ detached' = [detached EXCEPT ![w] = any]
       /\ owner' = IF any THEN [owner EXCEPT ![c] = w] ELSE [owner EXCEPT ![w] = o]
  BY <1>1, <1>2, <1>3, <1>4, <1>5, <1>6, <1>8 DEF ForkChild
<1>11. at[c] = "initial" /\ serves[c] = User /\ owner[c] = o /\ c # o /\ c # w
  BY <1>1, <1>5, <1>6 DEF Waiting
<1>12. /\ \A f \in Frame : at'[f] = IF f = w THEN "initial" ELSE at[f]
       /\ \A f \in Frame : serves'[f] = IF f = w THEN <<g, k>> ELSE serves[f]
       /\ \A f \in Frame : f # w => detached'[f] = detached[f]
       /\ \A f \in Frame : f # w /\ f # c => owner'[f] = owner[f]
       /\ owner'[w] \in {NoFrame, o} /\ owner'[c] \in {w, owner[c]}
  BY <1>7, <1>10, <1>11 DEF TypeOK
<1>13. WakersCarry
  <2>1. w \in Loop!Registered'
    BY <1>9, PostedStays
  <2>2. \A x, t \in Frame : at[x] = "task" /\ waits[x] = t => t # w
    BY <1>6 DEF AwaitOK, Awaits, Alive
  <2> QED
    BY <1>1, <1>6, <1>7, <1>9, <1>12, <1>11, <2>1, <2>2 DEF WakersCarry, Lagging
<1>14. OutcomeCarry
  BY <1>6, <1>9, <1>12 DEF OutcomeCarry, OutcomeBut, Joins
<1>15. Inserts(w, o)
  <2>1. ASSUME NEW f \in Frame, NEW q \in Frame, Below(f, q)'
        PROVE  \/ f # w /\ q # w /\ Below(f, q)
               \/ f = w /\ q = o
               \/ f # w /\ q = w /\ Below(f, o)
    <3>1. CASE f = w
      <4>1. <<g, k>>[1] = g
        OBVIOUS
      <4>2. owner'[w] = q \/ Joins(q, g)'
        BY <1>12, <2>1, <3>1, <4>1 DEF Below
      <4>3. Joins(q, g)' => Joins(q, g)
        BY <1>9, <1>12 DEF Joins
      <4>4. Joins(q, g) => q = o
        BY <1>2 DEF ForksOK, ForkOK
      <4> QED
        BY <1>12, <3>1, <4>2, <4>3, <4>4 DEF NoFrame, Frame
    <3>2. CASE f # w /\ q = w
      <4>1. owner'[f] = w
        BY <1>12, <2>1, <3>2 DEF Below, Joins
      <4>2. f = c
        BY <1>7, <1>12, <3>2, <4>1
      <4> QED
        BY <1>11, <3>2, <4>2 DEF Below, Alive
    <3>3. CASE f # w /\ q # w
      BY <1>9, <1>12, <1>11, <2>1, <3>3 DEF Below, Joins, Alive
    <3> QED
      BY <3>1, <3>2, <3>3
  <2> QED
    BY <1>7, <2>1 DEF Inserts
<1> QED
  BY <1>13, <1>14, <1>15, RankInserted

\* A body combines the tasks it holds.
LEMMA WhenCarries ==
  ASSUME Inv, NEW kind \in {"all", "any"}, When(kind)
  PROVE  Carry
<1> USE DEF Inv, FramesOK
<1>1. PICK o \in Frame : o = current /\ Alive(o) /\ at[o] = "body" /\ serves[o] = User
  BY RunningIs DEF When, Normal, InBody
<1>2. PICK kids : kids \in Orders(Held) /\ groups' = Append(groups, NewGroup(kind, kids))
  BY DEF When
<1>3. PICK G \in Nat : G = Len(groups) + 1 /\ DOMAIN groups = 1..Len(groups) /\ Len(groups) \in Nat
  BY DEF TypeOK
<1>4. /\ DOMAIN groups' = 1..G /\ groups'[G] = NewGroup(kind, kids)
      /\ \A g \in 1..Len(groups) : groups'[g] = groups[g]
  <2>1. groups \in Seq(Group)
    BY DEF TypeOK
  <2> HIDE DEF Inv
  <2> QED
    BY <1>2, <1>3, <2>1
<1>5. groups'[G].winner = 0
  BY <1>4 DEF NewGroup
<1>6. /\ UNCHANGED <<ready, timers, now, mode, current, budget, batch,
                     owner, cont, detached, exc, serves>>
      /\ \A f \in Frame : at'[f] = IF f = o THEN "fork" ELSE at[f]
      /\ \A f \in Frame : waits'[f] = IF f = o THEN G ELSE waits[f]
  BY <1>1, <1>3 DEF When, loopVars, TypeOK
<1>7. WakersCarry
  BY <1>1, <1>6 DEF WakersCarry, Lagging
<1>8. OutcomeCarry
  <2>1. \A g \in DOMAIN groups : g \in DOMAIN groups' /\ groups'[g] = groups[g] /\ g # G
    BY <1>3, <1>4
  <2>2. \A g \in DOMAIN groups' : g \notin DOMAIN groups => WinnerOK(g)'
    <3>1. \A g \in DOMAIN groups' : g \notin DOMAIN groups => g = G
      BY <1>3, <1>4
    <3>2. WinnerOK(G)'
      <4>1. \A j \in 1..Len(groups'[G].kids) : 0 # j
        OBVIOUS
      <4> QED
        BY <1>5, <4>1 DEF WinnerOK
    <3> QED
      BY <3>1, <3>2
  <2> QED
    BY <1>1, <1>6, <2>1, <2>2 DEF OutcomeCarry, OutcomeBut, Joins
<1>9. RankCarry
  <2>1. \A f \in Frame : serves[f] # User => serves[f][1] # G
    BY <1>3, WrapperIs
  <2> QED
    BY <1>1, <1>6, <2>1 DEF RankCarry, Below, Joins, Alive
<1> QED
  BY <1>7, <1>8, <1>9 DEF Carry

\* A parent goes on with the outcome of its group.
LEMMA GroupResumeCarries ==
  ASSUME Inv, GroupResume
  PROVE  Carry
<1> USE DEF Inv, FramesOK
<1>1. PICK o \in Frame : o = current /\ at[o] = "group"
  BY LoopMeans DEF GroupResume
<1>2. serves[o] = User /\ \E g \in 1..MaxFrames : waits[o] = g
  BY <1>1, ParentIs DEF AtGroup
<1> DEFINE S == {f \in Frame : owner[f] = o}
<1>3. \A f \in S : at[f] \in {"final", "destroyed"}
  BY <1>1, <1>2, CollectedAre
<1>4. /\ \A f \in Frame : at'[f] = IF f = o THEN "body"
                                   ELSE IF f \in S THEN "destroyed" ELSE at[f]
      /\ \A f \in Frame : f # o => exc'[f] = exc[f] /\ waits'[f] = waits[f]
  <2>1. /\ Destroy(S) = [f \in Frame |-> IF f \in S THEN "destroyed" ELSE at[f]]
        /\ Destroy(S) \in [Frame -> Place]
    <3>1. S \subseteq Frame
      OBVIOUS
    <3> HIDE DEF S
    <3> QED
      BY <1>3, <3>1, FinishedAre
  <2>2. at' = [Destroy(S) EXCEPT ![o] = "body"]
    BY <1>1 DEF GroupResume
  <2> HIDE DEF S
  <2>3. \A f \in Frame : at'[f] = IF f = o THEN "body" ELSE IF f \in S THEN "destroyed" ELSE at[f]
    BY <2>1, <2>2
  <2> QED
    BY <1>1, <2>3 DEF GroupResume, TypeOK
<1>5. UNCHANGED <<ready, timers, now, mode, current, budget, batch,
                  owner, cont, detached, serves, groups>>
  BY DEF GroupResume, loopVars
<1> HIDE DEF S
<1>6. WakersCarry
  BY <1>1, <1>3, <1>4, <1>5 DEF WakersCarry, Lagging
<1>7. OutcomeCarry
  BY <1>1, <1>2, <1>3, <1>4, <1>5 DEF OutcomeCarry, OutcomeBut, Joins
<1>8. RankCarry
  BY <1>1, <1>3, <1>4, <1>5 DEF RankCarry, Below, Joins, Alive
<1> QED
  BY <1>6, <1>7, <1>8 DEF Carry

\* A coroutine goes on with the outcome of the task it awaited.
LEMMA TaskResumeCarries ==
  ASSUME Inv, OutcomeOK, TaskResume
  PROVE  WakersCarry /\ OutcomeOK' /\ RankCarry
<1> USE DEF Inv, FramesOK
<1>1. PICK o \in Frame : o = current /\ at[o] = "task"
  BY LoopMeans DEF TaskResume
<1>2. PICK t \in Frame : waits[o] = t /\ Awaits(o, t)
  BY <1>1 DEF AwaitOK
<1>3. Alive(t) /\ serves[t] = User /\ at[t] = "final" /\ t # o
  BY <1>1, <1>2 DEF Awaits
<1>4. UNCHANGED <<ready, timers, now, mode, current, budget, batch,
                  owner, cont, detached, serves, groups>>
  BY DEF TaskResume, loopVars
<1>5. /\ \A f \in Frame : at'[f] = IF f = o THEN "body" ELSE IF f = t THEN "destroyed" ELSE at[f]
      /\ \A f \in Frame : waits'[f] = IF f = o THEN NoFrame ELSE waits[f]
      /\ \A f \in Frame : exc'[f] = IF f = o THEN exc[t] ELSE exc[f]
  <2>1. /\ Destroy({t}) = [f \in Frame |-> IF f \in {t} THEN "destroyed" ELSE at[f]]
        /\ Destroy({t}) \in [Frame -> Place]
    <3>1. {t} \subseteq Frame /\ \A f \in {t} : at[f] \in {"final", "destroyed"}
      BY <1>3
    <3> QED
      BY <3>1, FinishedAre
  <2> QED
    BY <1>1, <1>2, <2>1 DEF TaskResume, TypeOK
<1>6. WakersCarry
  BY <1>1, <1>3, <1>4, <1>5 DEF WakersCarry, Lagging
<1>7. RankCarry
  BY <1>1, <1>3, <1>4, <1>5 DEF RankCarry, Below, Joins, Alive
<1>8. OutcomeBut({o})
  BY <1>1, <1>3, <1>4, <1>5 DEF OutcomeBut, Joins
<1>9. ASSUME NEW g \in 0..MaxFrames, NEW k \in 0..MaxFrames, serves'[o] = <<g, k>>,
             <<g, k>> # User
      PROVE  Told(o, g, k)'
  <2>1. Told(o, g, k)
    BY <1>4, <1>9 DEF OutcomeOK
  <2>2. t = groups[g].kids[k]
    BY <1>1, <1>2, <2>1 DEF Told
  <2> QED
    BY <1>3, <1>4, <1>5, <2>2 DEF Told
<1>10. OutcomeOK'
  BY <1>8, <1>9, OutcomeCarriedBut
<1> QED
  BY <1>6, <1>7, <1>10

\* A wrapper awaits its child.
LEMMA WrapperAwaitCarries ==
  ASSUME Inv, OutcomeOK, RankOK, WrapperAwait
  PROVE  WakersCarry /\ OutcomeOK' /\ RankOK'
<1> USE DEF Inv, FramesOK
<1>1. PICK w \in Frame : w = current /\ at[w] = "initial" /\ serves[w] # User
  BY LoopMeans DEF WrapperAwait
<1>2. PICK g, k \in 0..MaxFrames :
        /\ serves[w] = <<g, k>> /\ <<g, k>> # User /\ WrapperOK(w, g, k)
        /\ g = serves[w][1] /\ k = serves[w][2]
        /\ g \in DOMAIN groups /\ k \in 1..Len(groups[g].kids)
  BY <1>1, WrapperIs
<1>3. PICK c, p \in Frame : c = groups[g].kids[k] /\ p = groups[g].parent
  BY <1>2, GroupTypes
<1>4. PICK q \in Frame :
        /\ q = w \/ (q = p /\ Joins(p, g) /\ owner[w] = p)
        /\ Waiting(c, q)
  BY <1>1, <1>2, <1>3 DEF WrapperOK, Alive
<1>5. at[c] = "initial" /\ serves[c] = User /\ owner[c] = q /\ c # w /\ Alive(c)
  BY <1>1, <1>4 DEF Waiting, Alive
<1>6. /\ UNCHANGED <<ready, timers, now, mode, budget, batch, detached, exc, serves, groups>>
      /\ current' = c
      /\ \A f \in Frame : at'[f] = IF f = w THEN "task" ELSE at[f]
      /\ \A f \in Frame : owner'[f] = IF f = c THEN w ELSE owner[f]
      /\ \A f \in Frame : waits'[f] = IF f = w THEN c ELSE waits[f]
  BY <1>1, <1>2, <1>3 DEF WrapperAwait, TypeOK
<1>7. WakersCarry
  BY <1>1, <1>5, <1>6 DEF WakersCarry, Lagging, NoFrame, Frame
<1>8. OutcomeOK'
  <2>1. OutcomeBut({w})
    BY <1>1, <1>6 DEF OutcomeBut, Joins
  <2>2. \A x, j \in 0..MaxFrames : serves'[w] = <<x, j>> => x = g /\ j = k
    BY <1>2, <1>6
  <2>3. Told(w, g, k)'
    BY <1>3, <1>6 DEF Told
  <2> QED
    BY <2>1, <2>2, <2>3, OutcomeCarriedBut
<1>9. CASE q = w
  <2>1. RankCarry
    BY <1>1, <1>5, <1>6, <1>9 DEF RankCarry, Below, Joins, Alive
  <2> QED
    BY <1>7, <1>8, <2>1, RankCarried
<1>10. CASE q # w
  <2>1. q = p /\ Joins(p, g) /\ owner[w] = p
    BY <1>4, <1>10
  <2>2. \A f \in Frame : Alive(f) => owner[f] # w
    <3> SUFFICES ASSUME NEW f \in Frame, Alive(f), owner[f] = w PROVE FALSE
      OBVIOUS
    <3>1. Owns(w, f)
      BY DEF OwnsOK
    <3>2. f = c
      BY <1>1, <1>2, <1>3, <3>1 DEF Owns, Child
    <3> QED
      BY <1>5, <1>10, <3>2
  <2>3. ASSUME NEW f \in Frame, NEW x \in Frame, Below(f, x)'
        PROVE  \/ f # w /\ x # w /\ Below(f, x)
               \/ f = w /\ x = p
               \/ f # w /\ x = w /\ Below(f, p)
    <3>1. \A h : \A y \in Frame : Joins(y, h)' => Joins(y, h) /\ y # w
      BY <1>6 DEF Joins
    <3>2. Joins(x, g) => x = p
      BY <1>2, <1>3 DEF ForksOK, ForkOK
    <3>3. CASE f = w
      BY <1>2, <1>5, <1>6, <2>1, <2>3, <3>1, <3>2, <3>3 DEF Below
    <3>4. CASE f = c
      BY <1>5, <1>6, <2>1, <2>3, <3>1, <3>4 DEF Below
    <3>5. CASE f # w /\ f # c
      <4>1. Alive(f)
        BY <1>6, <2>3, <3>5 DEF Below, Alive
      <4> QED
        BY <1>6, <2>2, <2>3, <3>1, <3>5, <4>1 DEF Below
    <3> QED
      BY <3>3, <3>4, <3>5
  <2>4. w # p
    BY <1>5, <1>10, <2>1
  <2>5. Inserts(w, p)
    BY <2>3, <2>4 DEF Inserts
  <2> QED
    BY <1>7, <1>8, <2>5, RankInserted
<1> QED
  BY <1>9, <1>10

\* A wrapper reports.
LEMMA WrapperDoneCarries ==
  ASSUME Inv, OutcomeOK, WrapperDone
  PROVE  WakersCarry /\ OutcomeOK' /\ RankCarry
<1> USE DEF Inv, FramesOK
<1>1. PICK w \in Frame : w = current /\ at[w] = "body" /\ serves[w] # User
  BY LoopMeans DEF WrapperDone
<1>2. PICK g, k \in 0..MaxFrames :
        /\ serves[w] = <<g, k>> /\ <<g, k>> # User /\ WrapperOK(w, g, k)
        /\ g = serves[w][1] /\ k = serves[w][2]
        /\ g \in DOMAIN groups /\ k \in 1..Len(groups[g].kids)
  BY <1>1, WrapperIs
<1>3. PICK old \in Group, n \in Nat :
        /\ old = groups[g] /\ n = Len(old.kids) /\ k \in 1..n /\ k # 0
        /\ Len(old.exceptions) = n /\ old.kind \in {"all", "any"}
        /\ \A j \in 1..n : old.kids[j] \in Frame
        /\ old.kind = "all" => old.winner = 0
  <2>1. groups[g] \in Group /\ \A j \in 1..Len(groups[g].kids) : groups[g].kids[j] \in Frame
    BY <1>2, GroupTypes
  <2>2. Len(groups[g].exceptions) = Len(groups[g].kids) /\ Len(groups[g].kids) \in Nat
    BY <1>2, <2>1, GroupTypes DEF GroupsOK, GroupOK
  <2>3. WinnerOK(g)
    BY <1>2 DEF OutcomeOK
  <2> QED
    BY <1>2, <2>1, <2>2, <2>3 DEF Group, WinnerOK
<1>4. PICK c \in Frame : c = old.kids[k]
  BY <1>3
<1>5. at[c] = "destroyed" /\ exc[w] = exc[c] /\ c # w
  BY <1>1, <1>2, <1>3, <1>4 DEF OutcomeOK, Told
<1>6. PICK new : new = ChildDone(old, k, exc[w])
  OBVIOUS
<1>7. /\ new.kind = old.kind /\ new.kids = old.kids
      /\ \A j \in 1..n : j # k => new.exceptions[j] = old.exceptions[j]
      /\ old.kind = "all" \/ old.winner = 0 => new.exceptions[k] = exc[c]
      /\ new.winner = IF old.kind = "all" \/ old.winner # 0 THEN old.winner ELSE k
      /\ old.kind = "any" /\ old.winner # 0 => new = old
  <2>1. old.exceptions \in Seq(Frame \cup {NoFrame}) /\ DOMAIN old.exceptions = 1..n
    BY <1>3 DEF Group
  <2>2. CASE old.kind = "all"
    <3>1. new = [old EXCEPT !.remaining = old.remaining - 1, !.exceptions = [old.exceptions EXCEPT ![k] = exc[c]]]
      BY <1>5, <1>6, <2>2 DEF ChildDone
    <3>2. /\ new.kind = old.kind /\ new.kids = old.kids /\ new.winner = old.winner
          /\ new.exceptions = [old.exceptions EXCEPT ![k] = exc[c]]
      BY <3>1 DEF Group
    <3> QED
      BY <1>3, <2>1, <2>2, <3>2
  <2>3. CASE old.kind = "any" /\ old.winner = 0
    <3>1. new = [old EXCEPT !.winner = k, !.exceptions = [old.exceptions EXCEPT ![k] = exc[c]]]
      BY <1>5, <1>6, <2>3 DEF ChildDone
    <3>2. /\ new.kind = old.kind /\ new.kids = old.kids /\ new.winner = k
          /\ new.exceptions = [old.exceptions EXCEPT ![k] = exc[c]]
      BY <3>1 DEF Group
    <3> QED
      BY <1>3, <2>1, <2>3, <3>2
  <2>4. CASE old.kind = "any" /\ old.winner # 0
    BY <1>6, <2>4 DEF ChildDone
  <2> QED
    BY <1>3, <2>2, <2>3, <2>4
<1>8. /\ UNCHANGED <<timers, now, mode, current, budget, batch,
                     owner, cont, detached, waits, serves>>
      /\ \A f \in Frame : at'[f] = IF f = w THEN "final" ELSE at[f]
      /\ \A f \in Frame : f # w => exc'[f] = exc[f]
  BY <1>1 DEF WrapperDone, TypeOK
<1>9. /\ DOMAIN groups' = DOMAIN groups /\ groups'[g] = new
      /\ \A h \in DOMAIN groups : h # g => groups'[h] = groups[h]
  <2>1. groups' = [groups EXCEPT ![g] = new]
    BY <1>1, <1>2, <1>3, <1>6 DEF WrapperDone
  <2> QED
    BY <1>2, <2>1 DEF TypeOK
<1>10. \A h : \A p \in Frame : Joins(p, h)' => Joins(p, h)
  BY <1>8 DEF Joins
<1>11. WakersCarry
  BY <1>1, <1>8 DEF WakersCarry, Lagging
<1>12. RankCarry
  BY <1>1, <1>8, <1>10 DEF RankCarry, Below, Alive
<1>13. ASSUME NEW v \in Frame, NEW h \in 0..MaxFrames, NEW j \in 0..MaxFrames,
              serves'[v] = <<h, j>>, <<h, j>> # User
       PROVE  Told(v, h, j)'
  <2>1. Told(v, h, j) /\ h \in DOMAIN groups /\ j \in 1..Len(groups[h].kids)
    BY <1>8, <1>13 DEF OutcomeOK, WrappersOK, WrapperOK
  <2>2. PICK d \in Frame : d = groups[h].kids[j]
    BY <2>1, GroupTypes
  <2>3. groups'[h].kids[j] = d /\ groups'[h].kind = groups[h].kind
    BY <1>3, <1>7, <1>9, <2>1, <2>2
  <2>4. CASE v = w
    <3>1. h = g /\ j = k /\ d = c
      BY <1>2, <1>3, <1>4, <1>8, <1>13, <2>2, <2>4
    <3> QED
      BY <1>3, <1>5, <1>7, <1>8, <1>9, <2>3, <2>4, <3>1 DEF Told
  <2>5. CASE v # w
    <3>1. ~(h = g /\ j = k)
      <4> SUFFICES ASSUME h = g, j = k PROVE FALSE
        OBVIOUS
      <4>1. serves[v] = serves[w] /\ serves[v] # User
        BY <1>2, <1>8, <1>13
      <4>2. \A x, y \in Frame : serves[x] = serves[y] /\ serves[x] # User => x = y
        BY DEF WrappersOK
      <4> QED
        BY <1>1, <4>1, <4>2, <2>5
    <3>2. groups'[h].exceptions[j] = groups[h].exceptions[j]
      BY <1>3, <1>7, <1>9, <2>1, <3>1
    <3>3. at[d] = "destroyed" => at'[d] = "destroyed" /\ exc'[d] = exc[d]
      BY <1>1, <1>8
    <3> QED
      BY <1>8, <1>10, <2>1, <2>2, <2>3, <2>5, <3>2, <3>3 DEF Told
  <2> QED
    BY <2>4, <2>5
<1>14. ASSUME NEW h \in DOMAIN groups' PROVE WinnerOK(h)'
  <2>1. WinnerOK(h)
    BY <1>9 DEF OutcomeOK
  <2>2. \A d \in Frame : at[d] = "destroyed" => at'[d] = "destroyed" /\ exc'[d] = exc[d]
    BY <1>1, <1>8
  <2>3. CASE h # g \/ (old.kind = "any" /\ old.winner # 0)
    <3>1. groups'[h] = groups[h]
      BY <1>3, <1>7, <1>9, <2>3
    <3>2. \A j \in 1..Len(groups[h].kids) : groups[h].kids[j] \in Frame
      BY <1>9, GroupTypes
    <3> QED
      BY <2>1, <2>2, <3>1, <3>2 DEF WinnerOK
  <2>4. CASE h = g /\ old.kind = "all"
    BY <1>3, <1>7, <1>9, <2>4 DEF WinnerOK
  <2>5. CASE h = g /\ old.kind = "any" /\ old.winner = 0
    <3>1. new.winner = k /\ new.kids[k] = c /\ new.exceptions[k] = exc[c]
      BY <1>4, <1>7, <2>5
    <3> QED
      BY <1>5, <1>7, <1>9, <2>2, <2>5, <3>1 DEF WinnerOK
  <2> QED
    BY <1>3, <2>3, <2>4, <2>5
<1> QED
  BY <1>11, <1>12, <1>13, <1>14 DEF OutcomeOK

\* Run returns.
LEMMA RunReturnCarries ==
  ASSUME Inv, WakersOK, OutcomeOK, RunReturn
  PROVE  WakersCarry /\ OutcomeOK' /\ RankCarry
<1> USE DEF Inv, FramesOK
<1>1. /\ current = NoFrame
      /\ UNCHANGED <<ready, timers, current, owner, cont, detached, exc, waits, serves, groups>>
  BY RunReturnIs
<1>2. PICK o \in Frame, C \in SUBSET Frame : RootGone(o, C)
  BY RunReturnIs
<1>3. /\ \A f \in Frame : at'[f] = IF f \in C THEN "destroyed" ELSE at[f]
      /\ \A f \in C : at[f] # "free"
      /\ \A f, q \in Frame : Alive(f) /\ owner[f] = q => (f \in C <=> q \in C)
  BY <1>2 DEF RootGone
<1>4. \A f \in Frame : f # current
  BY <1>1 DEF NoFrame, Frame
<1>5. WakersCarry
  BY <1>1, <1>3, <1>4 DEF WakersCarry, Lagging
<1>6. \A h : \A p \in Frame : Joins(p, h)' => Joins(p, h) /\ p \notin C
  BY <1>1, <1>3 DEF Joins
<1>7. RankCarry
  BY <1>1, <1>3, <1>6 DEF RankCarry, Below, Alive
<1>8. OutcomeBut(C)
  BY <1>1, <1>3, <1>6 DEF OutcomeBut
<1>9. ASSUME NEW w \in C, NEW g \in 0..MaxFrames, NEW k \in 0..MaxFrames,
             serves'[w] = <<g, k>>, <<g, k>> # User
      PROVE  Told(w, g, k)'
  <2>1. Told(w, g, k) /\ WrapperOK(w, g, k) /\ g \in DOMAIN groups /\ k \in 1..Len(groups[g].kids)
    BY <1>1, <1>9 DEF OutcomeOK, WrappersOK, WrapperOK
  <2>2. PICK c \in Frame, p \in Frame : c = groups[g].kids[k] /\ p = groups[g].parent
    BY <2>1, GroupTypes
  <2>3. at'[w] = "destroyed"
    BY <1>3
  <2>4. CASE at[w] \in {"final", "destroyed"}
    <3>1. at'[c] = "destroyed"
      BY <1>3, <2>1, <2>2, <2>4 DEF Told
    <3> QED
      BY <1>1, <1>6, <2>1, <2>2, <2>3, <2>4, <3>1 DEF Told
  <2>5. CASE at[w] \in {"initial", "task"}
    <3>1. Alive(w) /\ (groups[g].kind # "any" => owner[w] = p /\ Joins(p, g))
      BY <2>1, <2>2, <2>5 DEF WrapperOK, Alive
    <3>2. c \in C
      <4>1. CASE at[w] = "task"
        <5>1. waits[w] = c
          BY <2>1, <2>2, <4>1 DEF Told
        <5>2. Alive(c) /\ owner[c] = w
          BY <4>1, <5>1 DEF AwaitOK, Awaits
        <5> QED
          BY <1>3, <5>2
      <4>2. CASE at[w] = "initial"
        <5>1. Alive(c) /\ owner[c] \in {w, p} /\ (owner[c] = p => owner[c] = w \/ owner[w] = p)
          BY <2>1, <2>2, <3>1, <4>2 DEF WrapperOK, Waiting, Alive
        <5> QED
          BY <1>3, <3>1, <5>1
      <4> QED
        BY <2>5, <4>1, <4>2
    <3>3. groups[g].kind = "all" => \A x \in Frame : ~Joins(x, g)'
      <4> SUFFICES ASSUME groups[g].kind = "all", NEW x \in Frame, Joins(x, g)' PROVE FALSE
        OBVIOUS
      <4>1. Joins(x, g) /\ x \notin C
        BY <1>6
      <4>2. x = p
        BY <2>2, <4>1 DEF ForksOK, ForkOK
      <4>3. p \in C
        BY <1>3, <3>1
      <4> QED
        BY <4>1, <4>2, <4>3
    <3> QED
      BY <1>1, <1>3, <2>2, <2>3, <3>2, <3>3 DEF Told
  <2>6. at[w] # "body"
    BY <1>4 DEF PlacesOK
  <2> QED
    BY <2>1, <2>4, <2>5, <2>6 DEF WrapperOK
<1>10. OutcomeOK'
  BY <1>8, <1>9, OutcomeCarriedBut
<1> QED
  BY <1>5, <1>7, <1>10

\* The loop moves handles, or resumes one.
LEMMA LoopCarries ==
  ASSUME Inv, UNCHANGED frameVars, current = NoFrame \/ current' = current
  PROVE  Carry
<1>1. UNCHANGED <<at, owner, cont, detached, exc, waits, serves, groups>>
  BY DEF frameVars
<1>2. \A f \in Frame : f # NoFrame
  BY DEF NoFrame, Frame
<1>3. WakersCarry
  BY <1>1, <1>2 DEF WakersCarry, Lagging
<1>4. OutcomeCarry
  BY <1>1 DEF OutcomeCarry, OutcomeBut, Joins
<1>5. RankCarry
  BY <1>1 DEF RankCarry, Below, Joins, Alive
<1> QED
  BY <1>3, <1>4, <1>5 DEF Carry

-----------------------------------------------------------------------------
(* The invariant.                                                          *)

\* It holds initially.
LEMMA InitMore ==
  ASSUME Init
  PROVE  More
<1>1. /\ \A f \in Frame : at[f] = "free" /\ serves[f] = User
      /\ groups = <<>>
  BY DEF Init
<1>2. WakersOK
  BY <1>1 DEF WakersOK, Lagging
<1>3. OutcomeOK
  <2>1. DOMAIN groups = {}
    BY <1>1
  <2> QED
    BY <1>1, <2>1 DEF OutcomeOK
<1>4. RankOK
  <2> DEFINE r == [f \in Frame |-> 0]
  <2>1. r \in [Frame -> 0..0] /\ \A f, o \in Frame : ~Below(f, o)
    BY <1>1 DEF Below, Alive
  <2> HIDE DEF r
  <2>2. Ranks(r, 0)
    BY <2>1 DEF Ranks
  <2> QED
    BY <2>2 DEF RankOK
<1> QED
  BY <1>2, <1>3, <1>4 DEF More

\* Every step keeps it.
LEMMA MoreStep ==
  ASSUME Inv, More, [Next]_vars, Loop!Next \/ UNCHANGED loopVars
  PROVE  More'
<1>1. LoopInv /\ TypeOK /\ WrappersOK /\ WakersOK /\ OutcomeOK /\ RankOK
  BY DEF Inv, FramesOK, More
<1>2. Carry => More'
  BY <1>1, WakersCarried, OutcomeCarried, RankCarried DEF Carry, More
<1>3. WakersCarry /\ OutcomeCarry /\ RankOK' => More'
  BY <1>1, WakersCarried, OutcomeCarried DEF More
<1>4. WakersCarry /\ OutcomeOK' /\ RankCarry => More'
  BY <1>1, WakersCarried, RankCarried DEF More
<1>5. WakersCarry /\ OutcomeOK' /\ RankOK' => More'
  BY <1>1, WakersCarried DEF More
<1>6. CASE BodyStep
  <2>1. ASSUME CallTask \/ AwaitEmpty \/ AwaitEvent \/ Finish \/ Throw \/ Catch
        PROVE  More'
    BY <1>1, <1>2, <1>3, <2>1, CallCarries, ResumeCarries, SuspendCarries, FinishCarries
  <2>2. ASSUME NEW f \in Frame, AwaitTask(f) \/ Spawn(f) \/ Drop(f) \/ SignalEvent(f)
        PROVE  More'
    BY <1>2, <2>2, AwaitTaskCarries, PostCarries, FinishCarries
  <2>3. ASSUME NEW tasks \in SUBSET Held, CallWith(tasks)
        PROVE  More'
    BY <1>1, <1>3, <2>3, CallCarries
  <2>4. ASSUME NEW deadline \in Loop!Moment, Sleep(deadline)
        PROVE  More'
    BY <1>2, <2>4, SuspendCarries
  <2>5. ASSUME NEW kind \in {"all", "any"}, When(kind)
        PROVE  More'
    BY <1>2, <2>5, WhenCarries
  <2> QED
    BY <1>6, <2>1, <2>2, <2>3, <2>4, <2>5 DEF BodyStep
<1>7. CASE LibraryStep
  <2>1. CASE Resume \/ FinalSuspend \/ ForkDone \/ GroupResume
    BY <1>2, <2>1, ResumeCarries, FinalCarries, SuspendCarries, GroupResumeCarries
  <2>2. CASE ForkChild
    BY <1>1, <1>3, <2>2, ForkChildCarries
  <2>3. CASE TaskResume \/ WrapperDone
    BY <1>1, <1>4, <2>3, TaskResumeCarries, WrapperDoneCarries
  <2>4. CASE WrapperAwait
    BY <1>1, <1>5, <2>4, WrapperAwaitCarries
  <2> QED
    BY <1>7, <2>1, <2>2, <2>3, <2>4 DEF LibraryStep
<1>8. CASE HostStep
  <2>1. CASE Run \/ HostSpawn
    BY <1>1, <1>3, <2>1, CallCarries
  <2>2. CASE RunReturn
    BY <1>1, <1>4, <2>2, RunReturnCarries
  <2>3. CASE RunResume \/ RunWait \/ RunOnce \/ RunOnceResume \/ RunOnceReturn \/ Tick
    <3>1. UNCHANGED frameVars
      BY <2>3 DEF RunResume, RunWait, RunOnce, RunOnceResume, RunOnceReturn, Tick
    <3>2. current = NoFrame \/ current' = current
      BY <1>1, <2>3, LoopDrives DEF RunResume, RunWait, RunOnce, RunOnceResume, RunOnceReturn, Tick
    <3> QED
      BY <1>2, <3>1, <3>2, LoopCarries
  <2> QED
    BY <1>8, <2>1, <2>2, <2>3 DEF HostStep
<1>9. CASE UNCHANGED vars
  <2>1. UNCHANGED frameVars /\ current' = current
    BY <1>9 DEF vars, loopVars
  <2> QED
    BY <1>2, <2>1, LoopCarries
<1> QED
  BY <1>6, <1>7, <1>8, <1>9 DEF Next

-----------------------------------------------------------------------------
(* What an event holds back.                                               *)

\* Induction up to m, over a set.
LEMMA UpTo ==
  ASSUME NEW m \in Nat, NEW S, 0 \in S, \A n \in 0..m : n < m /\ n \in S => n + 1 \in S
  PROVE  \A n \in 0..m : n \in S
<1> DEFINE T == {n \in 0..m : n \notin S}
<1> SUFFICES ASSUME T # {} PROVE FALSE
  OBVIOUS
<1>1. T \subseteq Nat
  OBVIOUS
<1>2. PICK n \in T : \A k \in T : n <= k
  <2> HIDE DEF T
  <2> QED
    BY <1>1, L!LeastNatural, LoopConstants
<1>3. n # 0 /\ n - 1 \in 0..m /\ n - 1 < m /\ (n - 1) + 1 = n /\ ~(n <= n - 1)
  OBVIOUS
<1>4. n - 1 \in S
  BY <1>2, <1>3
<1> QED
  BY <1>3, <1>4

\* f waits for a member of X.
WaitsFor(f, X) ==
  \/ at[f] = "task" /\ waits[f] \in X
  \/ at[f] = "group" /\ Wrappers(waits[f]) \cap X # {}

\* X has the frames that wait for events, and those that wait for them in turn.
HeldBack(X) ==
  /\ X \subseteq Frame
  /\ \A f \in Frame : at[f] = "event" \/ WaitsFor(f, X) => f \in X

(* The levels of Stuck do not grow for ever: where one has no more members *)
(* than the one before it, the others are equal to it, and they cannot     *)
(* have more members than there are frames.                                *)
LEMMA StuckIs == HeldBack(Stuck)
<1> DEFINE M == MaxFrames
           E == {f \in Frame : at[f] = "event"}
           G(X) == X \cup {f \in Frame : WaitsFor(f, X)}
           Levels(lv, m) == /\ lv \in [0..m -> SUBSET Frame]
                            /\ \A n \in 0..m : lv[n] = IF n = 0 THEN E ELSE G(lv[n - 1])
           level == CHOOSE lv : lv = [n \in 0..M |-> IF n = 0 THEN E ELSE G(lv[n - 1])]
<1>1. M \in Nat /\ E \subseteq Frame /\ \A X \in SUBSET Frame : G(X) \in SUBSET Frame
  BY BoundAssumption
<1>2. Stuck = level[M]
  BY DEF Stuck, WaitsFor
<1>3. E = {f \in Frame : at[f] = "event"} /\ \A X : G(X) = X \cup {f \in Frame : WaitsFor(f, X)}
  OBVIOUS
<1> HIDE DEF E, G, M
<1>4. \E lv : Levels(lv, M)
  <2> DEFINE S == {m \in Nat : \E lv : Levels(lv, m)}
  <2>1. 0 \in S
    <3>1. Levels([n \in 0..0 |-> E], 0)
      BY <1>1
    <3> QED
      BY <3>1
  <2>2. ASSUME NEW m \in Nat, m \in S PROVE m + 1 \in S
    <3>1. PICK lv : Levels(lv, m)
      BY <2>2
    <3> DEFINE new == [n \in 0..(m + 1) |-> IF n = m + 1 THEN G(lv[m]) ELSE lv[n]]
    <3>2. \A n \in 0..(m + 1) : n \in 0..m \/ (n = m + 1 /\ n - 1 = m /\ n # 0)
      OBVIOUS
    <3>3. m \in 0..m /\ \A n \in 0..m : n # m + 1 /\ n \in 0..(m + 1) /\ (n # 0 => n - 1 \in 0..m)
      OBVIOUS
    <3>4. \A n \in 0..m : new[n] = lv[n]
      BY <3>3
    <3>5. new[m + 1] = G(lv[m]) /\ m + 1 # 0 /\ (m + 1) - 1 = m
      OBVIOUS
    <3>6. new \in [0..(m + 1) -> SUBSET Frame]
      <4>1. lv[m] \in SUBSET Frame /\ \A n \in 0..m : lv[n] \in SUBSET Frame
        BY <3>1, <3>3
      <4> QED
        BY <1>1, <3>2, <4>1
    <3> HIDE DEF new
    <3>7. \A n \in 0..(m + 1) : new[n] = IF n = 0 THEN E ELSE G(new[n - 1])
      BY <3>1, <3>2, <3>3, <3>4, <3>5
    <3>8. Levels(new, m + 1)
      BY <3>6, <3>7
    <3> QED
      BY <3>8
  <2> HIDE DEF S
  <2>3. M \in S
    BY <1>1, <2>1, <2>2, UpTo, M \in 0..M
  <2> QED
    BY <2>3 DEF S
<1>5. level = [n \in 0..M |-> IF n = 0 THEN E ELSE G(level[n - 1])]
  <2>1. PICK lv : Levels(lv, M)
    BY <1>4
  <2>2. lv = [n \in 0..M |-> IF n = 0 THEN E ELSE G(lv[n - 1])]
    BY <2>1
  <2> QED
    BY <2>2
<1>6. level[0] = E /\ \A n \in 0..M : n < M => n + 1 \in 0..M /\ level[n + 1] = G(level[n])
  <2>1. \A n \in 0..M : n < M => n + 1 \in 0..M /\ n + 1 # 0 /\ (n + 1) - 1 = n
    BY <1>1
  <2>2. 0 \in 0..M
    BY <1>1
  <2> HIDE DEF level
  <2> QED
    BY <1>5, <2>1, <2>2
<1> HIDE DEF level
<1>7. \A n \in 0..M : E \subseteq level[n] /\ level[n] \subseteq Frame
  <2> DEFINE S == {n \in 0..M : E \subseteq level[n] /\ level[n] \subseteq Frame}
  <2>1. 0 \in S
    BY <1>1, <1>6
  <2>2. \A n \in 0..M : n < M /\ n \in S => n + 1 \in S
    BY <1>3, <1>6
  <2> HIDE DEF S
  <2>3. \A n \in 0..M : n \in S
    BY <1>1, <2>1, <2>2, UpTo
  <2> QED
    BY <2>3 DEF S
<1>8. G(level[M]) = level[M]
  <2> SUFFICES ASSUME G(level[M]) # level[M] PROVE FALSE
    OBVIOUS
  <2>1. ASSUME NEW n \in 0..M, n < M, G(level[n]) = level[n]
        PROVE  G(level[n + 1]) = level[n + 1]
    BY <1>6, <2>1
  <2>2. \A n \in 0..M : G(level[n]) # level[n]
    <3> DEFINE S == {k \in 0..M : G(level[M - k]) # level[M - k]}
    <3>1. 0 \in S
      BY <1>1
    <3>2. ASSUME NEW k \in 0..M, k < M, k \in S PROVE k + 1 \in S
      <4>1. M - (k + 1) \in 0..M /\ M - (k + 1) < M /\ (M - (k + 1)) + 1 = M - k /\ k + 1 \in 0..M
        BY <1>1, <3>2
      <4> QED
        BY <2>1, <3>2, <4>1
    <3> HIDE DEF S
    <3>3. \A k \in 0..M : k \in S
      BY <1>1, <3>1, <3>2, UpTo
    <3>4. \A n \in 0..M : M - n \in 0..M /\ M - (M - n) = n
      BY <1>1
    <3> QED
      BY <3>3, <3>4 DEF S
  <2>3. IsFiniteSet(Frame) /\ Cardinality(Frame) = M
    BY <1>1, FS_Interval DEF Frame, M
  <2>4. \A n \in 0..M : IsFiniteSet(level[n]) /\ Cardinality(level[n]) \in Nat
    BY <1>7, <2>3, FS_Subset, FS_CardinalityType
  <2>5. \A n \in 0..M : n <= Cardinality(level[n])
    <3> DEFINE S == {n \in 0..M : n <= Cardinality(level[n])}
    <3>1. 0 \in S
      BY <1>1, <2>4
    <3>2. ASSUME NEW n \in 0..M, n < M, n \in S PROVE n + 1 \in S
      <4>1. n + 1 \in 0..M /\ level[n + 1] = G(level[n]) /\ level[n] \subseteq level[n + 1]
        BY <1>3, <1>6, <3>2
      <4>2. level[n] # level[n + 1]
        BY <2>2, <4>1
      <4>3. /\ Cardinality(level[n]) <= Cardinality(level[n + 1])
            /\ Cardinality(level[n]) # Cardinality(level[n + 1])
        BY <2>4, <4>1, <4>2, FS_Subset
      <4>4. Cardinality(level[n]) \in Nat /\ Cardinality(level[n + 1]) \in Nat
        BY <2>4, <4>1
      <4>5. n <= Cardinality(level[n])
        BY <3>2
      <4>6. \A a, b \in Nat : n <= a /\ a <= b /\ a # b => n + 1 <= b
        OBVIOUS
      <4>7. n + 1 <= Cardinality(level[n + 1])
        BY <4>3, <4>4, <4>5, <4>6
      <4> QED
        BY <4>1, <4>7
    <3> HIDE DEF S
    <3>3. \A n \in 0..M : n \in S
      BY <1>1, <3>1, <3>2, UpTo
    <3> QED
      BY <3>3 DEF S
  <2>6. M \in 0..M /\ level[M] \subseteq Frame /\ M <= Cardinality(level[M])
    BY <1>1, <1>7, <2>5
  <2>7. Cardinality(level[M]) <= M /\ (Cardinality(Frame) = Cardinality(level[M]) => Frame = level[M])
    BY <2>3, <2>6, FS_Subset
  <2>8. Cardinality(level[M]) = M
    BY <1>1, <2>4, <2>6, <2>7
  <2>9. level[M] = Frame
    BY <2>3, <2>7, <2>8
  <2>10. G(level[M]) = level[M]
    BY <1>3, <2>9
  <2> QED
    BY <2>10
<1>9. M \in 0..M
  BY <1>1
<1> QED
  BY <1>2, <1>3, <1>7, <1>8, <1>9 DEF HeldBack

\* Without events, nothing is.
LEMMA NothingHeldBack ==
  ASSUME Inv, "event" \notin Uses
  PROVE  HeldBack({}) /\ Closure({}) = {}
<1>1. \A f \in Frame : at[f] # "event"
  BY DEF Inv, FramesOK, PlacesOK
<1>2. HeldBack({})
  BY <1>1 DEF HeldBack, WaitsFor
<1> QED
  BY <1>2, ClosureIs

-----------------------------------------------------------------------------
(* When nothing is running or registered any more.                         *)

\* A parent whose group is not done has a wrapper that has yet to report.
LEMMA PendingIs ==
  ASSUME Inv, NEW p \in Frame, at[p] = "group", Loop!Suspended(p), NEW g \in 1..MaxFrames,
         waits[p] = g
  PROVE  \E w \in Frame, k \in 0..MaxFrames :
           /\ serves[w] = <<g, k>> /\ serves[w] # User
           /\ at[w] \in {"initial", "task", "body"} /\ Joins(p, g)
<1> USE DEF Inv, FramesOK
<1>1. /\ ForkOK(p, g) /\ CountOK(p, g) /\ GroupOK(g) /\ g \in DOMAIN groups
      /\ Len(groups[g].kids) \in 1..MaxFrames
  BY ParentIs DEF AtGroup
<1>2. PICK n \in 1..MaxFrames : n = Len(groups[g].kids)
  BY <1>1
<1>3. groups[g].kind \in {"all", "any"}
  BY <1>1, GroupTypes DEF Group
<1>4. PICK k \in 1..n : ~Reported(g, k)
  <2>1. CASE groups[g].kind = "any"
    <3>1. \A k \in 1..n : ~Reported(g, k)
      BY <1>1, <1>2, <2>1 DEF CountOK
    <3> QED
      BY <3>1
  <2>2. CASE groups[g].kind = "all"
    <3>1. Cardinality(Pending(g)) # 0
      BY <1>1, <2>2 DEF CountOK
    <3>2. Pending(g) # {}
      BY <3>1, FS_EmptySet
    <3> QED
      BY <1>2, <3>2 DEF Pending
  <2> QED
    BY <1>3, <2>1, <2>2
<1>5. k \in 0..MaxFrames /\ <<g, k>> # User
  BY BoundAssumption DEF User
<1>6. PICK w \in Frame : serves[w] = <<g, k>>
  <2>1. \A j \in 1..n : j <= n => \E w \in Frame : serves[w] = <<g, j>>
    BY <1>1, <1>2 DEF ForkOK
  <2> QED
    BY <2>1
<1>7. at[w] \in {"initial", "task", "body"}
  BY <1>4, <1>5, <1>6 DEF WrappersOK, WrapperOK, Reported
<1> QED
  BY <1>5, <1>6, <1>7 DEF Joins

\* Then nothing waits but for an event, and what else is left is a task that
\* was not started, or one that is done and has an owner.
LEMMA DrainedMeans ==
  ASSUME Inv, More, current = NoFrame, Loop!Registered = {}, NEW X, HeldBack(X)
  PROVE  \A f \in Frame : Alive(f) /\ f \notin X =>
           \/ at[f] = "initial" /\ owner[f] # NoFrame
           \/ at[f] = "final" /\ ~detached[f]
<1> USE DEF Inv, FramesOK, More
<1>1. \A f \in Frame : f # current /\ Loop!Suspended(f)
  BY DEF Loop!Suspended, NoFrame, Frame
<1>2. ASSUME NEW f \in Frame, Alive(f)
      PROVE  \/ at[f] = "initial" /\ owner[f] # NoFrame /\ serves[f] = User
             \/ at[f] = "final" /\ ~detached[f]
             \/ at[f] \in {"task", "group"} \/ f \in X
  <2>1. at[f] \in {"initial", "body", "task", "timer", "event", "fork", "group", "final"}
    BY <1>2 DEF Alive, TypeOK, Place
  <2>2. at[f] \notin {"body", "fork", "timer"} /\ (at[f] = "event" => f \in X)
    BY <1>1 DEF PlacesOK, WakersOK, HeldBack
  <2> QED
    BY <1>1, <2>1, <2>2 DEF WakersOK
<1> DEFINE S == {f \in Frame : at[f] \in {"task", "group"} /\ f \notin X}
<1>3. ASSUME NEW f \in S PROVE \E s \in S : Below(s, f)
  <2>1. CASE at[f] = "task"
    <3>1. PICK t \in Frame : waits[f] = t /\ Awaits(f, t)
      BY <2>1 DEF AwaitOK
    <3>2. at[t] \notin {"initial", "final"}
      BY <1>1, <2>1, <3>1 DEF WakersOK, Lagging
    <3>3. t \notin X
      BY <2>1, <3>1 DEF HeldBack, WaitsFor
    <3>4. t \in S
      BY <1>2, <3>1, <3>2, <3>3 DEF Awaits
    <3> QED
      BY <3>1, <3>4 DEF Awaits, Below
  <2>2. CASE at[f] = "group"
    <3>1. PICK g \in 1..MaxFrames : waits[f] = g
      BY <2>2, ParentIs DEF AtGroup
    <3>2. PICK w \in Frame, k \in 0..MaxFrames :
            /\ serves[w] = <<g, k>> /\ serves[w] # User
            /\ at[w] \in {"initial", "task", "body"} /\ Joins(f, g)
      BY <1>1, <2>2, <3>1, PendingIs
    <3>3. Alive(w)
      BY <3>2 DEF Alive
    <3>4. <<g, k>>[1] = g
      OBVIOUS
    <3>5. w \notin X
      <4>1. w \in Wrappers(waits[f])
        BY <3>1, <3>2, <3>4 DEF Wrappers
      <4> QED
        BY <2>2, <4>1 DEF HeldBack, WaitsFor
    <3>6. w \in S
      BY <1>2, <3>2, <3>3, <3>5
    <3> QED
      BY <3>2, <3>3, <3>4, <3>6 DEF Below
  <2> QED
    BY <2>1, <2>2
<1>4. S = {}
  <2> SUFFICES ASSUME S # {} PROVE FALSE
    OBVIOUS
  <2>1. PICK b \in Nat : \E r : Ranks(r, b)
    BY DEF RankOK
  <2>2. PICK r : Ranks(r, b)
    BY <2>1
  <2>3. \A f \in Frame : r[f] \in Nat
    BY <2>2 DEF Ranks
  <2>4. S \subseteq Frame
    OBVIOUS
  <2> HIDE DEF S
  <2> DEFINE T == {r[f] : f \in S}
  <2>5. T \subseteq Nat /\ T # {}
    BY <2>3, <2>4
  <2>6. PICK x \in T : \A y \in T : x <= y
    <3> HIDE DEF T
    <3> QED
      BY <2>5, L!LeastNatural, LoopConstants
  <2>7. PICK f \in S : x = r[f]
    OBVIOUS
  <2>8. PICK s \in S : Below(s, f)
    BY <1>3
  <2>9. r[s] < r[f] /\ r[s] \in Nat /\ r[f] \in Nat /\ r[s] \in T
    BY <2>2, <2>3, <2>4, <2>8 DEF Ranks
  <2> QED
    BY <2>6, <2>7, <2>9
<1> QED
  BY <1>2, <1>4

\* Run destroys its root, which has finished, and returns with nothing left:
\* both but for what events hold back.
LEMMA RunReturnLeaves ==
  ASSUME Inv, More, RunReturn, NEW X, HeldBack(X)
  PROVE  /\ at[root] = "final" \/ root \in X
         /\ \A f : Alive(f)' => f \in Closure(X)
<1> USE DEF Inv, FramesOK, More
<1>1. /\ current = NoFrame /\ Loop!Registered = {}
      /\ UNCHANGED <<owner, detached, serves, waits, groups>>
  BY RunReturnIs
<1>2. PICK o \in Frame, C \in SUBSET Frame : RootGone(o, C)
  BY RunReturnIs
<1>3. /\ o = root /\ Alive(o) /\ owner[o] = NoFrame /\ o \in C
      /\ \A f, q \in Frame : Alive(f) /\ owner[f] = q => (f \in C <=> q \in C)
      /\ \A f \in Frame : at'[f] = IF f \in C THEN "destroyed" ELSE at[f]
  BY <1>2 DEF RootGone
<1>4. \A f \in Frame : Alive(f) /\ f \notin X =>
        \/ at[f] = "initial" /\ owner[f] # NoFrame
        \/ at[f] = "final" /\ ~detached[f]
  BY <1>1, DrainedMeans
<1>5. /\ X \subseteq Closure(X)
      /\ \A f \in Frame : at[f] # "destroyed" /\ owner[f] # NoFrame
                            /\ owner[f] \in Closure(X) => f \in Closure(X)
  BY ClosureIs DEF HeldBack
<1>6. at[root] = "final" \/ root \in X
  BY <1>3, <1>4
<1> DEFINE S == {f \in Frame : Alive(f) /\ f \notin C /\ f \notin Closure(X)}
<1>7. ASSUME NEW f \in S PROVE \E q \in S : Below(f, q)
  <2>1. ~detached[f] /\ f # root
    BY <1>3, <1>4, <1>5 DEF OneOwner, Alive
  <2>2. PICK q \in Frame : q = owner[f] /\ Alive(q)
    BY <2>1 DEF OneOwner, Alive
  <2>3. q \notin C
    BY <1>3, <2>2
  <2>4. q \notin Closure(X)
    BY <1>5, <2>2 DEF Alive, NoFrame, Frame
  <2> QED
    BY <2>2, <2>3, <2>4 DEF Below
<1>8. S = {}
  <2> SUFFICES ASSUME S # {} PROVE FALSE
    OBVIOUS
  <2>1. PICK b \in Nat : \E r : Ranks(r, b)
    BY DEF RankOK
  <2>2. PICK r : Ranks(r, b)
    BY <2>1
  <2>3. \A f \in Frame : r[f] \in 0..b /\ b - r[f] \in Nat
    BY <2>2 DEF Ranks
  <2>4. S \subseteq Frame
    OBVIOUS
  <2> HIDE DEF S
  <2> DEFINE T == {b - r[f] : f \in S}
  <2>5. T \subseteq Nat /\ T # {}
    BY <2>3, <2>4
  <2>6. PICK x \in T : \A y \in T : x <= y
    <3> HIDE DEF T
    <3> QED
      BY <2>5, L!LeastNatural, LoopConstants
  <2>7. PICK f \in S : x = b - r[f]
    OBVIOUS
  <2>8. PICK q \in S : Below(f, q)
    BY <1>7
  <2>9. r[f] < r[q] /\ r[q] \in 0..b /\ r[f] \in 0..b /\ b - r[q] \in T
    BY <2>2, <2>3, <2>4, <2>8 DEF Ranks
  <2>10. \A m, n \in 0..b : m < n => ~(b - m <= b - n)
    OBVIOUS
  <2>11. b - r[f] <= b - r[q]
    BY <2>6, <2>7, <2>9
  <2> QED
    BY <2>9, <2>10, <2>11
<1>9. \A f \in Frame : at'[f] \in {"free", "destroyed"} \/ f \in Closure(X)
  BY <1>3, <1>8 DEF Alive
<1> QED
  BY <1>6, <1>9 DEF Alive

\* Without events, the root has finished and nothing is left.
LEMMA RunReturnMeans ==
  ASSUME Inv, More, RunReturn, "event" \notin Uses
  PROVE  at[root] = "final" /\ \A f : ~Alive(f)'
BY NothingHeldBack, RunReturnLeaves

-----------------------------------------------------------------------------
(* The theorems.  A program may use events or WhenAny, but not both: Run   *)
(* would return, and destroy the parent of a WhenAny, while an event that  *)
(* no one signals holds back its children.                                 *)

\* The invariant.
LEMMA Invariant ==
  ASSUME ~({"event", "any"} \subseteq Uses)
  PROVE  Spec => [](Inv /\ More)
<1>1. Inv /\ More /\ [Next]_vars => Inv' /\ More'
  <2> SUFFICES ASSUME Inv, More, [Next]_vars PROVE Inv' /\ More'
    OBVIOUS
  <2>1. RunReturn => "any" \notin Uses \/ at[root] = "final"
    BY RunReturnMeans
  <2> QED
    BY <2>1, StepKeeps, MoreStep
<1> QED
  BY <1>1, InitInv, InitMore, PTL DEF Spec

\* What every step may count on.
LEMMA StepMeans ==
  ASSUME ~({"event", "any"} \subseteq Uses), Inv, More, [Next]_vars
  PROVE  Loop!Next \/ UNCHANGED loopVars
<1>1. RunReturn => "any" \notin Uses \/ at[root] = "final"
  BY RunReturnMeans
<1> QED
  BY <1>1, StepKeeps

\* Only RunReturn leaves Run.
LEMMA ReturnsBy ==
  ASSUME Next, mode = "run", mode' = "idle"
  PROVE  RunReturn
<1>1. ~BodyStep
  BY DEF BodyStep, CallTask, AwaitEmpty, AwaitEvent, Finish, Throw, Catch, FinishWith, AwaitTask,
         Spawn, Drop, SignalEvent, CallWith, Sleep, When, loopVars
<1>2. ~LibraryStep
  BY DEF LibraryStep, Resume, TaskResume, FinalSuspend, ForkChild, ForkDone, WrapperAwait,
         WrapperDone, GroupResume, loopVars
<1>3. HostStep
  BY <1>1, <1>2 DEF Next
<1> QED
  BY <1>3 DEF HostStep, Run, RunResume, RunWait, HostSpawn, RunOnce, RunOnceResume, RunOnceReturn,
              Tick, Loop!Run, Loop!RunResume, Loop!RunWait, Loop!RunOnce, Loop!RunOnceResume,
              Loop!RunOnceReturn, Loop!Tick, Loop!driver, Loop!queues, Loop!WaitUntil

\* The frames, the handles and the groups keep their types.
THEOREM TypeCorrect ==
  ASSUME ~({"event", "any"} \subseteq Uses)
  PROVE  Spec => []TypeOK
BY InvMeans, Invariant, PTL

\* A frame always has one owner that will destroy it, and one only: Task moves,
\* Post releases, the awaiters and the combinators pass it on.
THEOREM OwnedOnce ==
  ASSUME ~({"event", "any"} \subseteq Uses)
  PROVE  Spec => []OneOwner
BY InvMeans, Invariant, PTL

\* No handle in a queue, and no continuation, outlives its frame.
THEOREM HandlesAlive ==
  ASSUME ~({"event", "any"} \subseteq Uses)
  PROVE  Spec => []NoDanglingHandle
BY InvMeans, Invariant, PTL

\* The coroutines honour what the loop takes on trust: every behaviour of
\* theirs is one of EventLoop.
THEOREM LoopUsedCorrectly ==
  ASSUME ~({"event", "any"} \subseteq Uses)
  PROVE  Spec => UsesLoopCorrectly
<1>1. Init => Loop!Init
  BY DEF Init
<1>2. Inv /\ More /\ [Next]_vars => [Loop!Next]_(Loop!vars)
  <2> SUFFICES ASSUME Inv, More, [Next]_vars PROVE [Loop!Next]_(Loop!vars)
    OBVIOUS
  <2>1. Loop!Next \/ UNCHANGED loopVars
    BY StepMeans
  <2> QED
    BY <2>1 DEF loopVars, Loop!vars
<1> QED
  BY <1>1, <1>2, Invariant, PTL DEF Spec, UsesLoopCorrectly, Loop!Spec

\* Only a spawned task's own exception terminates the program.
THEOREM TerminatesForOwn ==
  ASSUME ~({"event", "any"} \subseteq Uses)
  PROVE  Spec => TerminatesForSpawned
<1>1. Inv /\ [Next]_vars => [terminated' /\ ~terminated => serves[current] = User]_vars
  <2> SUFFICES ASSUME Inv, Next, terminated', ~terminated PROVE serves[current] = User
    OBVIOUS
  <2>1. FinalSuspend
    BY DEF Next, BodyStep, LibraryStep, HostStep, hostVars, frameVars,
           CallTask, AwaitEmpty, AwaitEvent, Finish, Throw, Catch, FinishWith, AwaitTask, Spawn,
           Drop, SignalEvent, CallWith, Sleep, When, Resume, TaskResume, ForkChild, ForkDone,
           WrapperAwait, WrapperDone, GroupResume, Run, RunResume, RunWait, RunReturn, HostSpawn,
           RunOnce, RunOnceResume, RunOnceReturn, Tick
  <2>2. PICK o \in Frame : o = current
    BY <2>1, LoopMeans DEF FinalSuspend, Inv
  <2>3. at[o] = "final" /\ exc[o] # NoFrame
    BY <2>1, <2>2 DEF FinalSuspend
  <2> QED
    BY <2>2, <2>3, WrapperIs DEF Inv, FramesOK, WrapperOK
<1> QED
  BY <1>1, Invariant, PTL DEF Spec, TerminatesForSpawned

\* No wake-up is lost: every suspended frame has somebody who is bound to
\* resume it, or to destroy it unstarted.
THEOREM NoneLost ==
  ASSUME "event" \notin Uses
  PROVE  Spec => []NoneForgotten
<1>1. Inv /\ More => NoneForgotten
  <2> SUFFICES ASSUME Inv, More, NEW f \in Frame, Alive(f) PROVE HasWaker(f)
    BY DEF NoneForgotten
  <2> USE DEF Inv, FramesOK, More
  <2>1. at[f] \in {"initial", "body", "task", "timer", "fork", "group", "final"}
    BY DEF Alive, TypeOK, Place, PlacesOK
  <2>2. CASE at[f] \in {"body", "fork", "timer"} \/ ~Loop!Suspended(f)
    BY <2>2 DEF PlacesOK, WakersOK, Loop!Suspended, HasWaker
  <2>3. CASE at[f] = "initial" /\ Loop!Suspended(f)
    BY <2>3 DEF WakersOK, OneOwner, HasWaker
  <2>4. CASE at[f] = "task"
    BY <2>4 DEF AwaitOK, Awaits, HasWaker
  <2>5. CASE at[f] = "group" /\ Loop!Suspended(f)
    <3>1. PICK g \in 1..MaxFrames : waits[f] = g
      BY <2>5, ParentIs DEF AtGroup
    <3>2. PICK w \in Frame, k \in 0..MaxFrames :
            serves[w] = <<g, k>> /\ at[w] \in {"initial", "task", "body"}
      BY <2>5, <3>1, PendingIs
    <3>3. serves[w][1] = g
      BY <3>2
    <3> QED
      BY <2>5, <3>1, <3>2, <3>3 DEF HasWaker, Wrappers, Alive
  <2>6. CASE at[f] = "final"
    BY <2>6 DEF WakersOK, HasWaker
  <2> QED
    BY <2>1, <2>2, <2>3, <2>4, <2>5, <2>6
<1>2. ~({"event", "any"} \subseteq Uses)
  OBVIOUS
<1> QED
  BY <1>1, <1>2, Invariant, PTL

\* Run returns only when the root task has completed.
THEOREM RootDone ==
  ASSUME "event" \notin Uses
  PROVE  Spec => RootCompletes
<1>1. Inv /\ More /\ [Next]_vars => [mode = "run" /\ mode' = "idle" => at[root] = "final"]_vars
  BY ReturnsBy, RunReturnMeans
<1>2. ~({"event", "any"} \subseteq Uses)
  OBVIOUS
<1> QED
  BY <1>1, <1>2, Invariant, PTL DEF Spec, RootCompletes

\* Run returns with the work done: the root has completed and no frame is left
\* behind, detached tasks and the losers of WhenAny included, but for those
\* that an event holds back, and what they own.
THEOREM NothingLeft ==
  ASSUME ~({"event", "any"} \subseteq Uses)
  PROVE  Spec => RunFinishes
<1>1. Inv /\ More /\ [Next]_vars =>
        [mode = "run" /\ mode' = "idle" =>
           /\ at[root] = "final" \/ root \in Stuck
           /\ \A f \in Frame : Alive(f)' => f \in Closure(Stuck)]_vars
  <2> SUFFICES ASSUME Inv, More, Next, mode = "run", mode' = "idle"
               PROVE  /\ at[root] = "final" \/ root \in Stuck
                      /\ \A f : Alive(f)' => f \in Closure(Stuck)
    OBVIOUS
  <2> QED
    BY ReturnsBy, StuckIs, RunReturnLeaves
<1> QED
  BY <1>1, Invariant, PTL DEF Spec, RunFinishes

\* A frame is destroyed before it has started or after it has finished, never
\* in the middle of an await.
THEOREM AtRest ==
  ASSUME "event" \notin Uses
  PROVE  Spec => DestroyedAtRest
<1>1. ASSUME Inv, More, Next, NEW f \in Frame, at'[f] = "destroyed", at[f] # "destroyed"
      PROVE  at[f] \in {"initial", "final"}
  <2> USE <1>1 DEF Inv, FramesOK
  <2>1. CASE (\E t \in Frame : Drop(t)) \/ Finish \/ Throw
    <3>1. PICK S \in SUBSET Held : at'[f] = Destroy(S)[f]
      <4>1. \A t \in Frame : Drop(t) => {t} \in SUBSET Held /\ at' = Destroy({t})
        BY DEF Drop
      <4>2. Finish \/ Throw => at'[f] = Destroy(Held)[f]
        <5>1. \A x : [Destroy(Held) EXCEPT ![x] = "final"][f] \in {Destroy(Held)[f], "final"}
          BY DEF Destroy
        <5> QED
          BY <5>1 DEF Finish, Throw, FinishWith
      <4> QED
        BY <2>1, <4>1, <4>2
    <3>2. InBody
      BY <2>1 DEF Drop, Finish, Throw, Normal
    <3>3. S \subseteq Frame /\ \A x \in S : at[x] # "free"
      BY <3>2, DroppedAre
    <3>4. f \in Closure(S)
      BY <3>1, <3>3, DestroyIs
    <3> QED
      BY <3>2, <3>4, DroppedAre
  <2>2. CASE TaskResume
    <3>1. PICK o, t \in Frame : o = current /\ at[o] = "task" /\ waits[o] = t /\ Awaits(o, t)
      BY <2>2, LoopMeans DEF TaskResume, AwaitOK
    <3>2. at[t] = "final"
      BY <3>1 DEF Awaits
    <3>3. Destroy({t}) = [x \in Frame |-> IF x \in {t} THEN "destroyed" ELSE at[x]]
      <4>1. {t} \subseteq Frame /\ \A x \in {t} : at[x] \in {"final", "destroyed"}
        BY <3>2
      <4> QED
        BY <4>1, FinishedAre
    <3> QED
      BY <2>2, <3>1, <3>2, <3>3 DEF TaskResume
  <2>3. CASE FinalSuspend
    <3>1. PICK o \in Frame : o = current /\ at[o] = "final"
      BY <2>3, LoopMeans DEF FinalSuspend
    <3>2. Destroy({o}) = [x \in Frame |-> IF x \in {o} THEN "destroyed" ELSE at[x]]
      <4>1. {o} \subseteq Frame /\ \A x \in {o} : at[x] \in {"final", "destroyed"}
        BY <3>1
      <4> QED
        BY <4>1, FinishedAre
    <3> QED
      BY <2>3, <3>1, <3>2 DEF FinalSuspend
  <2>4. CASE GroupResume
    <3>1. PICK o \in Frame : o = current /\ at[o] = "group"
      BY <2>4, LoopMeans DEF GroupResume
    <3>2. PICK g \in 1..MaxFrames : waits[o] = g
      BY <3>1, ParentIs DEF AtGroup
    <3> DEFINE S == {x \in Frame : owner[x] = o}
    <3>3. \A x \in S : at[x] \in {"final", "destroyed"}
      BY <3>1, <3>2, CollectedAre
    <3>4. S \subseteq Frame /\ at' = [Destroy(S) EXCEPT ![o] = "body"]
      BY <2>4, <3>1 DEF GroupResume
    <3> HIDE DEF S
    <3>5. Destroy(S) = [x \in Frame |-> IF x \in S THEN "destroyed" ELSE at[x]]
      BY <3>3, <3>4, FinishedAre
    <3> QED
      BY <3>3, <3>4, <3>5
  <2>5. CASE RunReturn
    <3>1. at[root] = "final"
      BY <2>5, RunReturnMeans
    <3>2. PICK o \in Frame, C \in SUBSET Frame : RootGone(o, C)
      BY <2>5, RunReturnIs
    <3> QED
      BY <3>1, <3>2 DEF RootGone
  <2>6. CASE CallTask \/ AwaitEmpty \/ AwaitEvent \/ Catch \/ Resume \/ ForkChild \/ ForkDone
               \/ WrapperAwait \/ WrapperDone
    <3>1. \A x \in Frame : at'[x] = "destroyed" => at[x] = "destroyed"
      BY <2>6 DEF CallTask, Call, AwaitEmpty, AwaitEvent, Catch, Resume, ForkChild, ForkDone,
                  WrapperAwait, WrapperDone, TypeOK
    <3> QED
      BY <3>1
  <2>7. CASE \/ \E x \in Frame : AwaitTask(x) \/ Spawn(x) \/ SignalEvent(x)
             \/ \E tasks \in SUBSET Held : CallWith(tasks)
             \/ \E deadline \in Loop!Moment : Sleep(deadline)
             \/ \E kind \in {"all", "any"} : When(kind)
    <3>1. \A x \in Frame : at'[x] = "destroyed" => at[x] = "destroyed"
      BY <2>7 DEF AwaitTask, Spawn, SignalEvent, CallWith, Sleep, When, frameVars, TypeOK
    <3> QED
      BY <3>1
  <2>8. CASE Run \/ RunResume \/ RunWait \/ HostSpawn \/ RunOnce \/ RunOnceResume
               \/ RunOnceReturn \/ Tick
    <3>1. \A x \in Frame : at'[x] = "destroyed" => at[x] = "destroyed"
      BY <2>8 DEF Run, HostSpawn, Call, RunResume, RunWait, RunOnce, RunOnceResume,
                  RunOnceReturn, Tick, frameVars, TypeOK
    <3> QED
      BY <3>1
  <2> QED
    BY <2>1, <2>2, <2>3, <2>4, <2>5, <2>6, <2>7, <2>8 DEF Next, BodyStep, LibraryStep, HostStep
<1>2. Inv /\ More /\ [Next]_vars =>
        [\A f \in Frame : at'[f] = "destroyed" /\ at[f] # "destroyed"
            => at[f] \in {"initial", "final"}]_vars
  BY <1>1
<1>3. ~({"event", "any"} \subseteq Uses)
  OBVIOUS
<1> QED
  BY <1>2, <1>3, Invariant, PTL DEF Spec, DestroyedAtRest

\* Only GroupResume takes a parent from its group back to its body.
LEMMA ResumedBy ==
  ASSUME Inv, Next, NEW p \in Frame, at[p] = "group", at'[p] = "body"
  PROVE  GroupResume /\ p = current
<1> USE DEF Inv, FramesOK
<1>1. ASSUME CallTask \/ AwaitEmpty \/ AwaitEvent \/ Catch \/ Resume \/ ForkChild \/ ForkDone
               \/ WrapperAwait \/ WrapperDone
      PROVE  FALSE
  BY <1>1 DEF CallTask, Call, AwaitEmpty, AwaitEvent, Catch, Resume, ForkChild, ForkDone,
              WrapperAwait, WrapperDone, TypeOK
<1>2. ASSUME \/ \E x \in Frame : AwaitTask(x) \/ Spawn(x) \/ SignalEvent(x)
             \/ \E tasks \in SUBSET Held : CallWith(tasks)
             \/ \E deadline \in Loop!Moment : Sleep(deadline)
             \/ \E kind \in {"all", "any"} : When(kind)
      PROVE  FALSE
  BY <1>2 DEF AwaitTask, Spawn, SignalEvent, CallWith, Sleep, When, frameVars, TypeOK
<1>3. ASSUME Run \/ RunResume \/ RunWait \/ HostSpawn \/ RunOnce \/ RunOnceResume
               \/ RunOnceReturn \/ Tick
      PROVE  FALSE
  BY <1>3 DEF Run, HostSpawn, Call, RunResume, RunWait, RunOnce, RunOnceResume,
              RunOnceReturn, Tick, frameVars, TypeOK
<1>4. \A S : Destroy(S)[p] \in {"destroyed", "group"}
  BY DEF Destroy
<1>5. (\E t \in Frame : Drop(t)) \/ RunReturn => FALSE
  BY <1>4 DEF Drop, RunReturn
<1>6. \A S, x : x # p => [Destroy(S) EXCEPT ![x] = "final"][p] = Destroy(S)[p]
                         /\ [Destroy(S) EXCEPT ![x] = "body"][p] = Destroy(S)[p]
  BY DEF Destroy
<1>7. Finish \/ Throw => FALSE
  <2> SUFFICES ASSUME Finish \/ Throw PROVE FALSE
    OBVIOUS
  <2>1. p # current /\ at' = [Destroy(Held) EXCEPT ![current] = "final"]
    BY DEF Finish, Throw, FinishWith, Normal, InBody
  <2>2. [Destroy(Held) EXCEPT ![current] = "final"][p] = Destroy(Held)[p]
    BY <1>6, <2>1
  <2> QED
    BY <1>4, <2>1, <2>2
<1>8. TaskResume => FALSE
  BY <1>4, <1>6 DEF TaskResume
<1>9. FinalSuspend => FALSE
  BY <1>4 DEF FinalSuspend
<1>10. GroupResume
  BY <1>1, <1>2, <1>3, <1>5, <1>7, <1>8, <1>9 DEF Next, BodyStep, LibraryStep, HostStep
<1> QED
  BY <1>4, <1>6, <1>10 DEF GroupResume

\* WhenAll resumes its parent when all are done, with the exception of the
\* first child in argument order to have failed; WhenAny with its winner's.
THEOREM OutcomeHandedOn ==
  ASSUME ~({"event", "any"} \subseteq Uses)
  PROVE  Spec => GroupOutcome
<1> DEFINE Done(g, k) == at[g.kids[k]] = "destroyed"
           Threw(g, k) == exc[g.kids[k]] # NoFrame
           Right(p, g) ==
             IF g.kind = "any"
               THEN Done(g, g.winner) /\ exc'[p] = exc[g.kids[g.winner]]
               ELSE /\ \A k \in DOMAIN g.kids : Done(g, k)
                    /\ exc'[p] # NoFrame <=> \E k \in DOMAIN g.kids : Threw(g, k)
                    /\ \A k \in DOMAIN g.kids :
                         Threw(g, k) /\ (\A j \in 1..(k - 1) : ~Threw(g, j))
                           => exc'[p] = exc[g.kids[k]]
<1>1. ASSUME Inv, More, Next, NEW p \in Frame, at[p] = "group", at'[p] = "body"
      PROVE  Right(p, groups[waits[p]])
  <2> USE <1>1 DEF Inv, FramesOK, More
  <2>1. GroupResume /\ p = current
    BY ResumedBy
  <2>2. PICK x \in 1..MaxFrames :
          /\ waits[p] = x /\ x \in DOMAIN groups /\ GroupOK(x) /\ ForkOK(p, x)
    BY ParentIs DEF AtGroup
  <2>3. PICK g \in Group, n \in Nat :
          /\ g = groups[x] /\ n = Len(g.kids) /\ n = Len(g.exceptions) /\ g.winner \in 0..n
          /\ DOMAIN g.kids = 1..n /\ DOMAIN g.exceptions = 1..n /\ g.kind \in {"all", "any"}
    <3>1. groups[x] \in Group /\ Len(groups[x].kids) \in Nat
      BY <2>2, GroupTypes
    <3>2. /\ DOMAIN groups[x].kids = 1..Len(groups[x].kids)
          /\ DOMAIN groups[x].exceptions = 1..Len(groups[x].exceptions)
      BY <3>1 DEF Group
    <3> QED
      BY <2>2, <3>1, <3>2 DEF GroupOK, Group
  <2>4. exc'[p] = Failure(g)
    BY <2>1, <2>2, <2>3 DEF GroupResume, TypeOK
  <2>5. CASE g.kind = "any"
    <3>1. g.winner \in 1..n
      BY <2>1, <2>2, <2>3, <2>5, CollectedAre
    <3>2. Done(g, g.winner) /\ g.exceptions[g.winner] = exc[g.kids[g.winner]]
      BY <2>2, <2>3, <2>5, <3>1 DEF OutcomeOK, WinnerOK
    <3>3. exc'[p] = exc[g.kids[g.winner]]
      BY <2>4, <2>5, <3>2 DEF Failure
    <3> QED
      BY <2>2, <2>3, <2>5, <3>2, <3>3
  <2>6. CASE g.kind = "all"
    <3>1. ASSUME NEW k \in 1..n PROVE Done(g, k) /\ g.exceptions[k] = exc[g.kids[k]]
      <4>1. PICK w \in Frame : serves[w] = <<x, k>> /\ at[w] \in {"final", "destroyed"}
        <5>1. Reported(x, k)
          BY <2>1, <2>2, <2>3, <2>6, CollectedAre
        <5> QED
          BY <5>1 DEF Reported
      <4>2. k \in 0..MaxFrames /\ x \in 0..MaxFrames /\ <<x, k>> # User
        <5>1. n \in 0..MaxFrames
          BY <2>2, <2>3, KidsBounded
        <5> QED
          BY <5>1, BoundAssumption DEF User
      <4>3. Told(w, x, k) /\ Joins(p, x)
        BY <2>2, <4>1, <4>2 DEF OutcomeOK, Joins
      <4> QED
        BY <2>3, <2>6, <4>1, <4>3 DEF Told
    <3> DEFINE failed == {k \in DOMAIN g.exceptions : g.exceptions[k] # NoFrame}
               first == CHOOSE k \in failed : \A j \in failed : k <= j
    <3>2. failed = {k \in 1..n : Threw(g, k)}
      BY <2>3, <3>1
    <3>3. exc'[p] = IF failed = {} THEN NoFrame ELSE g.exceptions[first]
      BY <2>4, <2>6 DEF Failure
    <3>4. ASSUME failed # {}
          PROVE  first \in failed /\ \A j \in failed : first <= j
      <4>1. failed \subseteq Nat
        BY <3>2
      <4> HIDE DEF failed
      <4>2. \E k \in failed : \A j \in failed : k <= j
        BY <3>4, <4>1, L!LeastNatural, LoopConstants
      <4> QED
        BY <4>2
    <3> HIDE DEF failed, first, Done, Threw
    <3>5. exc'[p] # NoFrame <=> \E k \in 1..n : Threw(g, k)
      <4>1. failed # {} => exc'[p] # NoFrame
        <5> SUFFICES ASSUME failed # {} PROVE exc'[p] # NoFrame
          OBVIOUS
        <5>1. first \in 1..n /\ Threw(g, first)
          BY <3>2, <3>4
        <5> QED
          BY <3>1, <3>3, <5>1 DEF Threw
      <4> QED
        BY <3>2, <3>3, <4>1
    <3>6. ASSUME NEW k \in 1..n, Threw(g, k), \A j \in 1..(k - 1) : ~Threw(g, j)
          PROVE  exc'[p] = exc[g.kids[k]]
      <4>1. k \in failed
        BY <3>2, <3>6
      <4>2. first \in 1..n /\ Threw(g, first) /\ first <= k
        BY <3>2, <3>4, <4>1
      <4>3. first = k
        BY <3>6, <4>2
      <4> QED
        BY <3>1, <3>3, <4>1, <4>3
    <3> QED
      BY <2>2, <2>3, <2>6, <3>1, <3>5, <3>6
  <2> QED
    BY <2>3, <2>5, <2>6
<1>2. Inv /\ More /\ [Next]_vars =>
        [\A p \in Frame : at[p] = "group" /\ at'[p] = "body" => Right(p, groups[waits[p]])]_vars
  <2> HIDE DEF Right
  <2> QED
    BY <1>1
<1> QED
  BY <1>2, Invariant, PTL DEF Spec, GroupOutcome

\* The winner of a WhenAny is the first child to finish, and stays it.
THEOREM FirstToFinishWins ==
  ASSUME ~({"event", "any"} \subseteq Uses)
  PROVE  Spec => FirstWins
<1> DEFINE Kept(g) ==
      LET old == groups[g]
          new == groups'[g]
      IN  /\ new.winner # old.winner =>
               /\ old.winner = 0
               /\ \A k \in DOMAIN old.kids \ {new.winner} :
                    at[old.kids[k]] \notin {"final", "destroyed"}
          /\ old.winner # 0 => new.exceptions = old.exceptions
<1>1. ASSUME Inv, More, Next, NEW g \in DOMAIN groups
      PROVE  Kept(g)
  <2> USE <1>1 DEF Inv, FramesOK, More
  <2>1. CASE groups'[g] = groups[g]
    BY <2>1
  <2>2. CASE groups'[g] # groups[g]
    <3>1. ASSUME NEW kind \in {"all", "any"}, When(kind) PROVE FALSE
      <4>1. PICK x : groups' = Append(groups, x)
        BY <3>1 DEF When
      <4>2. groups \in Seq(Group)
        BY DEF TypeOK
      <4> HIDE DEF Inv
      <4> QED
        BY <2>2, <4>1, <4>2
    <3>2. WrapperDone
      <4>1. ~BodyStep
        BY <2>2, <3>1 DEF BodyStep, CallTask, AwaitEmpty, AwaitEvent, Finish, Throw, Catch,
           FinishWith, AwaitTask, Spawn, Drop, SignalEvent, CallWith, Sleep, frameVars
      <4>2. ~HostStep
        BY <2>2 DEF HostStep, Run, RunResume, RunWait, RunReturn, HostSpawn, RunOnce,
           RunOnceResume, RunOnceReturn, Tick, frameVars
      <4> QED
        BY <2>2, <4>1, <4>2 DEF Next, LibraryStep, Resume, TaskResume, FinalSuspend, ForkChild,
           ForkDone, WrapperAwait, GroupResume
    <3>3. PICK w \in Frame : w = current /\ at[w] = "body" /\ serves[w] # User
      BY <3>2, LoopMeans DEF WrapperDone
    <3>4. PICK x, k \in 0..MaxFrames :
            /\ serves[w] = <<x, k>> /\ <<x, k>> # User /\ WrapperOK(w, x, k)
            /\ x = serves[w][1] /\ k = serves[w][2]
            /\ x \in DOMAIN groups /\ k \in 1..Len(groups[x].kids)
      BY <3>3, WrapperIs
    <3>5. groups' = [groups EXCEPT ![x] = ChildDone(groups[x], k, exc[w])]
      BY <3>2, <3>3, <3>4 DEF WrapperDone
    <3>6. x = g
      BY <2>2, <3>5 DEF TypeOK
    <3>7. PICK old \in Group, p \in Frame, n \in Nat :
            /\ old = groups[g] /\ old.parent = p /\ n = Len(old.kids) /\ DOMAIN old.kids = 1..n
            /\ old.kind \in {"all", "any"}
            /\ old.kind = "all" => old.winner = 0
      <4>1. groups[g] \in Group /\ groups[g].parent \in Frame /\ Len(groups[g].kids) \in Nat
        BY GroupTypes
      <4>2. DOMAIN groups[g].kids = 1..Len(groups[g].kids) /\ groups[g].kind \in {"all", "any"}
        BY <4>1 DEF Group
      <4> QED
        BY <4>1, <4>2 DEF OutcomeOK, WinnerOK
    <3>8. groups'[g] = ChildDone(old, k, exc[w])
      BY <3>5, <3>6, <3>7 DEF TypeOK
    <3>9. CASE old.kind = "all"
      <4>1. groups'[g] = [old EXCEPT !.remaining = @ - 1, !.exceptions[k] = exc[w]]
        BY <3>8, <3>9 DEF ChildDone
      <4>2. groups'[g].winner = old.winner
        BY <4>1 DEF Group
      <4> QED
        BY <3>7, <3>9, <4>2
    <3>10. CASE old.kind = "any" /\ old.winner # 0
      BY <2>2, <3>7, <3>8, <3>10 DEF ChildDone
    <3>11. CASE old.kind = "any" /\ old.winner = 0
      <4>1. groups'[g] = [old EXCEPT !.winner = k, !.exceptions[k] = exc[w]]
        BY <3>8, <3>11 DEF ChildDone
      <4>2. groups'[g].winner = k
        BY <4>1 DEF Group
      <4>3. Joins(p, g)
        BY <3>3, <3>4, <3>6, <3>7, <3>11 DEF WrapperOK
      <4>4. ForkOK(p, g) /\ CountOK(p, g) /\ at[p] = "group"
        BY <3>3, <3>4, <3>6, <4>3 DEF ForksOK, CountsOK, PlacesOK, Joins
      <4>5. ASSUME NEW j \in 1..n, j # k
            PROVE  at[old.kids[j]] \notin {"final", "destroyed"}
        <5>1. PICK c \in Frame : c = old.kids[j]
          BY <3>7, GroupTypes
        <5>2. ~Reported(g, j)
          BY <3>7, <3>11, <4>4 DEF CountOK
        <5>3. PICK v \in Frame : serves[v] = <<g, j>>
          <6>1. \A i \in 1..n : i <= n => \E v \in Frame : serves[v] = <<g, i>>
            BY <3>7, <4>4 DEF ForkOK
          <6> QED
            BY <6>1
        <5>4. j \in 0..MaxFrames /\ g \in 0..MaxFrames /\ <<g, j>> # User
          <6>1. n \in 0..MaxFrames
            BY <3>7, KidsBounded
          <6> QED
            BY <3>6, <6>1, BoundAssumption DEF User
        <5>5. WrapperOK(v, g, j) /\ Told(v, g, j) /\ at[v] \in {"initial", "task", "body"}
          BY <5>2, <5>3, <5>4 DEF WrappersOK, WrapperOK, OutcomeOK, Reported
        <5>6. v # w
          BY <3>4, <3>6, <4>5, <5>3
        <5>7. CASE at[v] = "initial"
          BY <5>1, <3>7, <5>5, <5>7 DEF WrapperOK, Waiting
        <5>8. CASE at[v] = "task"
          <6>1. waits[v] = c
            BY <3>7, <5>1, <5>5, <5>8 DEF Told
          <6>2. Alive(c) /\ serves[c] = User
            BY <5>8, <6>1 DEF AwaitOK, Awaits
          <6>3. ~Lagging(v, c)
            BY <3>3, <5>6, <6>2 DEF WakersOK
          <6> QED
            BY <5>1, <5>8, <6>1, <6>2, <6>3 DEF Lagging, Alive
        <5>9. at[v] # "body"
          BY <3>3, <5>6 DEF PlacesOK
        <5> QED
          BY <5>5, <5>7, <5>8, <5>9
      <4> QED
        BY <3>7, <3>11, <4>2, <4>5
    <3> QED
      BY <3>7, <3>9, <3>10, <3>11
  <2> QED
    BY <2>1, <2>2
<1>2. Inv /\ More /\ [Next]_vars => [\A g \in DOMAIN groups : Kept(g)]_vars
  <2> HIDE DEF Kept
  <2> QED
    BY <1>1
<1> QED
  BY <1>2, Invariant, PTL DEF Spec, FirstWins

=============================================================================
