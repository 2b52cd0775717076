---------------------------- MODULE CoroRuntime -----------------------------
(***************************************************************************)
(* Coroutine frames driven by Coro::EventLoop: Task and its awaiter, the   *)
(* final awaiter, detached tasks, Sleep, WhenAll and WhenAny.  Bodies are  *)
(* arbitrary programs over these primitives; what they compute is left     *)
(* out, who owns and who resumes each frame is not.  An exception is named *)
(* after the frame that threw it.                                          *)
(*                                                                         *)
(* The loop's own steps are those of module EventLoop.  A coroutine's      *)
(* calls into it are written out here without EventLoop's guards, and      *)
(* UsesLoopCorrectly says that they satisfy them all the same.             *)
(***************************************************************************)
EXTENDS TimerQueue, FiniteSets

CONSTANTS MaxFrames,  \* bound: coroutine frames ever allocated
          MaxHeld,    \* bound: Task objects a body holds at a time
          MaxTime,    \* bound: the last clock reading
          Uses        \* which of these the program makes use of

ASSUME BoundAssumption ==
  /\ MaxFrames \in Nat /\ MaxHeld \in Nat /\ MaxTime \in Nat
  /\ Uses \subseteq {"await", "spawn", "sleep", "event", "all", "any", "throw", "once",
             "move"}

VARIABLES ready, timers, now, mode, current, budget, batch,  \* as in EventLoop
          at,          \* where a frame is suspended, or is running
          owner,       \* the frame whose Task, awaiter or awaitable owns it
          cont,        \* promise.continuation
          detached,    \* promise.detached
          exc,         \* the exception in flight in a body, then promise.exception
          waits,       \* the task or the group a suspended frame awaits
          serves,      \* of a wrapper coroutine: its <<group, slot>>
          groups,      \* WhenAllState and WhenAnyState objects
          root,        \* the task Run was called with
          terminated   \* std::terminate was called

loopVars  == <<ready, timers, now, mode, current, budget, batch>>
frameVars == <<at, owner, cont, detached, exc, waits, serves, groups>>
hostVars  == <<root, terminated>>
vars == <<loopVars, frameVars, hostVars>>

Frame == 1..MaxFrames
NoFrame == 0  \* no owner, std::noop_coroutine(), no exception
User == <<0, 0>>  \* serves[f] of a coroutine that is no wrapper

Place == {"free", "initial", "body", "task", "timer", "event", "fork", "group",
          "final", "destroyed"}

Loop == INSTANCE EventLoop WITH Handle <- Frame, NoHandle <- NoFrame

Group == [kind : {"all", "any"}, parent : Frame, kids : Seq(Frame),
          remaining : Nat, winner : Nat, exceptions : Seq(Frame \cup {NoFrame})]

TypeOK ==
  /\ Loop!TypeOK
  /\ at \in [Frame -> Place]
  /\ owner \in [Frame -> Frame \cup {NoFrame}]
  /\ cont \in [Frame -> Frame \cup {NoFrame}]
  /\ detached \in [Frame -> BOOLEAN]
  /\ exc \in [Frame -> Frame \cup {NoFrame}]
  /\ waits \in [Frame -> 0..MaxFrames]
  /\ serves \in [Frame -> (0..MaxFrames) \X (0..MaxFrames)]
  /\ groups \in Seq(Group)
  /\ root \in Frame \cup {NoFrame}
  /\ terminated \in BOOLEAN

Init ==
  /\ Loop!Init
  /\ at = [f \in Frame |-> "free"]
  /\ owner = [f \in Frame |-> NoFrame] /\ cont = [f \in Frame |-> NoFrame]
  /\ detached = [f \in Frame |-> FALSE] /\ exc = [f \in Frame |-> NoFrame]
  /\ waits = [f \in Frame |-> NoFrame] /\ serves = [f \in Frame |-> User]
  /\ groups = <<>> /\ root = NoFrame /\ terminated = FALSE

-----------------------------------------------------------------------------
(* Frames: allocation, ownership, destruction.                             *)

Allocated == Cardinality({f \in Frame : at[f] # "free"})

Room(n) == Allocated + n <= MaxFrames

NewFrame == Allocated + 1

\* A coroutine call: the frame suspends initially, its Task belongs to o.
Call(f, o, j) ==
  /\ at' = [at EXCEPT ![f] = "initial"]
  /\ owner' = [owner EXCEPT ![f] = o]
  /\ serves' = [serves EXCEPT ![f] = j]

\* The frames that go with those of S when S are destroyed: what they own,
\* what that owns, and so on, which is the least set that ownership does not
\* leave.  A frame that is gone owns nothing.
Closure(S) ==
  LET owned == {f \in Frame : at[f] # "destroyed" /\ owner[f] # NoFrame}
      reach == {C \in SUBSET (S \cup owned) :
                  S \subseteq C /\ \A f \in owned : owner[f] \in C => f \in C}
  IN  {f \in S \cup owned : \A C \in reach : f \in C}

\* `at' once the frames of S, and all they own, are destroyed.
Destroy(S) ==
  LET C == Closure(S)
  IN  [f \in Frame |-> IF f \in C /\ at[f] # "free" THEN "destroyed" ELSE at[f]]

-----------------------------------------------------------------------------
(* What a user's coroutine body may do next.                               *)

InBody == current # NoFrame /\ at[current] = "body" /\ serves[current] = User

\* It is not unwinding an exception.
Normal == InBody /\ exc[current] = NoFrame

\* Task objects the body holds and has not used yet.
Held == {f \in Frame : at[f] = "initial" /\ owner[f] = current}

CallTask ==
  /\ Normal /\ Room(1) /\ Cardinality(Held) < MaxHeld
  /\ Call(NewFrame, current, User)
  /\ UNCHANGED <<loopVars, cont, detached, exc, waits, groups, hostVars>>

\* A coroutine is called with tasks that the body holds: they move into the
\* parameters, which live in the new frame.
CallWith(tasks) ==
  /\ "move" \in Uses /\ Normal /\ Room(1) /\ tasks # {}
  /\ at' = [at EXCEPT ![NewFrame] = "initial"]
  /\ owner' = [f \in Frame |-> IF f = NewFrame THEN current
                               ELSE IF f \in tasks THEN NewFrame ELSE owner[f]]
  /\ UNCHANGED <<loopVars, cont, detached, exc, waits, serves, groups, hostVars>>

\* A Task that was not awaited goes out of scope or is assigned another.
Drop(t) ==
  /\ "move" \in Uses /\ Normal /\ t \in Held
  /\ at' = Destroy({t})
  /\ UNCHANGED <<loopVars, owner, cont, detached, exc, waits, serves, groups, hostVars>>

\* An empty Task<T> throws when it is awaited; an empty Task<void> goes unnoticed.
AwaitEmpty ==
  /\ {"move", "throw"} \subseteq Uses /\ Normal
  /\ exc' = [exc EXCEPT ![current] = current]
  /\ UNCHANGED <<loopVars, at, owner, cont, detached, waits, serves, groups, hostVars>>

\* TaskAwaiter::await_suspend: wire the continuation, transfer into the task.
AwaitTask(t) ==
  /\ "await" \in Uses /\ Normal /\ t \in Held
  /\ at' = [at EXCEPT ![current] = "task"]
  /\ waits' = [waits EXCEPT ![current] = t]
  /\ cont' = [cont EXCEPT ![t] = current]
  /\ current' = t
  /\ UNCHANGED <<ready, timers, now, mode, budget, batch,
                 owner, detached, exc, serves, groups, hostVars>>

\* Mutant: Post(Task<void>&&) takes the handle without releasing the Task.
SpawnUnreleased(t) ==
  /\ "spawn" \in Uses /\ Normal /\ t \in Held
  /\ detached' = [detached EXCEPT ![t] = TRUE]
  /\ ready' = Append(ready, t)
  /\ UNCHANGED <<timers, now, mode, current, budget, batch,
                 at, owner, cont, exc, waits, serves, groups, hostVars>>

\* IScheduler::Post(Task<void>&&): release, detach, post.
Spawn(t) ==
  /\ "spawn" \in Uses /\ Normal /\ t \in Held
  /\ owner' = [owner EXCEPT ![t] = NoFrame]
  /\ detached' = [detached EXCEPT ![t] = TRUE]
  /\ ready' = Append(ready, t)
  /\ UNCHANGED <<timers, now, mode, current, budget, batch,
                 at, cont, exc, waits, serves, groups, hostVars>>

\* SleepAwaitable; one whose deadline has come by does not suspend.  Bound: the
\* clock does not move between await_ready and await_suspend (EventLoop's Sleep
\* has deadlines that have passed), so that a body sleeps finitely often.
Sleep(deadline) ==
  /\ "sleep" \in Uses /\ Normal /\ deadline > now
  /\ at' = [at EXCEPT ![current] = "timer"]
  /\ timers' = Schedule(timers, deadline, current)
  /\ current' = NoFrame
  /\ UNCHANGED <<ready, now, mode, budget, batch,
                 owner, cont, detached, exc, waits, serves, groups, hostVars>>

\* An awaitable of the program's own: it keeps the handle for a later event.
AwaitEvent ==
  /\ "event" \in Uses /\ Normal
  /\ at' = [at EXCEPT ![current] = "event"]
  /\ current' = NoFrame
  /\ UNCHANGED <<ready, timers, now, mode, budget, batch,
                 owner, cont, detached, exc, waits, serves, groups, hostVars>>

\* The event is signalled by another coroutine: the handle is posted.
SignalEvent(f) ==
  /\ "event" \in Uses /\ Normal /\ at[f] = "event"
  /\ f \notin Loop!Registered
  /\ ready' = Append(ready, f)
  /\ UNCHANGED <<timers, now, mode, current, budget, batch, frameVars, hostVars>>

\* The tasks of S as arguments: in the order of their creation.
Orders(S) ==
  {kids \in [1..Cardinality(S) -> S] : \A i, j \in DOMAIN kids : i < j => kids[i] < kids[j]}

\* Mutant: the constructor of WhenAllAwaitable does not set remaining.
NewGroupUncounted(kind, kids) ==
  [kind |-> kind, parent |-> current, kids |-> kids, remaining |-> 0, winner |-> 0,
   exceptions |-> [i \in DOMAIN kids |-> NoFrame]]

\* The state that WhenAllAwaitable and WhenAnyAwaitable construct.
NewGroup(kind, kids) ==
  [kind |-> kind, parent |-> current, kids |-> kids, remaining |-> Len(kids), winner |-> 0,
   exceptions |-> [i \in DOMAIN kids |-> NoFrame]]

\* WhenAll and WhenAny over all the tasks held.
When(kind) ==
  /\ kind \in Uses /\ Normal /\ Held # {} /\ Room(Cardinality(Held))
  /\ \E kids \in Orders(Held) : groups' = Append(groups, NewGroup(kind, kids))
  /\ waits' = [waits EXCEPT ![current] = Len(groups) + 1]
  /\ at' = [at EXCEPT ![current] = "fork"]
  /\ UNCHANGED <<loopVars, owner, cont, detached, exc, serves, hostVars>>

\* The body ends; if an exception is in flight, unhandled_exception keeps it.
\* The Task objects it still holds go with it.
FinishWith(e) ==
  /\ at' = [Destroy(Held) EXCEPT ![current] = "final"]
  /\ exc' = [exc EXCEPT ![current] = e]
  /\ UNCHANGED <<loopVars, owner, cont, detached, waits, serves, groups, hostVars>>

Finish == InBody /\ FinishWith(exc[current])

Throw == "throw" \in Uses /\ Normal /\ FinishWith(current)

Catch ==
  /\ InBody /\ exc[current] # NoFrame
  /\ exc' = [exc EXCEPT ![current] = NoFrame]
  /\ UNCHANGED <<loopVars, at, owner, cont, detached, waits, serves, groups, hostVars>>

-----------------------------------------------------------------------------
(* What the library runs on a coroutine's behalf.                          *)

\* A user's coroutine is resumed where nothing is left to collect.
Resume ==
  /\ current # NoFrame /\ serves[current] = User
  /\ at[current] \in {"initial", "timer", "event"}
  /\ at' = [at EXCEPT ![current] = "body"]
  /\ UNCHANGED <<loopVars, owner, cont, detached, exc, waits, serves, groups, hostVars>>

\* TaskAwaiter::await_resume, then its destructor: take the exception over
\* and destroy the awaited frame.
TaskResume ==
  /\ current # NoFrame /\ at[current] = "task"
  /\ at' = [Destroy({waits[current]}) EXCEPT ![current] = "body"]
  /\ exc' = [exc EXCEPT ![current] = exc[waits[current]]]
  /\ waits' = [waits EXCEPT ![current] = NoFrame]
  /\ UNCHANGED <<loopVars, owner, cont, detached, serves, groups, hostVars>>

\* Mutant: a detached task returns to the loop without reclaiming its frame.
FinalSuspendUnreclaimed ==
  /\ current # NoFrame /\ at[current] = "final"
  /\ current' = IF detached[current] THEN NoFrame ELSE cont[current]
  /\ UNCHANGED <<ready, timers, now, mode, budget, batch,
                 at, owner, cont, detached, exc, waits, serves, groups, hostVars>>

\* FinalAwaiter::await_suspend.  After std::terminate nothing more is run.
FinalSuspend ==
  /\ current # NoFrame /\ at[current] = "final"
  /\ IF detached[current]
       THEN /\ at' = Destroy({current})
            /\ terminated' = (exc[current] # NoFrame)
            /\ current' = IF terminated' THEN current ELSE NoFrame
       ELSE /\ current' = cont[current]
            /\ UNCHANGED <<at, terminated>>
  /\ UNCHANGED <<ready, timers, now, mode, budget, batch,
                 owner, cont, detached, exc, waits, serves, groups, root>>

\* The wrapper coroutines started so far for group g, and the one of slot k.
Wrappers(g) == {f \in Frame : serves[f][1] = g}

\* Mutant: WhenAny keeps its wrappers in the awaitable, as WhenAll does.
ForkChildOwned ==
  LET g == waits[current]
      w == NewFrame
      k == Cardinality(Wrappers(g)) + 1
  IN  /\ current # NoFrame /\ at[current] = "fork" /\ k <= Len(groups[g].kids)
      /\ at' = [at EXCEPT ![w] = "initial"]
      /\ serves' = [serves EXCEPT ![w] = <<g, k>>]
      /\ owner' = [owner EXCEPT ![w] = current]
      /\ ready' = Append(ready, w)
      /\ UNCHANGED <<timers, now, mode, current, budget, batch,
                     cont, detached, exc, waits, groups, hostVars>>

\* await_suspend of the combinators posts one wrapper per child.  Those of
\* WhenAll are owned by the awaitable, in the parent's frame; those of WhenAny
\* are detached and own their child.
ForkChild ==
  LET g == waits[current]
      w == NewFrame
      k == Cardinality(Wrappers(g)) + 1
      any == groups[g].kind = "any"
  IN  /\ current # NoFrame /\ at[current] = "fork" /\ k <= Len(groups[g].kids)
      /\ at' = [at EXCEPT ![w] = "initial"]
      /\ serves' = [serves EXCEPT ![w] = <<g, k>>]
      /\ detached' = [detached EXCEPT ![w] = any]
      /\ owner' = IF any THEN [owner EXCEPT ![groups[g].kids[k]] = w]
                         ELSE [owner EXCEPT ![w] = current]
      /\ ready' = Append(ready, w)
      /\ UNCHANGED <<timers, now, mode, current, budget, batch,
                     cont, exc, waits, groups, hostVars>>

ForkDone ==
  /\ current # NoFrame /\ at[current] = "fork"
  /\ Cardinality(Wrappers(waits[current])) = Len(groups[waits[current]].kids)
  /\ at' = [at EXCEPT ![current] = "group"]
  /\ current' = NoFrame
  /\ UNCHANGED <<ready, timers, now, mode, budget, batch,
                 owner, cont, detached, exc, waits, serves, groups, hostVars>>

\* WhenAllChild and WhenAnyChild: await the child, which moves into the awaiter.
WrapperAwait ==
  LET kid == groups[serves[current][1]].kids[serves[current][2]]
  IN  /\ current # NoFrame /\ serves[current] # User /\ at[current] = "initial"
      /\ at' = [at EXCEPT ![current] = "task"]
      /\ owner' = [owner EXCEPT ![kid] = current]
      /\ cont' = [cont EXCEPT ![kid] = current]
      /\ waits' = [waits EXCEPT ![current] = kid]
      /\ current' = kid
      /\ UNCHANGED <<ready, timers, now, mode, budget, batch,
                     detached, exc, serves, groups, hostVars>>

\* Mutant: a later completion overwrites the winner's.
ChildDoneLast(g, k, e) ==
  IF g.kind = "all"
    THEN [g EXCEPT !.remaining = @ - 1, !.exceptions[k] = e]
    ELSE [g EXCEPT !.winner = k, !.exceptions[k] = e]

\* OnChildDone of WhenAllState and of WhenAnyState, and whether it posts the
\* parent.
ChildDone(g, k, e) ==
  IF g.kind = "all"
    THEN [g EXCEPT !.remaining = @ - 1, !.exceptions[k] = e]
  ELSE IF g.winner = 0
    THEN [g EXCEPT !.winner = k, !.exceptions[k] = e]
  ELSE g

\* Mutants: the counter is tested before it is decremented; the parent is
\* posted one child too soon; every child of WhenAny posts the parent.
WakesLate(g) == IF g.kind = "all" THEN g.remaining = 0 ELSE g.winner = 0

WakesSoon(g) == IF g.kind = "all" THEN g.remaining = 2 ELSE g.winner = 0

WakesAlways(g) == g.kind = "all" => g.remaining = 1

Wakes(g) == IF g.kind = "all" THEN g.remaining = 1 ELSE g.winner = 0

\* Mutant: the wrapper lets its child's exception escape.
WrapperDoneUncaught ==
  LET g == serves[current][1]
  IN  /\ current # NoFrame /\ serves[current] # User /\ at[current] = "body"
      /\ groups' = [groups EXCEPT ![g] =
                      ChildDone(@, serves[current][2], exc[current])]
      /\ ready' = IF Wakes(groups[g]) THEN Append(ready, groups[g].parent)
                                      ELSE ready
      /\ at' = [at EXCEPT ![current] = "final"]
      /\ UNCHANGED <<timers, now, mode, current, budget, batch,
                     owner, cont, detached, exc, waits, serves, hostVars>>

\* The wrapper catches what its child threw, reports, and returns.
WrapperDone ==
  LET g == serves[current][1]
  IN  /\ current # NoFrame /\ serves[current] # User /\ at[current] = "body"
      /\ groups' = [groups EXCEPT ![g] =
                      ChildDone(@, serves[current][2], exc[current])]
      /\ ready' = IF Wakes(groups[g]) THEN Append(ready, groups[g].parent)
                                      ELSE ready
      /\ at' = [at EXCEPT ![current] = "final"]
      /\ exc' = [exc EXCEPT ![current] = NoFrame]
      /\ UNCHANGED <<timers, now, mode, current, budget, batch,
                     owner, cont, detached, waits, serves, hostVars>>

\* Mutant: WhenAll rethrows the exception of the last slot that holds one.
FailureOfLast(g) ==
  LET failed == {k \in DOMAIN g.exceptions : g.exceptions[k] # NoFrame}
  IN  IF g.kind = "any" THEN g.exceptions[g.winner]
      ELSE IF failed = {} THEN NoFrame
      ELSE g.exceptions[CHOOSE k \in failed : \A j \in failed : k >= j]

\* The exception await_resume rethrows: of the first slot that holds one, or
\* of the winner.
Failure(g) ==
  LET failed == {k \in DOMAIN g.exceptions : g.exceptions[k] # NoFrame}
  IN  IF g.kind = "any" THEN g.exceptions[g.winner]
      ELSE IF failed = {} THEN NoFrame
      ELSE g.exceptions[CHOOSE k \in failed : \A j \in failed : k <= j]

\* await_resume of the combinators, then the destruction of the awaitable and
\* of the wrappers it owns.
GroupResume ==
  /\ current # NoFrame /\ at[current] = "group"
  /\ at' = [Destroy({f \in Frame : owner[f] = current}) EXCEPT ![current] = "body"]
  /\ exc' = [exc EXCEPT ![current] = Failure(groups[waits[current]])]
  /\ waits' = [waits EXCEPT ![current] = NoFrame]
  /\ UNCHANGED <<loopVars, owner, cont, detached, serves, groups, hostVars>>

-----------------------------------------------------------------------------
(* The program that owns the loop, and the loop.                           *)

\* EventLoop::Run(Task<void>), which keeps the root's handle to itself.
Run ==
  /\ Room(1) /\ Call(NewFrame, NoFrame, User)
  /\ Loop!Run(NewFrame)
  /\ root' = NewFrame
  /\ UNCHANGED <<cont, detached, exc, waits, groups, terminated>>

\* Mutant: Run returns as soon as nothing is ready, timers or not.
RunReturnEarly ==
  /\ mode = "run" /\ current = NoFrame /\ ready = <<>> /\ mode' = "idle"
  /\ at' = Destroy({root}) /\ root' = NoFrame
  /\ UNCHANGED <<ready, timers, now, current, budget, batch,
                 owner, cont, detached, exc, waits, serves, groups, terminated>>

\* Once drained, Run destroys the root frame, then rethrows its exception.
RunReturn ==
  /\ Loop!RunReturn
  /\ at' = Destroy({root}) /\ root' = NoFrame
  /\ UNCHANGED <<owner, cont, detached, exc, waits, serves, groups, terminated>>

\* Post(Task<void>&&) from outside any coroutine, for RunOnce or a later Run.
HostSpawn ==
  /\ "once" \in Uses /\ mode = "idle" /\ Room(1) /\ Call(NewFrame, NoFrame, User)
  /\ detached' = [detached EXCEPT ![NewFrame] = TRUE]
  /\ ready' = Append(ready, NewFrame)
  /\ UNCHANGED <<timers, now, mode, current, budget, batch,
                 cont, exc, waits, groups, hostVars>>

RunResume == Loop!RunResume /\ UNCHANGED <<frameVars, hostVars>>

RunWait == Loop!RunWait /\ UNCHANGED <<frameVars, hostVars>>

RunOnce == "once" \in Uses /\ Loop!RunOnce /\ UNCHANGED <<frameVars, hostVars>>

RunOnceResume == Loop!RunOnceResume /\ UNCHANGED <<frameVars, hostVars>>

RunOnceReturn == Loop!RunOnceReturn /\ UNCHANGED <<frameVars, hostVars>>

Tick == Loop!Tick /\ UNCHANGED <<frameVars, hostVars>>

HostStep ==
  \/ Run \/ RunResume \/ RunWait \/ RunReturn
  \/ HostSpawn \/ RunOnce \/ RunOnceResume \/ RunOnceReturn \/ Tick

BodyStep ==
  \/ CallTask \/ AwaitEmpty \/ AwaitEvent \/ Finish \/ Throw \/ Catch
  \/ \E f \in Frame : AwaitTask(f) \/ Spawn(f) \/ Drop(f) \/ SignalEvent(f)
  \/ \E tasks \in SUBSET Held : CallWith(tasks)
  \/ \E deadline \in Loop!Moment : Sleep(deadline)
  \/ \E kind \in {"all", "any"} : When(kind)

LibraryStep ==
  \/ Resume \/ TaskResume \/ FinalSuspend
  \/ ForkChild \/ ForkDone \/ WrapperAwait \/ WrapperDone \/ GroupResume

Next == BodyStep \/ LibraryStep \/ HostStep

Spec == Init /\ [][Next]_vars

(* The thread inside Run or RunOnce, and the coroutine it resumed, keep    *)
(* going.                                                                  *)
FairSpec == Spec /\ WF_vars(Next /\ mode # "idle")

-----------------------------------------------------------------------------

Alive(f) == f \in Frame /\ at[f] \notin {"free", "destroyed"}

(* The coroutines of this library honour what EventLoop takes on trust:    *)
(* nobody posts, schedules or transfers to a handle that runs or is        *)
(* registered already (Scheduler.hpp, Task.hpp, WhenAll.hpp, WhenAny.hpp). *)
UsesLoopCorrectly == Loop!Spec

(* Every handle in the loop's queues, and the running one, belongs to a    *)
(* live frame, suspended where resuming it makes sense.  Handles are       *)
(* borrowed: nothing unregisters one when its frame is destroyed.          *)
NoDanglingHandle ==
  /\ \A f \in Loop!Registered : at[f] \in {"initial", "timer", "event", "group"}
  /\ current # NoFrame => Alive(current) \/ terminated
  /\ \A f \in Frame : Alive(f) /\ cont[f] # NoFrame => Alive(cont[f])

(* A frame has an owner that will destroy it: a live frame, the loop (the  *)
(* root), or itself (a detached one), and never two of them.               *)
OneOwner ==
  \A f \in Frame : Alive(f) =>
    IF detached[f] \/ f = root THEN owner[f] = NoFrame ELSE Alive(owner[f])

\* Somebody is bound to resume f, or to destroy it unstarted.
HasWaker(f) ==
  \/ f = current \/ f \in Loop!Registered
  \/ at[f] = "initial" /\ Alive(owner[f])
  \/ at[f] = "task" /\ Alive(waits[f]) /\ cont[waits[f]] = f
  \/ at[f] = "group" /\ \E w \in Wrappers(waits[f]) :
                           Alive(w) /\ at[w] # "final"
  \/ at[f] = "final" /\ ~detached[f]

(* No coroutine is forgotten: a suspended frame is registered with the     *)
(* loop, or the task it awaits will transfer back to it, or a wrapper of   *)
(* the group it awaits has yet to report.                                  *)
NoneForgotten == \A f \in Frame : Alive(f) => HasWaker(f)

(* A frame is destroyed before it has started or after it has finished,    *)
(* never in between, where its locals would be torn down in mid-await.     *)
DestroyedAtRest ==
  [][\A f \in Frame : at'[f] = "destroyed" /\ at[f] # "destroyed"
        => at[f] \in {"initial", "final"}]_vars

\* Frames that wait, by whatever chain, for an event that nobody has signalled.
Stuck ==
  LET level[n \in 0..MaxFrames] ==
        IF n = 0 THEN {f \in Frame : at[f] = "event"}
        ELSE level[n - 1] \cup
             {f \in Frame :
                \/ at[f] = "task" /\ waits[f] \in level[n - 1]
                \/ at[f] = "group" /\ Wrappers(waits[f]) \cap level[n - 1] # {}}
  IN  level[MaxFrames]

(* Run returns with the work done: the root task has completed, unless an  *)
(* event of the program's own keeps it waiting, and no frame is left       *)
(* behind but those that such an event holds back, and what they own.      *)
(* Detached tasks, the losers of WhenAny among them, have all reclaimed    *)
(* themselves.                                                             *)
RunFinishes ==
  [][mode = "run" /\ mode' = "idle" =>
       /\ at[root] = "final" \/ root \in Stuck
       /\ \A f \in Frame : Alive(f)' => f \in Closure(Stuck)]_vars

(* Run returns only when the root task has completed (EventLoop.hpp:54).   *)
RootCompletes == [][mode = "run" /\ mode' = "idle" => at[root] = "final"]_vars

(* What a WhenAll or WhenAny resumes its parent with: all the children are *)
(* done, and the exception is that of the first child in argument order to *)
(* have failed; or the winner is done, and the exception is its own.       *)
GroupOutcome ==
  [][\A p \in Frame : at[p] = "group" /\ at'[p] = "body" =>
       LET g == groups[waits[p]]
           done(k) == at[g.kids[k]] = "destroyed"
           threw(k) == exc[g.kids[k]] # NoFrame
       IN  IF g.kind = "any"
             THEN done(g.winner) /\ exc'[p] = exc[g.kids[g.winner]]
             ELSE /\ \A k \in DOMAIN g.kids : done(k)
                  /\ exc'[p] # NoFrame <=> \E k \in DOMAIN g.kids : threw(k)
                  /\ \A k \in DOMAIN g.kids :
                       threw(k) /\ (\A j \in 1..(k - 1) : ~threw(j))
                         => exc'[p] = exc[g.kids[k]]]_vars

(* The winner of a WhenAny is the first child to finish, whether it        *)
(* returned or threw: when its wrapper reports no other has finished, and  *)
(* no later finisher replaces it or its exception while the parent is on   *)
(* its way to collect the result.                                          *)
FirstWins ==
  [][\A g \in DOMAIN groups :
       LET old == groups[g]
           new == groups'[g]
       IN  /\ new.winner # old.winner =>
                /\ old.winner = 0
                /\ \A k \in DOMAIN old.kids \ {new.winner} :
                     at[old.kids[k]] \notin {"final", "destroyed"}
           /\ old.winner # 0 => new.exceptions = old.exceptions]_vars

(* Only an exception that a body let escape from a task it had spawned     *)
(* terminates the program: never one of a WhenAny loser, whose wrapper is  *)
(* detached but catches it.                                                *)
TerminatesForSpawned ==
  [][terminated' /\ ~terminated => serves[current] = User]_vars

(* A coroutine that Run finds or puts in a queue runs to its end: no       *)
(* wake-up is lost, and no ring of frames waits for itself.                *)
Completes ==
  \A f \in Frame :
    (mode = "run" /\ f \in Loop!Registered) ~> (at[f] = "final" \/ terminated)

=============================================================================
