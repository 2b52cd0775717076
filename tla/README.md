# A TLA+ model of coro-cpp

coro-cpp is a single-threaded C++ coroutine library: a lazy `Task`, the combinators `WhenAll`
and `WhenAny`, `Sleep`, and schedulers that resume coroutines: an event loop of its own, a
scheduler with virtual time for tests, and two that ride the message pump of a GUI framework.
The library is small, but it hands raw `std::coroutine_handle`s around: who resumes a frame, how
often, and who destroys it is a protocol that no type enforces. This directory models that
protocol, model-checks it with TLC and proves, with TLAPS, what the timer heap, the schedulers and the
tracer promise, that the library's coroutines are owned, resumed and destroyed as they should be, and
that the Qt demo's backend tells its user the truth.

Line numbers below are those of `src/src/Coro/` unless a path says otherwise.

## 1. Inventory

| Component | State | Operations that change it | Used by |
|---|---|---|---|
| `TimerQueue` (`TimerQueue.hpp`) | a `std::vector` in heap order, a sequence counter | `Schedule`, `PopDue` | every scheduler |
| `EventLoop` | `_ready` (deque of handles), `_timers`, a borrowed clock | `Post`, `ScheduleAt`, `RunOnce`, `Run` | programs, tests |
| `ManualScheduler` | `_ready`, `_timers`, a virtual clock | `Post`, `ScheduleAt`, `AdvanceTo`, `AdvanceBy`, `RunUntilIdle` | tests |
| `PumpTimerDriver` | `_timers`, and through its seams one host timer | `ScheduleAt`, `OnTimerExpired`, `Rearm` | the two pump schedulers |
| `QtScheduler`, `Win32MessageScheduler` | a hidden object or window, its queued functors or messages, the host timer | `Create`, `Post`, `ScheduleAt`, the window procedure, the destructor | GUI programs |
| `Task`, its promise and awaiters (`Task.hpp`) | the frame; `continuation`, `detached`, the exception; the owning `Task` or `TaskAwaiter` | call, `co_await`, final suspension, destruction | everything |
| `IScheduler`, `Spawn` | none | `Post(Task<void>&&)`: release, detach, post | programs |
| `Sleep` | a deadline fixed when the awaitable is made | `await_suspend` calls `ScheduleAt` | programs |
| `WhenAll`, `WhenAny` | a state object: counter or winner, slots; one wrapper coroutine per child | `await_suspend`, `OnChildDone`, `await_resume` | programs |
| `IClock`, `SystemClock`, the tests' `ManualClock` | a reading | `Now`, `WaitUntil` | schedulers |
| `TracingScheduler` | `_events`; borrows a scheduler and a sink | `Post`, `ScheduleAt` (record, show to the sink, forward), `Clear` | tests, demos |
| `FetchBackend` (Qt demo) | four properties (status, step, busy, result), a `stop_source`, its own `QtScheduler` | `start`, `cancel`, the coroutine `RunSequence`, the destructor; every setter emits a signal | the QML demo |

How they interact. A coroutine calls `Post` or `ScheduleAt` on the scheduler that is resuming it;
the scheduler calls `resume()`, under which everything up to the next suspension runs: other
bodies by symmetric transfer, the combinators' wrappers, further calls into the scheduler. So
every entry point of a scheduler can be re-entered from under its own `resume()` call, and state
read before that call is stale after it. On the pumps, `Post` may come from other threads and a
modal dialog inside a coroutine runs a nested pump.

What makes it hard, and what makes each part correct:

* **Timer queue.** Equal deadlines pop first in, first out although a binary heap is not stable;
  the front is always the earliest deadline.
* **Event loop.** No handle is lost, duplicated, resumed too early or out of order; `RunOnce`
  serves a snapshot although the coroutines it resumes change the queue; a coroutine that keeps
  posting itself starves nobody under `Run`.
* **Manual scheduler.** A drive of the clock skips no timer that coroutines schedule while it is
  under way, shows each its own deadline, and ends.
* **Pump schedulers.** There is one host timer, which can be early, late, rounded, clamped or
  stale; an entry must never be parked with no timer to come. Ticks, posts of other threads, nested
  pumps and the destructor interleave.
* **Tasks and combinators.** Each frame has one owner and at most one waker; no handle in a queue
  outlives its frame; the parent of a `WhenAll` resumes once, after the last wrapper has come to
  rest; a `WhenAny` loser finishes after its parent may be gone and cleans up after itself.
* **Tracer.** The sink runs in the middle of each call. Whatever it does, each handle is forwarded
  once, by its own call, with its own deadline, and the recording stays true.
* **Fetch backend.** Slots run in the middle of `start()` and of the sequence. The properties must say
  what is in flight, a cancelled sequence must end at its next boundary, and busy must end.

`PROJECT.json` lists these as hazards, each at its line with the properties that watch it.

## 2. Modules

```
Scheduler            the contract of IScheduler: sets of ready and of parked handles
TimerQueue           sequence operators: Schedule, Due, NotDue, HasDue
  TimerQueueSpec     the queue as a machine over those operators (abstract)
  TimerHeap          the vector in heap order, refines TimerQueueSpec
  EventLoop          ready queue, timers, Run and RunOnce, arbitrary coroutines; refines Scheduler
    CoroRuntime      Task, Spawn, Sleep, WhenAll, WhenAny; refines EventLoop
    ManualScheduler  the same coroutines under the virtual-time driver; refines Scheduler
  PumpScheduler      PumpTimerDriver on a Qt or a Win32 pump; refines Scheduler
TracingScheduler     a decorator around Scheduler, refines Scheduler
FetchBackend         the Qt demo's backend, built on Scheduler
TimerHeap_proofs           invariant of TimerHeap, and that it refines TimerQueueSpec
EventLoop_proofs           lemmas about TimerQueue, invariants of EventLoop, and that it refines Scheduler
ManualScheduler_proofs     invariants of ManualScheduler, and that it refines Scheduler
PumpScheduler_proofs       invariants of PumpScheduler, and that it refines Scheduler
TracingScheduler_proofs    invariants of TracingScheduler, and that it refines Scheduler
CoroRuntime_proofs         an inductive invariant of the frames and groups of CoroRuntime
CoroCompletion_proofs      the rest of it, and the theorems about CoroRuntime
FetchBackend_proofs        invariants of FetchBackend
MC*.tla, MC*.cfg           small instances
```

**Scheduler** is what the rest of the library may believe about a scheduler: a handle that was posted,
or whose time has come, is resumed at most once, in no promised order; the destructor drops what is
registered. In return a handle is registered only while it is suspended and not registered already.
Three schedulers refine it by `ImplementsScheduler` (their queues as sets, `open` true until the
destructor), TracingScheduler extends it and FetchBackend instantiates it, so that what is shown of
those two does not depend on which scheduler is underneath.

**TimerQueue** states what the schedulers rely on: a sequence sorted by deadline, FIFO among equals.
`Schedule` inserts behind all entries that are not later, `Due` and `NotDue` split off what
`while (PopDue(now))` removes. **TimerHeap** is the code: entries with sequence numbers, the
comparison `Later`, and `push_heap`/`pop_heap` as "any heap arrangement of these entries", which is
all that the standard promises. Its property `ImplementsQueue` instantiates `TimerQueueSpec` with
the heap sorted by `Later`, and `next`, the deadline that callers sleep until, with what `NextDeadline` reads.

**EventLoop**: `ready` and `timers` are `_ready` and `_timers`; `mode` says which driver is on the
stack, `current` is the coroutine that the driver has resumed, `budget` is what is left of
`drainCount`, and the history variable `batch` is what `RunOnce`'s snapshot saw. `DrainExpiredTimers`
is the operator `Drained`, part of `RunResume` and of `RunOnce` as it is in the code (one turn of
the `while (true)` loop of `Run` is `RunResume`, `RunWait` or `RunReturn`). A coroutine is a handle
that, while it runs, may register itself or any other suspended handle, transfer control, sleep with
any deadline (past ones included) or leave. The guard `Suspended(h)` is the loop's contract with
awaitables: nobody registers a handle that runs or is registered already.

**CoroRuntime** discharges that contract for the library's own coroutines: it has the frames, says
where each is suspended, who owns it, whom it continues and which exception it carries, and lets
bodies be arbitrary programs over `CallTask`, `CallWith` (tasks that the body holds move into the
parameters of another), `Drop`, `AwaitEmpty`, `AwaitTask`, `Spawn`, `Sleep`, `When("all")`,
`When("any")`, `Throw`, `Catch`, `Finish` and, for awaitables of the program's own (the recipe of the
repository's README, lines 491-548), `AwaitEvent` and `SignalEvent`. Its calls into the loop are written
*without* EventLoop's guards, and the property `UsesLoopCorrectly` (`Loop!Spec`, a refinement of
EventLoop) shows that they hold. `Destroy` follows ownership transitively, as C++ destructors do.
The wrappers of `WhenAll` belong to the awaitable in the parent's frame; those of `WhenAny` are
detached and own their child. Exceptions are named after the frame that threw them, so that
`GroupOutcome` can tell which failure a parent sees.

**ManualScheduler** takes the coroutines' actions from EventLoop (`Body == INSTANCE EventLoop`) and
has its own driver: `AdvanceTo` sets `target`; `ResumeReady` (a turn of `DrainReady`), `FireTimer` and
`AdvanceReturn` are the parts of its loop, with the state that coroutines change in between.
`AdvanceBy(d)` and `RunUntilIdle` call `AdvanceTo`. The history variable `late` holds the handles that
were scheduled for a time already past.

**PumpScheduler** covers `PumpTimerDriver` and both hosts. `posted` is Qt's queue of functors or the
queue of `ResumeMessage`s, `alarm` the `QTimer` or the `SetTimer` slot, `expired` a timeout or
`WM_TIMER` that waits to be dispatched, `stack` the coroutines that run, one in the nested pump of
the next. The driver's calls are split where the clock may move or another thread may post:
`ScheduleAt` into `PostOrPark` and `Rearm`, `OnTimerExpired` into `DispatchTimer` (which reads the
clock), one `PostDue` per entry, and `Rearm` (which reads it again). The hosts differ where their
documentation does: Qt's timer is one-shot and stopping or starting it takes an undelivered
timeout back; `SetTimer` is periodic, clamped, its message is delivered only when no posted message
waits and survives `KillTimer`.

**TracingScheduler** splits a call of `Post` or `ScheduleAt` in two: `Record` (the event is appended, the
sink is called) and `Forward`. In between, `calls` holds the calls whose sink has not returned, and
anything may happen: further calls, resumptions of coroutines, `Clear`, or an exception of the sink
(`SinkThrows`), which takes the call back. The forwarding is `Enqueue` or `Park` of module Scheduler
*without* their guards; `ImplementsScheduler` says that the guards hold.

**FetchBackend** has the properties as the record `ui`, the stop state that `_source` refers to as a number,
each sequence's token and position in `frame`, and in `calls` the calls on the GUI thread's stack, each
with the operations it has left. A setter that changes its property is `emitting`: until it goes on, slots
may call `start()` and `cancel()` or run a nested pump that resumes a sequence. `AtBoundary` is a turn of
`RunSequence`'s loop up to its `co_await`, or what follows the loop.

## 3. Runs

| Run | Instance | Distinct states | What it shows |
|---|---|---|---|
| `timer_heap` | 2 handles, 3 moments, 4 insertions | 9,081 | `ImplementsQueue`: the heap pops as the sorted FIFO queue does, and the deadline at its front is the next one to pop. |
| `event_loop` | 4 handles, time 0..3 | 53,100 | `ImplementsScheduler`; `RegisteredOnce`, `SnapshotServed`, `TimersInOrder`; `RunOnceReturns`; `EveryHandleServed`: `Run` starves nobody, self-posting coroutines or not. |
| `coro_tasks` | 5 frames: await, spawn, move, throw, all, foreign awaitables | 1.9 million | `OneOwner`, `NoDanglingHandle` and `UsesLoopCorrectly` even when `Run` abandons suspended coroutines; `RunFinishes`: it leaves behind only what a foreign event holds back. |
| `coro_combinators` | 8 frames: all, any, sleep, throw | 929 thousand | `GroupOutcome`, `FirstWins`, `NoneForgotten`, `DestroyedAtRest`, `TerminatesForSpawned`, `RunFinishes`, ... |
| `coro_live` | 5 frames: await, sleep, all, any, RunOnce | 151 thousand | `Completes`: no wake-up is lost, also of coroutines that `RunOnce` has left in the queues. |
| `manual` | 3 handles, time 0..3 | 18,176 | `ImplementsScheduler`, `NoneLeftBehind`, `SeesOwnDeadline`, `AdvanceReturns`. |
| `pump` | 3 handles, time 0..5, 2 ticks per ms, both hosts | 145,186 | `ImplementsScheduler`, up to and after the destructor; `NeverOversleeps`, `TimersInOrder`, `EveryHandleServed`. |
| `tracing` | 2 handles, 3 moments, 3 calls | 231,248 | `ImplementsScheduler`: the wrapped scheduler is used correctly whatever the sink does; `TraceIsTrue`: the last event about a registered handle tells how it got there. |
| `fetch` | 3 sequences | 34,524 | `TellsTheTruth`, `CancelHonoured`, `BusyEnds`. |
| `coro_abandon`, `coro_stale`, `manual_late` | | | Violations, see section 6. |

**Bounds.** *Time* has as many readings as it takes for several distinct future deadlines next to
elapsed ones. Only the order of deadlines and the present matters, so three handles and four moments
give every relation between two timers and the clock. *Handles*: a property relates two handles; a
third runs meanwhile, and `event_loop` has a fourth so that RunOnce's snapshot, a late post and a timer meet. *Frames*:
8 are a root, two children, two wrappers and, inside one of the children, a child with its wrapper and
a spare, so combinators nest. `MaxHeld` (2) is the number of unused `Task`s a body may hold and with
it the width of a group. Frames are never reused: a finished frame stays in the state as "destroyed",
which is what lets `NoDanglingHandle` see a stale handle. `Uses` selects the primitives bodies use, because all
of them at once are out of reach; all of `coro_tasks`, `coro_combinators` and `coro_live` have groups, and each
primitive meets awaiting and `Run` in one of them.
In `CoroRuntime` a sleep has a deadline in the future (otherwise bodies sleep infinitely often at
one moment); elapsed deadlines are EventLoop's. In `pump` the last clock reading stands for all later
ones, two ticks to a millisecond make rounding visible, and the clamp of 1..2 ms cuts both ways.
In `tracing` three calls nest three deep; a handle that is forwarded may be resumed and passed again. In
`fetch` three starts allow a start in a slot of a start, or of the end of a sequence, with a third behind
it; the table of fetches has its three rows.

`CHECK_DEADLOCK FALSE` stands where frames are used up in the end (`CoroRuntime`) or the scheduler
is destroyed for good (`PumpScheduler`, `TracingScheduler`, `FetchBackend`).

**Fairness.** EventLoop assumes weak fairness of `LoopStep` (the thread inside `Run` or `RunOnce` keeps
going), of `GiveUpControl` (scheduling is cooperative, so a coroutine that was resumed suspends at
some time) and of `Tick` (a clock that stands still fires no timer; `ManualClock` is advanced by the
test). Nothing is assumed about the program calling `Run` or about what coroutines post. `CoroRuntime`
assumes that steps happen while a driver is on the stack. ManualScheduler assumes that the
test's thread runs and that coroutines suspend, and `AdvanceReturns` has the premise that
they stop registering new work, without which a drive may spin, as its header says.
PumpScheduler assumes that the pump pumps, the host timer fires sooner or later, time passes and
bodies give up control, and `EveryHandleServed` has the premise that the program stops registering
handles and opening dialogs: on Win32 posted messages overtake `WM_TIMER`, so coroutines that post
for ever starve timers. No dialog needs to close. FetchBackend assumes that calls and slots return, and
that the scheduler resumes what is posted and what has slept, which is PumpScheduler's
`EveryHandleServed`.

Each property of a passing run has a mutant in `PROJECT.json`: a definition placed right before the
one it replaces, marked "Mutant" and equal to it but for one plausible mistake, under which the
property fails.

## 4. Proofs

All of the following hold for every set of handles and every bound on time, those about CoroRuntime for
every number of frames and of tasks that a body may hold, those about PumpScheduler for every
granularity of the clock, rounding and clamp, those about TimerHeap for every number of insertions and
every arrangement of the heap, those about FetchBackend for every number of calls of `start()`, nested
to any depth.

| Module | Theorem | Statement |
|---|---|---|
| `EventLoop_proofs` | `Invariant`, `TypeCorrect` | `Spec => []IInv`, `Spec => []TypeOK` |
| | `NeverRegisteredTwice` | `Spec => []RegisteredOnce` |
| | `RunOnceServesItsSnapshot` | `Spec => []SnapshotServed` |
| | `TimersAlwaysSorted` | `Spec => []TimersSorted` |
| | `NothingLost`, `TimersFireInOrder` | `Spec => NoneLost`, `Spec => TimersInOrder` |
| | `EventLoopIsAScheduler` | `Spec => ImplementsScheduler` |
| `TimerHeap_proofs` | `Invariant`, `HeapStaysOrdered` | `Spec => []IInv`, `Spec => [](TypeOK /\ IsHeap(entries) /\ SequenceOK)` |
| | `HeapIsAQueue` | `Spec => ImplementsQueue` |
| `ManualScheduler_proofs` | `TypeCorrect`, `NothingLeftBehind` | `Spec => []TypeOK`, `Spec => []NoneLeftBehind` |
| | `EachTimerSeesItsDeadline` | `Spec => SeesOwnDeadline` |
| | `ManualIsAScheduler` | `Spec => ImplementsScheduler` |
| `TracingScheduler_proofs` | `TracerTypeCorrect` | `TracingSpec => []TypeOK` |
| | `TracerIsAScheduler` | `TracingSpec => ImplementsScheduler` |
| | `TraceStaysTrue` | `TracingSpec => []TraceIsTrue` |
| `PumpScheduler_proofs` | `Invariant`, `TypeCorrect` | `Spec => []IInv`, `Spec => []TypeOK` |
| | `AlwaysInTime`, `AlwaysEachInTime` | `Spec => []NeverOversleeps`, `Spec => []EachInTime` |
| | `TimersHandedOverInOrder` | `Spec => TimersInOrder` |
| | `PumpIsAScheduler` | `Spec => ImplementsScheduler` |
| `CoroCompletion_proofs` | `TypeCorrect`, `OwnedOnce`, `HandlesAlive` | `Spec => []TypeOK`, `Spec => []OneOwner`, `Spec => []NoDanglingHandle` (1) |
| | `LoopUsedCorrectly`, `TerminatesForOwn` | `Spec => UsesLoopCorrectly`, `Spec => TerminatesForSpawned` (1) |
| | `OutcomeHandedOn`, `FirstToFinishWins` | `Spec => GroupOutcome`, `Spec => FirstWins` (1) |
| | `NothingLeft` | `Spec => RunFinishes` (1) |
| | `NoneLost` | `Spec => []NoneForgotten` (2) |
| | `RootDone`, `AtRest` | `Spec => RootCompletes`, `Spec => DestroyedAtRest` (2) |
| `FetchBackend_proofs` | `Invariant`, `CallsStayInStages` | `Spec => []IInv`, `Spec => [](TypeOK /\ StackOK /\ OnePlaceOK /\ SpawnedOK)` |
| | `BackendTellsTheTruth`, `CancelIsHonoured` | `Spec => []TellsTheTruth`, `Spec => CancelHonoured` |

(1) for programs that do not use both `WhenAny` and events of their own; (2) for programs without
events of their own. See CoroRuntime below.

The assumptions are those of the modules: `NoHandle` is not a handle and `MaxTime` is a natural number;
for the tracer, moments are integers, zero among them, and `MaxCalls` is a natural number; for the pump,
a millisecond is at least one tick, rounding is by no negative number of ticks, and the clamp is a nonempty
interval of positive numbers; for `CoroRuntime`, the bounds are natural numbers; for the heap, deadlines are natural numbers and so is
`MaxSchedules`; for the backend, `MaxStarts` is a natural number.

**EventLoop.** The inductive invariant is `IInv == TypeOK /\ SnapshotServed /\ RegisteredOnce /\ TimersSorted`.
Type correctness alone is not inductive: `RunOnceResume` takes the head of `ready`, which is a handle only if
the queue is not empty, and what says so is `SnapshotServed` (the budget never exceeds the length of
`ready`). That in turn holds because between two turns coroutines only append to `ready`, so the
snapshot remains its prefix. The argument for `RegisteredOnce` runs over the *list* of all places,
`ready` followed by the timers' handles and the running coroutine: the lemmas `OnceAppend`,
`OnceSchedule`, `OnceDrain` and `OncePop` say that the four ways the loop touches a queue keep its
elements distinct, and each action uses one or two of them. `TimersInOrder` needs `TimersSorted`,
because `DrainExpiredTimers` stops at the first entry that is not due, and `RegisteredOnce`, because "the
i-th entry has left" is said of its handle.

**EventLoop refines Scheduler.** The queues map to the sets of their elements. A pop from a sequence removes
an element from the set only if it occurs once, which is `RegisteredOnce`; a drain is `Wait` or `Resume` with
the entries of `Due` as the set `due`; `RunResume` is a drain and a resumption in one step.

**ManualScheduler** has EventLoop's coroutines, and its proofs have EventLoop's: `P` instantiates the
proof module of EventLoop with the state of ManualScheduler (`mode` is `run` while a drive is under way).
`CallIsBodyStep` shows that every call is a step of EventLoop's coroutines, for which `IInvStep` and
`BodyRefines` are there already; only the driver's three actions need proofs of their own. The invariant adds
`NoneLeftBehind` to EventLoop's; it needs `TimersSorted`, since the timers that a drive passes over are judged
by the first of them.

**TracingScheduler.** `IInv` adds to `TypeOK` that handles in transit are distinct, that each of them
is free or that of a coroutine still running, and that the scheduler stays open while a call is under way:
without it, `Forward` could register a handle twice, or after the destructor. It is stable because `MayPass`
demands it on entry and because a coroutine with its handle in transit cannot leave before the call returns.
`TraceIsTrue` adds to it that a handle has one place, that each call in progress finds its event in the
recording, behind those of the calls that it interrupted, and that no event is ahead of the clock (`TraceInv`).

**PumpScheduler.** `NeverOversleeps` says of a driver at rest that the host's timer is not set too late. That is
about the *first* entry, so it means something for the others only if `timers` is sorted, and it holds
between the two readings of the clock that a step of the driver takes only if the earlier one is not ahead of
the later (`DriverOK`). `OnePlace` says that a handle is in one place among `posted`, `timers` and `stack`:
`OnTimerExpired` moves entries from one to the next, one at a time, while other threads post and a nested
pump resumes what has been moved. The refinement of Scheduler maps `posted` to the set of ready handles and needs
`OnePlace` as EventLoop's needs `RegisteredOnce`.

**CoroRuntime.** The inductive invariant is `Inv /\ More`. `Inv` (`CoroRuntime_proofs`) is about what is true
at each suspension point:

* `LoopInv` is EventLoop's invariant of the loop below. `L` instantiates the proofs about EventLoop with
  frames as handles; a call of a coroutine is shown to be a step of EventLoop, by the guards that
  CoroRuntime does not state, and the loop's part of the invariant follows from that.
* `FreshOK`: nothing refers to memory that is not allocated yet. `PlacesOK`: what is registered is suspended at a
  point where a scheduler may resume it; what runs is `current`.
* `OneOwner`, `OwnsOK`, `UnstartedOK`: each live frame that is not detached and not the root has one owner, and
  for one of three reasons (not started, awaited, a wrapper of the owner's group). So `Destroy`, which
  follows owners, takes no frame that somebody waits for: the lemmas about it rest on these.
* `AwaitOK`, `ContOK`: awaiting and `promise.continuation` are each other's inverse.
* `GroupsOK`, `WrappersOK`, `ForksOK`, `KidsOK`, `CountsOK`: for each child of a group there is one wrapper or,
  until the parent has come to it, an unstarted task; `remaining` is the number of those that have
  not reported; the parent is registered exactly when the count or the winner says so. The last one is why
  a parent is posted once: `OnChildDone` decides by the counter alone.

`More` (`CoroCompletion_proofs`) is about how things end: `WakersOK` (a frame that nobody else can resume is
with the loop, and a detached frame goes when it has finished), `OutcomeOK` (what a wrapper knows of its child, and
what it has told the group, is what happened to the child) and `RankOK`: frames can be numbered such that
what a frame owns or waits for has a smaller number, so no ring of frames keeps itself alive. When `Run` returns,
the queues are empty; of the frames that still wait, though not for an event, take one of least rank: what it
waits for does not wait, so it has finished, and by `WakersOK` and `CountsOK` its waiter has been resumed, a
contradiction. Of the frames that outlive the root take one of greatest rank: its owner outlives the root as
well. Hence `NothingLeft`. What "for an event" means is `HeldBack`: a set that has the frames at events and with
each frame those that wait for it. `RunReturnLeaves` holds for every such set; `Stuck`, which collects them level by level,
is one, because a level that adds nothing ends the growth and there are only `MaxFrames` frames (`StuckIs`); without
events, so is the empty set (`NothingHeldBack`). The numbering is not part of the state: each step that adds an
edge shows another one.

`RunReturn` is the step for which the hypotheses are there. It destroys the root in whatever state it
is in. Without events that state is `final`, which `RunReturnMeans` derives from `Inv /\ More` before the step. With
events it may be anything (`coro_abandon`), and then a `WhenAny` in it leaves detached wrappers behind
that will post a destroyed parent (`coro_stale`): with both, `NoDanglingHandle` is false. With events but no
`WhenAny`, all that goes wrong is that the program is not finished, and the safety theorems stand.

**FetchBackend.** What makes it hard is that `start()` and the sequence are cut into pieces by the slots on
their signals, and that a slot may call `start()` and `cancel()` again. The inductive invariant describes each
call in progress by what is left of it:

* `StackOK`: what is left of a call is one of the stages of `start()` (`StartStage`) or of a sequence
  (`SequenceStage`). `OnePlaceOK`: a sequence is ready, parked or running, and no two calls are its own. `SpawnedOK`: the
  calls of `start()` in progress and the sequences spawned are together as many as stop states were made, so
  there is a stop state and an unused frame for each spawn to come.
* `TruthOK`: unless calls have overlapped, there is `OneActivity`: one call with something left to do, whose
  stage fits the properties as they are now (`Active`, by `Fits` and `Busy`), or one sequence that sleeps
  (`Sleeping`), or nothing (`Resting`). `Advances` takes a setter from one stage to the next and shows that the
  properties keep up. `TellsTheTruth` alone is not inductive, for it says nothing of the middle of a call.

`CancelHonoured` nests three temporal operators. Its non-temporal core is `Doomed(q)`: the token of `q` is
stopped and whatever `q` has left to do on the stack does not wait. `WakesDoomed` shows that a sequence whose token
is stopped while it waits is doomed, `StaysDoomed` that it remains so under every step, and that a doomed sequence that
is awake stays awake: a stop state never loses its stop, since `start()` makes a new one.

**TimerHeap.** The model lets `push_heap` and `pop_heap` choose any heap arrangement. That the front of a heap is
due before all others (`FrontIsFirst`) is an induction over the indices in textbooks; here it is an argument by least
counterexample: of the places whose entry is due before the front, take the first; its parent's entry is not due
before the front, and by the heap order neither is its own. The refinement mapping counts, for each entry, those
due before it (`PopOrder`), so the proof has to know that the counts are 0, 1, 2 and so on. It works with
`Ranking(p, S)`, "`p` lists the entries of `S` in the order of `Later`": the invariant (`HeapOK`) says that the entries
have a ranking, because `Schedule` inserts one entry into it and `PopDue` takes its first, and `OrderIs` shows that
then the mapping is that ranking. `SequenceOK` says that no two places of the vector hold one sequence number and that
all are below `nextSequence`: by the first, `Later` orders any two entries; the second makes a new entry the
last of those with its deadline, which is where `Schedule` on the sequence puts it.

**TimerQueue.** What all schedulers rest on is at the head of `EventLoop_proofs`: `DueCount`, defined by a choice,
exists and is unique on any sequence of entries (by the well-ordering of the naturals), `Due` and `NotDue` split the
sequence, and `Schedule` adds one entry at a place where everything before is no later. The other
proof modules cite these facts through their instances of `EventLoop_proofs`.

Only model-checked: liveness, which the prover cannot do (`RunOnceReturns`, `EveryHandleServed`, `AdvanceReturns`,
`Completes`, `BusyEnds`). Every other property of a passing run is stated by a theorem. What the theorems leave
out is programs that use both `WhenAny` and events of their own: there `NoDanglingHandle` is false (`coro_stale`).

## 5. What is not modelled

* **Re-entry of a driver**: a coroutine that calls `Run`, `RunOnce` or `AdvanceTo` on the scheduler
  that is running it. Nothing in the repository does it and the documentation is silent, but the
  code would not survive it (`RunOnce` would pop an empty deque); a hazard in `PROJECT.json`.
* Result values, and a handle obtained by `Task::Native` that is resumed beside the owner: the
  contract ("borrowed") is one that bodies in the model cannot break.
* Overflow of `Now() + duration` (signed 64-bit nanoseconds), the width of Qt's timer interval,
  the 10000 messages of a Win32 queue, failures of window creation.
* In FetchBackend: what the payloads say, and a slot that deletes the backend whose signal it handles.
* Narrowings that no property turns on: `When` in CoroRuntime combines all the tasks that a body holds, in the order
  in which they were created, and a body's parameters die when the body ends, not with its frame; behind the tracer
  nobody transfers into another coroutine and a `ScheduleAt` that it forwards parks the handle even if it is due;
  `Fetch` of the backend (`FetchBackend.cpp:49-53`), a coroutine that sleeps once, is the sleep.
* The console demos (`demo_dashboard.cpp`, `demo_spinner_cancel.cpp`, `KeyPress.hpp`): coroutines over the
  primitives that `CoroRuntime` lets bodies use in any order, and terminal I/O. The build files have no
  run-time state.

## 6. Where documentation and code differ

* **`coro_abandon`.** "Drive the loop until it is fully drained: the root task has completed"
  (`EventLoop.hpp:54`). `Run` leaves its loop when nothing is ready and no timer is pending
  (`EventLoop.cpp:75`) and destroys the root, finished or not. A root that awaits something the loop does
  not know of is torn down in mid-await.
* **`coro_stale`.** "Draining is what guarantees that no coroutine handle from this run survives into a
  later `Run`/`RunOnce` call" (`EventLoop.hpp:56`). The state of a `WhenAny` keeps its parent's handle
  (`WhenAny.hpp:33`) and belongs to detached wrappers; if the first run abandoned the parent, a later
  one posts and resumes the destroyed frame.
* **`manual_late`.** "Each timer observes `Clock().Now()` equal to its own deadline"
  (`ManualScheduler.hpp:27-28`): not one that was scheduled for a time already past
  (`ManualScheduler.cpp:52` takes the later of the two).

One more, which the runs exclude rather than show: "No-op while a sequence is already running"
(`FetchBackend.hpp:85`) holds once `_busy` is set, but `start()` emits `resultChanged` and `stepChanged` before
that (`FetchBackend.cpp:87-89`). A slot on one of these that calls `start()` spawns a second sequence.
`TellsTheTruth` excepts behaviours in which that has happened (`overlapped`); `CancelHonoured` and `BusyEnds`
hold in them as well.

## 7. Plan

Done, in this order: TimerQueue with its heap; EventLoop with its proofs; CoroRuntime; ManualScheduler;
PumpScheduler; the abstract Scheduler with its refinements; TracingScheduler; FetchBackend; the proofs about
ManualScheduler, TracingScheduler, PumpScheduler and CoroRuntime; those about TimerHeap and FetchBackend. Every
safety property and every refinement that a run checks is the subject of a theorem. Left: re-entry of a driver, and
what `WhenAny` keeps of its promises beside events, should the library come to define either.
