---------------------------- MODULE FetchBackend ----------------------------
(***************************************************************************)
(* demos::FetchBackend, the object behind the QML demo: start() spawns a   *)
(* coroutine that walks a table of simulated fetches and reports progress  *)
(* through properties; cancel() requests a stop that the coroutine looks   *)
(* for between two fetches.                                                *)
(*                                                                         *)
(* Everything runs on the GUI thread, but not one call after another: a    *)
(* setter that changes its property emits a signal, and a slot connected   *)
(* to it may call start() and cancel() again, or run a nested pump, before *)
(* the setter returns.  The scheduler is taken at its word: its actions    *)
(* are those of module Scheduler.  Time is left out, so the order in which *)
(* sleeping coroutines wake is open.  A slot does not delete the backend   *)
(* whose signal it handles.                                                *)
(***************************************************************************)
EXTENDS Sequences, FiniteSets, Integers

CONSTANT MaxStarts  \* bound: how often start() finds the backend idle

ASSUME StartsAssumption == MaxStarts \in Nat

VARIABLES ready, parked, running, open,  \* _scheduler, and whether the backend lives
          ui,          \* the properties: _status, _step, _busy, _result
          source,      \* _source: the number of the stop state it refers to
          stopped,     \* the stop states on which request_stop was called
          frame,       \* of each RunSequence: its token, and the fetch it is at
          calls,       \* calls in progress on the GUI thread, innermost last
          overlapped   \* history: start() ran into another before it was busy

scheduler == <<ready, parked, running, open>>
vars == <<scheduler, ui, source, stopped, frame, calls, overlapped>>

Sequence == 1..MaxStarts
NoSequence == 0

Pump == INSTANCE Scheduler WITH Handle <- Sequence, Moment <- {0}, now <- 0

-----------------------------------------------------------------------------

\* The table of fetches, by the status that is shown while each one runs.
FetchSteps == <<"Logging in", "Fetching profile", "Fetching posts">>

stepCount == Len(FetchSteps)

Status == {"Idle", "Cancelled", "Done"} \cup {FetchSteps[k] : k \in 1..stepCount}

TypeOK ==
  /\ ready \cup running \subseteq Sequence /\ open \in BOOLEAN
  /\ parked \subseteq [when : {0}, handle : Sequence]
  /\ ui \in [status : Status, step : 0..stepCount, busy : BOOLEAN, result : BOOLEAN]
  /\ source \in 0..MaxStarts /\ stopped \subseteq 0..MaxStarts
  /\ frame \in [Sequence -> [token : 0..MaxStarts, fetch : 0..stepCount]]
  /\ \A i \in 1..Len(calls) : calls[i].seq \in running \cup {NoSequence}
  /\ overlapped \in BOOLEAN

Init ==
  /\ Pump!Init
  /\ ui = [status |-> "Idle", step |-> 0, busy |-> FALSE, result |-> FALSE]
  /\ source = 0 /\ stopped = {}
  /\ frame = [q \in Sequence |-> [token |-> 0, fetch |-> 0]]
  /\ calls = <<>> /\ overlapped = FALSE

-----------------------------------------------------------------------------
(* Calls in progress: of start(), or of a sequence that was resumed, with  *)
(* what each has left to do.                                               *)

Set(property, value) == [op |-> "set", property |-> property, value |-> value]
Spawn == [op |-> "spawn"]
Check == [op |-> "check"]
Fetch == [op |-> "fetch"]

Call(seq, todo) ==
  calls' = Append(calls, [seq |-> seq, todo |-> todo, emitting |-> FALSE])

Top == calls[Len(calls)]

\* The innermost call has come to an operation of this kind.
Reached(op) == calls # <<>> /\ Top.todo # <<>> /\ Head(Top.todo).op = op

Continue(todo, emitting) ==
  calls' = [calls EXCEPT ![Len(calls)].todo = todo,
                         ![Len(calls)].emitting = emitting]

Return == calls' = SubSeq(calls, 1, Len(calls) - 1)

\* The pump, or a slot on a signal that a setter emits, may make a call.
MayCall == open /\ (calls # <<>> => Top.emitting)

\* A setter: the signal is emitted only if the property changes.
SetProperty ==
  /\ Reached("set")
  /\ LET op == Head(Top.todo)
         changes == ui[op.property] # op.value
     IN  /\ ui' = [ui EXCEPT ![op.property] = op.value]
         /\ Continue(Tail(Top.todo), changes)
  /\ UNCHANGED <<scheduler, source, stopped, frame, overlapped>>

-----------------------------------------------------------------------------
(* start() and cancel().  A start() that finds the backend busy and a      *)
(* cancel() that finds it idle do nothing.                                 *)

\* Some start() has passed its check of _busy but not set it yet.
Starting == \E i \in 1..Len(calls) : Len(calls[i].todo) > 1 /\ calls[i].seq = NoSequence

\* Mutant: the result of the previous sequence is left in place.
StartKeepsResult ==
  /\ MayCall /\ ~ui.busy /\ source < MaxStarts
  /\ source' = source + 1
  /\ Call(NoSequence, <<Set("step", 0), Set("busy", TRUE), Spawn>>)
  /\ overlapped' = (overlapped \/ Starting)
  /\ UNCHANGED <<scheduler, ui, stopped, frame>>

Start ==
  /\ MayCall /\ ~ui.busy /\ source < MaxStarts
  /\ source' = source + 1
  /\ Call(NoSequence, <<Set("result", FALSE), Set("step", 0), Set("busy", TRUE), Spawn>>)
  /\ overlapped' = (overlapped \/ Starting)
  /\ UNCHANGED <<scheduler, ui, stopped, frame>>

\* The last line of start(); the token is that of _source by then.
SpawnSequence ==
  LET q == Cardinality({p \in Sequence : frame[p].token # 0}) + 1
  IN  /\ Reached("spawn")
      /\ Pump!Post(q)
      /\ frame' = [frame EXCEPT ![q].token = source]
      /\ Return
      /\ UNCHANGED <<ui, source, stopped, overlapped>>

Cancel ==
  /\ MayCall /\ ui.busy
  /\ stopped' = stopped \cup {source}
  /\ UNCHANGED <<scheduler, ui, source, frame, calls, overlapped>>

-----------------------------------------------------------------------------
(* RunSequence.                                                            *)

\* Mutant: progress is counted on the property, not in the coroutine.
ResumeCounting(q) ==
  /\ MayCall
  /\ \E due \in SUBSET parked : Pump!Resume(due, q)
  /\ Call(q, IF frame[q].fetch = 0 THEN <<Check>>
                                   ELSE <<Set("step", ui.step + 1), Check>>)
  /\ UNCHANGED <<ui, source, stopped, frame, overlapped>>

\* The pump, outermost or run by a slot, resumes a sequence: at its start, or
\* after a fetch.
Resume(q) ==
  /\ MayCall
  /\ \E due \in SUBSET parked : Pump!Resume(due, q)
  /\ Call(q, IF frame[q].fetch = 0 THEN <<Check>>
                                   ELSE <<Set("step", frame[q].fetch), Check>>)
  /\ UNCHANGED <<ui, source, stopped, frame, overlapped>>

\* Mutant: a cancelled sequence leaves the backend busy.
AtBoundaryBusy ==
  LET f == frame[Top.seq]
  IN  /\ Reached("check")
      /\ \/ /\ f.token \in stopped
            /\ Continue(<<Set("status", "Cancelled")>>, FALSE)
            /\ UNCHANGED frame
         \/ /\ f.token \notin stopped /\ f.fetch < stepCount
            /\ Continue(<<Set("status", FetchSteps[f.fetch + 1]), Fetch>>, FALSE)
            /\ frame' = [frame EXCEPT ![Top.seq].fetch = @ + 1]
         \/ /\ f.token \notin stopped /\ f.fetch = stepCount
            /\ Continue(<<Set("result", TRUE), Set("status", "Done"),
                          Set("busy", FALSE)>>, FALSE)
            /\ UNCHANGED frame
      /\ UNCHANGED <<scheduler, ui, source, stopped, overlapped>>

\* Mutant: the token is looked at only before the first and after the last fetch.
AtBoundaryRarely ==
  LET f == frame[Top.seq]
      looks == f.fetch \in {0, stepCount}
  IN  /\ Reached("check")
      /\ \/ /\ f.token \in stopped /\ looks
            /\ Continue(<<Set("status", "Cancelled"), Set("busy", FALSE)>>, FALSE)
            /\ UNCHANGED frame
         \/ /\ ~(f.token \in stopped /\ looks) /\ f.fetch < stepCount
            /\ Continue(<<Set("status", FetchSteps[f.fetch + 1]), Fetch>>, FALSE)
            /\ frame' = [frame EXCEPT ![Top.seq].fetch = @ + 1]
         \/ /\ f.token \notin stopped /\ f.fetch = stepCount
            /\ Continue(<<Set("result", TRUE), Set("status", "Done"),
                          Set("busy", FALSE)>>, FALSE)
            /\ UNCHANGED frame
      /\ UNCHANGED <<scheduler, ui, source, stopped, overlapped>>

\* The boundary between two fetches, before the first and after the last.
AtBoundary ==
  LET f == frame[Top.seq]
  IN  /\ Reached("check")
      /\ \/ /\ f.token \in stopped
            /\ Continue(<<Set("status", "Cancelled"), Set("busy", FALSE)>>, FALSE)
            /\ UNCHANGED frame
         \/ /\ f.token \notin stopped /\ f.fetch < stepCount
            /\ Continue(<<Set("status", FetchSteps[f.fetch + 1]), Fetch>>, FALSE)
            /\ frame' = [frame EXCEPT ![Top.seq].fetch = @ + 1]
         \/ /\ f.token \notin stopped /\ f.fetch = stepCount
            /\ Continue(<<Set("result", TRUE), Set("status", "Done"),
                          Set("busy", FALSE)>>, FALSE)
            /\ UNCHANGED frame
      /\ UNCHANGED <<scheduler, ui, source, stopped, overlapped>>

\* co_await Fetch(...): the coroutine sleeps for the latency of the fetch.
AwaitFetch ==
  /\ Reached("fetch")
  /\ Pump!Stops(Top.seq) /\ Pump!Park(0, Top.seq)
  /\ Return
  /\ UNCHANGED <<ui, source, stopped, frame, overlapped>>

\* The coroutine ends and its detached frame destroys itself.
Finish ==
  /\ calls # <<>> /\ Top.todo = <<>>
  /\ Pump!Leave(Top.seq)
  /\ Return
  /\ UNCHANGED <<ui, source, stopped, frame, overlapped>>

-----------------------------------------------------------------------------

\* ~FetchBackend, then the destructor of its scheduler.
Destroy ==
  /\ calls = <<>>
  /\ Pump!Close
  /\ stopped' = stopped \cup {source}
  /\ UNCHANGED <<ui, source, frame, calls, overlapped>>

CallStep == SetProperty \/ SpawnSequence \/ AtBoundary \/ AwaitFetch \/ Finish

ResumeStep == \E q \in Sequence : Resume(q)

Next == CallStep \/ ResumeStep \/ Start \/ Cancel \/ Destroy

Spec == Init /\ [][Next]_vars

(* The GUI thread keeps running what it was called for, slots return, and  *)
(* the pump serves what is posted and what has slept long enough (which    *)
(* PumpScheduler's EveryHandleServed says).                                *)
FairSpec == Spec /\ WF_vars(CallStep) /\ WF_vars(ResumeStep)

-----------------------------------------------------------------------------

Waiting == ready \cup Pump!HandlesOf(parked)

\* Sequences that have been spawned and have not reported their end.
InFlight ==
  Waiting \cup {calls[i].seq : i \in {j \in 1..Len(calls) :
                  calls[j].seq # NoSequence /\ calls[j].todo # <<>>}}

\* A start() that has set _busy is about to spawn its sequence.
Spawning == \E i \in 1..Len(calls) : calls[i].todo = <<Spawn>>

(* What the properties tell the UI is so, at every signal a slot may run   *)
(* on: busy is "whether a fetch sequence is currently in flight"           *)
(* (FetchBackend.hpp:73), there is one at most, and when there is none the *)
(* status says how the last one ended and the result goes with it.  Only a *)
(* start() that a slot calls from within start(), before _busy is set      *)
(* (FetchBackend.cpp:82-89), upsets this.                                  *)
BusyIsTrue == open =>
  /\ ui.busy <=> InFlight # {} \/ Spawning
  /\ Cardinality(InFlight) <= 1

RestIsConsistent ==
  open /\ calls = <<>> /\ InFlight = {} =>
    /\ ui.status \in {"Idle", "Cancelled", "Done"}
    /\ ui.result <=> ui.status = "Done"
    /\ ui.result => ui.step = stepCount

TellsTheTruth == overlapped \/ (BusyIsTrue /\ RestIsConsistent)

(* Cancelling works at the next boundary (FetchBackend.hpp:89-90): a       *)
(* sequence whose token is stopped while it waits does not wait again,     *)
(* however start() and cancel() are called meanwhile.                      *)
CancelHonoured ==
  \A q \in Sequence :
    [](q \in Waiting /\ frame[q].token \in stopped
         => [](q \notin Waiting => [](q \notin Waiting)))

(* The backend does not stay busy: cancelled, finished or overlapped by    *)
(* another, what is in flight ends and gives the Start button back, unless *)
(* the backend goes first.                                                 *)
BusyEnds == ui.busy ~> (~ui.busy \/ ~open)

=============================================================================
