----------------------------- MODULE Scheduler ------------------------------
(***************************************************************************)
(* Coro::IScheduler: what a scheduler promises to coroutines and what they *)
(* promise to it.  A handle that was posted, or whose time has come, is    *)
(* resumed at most once, in no promised order; a scheduler that is         *)
(* destroyed drops the handles it has.  In return a handle is registered   *)
(* only while it is suspended and not registered already.                  *)
(*                                                                         *)
(* EventLoop, ManualScheduler and PumpScheduler implement this machine;    *)
(* TracingScheduler and FetchBackend are built upon it.                    *)
(***************************************************************************)
EXTENDS Integers

CONSTANTS Handle,  \* coroutine handles
          Moment   \* the clock readings and deadlines in use

VARIABLES ready,    \* the handles that may be resumed
          parked,   \* [when, handle]: those that wait for a deadline
          running,  \* coroutines that have been resumed and not suspended since
          now,      \* Clock().Now()
          open      \* the scheduler has not been destroyed

contractVars == <<ready, parked, running, now, open>>

HandlesOf(entries) == {e.handle : e \in entries}

\* A coroutine that holds still and that nothing is going to resume yet.
Free(h) == h \notin ready \cup HandlesOf(parked) \cup running

Init ==
  /\ ready = {} /\ parked = {} /\ running = {}
  /\ now = 0 /\ open = TRUE

-----------------------------------------------------------------------------
(* Where a handle goes that is passed to Post or to ScheduleAt.  One that  *)
(* is due at once need not be parked.                                      *)

Enqueue(h) == ready' = ready \cup {h} /\ UNCHANGED <<parked, now, open>>

Park(when, h) ==
  /\ parked' = parked \cup {[when |-> when, handle |-> h]}
  /\ UNCHANGED <<ready, now, open>>

Register(when, h) == open /\ (Park(when, h) \/ (when <= now /\ Enqueue(h)))

Post(h) == open /\ Free(h) /\ Enqueue(h) /\ UNCHANGED running

ScheduleAt(when, h) == Free(h) /\ Register(when, h) /\ UNCHANGED running

-----------------------------------------------------------------------------
(* How a running coroutine gives up control: registered by its awaitable,  *)
(* suspended elsewhere or finished, or transferring to another coroutine.  *)

Stops(h) == h \in running /\ running' = running \ {h}

Yield(h) == open /\ Stops(h) /\ Enqueue(h)

Sleep(when, h) == Stops(h) /\ Register(when, h)

Leave(h) == Stops(h) /\ UNCHANGED <<ready, parked, now, open>>

Transfer(h, g) ==
  /\ h \in running /\ Free(g)
  /\ running' = (running \ {h}) \cup {g}
  /\ UNCHANGED <<ready, parked, now, open>>

-----------------------------------------------------------------------------
(* What the scheduler does: let time pass, move entries that have become   *)
(* due to those that are ready, resume one of these.                       *)

TimePasses == now' \in Moment /\ now' >= now

Elapse(due) ==
  /\ TimePasses
  /\ \A e \in due : e.when <= now'
  /\ parked' = parked \ due
  /\ UNCHANGED open

Wait(due) ==
  /\ Elapse(due)
  /\ ready' = ready \cup HandlesOf(due) /\ UNCHANGED running

Resume(due, h) ==
  /\ Elapse(due)
  /\ h \in ready \cup HandlesOf(due)
  /\ ready' = (ready \cup HandlesOf(due)) \ {h}
  /\ running' = running \cup {h}

\* The destructor: what is registered is dropped, never resumed.
Close ==
  /\ open /\ open' = FALSE
  /\ ready' = {} /\ parked' = {}
  /\ UNCHANGED <<running, now>>

-----------------------------------------------------------------------------

Next ==
  \/ \E h \in Handle :
       \/ Post(h) \/ Yield(h) \/ Leave(h)
       \/ \E when \in Moment : ScheduleAt(when, h) \/ Sleep(when, h)
       \/ \E g \in Handle : Transfer(h, g)
  \/ \E due \in SUBSET parked : Wait(due) \/ (\E h \in Handle : Resume(due, h))
  \/ Close

Spec == Init /\ [][Next]_contractVars
=============================================================================
