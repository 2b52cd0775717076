-------------------------- MODULE TracingScheduler --------------------------
(***************************************************************************)
(* Coro::TracingScheduler: a scheduler that records each Post and each     *)
(* ScheduleAt, shows it to a sink, then forwards it to the scheduler it    *)
(* wraps.                                                                  *)
(*                                                                         *)
(* The sink is any function: it may call Post and ScheduleAt again, run a  *)
(* pump that resumes coroutines, clear the recording or throw, and all of  *)
(* that happens between the recording and the forwarding.  So a call of    *)
(* this scheduler is two steps, and calls nest.  The wrapped scheduler is  *)
(* any that implements module Scheduler; its calls are written out here    *)
(* without that module's guards, and ImplementsScheduler says that they    *)
(* satisfy them all the same.                                              *)
(***************************************************************************)
EXTENDS Scheduler, Sequences

CONSTANT MaxCalls  \* bound: calls of Post and ScheduleAt altogether

ASSUME CallsAssumption == MaxCalls \in Nat
ASSUME MomentAssumption == Moment \subseteq Int /\ 0 \in Moment

VARIABLES events,   \* _events
          calls,    \* calls whose sink has not returned, innermost last
          count,    \* history: calls made so far
          cleared   \* history: Clear has been called

tracer == <<events, calls, count, cleared>>
vars == <<contractVars, tracer>>

Kind == {"Post", "ScheduleAt"}

TraceEvent == [kind : Kind, at : Moment, when : Moment, handle : Handle]

TypeOK ==
  /\ ready \subseteq Handle /\ running \subseteq Handle
  /\ parked \subseteq [when : Moment, handle : Handle]
  /\ events \in Seq(TraceEvent) /\ calls \in Seq(TraceEvent)
  /\ now \in Moment /\ {open, cleared} \subseteq BOOLEAN

TracingInit == Init /\ events = <<>> /\ calls = <<>> /\ count = 0 /\ cleared = FALSE

-----------------------------------------------------------------------------

\* Handles that are on their way to the wrapped scheduler.
InTransit == {calls[i].handle : i \in DOMAIN calls}

\* Whoever calls passes a handle that nothing else is going to resume: that of
\* a suspended coroutine, or its own as it suspends.
MayPass(h) ==
  /\ open /\ count < MaxCalls /\ h \notin InTransit
  /\ Free(h) \/ h \in running

\* Record, up to the call of the sink.
Record(event) ==
  /\ events' = Append(events, event)
  /\ calls' = Append(calls, event)
  /\ count' = count + 1
  /\ UNCHANGED <<contractVars, cleared>>

TracedPost(h) ==
  /\ MayPass(h)
  /\ Record([kind |-> "Post", at |-> now, when |-> now, handle |-> h])

\* Mutant: the deadline is taken for a delay.
TracedScheduleAfter(when, h) ==
  /\ MayPass(h)
  /\ Record([kind |-> "ScheduleAt", at |-> now, when |-> now + when, handle |-> h])

TracedScheduleAt(when, h) ==
  /\ MayPass(h)
  /\ Record([kind |-> "ScheduleAt", at |-> now, when |-> when, handle |-> h])

Top == calls[Len(calls)]

Return == calls' = SubSeq(calls, 1, Len(calls) - 1)

\* Mutant: a timer is forwarded with the time of the call.
ForwardAt ==
  /\ calls # <<>>
  /\ \/ Top.kind = "Post" /\ Enqueue(Top.handle)
     \/ Top.kind = "ScheduleAt" /\ Park(Top.at, Top.handle)
  /\ running' = running \ {Top.handle}
  /\ Return
  /\ UNCHANGED <<events, count, cleared>>

\* The sink returns, and the call is forwarded.
Forward ==
  /\ calls # <<>>
  /\ \/ Top.kind = "Post" /\ Enqueue(Top.handle)
     \/ Top.kind = "ScheduleAt" /\ Park(Top.when, Top.handle)
  /\ running' = running \ {Top.handle}
  /\ Return
  /\ UNCHANGED <<events, count, cleared>>

\* Mutant: the call is forwarded although the sink throws.
SinkThrowsLate ==
  /\ calls # <<>>
  /\ \/ Top.kind = "Post" /\ Enqueue(Top.handle)
     \/ Top.kind = "ScheduleAt" /\ Park(Top.when, Top.handle)
  /\ Return
  /\ UNCHANGED <<running, events, count, cleared>>

\* The sink throws out of the call: a coroutine that was about to suspend
\* runs on.
SinkThrows ==
  /\ calls # <<>> /\ Return
  /\ UNCHANGED <<contractVars, events, count, cleared>>

Clear ==
  /\ events # <<>> /\ events' = <<>> /\ cleared' = TRUE
  /\ UNCHANGED <<contractVars, calls, count>>

-----------------------------------------------------------------------------
(* The wrapped scheduler and the coroutines, which the trace does not see. *)

Behind ==
  /\ \/ \E due \in SUBSET parked :
          Wait(due) \/ \E h \in Handle : Resume(due, h)
     \/ \E h \in Handle \ InTransit : Leave(h)
     \/ Close /\ calls = <<>>
  /\ UNCHANGED tracer

TracingNext ==
  \/ \E h \in Handle :
       TracedPost(h) \/ (\E when \in Moment : TracedScheduleAt(when, h))
  \/ Forward \/ SinkThrows \/ Clear \/ Behind

TracingSpec == TracingInit /\ [][TracingNext]_vars

-----------------------------------------------------------------------------

(* "Pure decorator" (TracingScheduler.hpp:58): whatever the sink does, the *)
(* wrapped scheduler is used as IScheduler demands, and never given a      *)
(* handle that runs or that it has already.                                *)
ImplementsScheduler == Spec

\* The last event about a handle, if there is one.
LastAbout(h, i) ==
  /\ i \in DOMAIN events /\ events[i].handle = h
  /\ \A j \in DOMAIN events : events[j].handle = h => j <= i

(* What a test may conclude from Events (TracingScheduler.hpp:51-54): the  *)
(* events are in the order of the calls, and the last event about a handle *)
(* that the wrapped scheduler has tells how it got there, with the time it *)
(* is due; there is such an event unless the recording was cleared.        *)
TraceIsTrue ==
  /\ \A i, j \in DOMAIN events : i < j => events[i].at <= events[j].at
  /\ \A h \in ready \cup HandlesOf(parked) :
       cleared \/ \E i \in DOMAIN events : LastAbout(h, i)
  /\ \A e \in parked, i \in DOMAIN events :
       LastAbout(e.handle, i) =>
         events[i].kind = "ScheduleAt" /\ events[i].when = e.when

=============================================================================
