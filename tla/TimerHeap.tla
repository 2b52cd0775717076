----------------------------- MODULE TimerHeap ------------------------------
(***************************************************************************)
(* Coro::TimerQueue as written: a std::vector kept in heap order by        *)
(* std::ranges::push_heap and pop_heap under the comparison Later, whose   *)
(* sequence number breaks ties between equal deadlines.  The two standard  *)
(* algorithms are external; they may leave the vector in any heap order,   *)
(* which is all their contract says.                                       *)
(***************************************************************************)
EXTENDS TimerQueue, FiniteSets

CONSTANTS Moment, Handle, None,
          MaxSchedules  \* bound: how many entries are ever inserted

ASSUME HeapAssumption == Moment \subseteq Nat /\ MaxSchedules \in Nat

VARIABLES entries,       \* _entries, a vector of HeapEntry
          nextSequence,  \* _nextSequence
          popped         \* what the latest PopDue returned

vars == <<entries, nextSequence, popped>>

HeapEntry == [when : Moment, handle : Handle, sequence : 0..MaxSchedules]

\* Mutant: the newest of several entries with one deadline pops first.
LaterLifo(a, b) == IF a.when # b.when THEN a.when > b.when
                                      ELSE a.sequence < b.sequence

\* Later::operator(): is a popped after b?
Later(a, b) == IF a.when # b.when THEN a.when > b.when
                                  ELSE a.sequence > b.sequence

\* A vector is a heap when no entry is earlier than its parent.
IsHeap(v) == \A i \in 2..Len(v) : ~Later(v[i \div 2], v[i])

\* Every heap-ordered arrangement of a finite set of distinct entries.
HeapsOf(S) ==
  LET N == 1..Cardinality(S)
  IN  {v \in [N -> S] : (\A i, j \in N : v[i] = v[j] => i = j) /\ IsHeap(v)}

Elements(v) == {v[i] : i \in 1..Len(v)}

TypeOK ==
  /\ entries \in Seq(HeapEntry)
  /\ nextSequence \in 0..MaxSchedules
  /\ popped \in Entry(Moment, Handle) \cup {None}

Init == entries = <<>> /\ nextSequence = 0 /\ popped = None

Insert(when, handle) ==
  /\ nextSequence < MaxSchedules
  /\ LET new == [when |-> when, handle |-> handle, sequence |-> nextSequence]
     IN  entries' \in HeapsOf(Elements(entries) \cup {new})
  /\ nextSequence' = nextSequence + 1
  /\ popped' = None

\* Mutant: the popped entry is blanked but stays in the vector.
PopDueTombstone(now) ==
  IF entries = <<>> \/ entries[1].when > now
    THEN popped' = None /\ UNCHANGED <<entries, nextSequence>>
    ELSE /\ entries' = [entries EXCEPT ![1] = None]
         /\ popped' = [when |-> entries[1].when, handle |-> entries[1].handle]
         /\ UNCHANGED nextSequence

PopDue(now) ==
  IF entries = <<>> \/ entries[1].when > now
    THEN popped' = None /\ UNCHANGED <<entries, nextSequence>>
    ELSE /\ entries' \in HeapsOf(Elements(entries) \ {entries[1]})
         /\ popped' = [when |-> entries[1].when, handle |-> entries[1].handle]
         /\ UNCHANGED nextSequence

\* NextDeadline: the front of the vector, read without popping it.
NextDeadline == IF entries = <<>> THEN None ELSE entries[1].when

Next == \/ \E when \in Moment, handle \in Handle : Insert(when, handle)
        \/ \E now \in Moment : PopDue(now)

Spec == Init /\ [][Next]_vars

-----------------------------------------------------------------------------
(* Refinement: sorting the vector by (when, sequence) gives the queue.     *)

Rank(e) == Cardinality({f \in Elements(entries) : Later(e, f)}) + 1

PopOrder ==
  [r \in 1..Len(entries) |->
     LET e == CHOOSE f \in Elements(entries) : Rank(f) = r
     IN  [when |-> e.when, handle |-> e.handle]]

Queue == INSTANCE TimerQueueSpec WITH queue <- PopOrder, next <- NextDeadline

(* The heap with its sequence numbers pops exactly what the sorted queue   *)
(* would, in the same order: earliest deadline first, FIFO among equals,   *)
(* whatever arrangement push_heap and pop_heap choose (TimerQueue.hpp).    *)
(* And the deadline at its front, which EventLoop::Run sleeps until and    *)
(* the pump drivers arm their timer for, is that of the next entry to pop. *)
ImplementsQueue == Queue!Spec

=============================================================================
