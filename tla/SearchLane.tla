----------------------------- MODULE SearchLane -----------------------------
(***************************************************************************)
(* The search lane of server/ai/workQueue.ts: the generations of a         *)
(* question have slots and a queue of their own, first come first served.  *)
(***************************************************************************)
EXTENDS Integers, Sequences, FiniteSets, SequencesExt

CONSTANTS Jobs, SearchConcurrency, Capacity

VARIABLES
  running,   \* jobs that hold a slot; a cancelled one holds it until it has ended
  waiting    \* searchWaiting

vars == <<running, waiting>>

Waits(j) == \E i \in DOMAIN waiting : waiting[i] = j

TypeOK ==
  /\ running \subseteq Jobs /\ Cardinality(running) <= SearchConcurrency
  /\ waiting \in Seq(Jobs) /\ Len(waiting) <= Capacity
  /\ \A j \in running : ~Waits(j)

\* A request past the capacity is refused and changes nothing.
Run(j) ==
  /\ j \notin running /\ ~Waits(j)
  /\ IF Cardinality(running) < SearchConcurrency /\ waiting = <<>>
     THEN running' = running \cup {j} /\ UNCHANGED waiting
     ELSE /\ Len(waiting) < Capacity
          /\ waiting' = Append(waiting, j) /\ UNCHANGED running

Abort(j) ==
  /\ \E i \in DOMAIN waiting : waiting[i] = j /\ waiting' = RemoveAt(waiting, i)
  /\ UNCHANGED running

Finish(j) ==
  /\ j \in running
  /\ IF waiting = <<>> THEN running' = running \ {j} /\ UNCHANGED waiting
     ELSE running' = (running \ {j}) \cup {Head(waiting)} /\ waiting' = Tail(waiting)

Init == running = {} /\ waiting = <<>>

Next == \E j \in Jobs : Run(j) \/ Abort(j) \/ Finish(j)

Spec == Init /\ [][Next]_vars

\* No question waits beside a free slot.
LaneNeverIdles == waiting # <<>> => Cardinality(running) = SearchConcurrency

\* Questions start in the order they came: none starts, now or from the queue, while
\* one that came before it goes on waiting.
InOrder ==
  \A j \in running' \ running : \A i \in DOMAIN waiting :
    (\A k \in 1 .. i : waiting[k] # j) => waiting[i] \in running'
=============================================================================
