----------------------------- MODULE WorkQueue -----------------------------
(***************************************************************************)
(* The class GenerationQueue of server/ai/workQueue.ts as a whole: run     *)
(* sends a generation to the shared slots or, when it belongs to a         *)
(* question, to the search lane.  Each side has its own count and queue.   *)
(***************************************************************************)
EXTENDS GenerationTurns

CONSTANTS Questions, SearchConcurrency

ASSUME LaneAssumption == IsFiniteSet(Questions) /\ SearchConcurrency \in Nat \ {0}

VARIABLES searchActive, searchWaiting

laneVars == <<searchActive, searchWaiting>>

Lane == INSTANCE SearchLane WITH
          Jobs <- Questions, running <- searchActive, waiting <- searchWaiting

WorkInit == TurnInit /\ Lane!Init
WorkNext ==
  \/ Next /\ Watch /\ UNCHANGED laneVars
  \/ Lane!Next /\ UNCHANGED turnVars
WorkSpec == WorkInit /\ [][WorkNext]_<<turnVars, laneVars>>

\* No job waits beside a free shared slot, and no question beside a free slot of its
\* lane, whatever left either line in whatever order.
NothingIdles == NoSlotIdles /\ Lane!LaneNeverIdles

\* Among accounts that keep waiting, none starts twice in a tier before each of the
\* others starts once, and questions start in the order they came.
TurnsInOrder ==
  [][(UNCHANGED turnVars \/ Rotates) /\ (UNCHANGED laneVars \/ Lane!InOrder)]_<<turnVars, laneVars>>
=============================================================================
