---------------------------- MODULE JobCrashLoop ----------------------------
(***************************************************************************)
(* A history of JobRunner: how often in a row the process died while it    *)
(* ran a key's job.  A job that takes the process down is run again at the *)
(* next boot, and requeueInterruptedJobs puts a bound on that.             *)
(***************************************************************************)
EXTENDS JobRunner

CONSTANT MaxKills   \* bound of the count

VARIABLE kills

LoopInit == Init /\ kills = [k \in Keys |-> 0]

\* The count of a key starts again when a run of it ends, and when somebody
\* other than the boot asks for it.
LoopNext ==
  /\ Next
  /\ kills' = [k \in Keys |->
       IF mode # "down" /\ mode' = "down" /\ k \in active
       THEN IF kills[k] < MaxKills THEN kills[k] + 1 ELSE MaxKills
       ELSE IF (mode' # "down" /\ k \in active \ active') \/ (owed'[k] /\ k \in Keyed)
       THEN 0 ELSE kills[k]]

LoopSpec == LoopInit /\ [][LoopNext]_<<vars, kills>>

\* requeueInterruptedJobs: "a job that takes the process down cannot do it at
\* every boot".
JobCannotLoop == \A k \in Keys : kills[k] <= MaxTries[k]
=============================================================================
