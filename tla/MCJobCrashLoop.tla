-------------------------- MODULE MCJobCrashLoop --------------------------
(***************************************************************************)
(* Instances of JobCrashLoop, with the keys of MCJobRunner.                *)
(***************************************************************************)
EXTENDS JobCrashLoop

CONSTANTS ann, bob, inst, a1, a2, a3, b1, backup, tick, sweep, p1, p2, empty

MCOwnerOf == [k \in Keys |-> CASE k \in {a1, a2, a3} -> ann [] k = b1 -> bob [] OTHER -> inst]
MCOneTry == [k \in Keys |-> 1]
MCTwoTries == [k \in Keys |-> 2]
MCTriesByKind == [k \in Keys |-> IF k \in {tick, sweep} THEN 1 ELSE 2]
=============================================================================
