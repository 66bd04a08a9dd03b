---------------------------- MODULE MCJobRunner ----------------------------
(***************************************************************************)
(* Instances of JobRunner: duplicate checks (a1, a2, a3 for one account,   *)
(* b1 for another) and instance jobs: the backup, whose gap is a setting,  *)
(* the connector tick, which recurs and runs at start, and the photo sweep,*)
(* which runs once, a delay after start.                                   *)
(***************************************************************************)
EXTENDS JobRunner

CONSTANTS ann, bob, inst, a1, a2, a3, b1, backup, tick, sweep, p1, p2, empty

MCOwnerOf == [k \in Keys |-> CASE k \in {a1, a2, a3} -> ann [] k = b1 -> bob [] OTHER -> inst]
MCOneTry == [k \in Keys |-> 1]
MCTwoTries == [k \in Keys |-> 2]
MCTriesByKind == [k \in Keys |-> IF k \in {tick, sweep} THEN 1 ELSE 2]
=============================================================================
