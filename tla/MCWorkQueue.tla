---------------------------- MODULE MCWorkQueue ----------------------------
(***************************************************************************)
(* Instances of WorkQueue.                                                 *)
(***************************************************************************)
EXTENDS WorkQueue, TLC

CONSTANTS ada, bo, cy, q1, q2, q3

Symmetric == Permutations(Accounts) \cup Permutations(Questions)
=============================================================================
