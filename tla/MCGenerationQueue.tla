------------------------- MODULE MCGenerationQueue -------------------------
(***************************************************************************)
(* Instances of GenerationQueue.                                           *)
(***************************************************************************)
EXTENDS GenerationQueue, TLC

CONSTANTS ada, bo, cy

Symmetric == Permutations(Accounts)
=============================================================================
