------------------------- MODULE MCSearchIndexQueue -------------------------
(***************************************************************************)
(* Instances of SearchIndexQueue.                                          *)
(***************************************************************************)
EXTENDS SearchIndexQueue, TLC

CONSTANTS ada, bo

Symmetric == Permutations(Contacts)
=============================================================================
