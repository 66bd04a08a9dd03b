------------------------- MODULE MCEventDispatcher -------------------------
(***************************************************************************)
(* Instances of EventDispatcher: the search index takes both kinds of      *)
(* event, the duplicate check one.                                         *)
(***************************************************************************)
EXTENDS EventDispatcher

CONSTANTS index, check, created, interacted, ann, bob

MCRank == [s \in Subscribers |-> IF s = index THEN 1 ELSE 2]
MCTakes == [s \in Subscribers |-> IF s = index THEN {created, interacted} ELSE {created}]
MCTakesAll == [s \in Subscribers |-> Kinds]
=============================================================================
