-------------------------- MODULE GenerationTurns --------------------------
(***************************************************************************)
(* What the dispatch order of GenerationQueue gives each account and each  *)
(* tier.  Two history variables record whom every waiting account saw      *)
(* start before it, and how many interactive starts background work saw.   *)
(***************************************************************************)
EXTENDS GenerationQueue

VARIABLES
  passed,   \* tier, account: who started in the tier while the account waited in it
  passes    \* interactive starts while background work waited

turnVars == <<vars, passed, passes>>

Stays(a) == \E i \in DOMAIN queue'.order : queue'.order[i] = a

\* An account that leaves the line starts a new rotation when it comes back.
Watch ==
  /\ passed' = [t \in Tiers |-> [a \in Accounts |->
       IF Places(queue', a, t) = {} \/ started' = JobOf(a, t) THEN {}
       ELSE {b \in Accounts : Stays(b) /\ (b \in passed[t][a] \/ started' = JobOf(b, t))}]]
  /\ passes' = IF \/ ~HasWaitingInTier(queue', "background")
                  \/ started' # None /\ started'.tier = "background" THEN 0
               ELSE IF started' # None THEN passes + 1 ELSE passes

TurnInit == Init /\ passed = [t \in Tiers |-> [a \in Accounts |-> {}]] /\ passes = 0
TurnSpec == TurnInit /\ [][Next /\ Watch]_turnVars

\* No account that keeps waiting sees another that does start twice in a tier before it,
\* whoever joins, aborts, is evicted or empties its queue meanwhile.
Rotates ==
  \A t \in Tiers : \A a, b \in Accounts :
    started' = JobOf(b, t) /\ Places(queue', a, t) # {} /\ a # b => b \notin passed[t][a]

\* Evictions are fair to accounts and tiers (EvictionIsFair), and background work that
\* waits sees at most MaxConsecutiveInteractive interactive starts in a row.
TiersAreFair == EvictionIsFair /\ passes <= MaxConsecutiveInteractive
=============================================================================
