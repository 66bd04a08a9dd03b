----------------------------- MODULE KeyedWork -----------------------------
(***************************************************************************)
(* What the job runner promises, without rows, times or tries: keyed work  *)
(* is asked for, at most Slots keys are worked on at a time, a key is never*)
(* worked on twice at once, and what was asked for is forgotten only when  *)
(* it is withdrawn or its group is dropped.  A crash turns work in         *)
(* progress into interrupted work, and only interrupted work may be given  *)
(* up at the next start.                                                   *)
(***************************************************************************)
EXTENDS Integers, FiniteSets

CONSTANTS Keys, Slots,
          Standing,   \* keys a start asks for by itself
          Optional,   \* keys that can be withdrawn
          Groups      \* sets of keys that can be dropped together

VARIABLES want,         \* asked for, and no work has started since
          busy,         \* worked on now
          interrupted   \* work that stopped without an end

vars == <<want, busy, interrupted>>

Init == want = {} /\ busy = {} /\ interrupted = {}

Ask(k) == want' = want \cup {k} /\ UNCHANGED <<busy, interrupted>>

Withdraw(k) == k \in Optional /\ want' = want \ {k} /\ UNCHANGED <<busy, interrupted>>

Begin ==
  \E S \in SUBSET (want \ (busy \cup interrupted)) :
    /\ Cardinality(busy \cup S) <= Slots
    /\ busy' = busy \cup S
    /\ want' = want \ S
    /\ UNCHANGED interrupted

\* The work ends; it may ask for itself again (a retry, the next scheduled run).
Finish(k) ==
  /\ k \in busy
  /\ busy' = busy \ {k}
  /\ want' \in {want, want \cup {k}}
  /\ UNCHANGED interrupted

\* The end could not be recorded.
Interrupt(k) ==
  /\ k \in busy
  /\ busy' = busy \ {k}
  /\ interrupted' = interrupted \cup {k}
  /\ want' \in {want, want \ {k}}

Crash ==
  /\ busy' = {}
  /\ interrupted' = interrupted \cup busy
  /\ want' = want \ (busy \cup interrupted)

Restart ==
  /\ busy = {} /\ UNCHANGED busy
  /\ interrupted' = {}
  /\ want \ (interrupted \cup Optional) \subseteq want'
  /\ want' \subseteq want \cup interrupted \cup Standing

\* A group is dropped: nothing of it counts any more.
Drop(G) ==
  /\ want' = want \ G
  /\ busy' = busy \ G
  /\ interrupted' = interrupted \ G

Next ==
  \/ \E k \in Keys : Ask(k) \/ Withdraw(k) \/ Finish(k) \/ Interrupt(k)
  \/ \E G \in Groups : Drop(G)
  \/ Begin \/ Crash \/ Restart

Spec == Init /\ [][Next]_vars
=============================================================================
