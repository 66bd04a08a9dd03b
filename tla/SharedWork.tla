----------------------------- MODULE SharedWork -----------------------------
(***************************************************************************)
(* Identical work is done once and shared: class SharedWork of             *)
(* server/ai/workQueue.ts, which builds a contact's briefing once for all  *)
(* who ask.  One key: keys do not touch one another.                       *)
(*                                                                         *)
(* A caller whose signal fires leaves in a later microtask, as does one    *)
(* whose answer came; others join, leave or settle between the two.        *)
(***************************************************************************)
EXTENDS Integers, FiniteSets

CONSTANTS Callers, Works, None

ASSUME SharedAssumption == IsFiniteSet(Callers) /\ None \notin Works

VARIABLES
  entry,     \* the work under the key, or None
  op,        \* works: is its operation still to start, running or settled
  cancelled, \* works whose controller aborted
  users,     \* works: how many callers hold it
  caller     \* callers: the work each waits for, and what it saw of it

vars == <<entry, op, cancelled, users, caller>>

Seen == {"waits", "gave up", "answered", "failed"}
Out == [work |-> None, sees |-> "waits"]

TypeOK ==
  /\ entry \in Works \cup {None}
  /\ op \in [Works -> {"unused", "created", "running", "done", "refused"}]
  /\ cancelled \subseteq Works
  /\ users \in [Works -> Nat]
  /\ caller \in [Callers -> [work : Works \cup {None}, sees : Seen]]

Holders(w) == {c \in Callers : caller[c].work = w}
Underway(w) == op[w] \in {"created", "running"}
Settled(w) == op[w] \in {"done", "refused"}

\* The work a call joins, or one it creates.
Joined == IF entry # None /\ entry \notin cancelled THEN {entry}
          ELSE {w \in Works : op[w] = "unused"}

\* run, up to its await.
Run(c) ==
  /\ caller[c] = Out
  /\ \E w \in Joined :
       /\ entry' = w
       /\ op' = [op EXCEPT ![w] = IF @ = "unused" THEN "created" ELSE @]
       /\ users' = [users EXCEPT ![w] = @ + 1]
       /\ caller' = [caller EXCEPT ![c].work = w]
  /\ UNCHANGED cancelled

\* The first microtask of a work: its operation starts, unless it was cancelled.
Start(w) ==
  /\ op[w] = "created"
  /\ op' = [op EXCEPT ![w] = IF w \in cancelled THEN "refused" ELSE "running"]
  /\ UNCHANGED <<entry, cancelled, users, caller>>

\* The operation answers or fails.  One that was cancelled fails.
Settle(w) ==
  /\ op[w] = "running"
  /\ op' = [op EXCEPT ![w] = IF w \in cancelled THEN "refused" ELSE "done"]
  /\ UNCHANGED <<entry, cancelled, users, caller>>

\* A settled work gives the key up, unless another has taken it.
Remove(w) ==
  /\ Settled(w) /\ entry = w
  /\ entry' = None
  /\ UNCHANGED <<op, cancelled, users, caller>>

\* The signal of a caller fires: the race is lost unless it was won before.
GiveUp(c) ==
  /\ caller[c].work # None /\ caller[c].sees = "waits"
  /\ caller' = [caller EXCEPT ![c].sees = "gave up"]
  /\ UNCHANGED <<entry, op, cancelled, users>>

SeeAnswer(c) ==
  /\ caller[c].work # None /\ caller[c].sees = "waits" /\ Settled(caller[c].work)
  /\ caller' = [caller EXCEPT ![c].sees = IF op[caller[c].work] = "done" THEN "answered" ELSE "failed"]
  /\ UNCHANGED <<entry, op, cancelled, users>>

\* Variant: whoever leaves cancels the work.
LeaveAndCancel(c) ==
  LET w == caller[c].work
  IN /\ w # None /\ caller[c].sees # "waits"
     /\ users' = [users EXCEPT ![w] = @ - 1]
     /\ cancelled' = cancelled \cup {w}
     /\ entry' = IF entry = w THEN None ELSE entry
     /\ caller' = [caller EXCEPT ![c] = Out]
     /\ UNCHANGED op

\* The `finally`: the last of a work's callers cancels it and gives the key up.
Leave(c) ==
  LET w == caller[c].work
  IN /\ w # None /\ caller[c].sees # "waits"
     /\ users' = [users EXCEPT ![w] = @ - 1]
     /\ IF users[w] = 1
        THEN cancelled' = cancelled \cup {w} /\ entry' = IF entry = w THEN None ELSE entry
        ELSE UNCHANGED <<cancelled, entry>>
     /\ caller' = [caller EXCEPT ![c] = Out]
     /\ UNCHANGED op

\* What no caller and no key refers to is forgotten: the name may serve again.
Forget(w) ==
  /\ Settled(w) /\ entry # w /\ Holders(w) = {}
  /\ op' = [op EXCEPT ![w] = "unused"]
  /\ cancelled' = cancelled \ {w}
  /\ UNCHANGED <<entry, users, caller>>

Init ==
  /\ entry = None /\ cancelled = {}
  /\ op = [w \in Works |-> "unused"] /\ users = [w \in Works |-> 0]
  /\ caller = [c \in Callers |-> Out]

Next ==
  \/ \E c \in Callers : Run(c) \/ GiveUp(c) \/ SeeAnswer(c) \/ Leave(c)
  \/ \E w \in Works : Start(w) \/ Settle(w) \/ Remove(w) \/ Forget(w)

Spec == Init /\ [][Next]_vars

(***************************************************************************)
(* Properties.                                                             *)
(***************************************************************************)
\* "One caller cannot cancel work another caller still needs": a cancelled work has
\* no caller, and no caller is told of a cancellation that was not its own.
WantedIsNotCancelled ==
  /\ \A c \in Callers : caller[c].work # None => caller[c].work \notin cancelled
  /\ \A c \in Callers : caller[c].sees # "failed"

\* "Share identical work": two works of the key never run at once, unless one of them
\* is cancelled.
WorkIsShared ==
  \A v, w \in Works : Underway(v) /\ Underway(w) => v = w \/ v \in cancelled \/ w \in cancelled

\* Work nobody waits for is cancelled.
UnwantedIsCancelled ==
  \A w \in Works : Underway(w) /\ w \notin cancelled => Holders(w) # {}

\* The three together: identical work is shared by all who want it and by nobody else.
SharedIsSound == WantedIsNotCancelled /\ WorkIsShared /\ UnwantedIsCancelled

\* What makes the three hold after every step: the counts are those of the
\* callers, the map names no cancelled work, and a work that may still run is in the
\* map and held.
Bookkeeping ==
  /\ \A w \in Works : users[w] = Cardinality(Holders(w))
  /\ \A w \in cancelled : Holders(w) = {}
  /\ entry # None => entry \notin cancelled /\ op[entry] # "unused"
  /\ \A w \in Works : op[w] = "unused" => Holders(w) = {} /\ w \notin cancelled
  /\ \A w \in Works : op[w] = "refused" => w \in cancelled
  /\ \A w \in Works : Underway(w) /\ w \notin cancelled => entry = w /\ Holders(w) # {}
  /\ \A c \in Callers : caller[c].sees # "failed"
=============================================================================
