-------------------------- MODULE GenerationQueue --------------------------
(***************************************************************************)
(* The queue every AI generation passes: server/ai/workQueue.ts.           *)
(*                                                                         *)
(* The shared slots run Concurrency generations; the others wait, an       *)
(* interactive and a background queue for each account, and accounts take  *)
(* turns.  The search lane has slots and a queue of its own: SearchLane.   *)
(*                                                                         *)
(* A job is its account and its tier.  The jobs that wait are one line, in *)
(* the order they came: the queue of an account and a tier is the part of  *)
(* the line that is theirs.  Each action is one synchronous call.          *)
(***************************************************************************)
EXTENDS Integers, Sequences, FiniteSets, FiniteSetsExt, SequencesExt

CONSTANTS Accounts,
          Concurrency, Capacity, MaxConsecutiveInteractive,
          None

Tiers == {"interactive", "background"}
Job == [account : Accounts, tier : Tiers]

ASSUME QueueAssumption ==
  /\ IsFiniteSet(Accounts) /\ None \notin Job
  /\ Concurrency \in Nat \ {0} /\ Capacity \in Nat \ {0}
  /\ MaxConsecutiveInteractive \in Nat \ {0}

VARIABLES
  active,         \* generations that hold a shared slot
  queue,          \* who waits for one: the line, the accounts in it, whose turn it was
  consecutive,    \* consecutiveInteractiveDispatches
  \* History, which no action reads: what the last step did.
  started,        \* the job that left the line for a slot, or None
  answer          \* the job that was told "AI is busy", and for whom, or None

vars == <<active, queue, consecutive, started, answer>>

(***************************************************************************)
(* The waiting room.                                                       *)
(***************************************************************************)
Queue == [line : Seq(Job),              \* the jobs, by arrival
          order : Seq(Accounts),        \* accountOrder, and the keys of `accounts`
          last : [Tiers -> Nat],        \* the last account served, from 1; 0 for none
          count : Nat]                  \* waitingCount

TypeOK ==
  /\ active \in 0 .. Concurrency
  /\ queue \in Queue
  /\ consecutive \in 0 .. MaxConsecutiveInteractive
  /\ started \in Job \cup {None}
  /\ answer \in [job : Job, for : Job] \cup {None}

JobOf(a, t) == [account |-> a, tier |-> t]
Places(q, a, t) == {i \in DOMAIN q.line : q.line[i] = JobOf(a, t)}
Waits(q, a) == \E i \in DOMAIN q.line : q.line[i].account = a
HasWaitingInTier(q, t) == \E i \in DOMAIN q.line : q.line[i].tier = t

\* Variant: the position of the last turn stays where it was.
DroppedInPlace(q, a) ==
  LET at == CHOOSE i \in DOMAIN q.order : q.order[i] = a
  IN [q EXCEPT !.order = RemoveAt(@, at)]

\* removeAccount: the turns after it move up.
Dropped(q, a) ==
  LET at == CHOOSE i \in DOMAIN q.order : q.order[i] = a
  IN [q EXCEPT !.order = RemoveAt(@, at),
               !.last = [t \in Tiers |-> IF at <= @[t] THEN @[t] - 1 ELSE @[t]]]

Taken(q, i) == [q EXCEPT !.line = RemoveAt(@, i), !.count = @ - 1]

\* A job leaves the line, and its account with the last one.
Removed(q, i) ==
  LET a == q.line[i].account
      rest == Taken(q, i)
  IN IF Waits(rest, a) THEN rest ELSE Dropped(rest, a)

\* addJob
Added(q, job) ==
  [q EXCEPT !.line = Append(@, job),
            !.order = IF \E i \in DOMAIN q.order : q.order[i] = job.account
                      THEN @ ELSE Append(@, job.account),
            !.count = @ + 1]

(***************************************************************************)
(* makeRoomIfFair: the newest job of an account is told that AI is busy.   *)
(***************************************************************************)
Waiting(q, a, t) == Cardinality(Places(q, a, t))
Newest(q, a, t) == Max(Places(q, a, t))

\* The account with most jobs in a tier, the earliest in the rotation of those.
Heaviest(q, t) ==
  LET most == Max({Waiting(q, q.order[i], t) : i \in DOMAIN q.order})
  IN q.order[Min({i \in DOMAIN q.order : Waiting(q, q.order[i], t) = most})]

\* Variant: an interactive request takes the place of any account's job.
EvictedForAnybody(q, job) ==
  IF job.tier = "interactive" /\ HasWaitingInTier(q, "interactive")
  THEN Newest(q, Heaviest(q, "interactive"), "interactive") ELSE 0

\* The place of the job to evict, or 0.
Evicted(q, job) ==
  LET heaviest(t) == Heaviest(q, t)
      lighter(t) == Waiting(q, job.account, t) < Waiting(q, heaviest(t), t)
  IN IF job.tier = "interactive" /\ Places(q, job.account, "background") # {}
     THEN Newest(q, job.account, "background")
     ELSE IF HasWaitingInTier(q, "background") /\ (job.tier = "interactive" \/ lighter("background"))
     THEN Newest(q, heaviest("background"), "background")
     ELSE IF job.tier = "interactive" /\ HasWaitingInTier(q, "interactive") /\ lighter("interactive")
     THEN Newest(q, heaviest("interactive"), "interactive")
     ELSE 0

\* An account whose own job is evicted keeps its turn.
RoomMade(q, job) ==
  LET i == Evicted(q, job)
  IN IF q.line[i].account = job.account THEN Taken(q, i) ELSE Removed(q, i)

(***************************************************************************)
(* popNextJobInTier and dispatchNext.                                      *)
(***************************************************************************)
\* Variant: the rotation starts over at every turn.
TurnFromFirst(q, t) == Min({i \in DOMAIN q.order : Places(q, q.order[i], t) # {}})

\* The first account after the last one served that waits in the tier.
Turn(q, t) ==
  LET candidates == {i \in DOMAIN q.order : Places(q, q.order[i], t) # {}}
      after == {i \in candidates : i > q.last[t]}
  IN IF after # {} THEN Min(after) ELSE Min(candidates)

NextJob(q, t) == Min(Places(q, q.order[Turn(q, t)], t))

ChosenTier(q) ==
  IF ~HasWaitingInTier(q, "interactive") THEN "background"
  ELSE IF HasWaitingInTier(q, "background") /\ consecutive >= MaxConsecutiveInteractive
  THEN "background" ELSE "interactive"

\* What a slot that comes free does: running generations are `others`, and the next
\* job that waits starts.
DispatchNext(others) ==
  IF others >= Concurrency \/ queue.count = 0
  THEN active' = others /\ started' = None /\ UNCHANGED <<queue, consecutive>>
  ELSE \E t \in Tiers, i \in DOMAIN queue.line :
         /\ t = ChosenTier(queue) /\ i = NextJob(queue, t)
         /\ started' = queue.line[i]
         /\ queue' = Removed([queue EXCEPT !.last[t] = Turn(queue, t)], i)
         /\ consecutive' = IF t = "interactive" /\ HasWaitingInTier(queue', "background")
                           THEN consecutive + 1 ELSE 0
         /\ active' = others + 1

(***************************************************************************)
(* The calls.                                                              *)
(***************************************************************************)
\* run: at once, if a slot is free and nobody waits.
RunImmediately ==
  /\ active < Concurrency /\ queue.count = 0
  /\ active' = active + 1
  /\ started' = None /\ answer' = None
  /\ UNCHANGED <<queue, consecutive>>

MustWait == active >= Concurrency \/ queue.count > 0

Enqueue(job) ==
  /\ MustWait /\ queue.count < Capacity
  /\ queue' = Added(queue, job)
  /\ started' = None /\ answer' = None
  /\ UNCHANGED <<active, consecutive>>

EnqueueInPlace(job) ==
  /\ MustWait /\ queue.count >= Capacity /\ Evicted(queue, job) # 0
  /\ queue' = Added(RoomMade(queue, job), job)
  /\ started' = None
  /\ answer' = [job |-> queue.line[Evicted(queue, job)], for |-> job]
  /\ UNCHANGED <<active, consecutive>>

Refuse(job) ==
  /\ MustWait /\ queue.count >= Capacity /\ Evicted(queue, job) = 0
  /\ started' = None
  /\ answer' = [job |-> job, for |-> job]
  /\ UNCHANGED <<active, queue, consecutive>>

\* The caller of a job that waits gives up.
Abort(i) ==
  /\ queue' = Removed(queue, i)
  /\ started' = None /\ answer' = None
  /\ UNCHANGED <<active, consecutive>>

\* Variant: the slot comes free and nobody is called.
FinishQuietly ==
  /\ active > 0 /\ active' = active - 1
  /\ started' = None /\ answer' = None
  /\ UNCHANGED <<queue, consecutive>>

\* A generation answers, fails, or is cancelled while it runs.
Finish ==
  /\ active > 0
  /\ DispatchNext(active - 1)
  /\ answer' = None

Init ==
  /\ active = 0 /\ consecutive = 0
  /\ queue = [line |-> <<>>, order |-> <<>>, last |-> [t \in Tiers |-> 0], count |-> 0]
  /\ started = None /\ answer = None

Next ==
  \/ RunImmediately
  \/ \E job \in Job : Enqueue(job) \/ EnqueueInPlace(job) \/ Refuse(job)
  \/ \E i \in DOMAIN queue.line : Abort(i)
  \/ Finish

Spec == Init /\ [][Next]_vars

\* Every generation ends: the gateway runs it under a timeout.
LiveSpec == Spec /\ WF_vars(Finish)

(***************************************************************************)
(* Properties.                                                             *)
(***************************************************************************)
\* The count that gates admission and dispatch is the number of jobs that wait; the
\* rotation holds each account that waits, once, and no other; the turns point into it.
OrderIsRight ==
  /\ queue.count = Len(queue.line) /\ queue.count <= Capacity
  /\ \A i \in DOMAIN queue.line : \E p \in DOMAIN queue.order : queue.order[p] = queue.line[i].account
  /\ \A p \in DOMAIN queue.order : Waits(queue, queue.order[p])
  /\ \A p, r \in DOMAIN queue.order : queue.order[p] = queue.order[r] => p = r
  /\ \A t \in Tiers : queue.last[t] <= Len(queue.order)

\* No job waits beside a free slot, whatever left the line in whatever order.
NoSlotIdles == queue.count > 0 => active = Concurrency

\* "No single account can fill the waiting room": a job is evicted for an account
\* that then has at most one more of the tier than the one that lost it; a request is
\* refused to an account than which none has more; interactive work yields to
\* interactive work only, once no background job waits.
EvictionIsFair ==
  answer # None =>
    LET lost == answer.job
        won == answer.for
        has(job) == Waiting(queue, job.account, job.tier)
    IN /\ lost # won /\ lost.tier = won.tier => has(won) <= has(lost) + 1
       /\ lost = won => \A a \in Accounts : Waiting(queue, a, lost.tier) <= has(lost)
       /\ lost.tier = "interactive" => won.tier = "interactive" /\ ~HasWaitingInTier(queue, "background")

\* "Waiting work rotates between accounts (round robin), so none starves."
NoneStarves ==
  \A a \in Accounts : \A t \in Tiers :
    Places(queue, a, t) # {} ~> started = JobOf(a, t) \/ Places(queue, a, t) = {}
=============================================================================
