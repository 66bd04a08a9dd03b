----------------------------- MODULE JobRunner -----------------------------
(***************************************************************************)
(* The durable job runner: server/jobs/runner.ts.                          *)
(*                                                                         *)
(* Every piece of background work is a row of the table `jobs`.  Product   *)
(* code never writes a row without a dedupe key, and a partial unique      *)
(* index allows one queued or running row per key, so the live rows are a  *)
(* function of the key.  Rows that ended (done, failed, cancelled) are     *)
(* history the runner never reads; a key without a live row has `NoRow`.   *)
(*                                                                         *)
(* JavaScript runs one callback at a time and every database call is       *)
(* synchronous, so an action is one synchronous stretch of the code: a     *)
(* call of enqueueJob, one poll, the settling of one run, a boot.  Handlers*)
(* run between the poll that claims their row and the action that settles  *)
(* it, interleaved with everything else.                                   *)
(*                                                                         *)
(* Time.  A row's runAt matters only through which rows are due and in     *)
(* which order: `due[k]` is 0 while the row waits and otherwise its place  *)
(* among the due rows.  `lastTurn` is likewise kept as a rank.             *)
(***************************************************************************)
EXTENDS Integers, FiniteSets, Functions

CONSTANTS Owners,       \* accounts with jobs, and Instance
          Instance,     \* the owner of instance jobs ("" in the code)
          Keys,         \* dedupe keys
          OwnerOf,      \* the account each key works for
          MaxTries,     \* maxAttempts of each key's kind
          Registered,   \* keys whose kind this build registers
          Recurring,    \* keys "recurring:<kind>", of kinds with `every`
          Switchable,   \* recurring keys whose gap is a setting (backups)
          AtStart,      \* keys of kinds with `atStart`
          StartNow,     \* those whose atStart is `true`, not a delay
          Payloads,
          Empty,        \* the payload "{}" of declared jobs
          None,         \* no pending enqueue
          Concurrency   \* JOB_CONCURRENCY

Declared == Recurring \cup AtStart
Keyed == Keys \ Declared

ASSUME KeysAssumption ==
  /\ IsFiniteSet(Keys) /\ IsFiniteSet(Owners)
  /\ Instance \in Owners
  /\ OwnerOf \in [Keys -> Owners]
  /\ \A k \in Recurring \cup AtStart : OwnerOf[k] = Instance
  /\ MaxTries \in [Keys -> Nat \ {0}]
  /\ Recurring \subseteq Registered /\ AtStart \subseteq Registered
  /\ Registered \subseteq Keys
  /\ Switchable \subseteq Recurring /\ StartNow \subseteq AtStart
ASSUME PayloadsAssumption == Empty \in Payloads /\ None \notin Payloads
ASSUME ConcurrencyAssumption == Concurrency \in Nat \ {0}

VARIABLES
  row,       \* the live row of each key
  due,       \* place of the row among the due rows, 0 when not due
  gone,      \* the accounts an administrator deleted
  on,        \* is the interval of a recurring kind a number (a stored setting)
  mode,      \* what the process is doing
  active,    \* keys whose job this process is running
  pending,   \* pendingAfterRunning
  lastTurn,  \* rank of the turn on which each owner last got a job, 0 never
  \* History, which no action reads.
  owed,      \* an enqueue that no run has started after, and nobody cancelled
  latest     \* the payload of the newest enqueue of each key

durable == <<row, due, gone, on>>
memory  == <<mode, active, pending, lastTurn>>
history == <<owed, latest>>
vars    == <<durable, memory, history>>

Modes == {"down", "polling", "idle", "stopping"}
RowType == [status : {"none", "queued", "running"}, tries : Nat, payload : Payloads]
NoRow == [status |-> "none", tries |-> 0, payload |-> Empty]
Queued(n, p) == [status |-> "queued", tries |-> n, payload |-> p]
Running(n, p) == [status |-> "running", tries |-> n, payload |-> p]

TypeOK ==
  /\ row \in [Keys -> RowType]
  /\ due \in [Keys -> Nat]
  /\ gone \subseteq Owners \ {Instance}
  /\ on \in [Keys -> BOOLEAN]
  /\ mode \in Modes
  /\ active \subseteq Keys
  /\ pending \in [Keys -> Payloads \cup {None}]
  /\ lastTurn \in [Owners -> Nat]
  /\ owed \in [Keys -> BOOLEAN]
  /\ latest \in [Keys -> Payloads]

(***************************************************************************)
(* Ranks: the order of a function's positive values, as small numbers.     *)
(***************************************************************************)
Ranked(f) ==
  [x \in DOMAIN f |-> IF f[x] = 0 THEN 0
                      ELSE Cardinality({y \in DOMAIN f : 0 < f[y] /\ f[y] <= f[x]})]

\* Rows of S get a runAt that is not past: they fall due later.
Later(S) == Ranked([k \in Keys |-> IF k \in S THEN 0 ELSE due[k]])

\* The rows of S get runAt = now, after every row already due; rows written
\* in the same millisecond are ordered by createdAt and id: any order.
DueNow(S, waiting) ==
  {Ranked([k \in Keys |-> IF k \in S THEN Cardinality(Keys) + f[k]
                          ELSE IF k \in waiting THEN 0 ELSE due[k]])
     : f \in Bijection(S, 1 .. Cardinality(S))}

\* The account of a key is still there.
Kept(k) == OwnerOf[k] \notin gone

(***************************************************************************)
(* Writing rows.                                                           *)
(***************************************************************************)
\* Variant: ON CONFLICT without WHERE jobs.status = 'queued'.
UpsertOverRunning(k, p) ==
  /\ row' = [row EXCEPT ![k] = Queued(row[k].tries, p)]
  /\ due' = Later({k})
  /\ UNCHANGED pending

\* Variant: an enqueue that meets a running row is dropped.
UpsertForgetful(k, p) ==
  /\ IF row[k].status = "running" THEN UNCHANGED <<row, due>>
     ELSE /\ row' = [row EXCEPT ![k] = Queued(row[k].tries, p)]
          /\ due' = Later({k})
  /\ UNCHANGED pending

\* upsertQueued: insert, or move the queued row that holds the key (its tries
\* stay), or remember the enqueue while a running row holds the key.
Upsert(k, p) ==
  \/ /\ row[k].status = "running"
     /\ pending' = [pending EXCEPT ![k] = p]
     /\ UNCHANGED <<row, due>>
  \/ /\ row[k].status # "running"
     /\ row' = [row EXCEPT ![k] = Queued(row[k].tries, p)]
     /\ due' = Later({k})
     /\ UNCHANGED pending

\* enqueueJob as the product calls it: the contacts.dedupeCheck subscriber asks
\* for a run five seconds out, so every further write puts the run off.
Enqueue(k, p) ==
  /\ mode # "down" /\ Kept(k)
  /\ Upsert(k, p)
  /\ owed' = [owed EXCEPT ![k] = TRUE]
  /\ latest' = [latest EXCEPT ![k] = p]
  /\ UNCHANGED <<gone, on, mode, active, lastTurn>>

\* The backup interval is changed to a number: rescheduleBackups, then
\* scheduleNextRun one interval from now.
SwitchOn(k) ==
  /\ mode # "down"
  /\ on' = [on EXCEPT ![k] = TRUE]
  /\ IF mode = "idle" THEN UNCHANGED <<row, due, pending, owed, latest>>
     ELSE /\ Upsert(k, Empty)
          /\ owed' = [owed EXCEPT ![k] = TRUE]
          /\ latest' = [latest EXCEPT ![k] = Empty]
  /\ UNCHANGED <<gone, mode, active, lastTurn>>

\* The interval is set to 0: scheduleNextRun(kind, null), that is cancelQueued.
SwitchOff(k) ==
  /\ mode # "down"
  /\ on' = [on EXCEPT ![k] = FALSE]
  /\ IF mode = "idle" THEN UNCHANGED <<row, due, pending, owed>>
     ELSE /\ pending' = [pending EXCEPT ![k] = None]
          /\ IF row[k].status = "queued"
             THEN row' = [row EXCEPT ![k] = NoRow] /\ due' = Later({k})
             ELSE UNCHANGED <<row, due>>
          /\ owed' = [owed EXCEPT ![k] = FALSE]
  /\ UNCHANGED <<gone, mode, active, lastTurn, latest>>

\* A queued row's runAt passes, whether or not a process is up.
FallDue(k) ==
  /\ row[k].status = "queued" /\ due[k] = 0
  /\ due' \in DueNow({k}, {})
  /\ UNCHANGED <<row, gone, on, memory, history>>

(***************************************************************************)
(* The poll: dueJobs, takeTurns and the claims.                            *)
(***************************************************************************)
Due == {k \in Keys : row[k].status = "queued" /\ due[k] > 0}
DueOwners == {OwnerOf[k] : k \in Due}

\* The place of a due row within its owner's rows.
Place(k) == Cardinality({j \in Due : OwnerOf[j] = OwnerOf[k] /\ due[j] <= due[k]})

\* Variant: owners in the order of their first due row, whoever was served.
OwnerByFirstDue(a, b) ==
  \E j \in Due : OwnerOf[j] = a /\ \A k \in Due : OwnerOf[k] = b => due[j] < due[k]

\* Variant: the owner served last comes first.
OwnerLastServedFirst(a, b) == lastTurn[a] > lastTurn[b]

\* Owners served longest ago first; those never served keep the order of their
\* first due row.
OwnerBefore(a, b) ==
  \/ lastTurn[a] < lastTurn[b]
  \/ /\ lastTurn[a] = lastTurn[b]
     /\ \E j \in Due : OwnerOf[j] = a /\ \A k \in Due : OwnerOf[k] = b => due[j] < due[k]

\* Round by round, one row per owner.
PickedBefore(j, k) ==
  \/ Place(j) < Place(k)
  \/ Place(j) = Place(k) /\ OwnerBefore(OwnerOf[j], OwnerOf[k])

Turn(k) == Cardinality({j \in Due : PickedBefore(j, k)})

TakeTurns(free) == {k \in Due : Turn(k) < free}

\* The turn counter after the picks: an owner's last pick of this poll.
TurnsAfter(picked) ==
  Ranked([o \in Owners |->
    IF \E k \in picked : OwnerOf[k] = o
    THEN Cardinality(Owners) + 1
           + Turn(CHOOSE k \in picked : OwnerOf[k] = o /\ \A j \in picked :
                                          OwnerOf[j] = o => Place(j) <= Place(k))
    ELSE lastTurn[o]])

\* Variant: the running jobs are not counted.
FreeIgnoringActive == Concurrency

Free == Concurrency - Cardinality(active)

PollJobs ==
  /\ mode = "polling" /\ Free > 0 /\ Due # {}
  /\ \E picked \in {TakeTurns(Free)} :
       /\ row' = [k \in Keys |-> IF k \in picked
                                 THEN Running(row[k].tries + 1, row[k].payload)
                                 ELSE row[k]]
       /\ due' = Later(picked)
       /\ active' = active \cup picked
       /\ lastTurn' = TurnsAfter(picked)
       /\ owed' = [k \in Keys |-> owed[k] /\ k \notin picked]
  /\ UNCHANGED <<gone, on, mode, pending, latest>>

(***************************************************************************)
(* settle: how a try ended, and what comes after it.                       *)
(***************************************************************************)
\* The next run of a recurring kind that is still on, read at each scheduling.
NextRun(k) == IF k \in Recurring /\ on[k] THEN Queued(0, Empty) ELSE NoRow

\* The row has ended: the enqueue that waited for it goes in the queue, due at
\* once when its time has passed, or the next scheduled run.
ScheduleNext(k) ==
  /\ IF pending[k] # None
     THEN /\ row' = [row EXCEPT ![k] = Queued(0, pending[k])]
          /\ due' \in DueNow({k}, {}) \cup {Later({k})}
     ELSE /\ row' = [row EXCEPT ![k] = NextRun(k)]
          /\ UNCHANGED due
  /\ pending' = [pending EXCEPT ![k] = None]

\* A run of this process ends.
Ends(k) ==
  /\ k \in active
  /\ active' = active \ {k}
  /\ UNCHANGED <<gone, on, mode, lastTurn, owed, latest>>

Succeed(k) == Kept(k) /\ k \in Registered /\ Ends(k) /\ ScheduleNext(k)

MayRetry(k) == k \in Registered /\ row[k].tries < MaxTries[k]

RetryPayload(k) == IF pending[k] # None THEN pending[k] ELSE row[k].payload

\* The row waits out its backoff with the newest payload and keeps its tries.
Retry(k) ==
  /\ Kept(k) /\ MayRetry(k) /\ Ends(k)
  /\ row' = [row EXCEPT ![k] = Queued(row[k].tries, RetryPayload(k))]
  /\ pending' = [pending EXCEPT ![k] = None]
  /\ UNCHANGED due

\* Variant: only a run that succeeds schedules what comes next.
FailWithoutNext(k) ==
  /\ Kept(k) /\ ~MayRetry(k) /\ Ends(k)
  /\ row' = [row EXCEPT ![k] = NoRow]
  /\ pending' = [pending EXCEPT ![k] = None]
  /\ UNCHANGED due

FailForGood(k) == Kept(k) /\ ~MayRetry(k) /\ Ends(k) /\ ScheduleNext(k)

\* settle's own writes throw: the row stays `running` with nobody running it.
\* The pending enqueue was taken out of the map before the write that failed,
\* or not yet.
Unrecorded(k) ==
  /\ Kept(k) /\ Ends(k)
  /\ pending' \in {pending, [pending EXCEPT ![k] = None]}
  /\ UNCHANGED <<row, due>>

\* The run of a deleted account ends: the updates of its row match nothing, and
\* an enqueue that waited breaks the foreign key to the account, which is caught.
EndWithoutRow(k) ==
  /\ ~Kept(k) /\ Ends(k)
  /\ pending' = [pending EXCEPT ![k] = None]
  /\ UNCHANGED <<row, due>>

\* purgeOwner deletes an account with its jobs, running ones too, and with the
\* events that would enqueue more.
PurgeOwner(o) ==
  /\ mode # "down"
  /\ gone' = gone \cup {o}
  /\ row' = [k \in Keys |-> IF OwnerOf[k] = o THEN NoRow ELSE row[k]]
  /\ due' = Later({k \in Keys : OwnerOf[k] = o})
  /\ owed' = [k \in Keys |-> owed[k] /\ OwnerOf[k] # o]
  /\ UNCHANGED <<on, memory, latest>>

(***************************************************************************)
(* Boot and shutdown.                                                      *)
(***************************************************************************)
\* stopJobRunner: no poll starts anything; running jobs may still settle.  With
\* background jobs off there is no poll to stop.
Stop ==
  /\ mode = "polling"
  /\ mode' = "stopping"
  /\ UNCHANGED <<durable, active, pending, lastTurn, history>>

\* The process ends, after a stop or by a crash: its memory goes.
Exit ==
  /\ mode # "down"
  /\ mode' = "down"
  /\ active' = {}
  /\ pending' = [k \in Keys |-> None]
  /\ lastTurn' = [o \in Owners |-> 0]
  /\ latest' = [k \in Keys |-> IF row[k].status = "running" THEN row[k].payload ELSE latest[k]]
  /\ UNCHANGED <<durable, owed>>

Spent(k) == row[k].status = "running" /\ row[k].tries >= MaxTries[k]

\* Variant: a row goes back to the queue however often it was tried.
RequeuedAlways(k) ==
  IF row[k].status = "running" THEN Queued(row[k].tries, row[k].payload) ELSE row[k]

\* requeueInterruptedJobs.
Requeued(k) ==
  IF Spent(k) THEN NoRow
  ELSE IF row[k].status = "running" THEN Queued(row[k].tries, row[k].payload)
  ELSE row[k]

\* scheduleDeclaredJobs, after the requeue: nothing runs yet, so every upsert
\* writes a row.  A recurring kind keeps a queued run whose gap did not shrink.
Scheduled(k) ==
  IF k \notin Declared THEN Requeued(k)
  ELSE IF k \in Recurring /\ ~on[k] THEN NoRow
  ELSE Queued(Requeued(k).tries, Empty)

\* startJobRunner, with background jobs on or off (DISABLE_BACKGROUND_JOBS).
\* A crash on the last try is where an enqueue that waited for that run ends.
Boot(background) ==
  LET interrupted == {k \in Keys : row[k].status = "running" /\ ~Spent(k)}
      off     == {k \in Recurring : ~on[k]}
      now     == IF background THEN (interrupted \ (off \cup AtStart)) \cup (StartNow \ off)
                 ELSE interrupted
      waiting == IF background THEN off \cup (AtStart \ StartNow) ELSE {}
  IN
  /\ mode = "down"
  /\ mode' = IF background THEN "polling" ELSE "idle"
  /\ row' = [k \in Keys |-> IF background THEN Scheduled(k) ELSE Requeued(k)]
  /\ due' \in DueNow(now, waiting)
  /\ owed' = [k \in Keys |-> owed[k] /\ ~Spent(k) /\ (background => k \notin off)]
  /\ latest' = [k \in Keys |-> IF k \in Declared THEN Empty ELSE latest[k]]
  /\ UNCHANGED <<gone, on, active, pending, lastTurn>>

(***************************************************************************)
(* The specification.  A fresh instance has an empty table.                *)
(***************************************************************************)
Init ==
  /\ row = [k \in Keys |-> NoRow]
  /\ due = [k \in Keys |-> 0]
  /\ gone = {}
  /\ on \in {f \in [Keys -> BOOLEAN] : \A k \in Keys : k \in Switchable \/ f[k] = (k \in Recurring)}
  /\ mode = "down"
  /\ active = {}
  /\ pending = [k \in Keys |-> None]
  /\ lastTurn = [o \in Owners |-> 0]
  /\ owed = [k \in Keys |-> FALSE]
  /\ latest = [k \in Keys |-> Empty]

Settle(k) == Succeed(k) \/ Retry(k) \/ FailForGood(k) \/ EndWithoutRow(k)

Next ==
  \/ \E k \in Keyed, p \in Payloads : Enqueue(k, p)
  \/ \E k \in Switchable : SwitchOn(k) \/ SwitchOff(k)
  \/ \E k \in Keys : FallDue(k)
  \/ PollJobs
  \/ \E k \in Keys : Settle(k)
  \/ \E k \in Keys : Unrecorded(k)
  \/ \E o \in Owners \ {Instance} : PurgeOwner(o)
  \/ Stop
  \/ Exit
  \/ \E background \in BOOLEAN : Boot(background)

Spec == Init /\ [][Next]_vars

(***************************************************************************)
(* Safety.                                                                 *)
(***************************************************************************)
\* A key's job never runs twice at once: the key that is running holds the
\* only live row, marked `running`, so no poll can pick it; or the account is
\* gone, and no row of it comes back.
RunsAlone == \A k \in active : row[k].status = "running" \/ ~Kept(k)

\* A waiting enqueue always belongs to a running row.  Were one left behind, the
\* end of some later run would queue a change that was already handled.
PendingHasRun == \A k \in Keys : pending[k] # None => row[k].status = "running" \/ ~Kept(k)

\* "changes made while a job is already running are not lost when it finishes":
\* until a run has started after an enqueue, the row is queued, or the run in
\* progress holds the enqueue to queue it again.
NoLostEnqueue ==
  \A k \in Keys : owed[k] =>
    \/ row[k].status = "queued"
    \/ row[k].status = "running" /\ (k \in active => pending[k] # None)

\* What runs next carries the payload of the newest enqueue this process took,
\* whichever way the row reached the queue: inserted, moved, queued again after
\* a run, or put back for a retry.
NewestPayload ==
  \A k \in Keys :
    /\ row[k].status = "queued" => row[k].payload = latest[k]
    /\ pending[k] # None => pending[k] = latest[k]

\* No row is tried more often than its kind allows, over moves, retries, crashes
\* and boots: a queued row always has a try left.
TriesBounded ==
  \A k \in Keys : /\ row[k].tries <= MaxTries[k]
                  /\ row[k].status = "queued" => row[k].tries < MaxTries[k]

\* While background jobs run, a recurring kind that is on always has a live row:
\* no failure, crash, switch or retry ends its schedule.
RecurringAlive ==
  mode \in {"polling", "stopping"} =>
    \A k \in Recurring : on[k] => row[k].status # "none"

\* A kind that is switched off leaves nothing queued except the retries of a run
\* that had already started.
OffQueuesNothingNew ==
  mode = "polling" =>
    \A k \in Recurring : ~on[k] /\ row[k].status = "queued" => row[k].tries > 0

(***************************************************************************)
(* The inductive invariant: the safety properties, and what they rest on.  *)
(***************************************************************************)
\* Between two processes there is no memory, and a row left running carries the
\* payload that counts.
DownHasNoMemory ==
  mode = "down" =>
    /\ active = {}
    /\ \A k \in Keys : pending[k] = None
    /\ \A k \in Keys : row[k].status = "running" => row[k].payload = latest[k]

\* A run in progress without a waiting enqueue has the newest payload.
RunHasNewest ==
  \A k \in active : pending[k] = None /\ Kept(k) => row[k].payload = latest[k]

\* A key without a row has not been tried, and a running row has.
TriesMatchStatus ==
  \A k \in Keys : /\ row[k].status = "none" => row[k].tries = 0
                  /\ row[k].status = "running" => row[k].tries > 0

\* Declared jobs carry "{}", and nothing waits for a kind that is off.
DeclaredRows ==
  /\ \A k \in Declared : row[k].payload = Empty /\ latest[k] = Empty /\ pending[k] \in {None, Empty}
  /\ mode = "polling" => \A k \in Recurring : ~on[k] => pending[k] = None

\* Nothing is left of a deleted account, and nothing brings it back.
GoneLeaveNothing ==
  \A k \in Keys : ~Kept(k) => row[k] = NoRow /\ ~owed[k]

IInv ==
  /\ TypeOK /\ RunsAlone /\ PendingHasRun /\ NoLostEnqueue /\ NewestPayload
  /\ TriesBounded /\ RecurringAlive /\ OffQueuesNothingNew
  /\ DownHasNoMemory /\ RunHasNewest /\ TriesMatchStatus /\ DeclaredRows
  /\ GoneLeaveNothing

(***************************************************************************)
(* Action properties.                                                      *)
(***************************************************************************)
Claimed(k) == row[k].status = "queued" /\ row'[k].status = "running"
Served(o) == {k \in Keys : OwnerOf[k] = o /\ Claimed(k)}

\* "one account's backlog never holds up another's": a poll that leaves an owner
\* with a due job unserved gives nobody a second job, and serves only owners who
\* were served longer ago than the one left out (or, like it, never).
OneTurnEach ==
  \A a \in DueOwners, b \in Owners :
    mode = "polling" /\ Served(a) = {} /\ Served(b) # {} =>
      /\ Cardinality(Served(b)) = 1
      /\ lastTurn[b] < lastTurn[a] \/ lastTurn[b] = 0
TurnsAreFair == [][OneTurnEach]_vars

(***************************************************************************)
(* What the runner promises: KeyedWork.  Wanted is what is queued or held  *)
(* for the end of a run; a running row that no process runs is interrupted.*)
(***************************************************************************)
Wanted == {k \in Keys : row[k].status = "queued" \/ (pending[k] # None /\ Kept(k))}
Accounts == {{k \in Keys : OwnerOf[k] = o} : o \in Owners \ {Instance}}
Interrupted == {k \in Keys : row[k].status = "running" /\ k \notin active}

Work == INSTANCE KeyedWork WITH
          Slots <- Concurrency, Standing <- Declared, Optional <- Switchable,
          Groups <- Accounts,
          want <- Wanted, busy <- {k \in active : Kept(k)}, interrupted <- Interrupted

\* Every behaviour of the runner is one of KeyedWork: nothing asked for is
\* forgotten except by a switch, with its account or, once interrupted, at a
\* boot.
ImplementsKeyedWork == Work!Spec

(***************************************************************************)
(* Liveness.  The poll is a timer, handlers end, clocks advance, and an    *)
(* operator starts the server with background jobs on.                     *)
(***************************************************************************)
Fairness ==
  /\ WF_vars(PollJobs)
  /\ WF_vars(Boot(TRUE))
  /\ \A k \in Keys : WF_vars(FallDue(k)) /\ WF_vars(Settle(k))

LiveSpec == Spec /\ Fairness

\* A due job starts, whatever the other owners queue meanwhile, unless it is moved or
\* cancelled or the process goes.  And once writes to a key stop, a run starts after the
\* last of them, unless the process goes or could not record the end of the run in
\* progress.
WorkIsServed ==
  /\ \A k \in Keys : k \in Due ~> (k \notin Due \/ mode # "polling")
  /\ \A k \in Keyed :
       <>[][\A p \in Payloads : ~Enqueue(k, p)]_vars =>
         (owed[k] ~> (~owed[k] \/ mode # "polling" \/ (row[k].status = "running" /\ k \notin active)))
=============================================================================
