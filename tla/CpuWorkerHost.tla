--------------------------- MODULE CpuWorkerHost ----------------------------
(***************************************************************************)
(* The main thread's side of the CPU worker: server/workers/cpuHost.ts.    *)
(*                                                                         *)
(* Jobs form a chain of promises: one has its turn once the one before it  *)
(* settled, in a microtask, so nothing the worker says comes between.  The *)
(* worker starts late, fails to start, answers, or dies, which the host    *)
(* hears of as an error and then an exit, or an exit alone.  An embedding  *)
(* that the worker did not make runs in process instead; a reranking does  *)
(* not.  Its stop, once the server has closed, is left out.                *)
(***************************************************************************)
EXTENDS Integers, Sequences, FiniteSets

CONSTANTS
  Embeddings,   \* bound: the jobs of runOnWorker
  Rerankings    \* bound: the jobs of startJob

ASSUME WorkerAssumption == Embeddings \cap Rerankings = {}

VARIABLES
  work,         \* how far each job is
  chain,        \* `tail`: the jobs that have not settled, in order
  thread,       \* the worker: "none", "starting", "up", or "dying" until its exit
  ready,        \* the promise of ensureWorker
  modelSpent, disabled,
  canceledJobs, \* jobs to drop when their turn comes
  aborted       \* the jobs whose caller's signal fired

cpuVars == <<work, chain, thread, ready, modelSpent, disabled, canceledJobs, aborted>>

Jobs == Embeddings \cup Rerankings
Outcomes == {"answered", "failed", "canceled", "in process"}

CpuTypeOK ==
  /\ work \in [Jobs -> {"new", "queued", "waits", "posted"} \cup Outcomes]
  /\ chain \in Seq(Jobs)
  /\ thread \in {"none", "starting", "up", "dying"}
  /\ ready \in {"none", "pending", "resolved", "rejected"}
  /\ {modelSpent, disabled} \subseteq BOOLEAN
  /\ canceledJobs \subseteq Jobs /\ aborted \subseteq Jobs

InState(s) == {j \in Jobs : work[j] = s}

\* A job's turn is a microtask away, and the event loop waits for it.
HasTurn == chain # <<>> /\ work[Head(chain)] = "queued"
Quiet == ~HasTurn

-----------------------------------------------------------------------------
\* The job at the head of the chain ends in rejection.  What its caller makes of it:
\* runOnWorker turns to the fallback, for good, unless the model is spent.  `retired`:
\* the host is disabled anyway.
Rejected(canceled, retired) ==
  LET j == Head(chain)
      stopped == canceled \/ j \in aborted
      fallsBack == j \in Embeddings /\ ~stopped /\ ~modelSpent
  IN /\ work' = [work EXCEPT ![j] = IF stopped THEN "canceled"
                                    ELSE IF fallsBack THEN "in process" ELSE "failed"]
     /\ disabled' = (disabled \/ retired \/ fallsBack)
     /\ chain' = Tail(chain)

\* The worker is there: the job goes to it, unless it was canceled while it waited.
Posted ==
  LET j == Head(chain)
  IN IF j \in canceledJobs
     THEN Rejected(TRUE, FALSE) /\ canceledJobs' = canceledJobs \ {j}
     ELSE /\ work' = [work EXCEPT ![j] = "posted"]
          /\ UNCHANGED <<chain, disabled, canceledJobs>>

\* failAll, for the one job that can be out.
FailAll(retired) ==
  IF InState("posted") # {} THEN Rejected(FALSE, retired)
  ELSE disabled' = (disabled \/ retired) /\ UNCHANGED <<work, chain>>

\* The promise of the worker is kept or broken, for the job that waits for it.
PromiseKept == IF InState("waits") # {} THEN Posted ELSE UNCHANGED <<work, chain, disabled, canceledJobs>>
PromiseBroken == IF InState("waits") # {} THEN Rejected(FALSE, FALSE) ELSE UNCHANGED <<work, chain, disabled>>

-----------------------------------------------------------------------------
(***************************************************************************)
(* The callers.                                                            *)
(***************************************************************************)
\* runOnWorker and startJob.  Once disabled, embeddings run in process.
Submit(j) ==
  /\ work[j] = "new"
  /\ IF j \in Embeddings /\ disabled
     THEN work' = [work EXCEPT ![j] = "in process"] /\ UNCHANGED chain
     ELSE work' = [work EXCEPT ![j] = "queued"] /\ chain' = Append(chain, j)
  /\ UNCHANGED <<thread, ready, modelSpent, disabled, canceledJobs, aborted>>

\* A signal fires: the worker ignores it for the job it has.
CancelJob(j) ==
  /\ work[j] \in {"queued", "waits", "posted"} /\ j \notin aborted
  /\ aborted' = aborted \cup {j}
  /\ canceledJobs' = IF work[j] = "posted" THEN canceledJobs ELSE canceledJobs \cup {j}
  /\ UNCHANGED <<work, chain, thread, ready, modelSpent, disabled>>

-----------------------------------------------------------------------------
(***************************************************************************)
(* The turn of a job: ensureWorker.                                        *)
(***************************************************************************)
Waits == work' = [work EXCEPT ![Head(chain)] = "waits"] /\ UNCHANGED <<chain, disabled, canceledJobs>>

Spawn ==
  /\ HasTurn /\ ready = "none" /\ ~modelSpent
  /\ thread' = "starting" /\ ready' = "pending"
  /\ Waits
  /\ UNCHANGED <<modelSpent, aborted>>

RefuseSpent ==
  /\ HasTurn /\ ready = "none" /\ modelSpent
  /\ Rejected(FALSE, FALSE)
  /\ UNCHANGED <<thread, ready, modelSpent, canceledJobs, aborted>>

TakeWorker ==
  /\ HasTurn /\ ready # "none"
  /\ \/ ready = "pending" /\ Waits
     \/ ready = "resolved" /\ Posted
     \/ ready = "rejected" /\ Rejected(FALSE, FALSE) /\ UNCHANGED canceledJobs
  /\ UNCHANGED <<thread, ready, modelSpent, aborted>>

-----------------------------------------------------------------------------
(***************************************************************************)
(* What the worker does.                                                   *)
(***************************************************************************)
Started ==
  /\ Quiet /\ thread = "starting" /\ ready = "pending"
  /\ thread' = "up" /\ ready' = "resolved"
  /\ PromiseKept
  /\ UNCHANGED <<modelSpent, aborted>>

\* An error at the start, or nothing for READY_TIMEOUT_MS, which ends it.
StartFailed ==
  /\ Quiet /\ thread = "starting" /\ ready = "pending"
  /\ thread' = "dying" /\ ready' = "rejected"
  /\ PromiseBroken
  /\ UNCHANGED <<modelSpent, canceledJobs, aborted>>

StartExit ==
  /\ Quiet /\ thread = "starting" /\ ready = "pending"
  /\ thread' = "none" /\ ready' = "none"
  /\ PromiseBroken
  /\ UNCHANGED <<modelSpent, canceledJobs, aborted>>

\* A result, which says whether the model is loaded, or an error of the job.
Answer ==
  /\ Quiet /\ thread = "up" /\ InState("posted") # {}
  /\ \/ /\ work' = [work EXCEPT ![Head(chain)] = IF Head(chain) \in aborted \cap Embeddings
                                             THEN "canceled" ELSE "answered"]
        /\ chain' = Tail(chain) /\ modelSpent' \in {modelSpent, TRUE} /\ UNCHANGED disabled
     \/ Rejected(FALSE, FALSE) /\ UNCHANGED modelSpent
  /\ UNCHANGED <<thread, ready, canceledJobs, aborted>>

\* It dies: every job that is out fails, and until its exit the next one is still
\* given to it.
WorkerError ==
  /\ Quiet /\ thread = "up"
  /\ thread' = "dying"
  /\ FailAll(FALSE)
  /\ UNCHANGED <<ready, modelSpent, canceledJobs, aborted>>

\* Variant: the exit leaves the jobs that are out to the error before it.
WorkerExitQuietly ==
  /\ Quiet /\ thread \in {"up", "dying"}
  /\ thread' = "none" /\ ready' = "none"
  /\ disabled' = (disabled \/ (modelSpent /\ ready = "resolved"))
  /\ UNCHANGED <<work, chain, modelSpent, canceledJobs, aborted>>

\* Its exit, which may come alone.  Once the model is spent no worker replaces it.
WorkerExit ==
  /\ Quiet /\ thread \in {"up", "dying"}
  /\ thread' = "none" /\ ready' = "none"
  /\ FailAll(modelSpent /\ ready = "resolved")
  /\ UNCHANGED <<modelSpent, canceledJobs, aborted>>

CpuInit ==
  /\ work = [j \in Jobs |-> "new"] /\ chain = <<>> /\ thread = "none" /\ ready = "none"
  /\ modelSpent = FALSE /\ disabled = FALSE /\ canceledJobs = {} /\ aborted = {}

CpuNext ==
  \/ \E j \in Jobs : Submit(j) \/ CancelJob(j)
  \/ Spawn \/ RefuseSpent \/ TakeWorker
  \/ Started \/ StartFailed \/ StartExit \/ Answer \/ WorkerError \/ WorkerExit

CpuSpec == CpuInit /\ [][CpuNext]_cpuVars

-----------------------------------------------------------------------------
(***************************************************************************)
(* Properties.                                                             *)
(***************************************************************************)
\* The chain never hangs: the job whose turn it is waits for a start that will be
\* settled, or is with a worker that will answer it or exit, though it was given to one
\* that had died; and no job that was canceled before its turn reaches the worker.
TurnsAreServed ==
  /\ \A i \in 2..Len(chain) : work[chain[i]] = "queued"
  /\ InState("queued") \cup InState("waits") \cup InState("posted") = {chain[i] : i \in DOMAIN chain}
  /\ InState("waits") # {} => thread = "starting" /\ ready = "pending"
  /\ InState("posted") # {} => thread \in {"up", "dying"} /\ ready = "resolved"
  /\ InState("posted") \cap canceledJobs = {}

\* "The host falls back only when the worker never started, and otherwise says plainly
\* that embeddings are gone for the life of the process."
FallsBackOnlyUnstarted ==
  [][\A j \in Jobs : modelSpent /\ work'[j] = "in process" => work[j] = "in process"]_cpuVars
=============================================================================
