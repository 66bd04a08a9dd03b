--------------------------- MODULE ResearchQueue ----------------------------
(***************************************************************************)
(* Research on contacts: server/services/aiSearch/jobQueue.ts, with the    *)
(* routes that start it.                                                   *)
(*                                                                         *)
(* One batch runs on the instance, a contact at a time; the account that   *)
(* runs it adds to it.  A contact can also be researched by itself.  Each  *)
(* research reads the contact, waits for the models for minutes, and       *)
(* writes what it found, unless the contact changed since.                 *)
(***************************************************************************)
EXTENDS Integers, Sequences

CONSTANTS
  Users, Persons, BelongsTo,   \* the accounts, their contacts, and whose each one is
  Batches,      \* bound: the batches there will be
  MaxJobs,      \* the jobs of a batch (100)
  MaxVersion,   \* bound: the changes of a contact
  NoJob

ASSUME ResearchAssumption ==
  /\ BelongsTo \in [Persons -> Users] /\ MaxJobs \in Nat \ {0, 1} /\ MaxVersion \in Nat
  /\ NoJob \notin Nat \cup [batch : Batches, index : Nat, waits : BOOLEAN, read : Nat]

VARIABLES
  batches,      \* each batch's status and contacts, in the order they run
  processing,   \* the run lock
  job,          \* the batch that runs, which of its jobs, and what that job read
  single,       \* what each contact's own research read, or NoJob
  active,       \* lockEnrichment: the contacts that research has
  version       \* how often each contact changed

researchVars == <<batches, processing, job, single, active, version>>

NoBatch == [status |-> "none", jobs |-> <<>>]
Version == 0..MaxVersion

ResearchTypeOK ==
  /\ \A b \in Batches : batches[b] = NoBatch \/ batches[b] \in
       [status : {"processing", "cancelled", "complete"}, jobs : Seq(Persons)]
  /\ processing \in BOOLEAN
  /\ job = NoJob \/ job \in [batch : Batches, index : 1..MaxJobs, waits : BOOLEAN, read : Version]
  /\ \A c \in Persons : single[c] = NoJob \/ single[c] \in Version
  /\ active \subseteq Persons /\ version \in [Persons -> Version]

Processing(b) == batches[b].status = "processing"
Runs(b) == job # NoJob /\ job.batch = b
Owner(b) == BelongsTo[Head(batches[b].jobs)]
Contact == batches[job.batch].jobs[job.index]
Researched == IF job = NoJob \/ job.waits THEN {} ELSE {Contact}

\* The contacts of the running batch that wait or run.
Left == {batches[job.batch].jobs[i] : i \in job.index..Len(batches[job.batch].jobs)}

-----------------------------------------------------------------------------
\* The run of batch b once its job i ended, with locks `held`: the next one waits a
\* while, or the batch is complete.
After(b, i, jobs, held) ==
  /\ active' = held
  /\ IF i < Len(jobs)
     THEN /\ job' = [batch |-> b, index |-> i + 1, waits |-> TRUE, read |-> 0]
          /\ batches' = [batches EXCEPT ![b] = [status |-> "processing", jobs |-> jobs]]
          /\ processing' = TRUE
     ELSE /\ job' = NoJob /\ processing' = FALSE
          /\ batches' = [batches EXCEPT ![b] = [status |-> "complete", jobs |-> jobs]]

\* Job i begins, or fails at once when its contact is gone or being researched.
Begin(b, i, jobs) ==
  /\ \/ After(b, i, jobs, active)
     \/ /\ jobs[i] \notin active
        /\ active' = active \cup {jobs[i]} /\ processing' = TRUE
        /\ job' = [batch |-> b, index |-> i, waits |-> FALSE, read |-> version[jobs[i]]]
        /\ batches' = [batches EXCEPT ![b] = [status |-> "processing", jobs |-> jobs]]
  /\ UNCHANGED <<single, version>>

\* A start while nothing runs, for some contacts of one account.
StartBatch(b) ==
  /\ ~processing /\ batches[b] = NoBatch
  /\ \E c, d \in Persons : BelongsTo[c] = BelongsTo[d] /\ Begin(b, 1, IF c = d THEN <<c>> ELSE <<c, d>>)

\* A start while a batch of the same account runs joins it.
Join(c) ==
  /\ processing /\ Processing(job.batch) /\ Owner(job.batch) = BelongsTo[c]
  /\ c \notin Left /\ Len(batches[job.batch].jobs) < MaxJobs
  /\ batches' = [batches EXCEPT ![job.batch].jobs = Append(@, c)]
  /\ UNCHANGED <<processing, job, single, active, version>>

NextJob ==
  /\ job # NoJob /\ job.waits /\ Processing(job.batch)
  /\ Begin(job.batch, job.index, batches[job.batch].jobs)

Unlocked == active \ Researched

\* What research found is written to the contact it read, or nothing was found.
Learnt(c, read) == version' \in {version} \cup
  IF version[c] = read /\ read < MaxVersion THEN {[version EXCEPT ![c] = @ + 1]} ELSE {}

\* Variant: an answer counts though its batch was cancelled.
AnswersLate ==
  /\ Researched # {}
  /\ Learnt(Contact, job.read)
  /\ After(job.batch, job.index, batches[job.batch].jobs, Unlocked)
  /\ UNCHANGED single

\* An answer, or an error.
Answers ==
  /\ Researched # {} /\ Processing(job.batch)
  /\ Learnt(Contact, job.read)
  /\ After(job.batch, job.index, batches[job.batch].jobs, Unlocked)
  /\ UNCHANGED single

\* An AI switch refused: so it would every other job.
Refuses ==
  /\ Researched # {} /\ Processing(job.batch)
  /\ After(job.batch, Len(batches[job.batch].jobs), batches[job.batch].jobs, Unlocked)
  /\ UNCHANGED <<single, version>>

Cancel(b) ==
  /\ Processing(b)
  /\ batches' = [batches EXCEPT ![b].status = "cancelled"]
  /\ UNCHANGED <<processing, job, single, active, version>>

\* The run of a cancelled batch ends when its wait or its research does.
Unwind ==
  /\ job # NoJob /\ batches[job.batch].status = "cancelled"
  /\ job' = NoJob /\ processing' = FALSE /\ active' = Unlocked
  /\ UNCHANGED <<batches, single, version>>

\* Variant: a contact's own research takes no lock.
EnrichAnyway(c) ==
  /\ single[c] = NoJob
  /\ single' = [single EXCEPT ![c] = version[c]]
  /\ active' = active \cup {c}
  /\ UNCHANGED <<batches, processing, job, version>>

\* POST /contacts/:id/enrich.
Enrich(c) ==
  /\ c \notin active
  /\ single' = [single EXCEPT ![c] = version[c]]
  /\ active' = active \cup {c}
  /\ UNCHANGED <<batches, processing, job, version>>

\* Its end; nothing is written once its client has gone.
EnrichEnds(c) ==
  /\ single[c] # NoJob
  /\ Learnt(c, single[c])
  /\ single' = [single EXCEPT ![c] = NoJob] /\ active' = active \ {c}
  /\ UNCHANGED <<batches, processing, job>>

\* The owner, or a sync, changes a contact.
Edit(c) ==
  /\ version[c] < MaxVersion
  /\ version' = [version EXCEPT ![c] = @ + 1]
  /\ UNCHANGED <<batches, processing, job, single, active>>

ResearchInit ==
  /\ batches = [b \in Batches |-> NoBatch] /\ processing = FALSE /\ job = NoJob
  /\ single = [c \in Persons |-> NoJob] /\ active = {} /\ version = [c \in Persons |-> 0]

ResearchNext ==
  \/ \E c \in Persons : Join(c) \/ Enrich(c) \/ EnrichEnds(c) \/ Edit(c)
  \/ \E b \in Batches : StartBatch(b) \/ Cancel(b)
  \/ NextJob \/ Answers \/ Refuses \/ Unwind

ResearchSpec == ResearchInit /\ [][ResearchNext]_researchVars

-----------------------------------------------------------------------------
\* A contact is researched once at a time, whichever way it was asked for, and its lock
\* goes with its research; no batch says it is running while nothing runs it, and the
\* run lock is free once nothing does.
OneResearchEach ==
  /\ active = Researched \cup {c \in Persons : single[c] # NoJob}
  /\ \A c \in Researched : single[c] = NoJob
  /\ \A b \in Batches : Processing(b) => Runs(b)
  /\ processing <=> job # NoJob

\* What research finds after its batch was cancelled is not written, and a contact
\* that changed while it was researched keeps its change.
NothingAfterCancel ==
  [][\A c \in Researched : version'[c] # version[c] => Processing(job.batch) \/ Edit(c)]_researchVars
=============================================================================
