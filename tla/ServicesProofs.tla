--------------------------- MODULE ServicesProofs ---------------------------
(***************************************************************************)
(* Theorems about the small services, which share nothing: research,       *)
(* scans, pending deletes, geocoding and the worker of the processor's     *)
(* work.  Each has an inductive invariant of its own.                      *)
(***************************************************************************)
EXTENDS ResearchQueue, ScanQueue, PendingDeletes, GeocodeQueue, CpuWorkerHost, WellFoundedInduction, TLAPS

-----------------------------------------------------------------------------
(***************************************************************************)
(* Contact research, for every set of accounts, contacts and batches.      *)
(***************************************************************************)
BatchRecord == [status : {"none", "processing", "cancelled", "complete"}, jobs : Seq(Persons)]
RunRecord == [batch : Batches, index : Nat, waits : BOOLEAN, read : Nat]

ResearchTypes ==
  /\ batches \in [Batches -> BatchRecord]
  /\ processing \in BOOLEAN
  /\ single \in [Persons -> Nat \cup {NoJob}]
  /\ version \in [Persons -> Nat]

\* The job that runs is one of its batch, which is not complete.
RunsAJob ==
  job # NoJob =>
    /\ job \in RunRecord /\ job.index \in 1..Len(batches[job.batch].jobs)
    /\ batches[job.batch].status \in {"processing", "cancelled"}

ResearchIsSound == ResearchTypes /\ RunsAJob /\ OneResearchEach

Alone == {c \in Persons : single[c] # NoJob}

LEMMA RunsAreJobs == \A r \in RunRecord : r # NoJob
BY ResearchAssumption DEF RunRecord

LEMMA JobsReplaced ==
  ASSUME NEW r \in BatchRecord, NEW jobs \in Seq(Persons)
  PROVE  /\ [r EXCEPT !.jobs = jobs] = [status |-> r.status, jobs |-> jobs]
         /\ [r EXCEPT !.jobs = jobs] \in BatchRecord
BY DEF BatchRecord

LEMMA ResearchSoundInit == ResearchInit => ResearchIsSound
<1> SUFFICES ASSUME ResearchInit PROVE ResearchIsSound OBVIOUS
<1> USE DEF ResearchInit
<1>1. ResearchTypes
  <2>1. <<>> \in Seq(Persons) OBVIOUS
  <2>2. NoBatch \in BatchRecord BY <2>1 DEF NoBatch, BatchRecord
  <2> QED BY <2>2 DEF ResearchTypes
<1>2. RunsAJob BY DEF RunsAJob
<1>3. OneResearchEach BY DEF OneResearchEach, Researched, Processing, NoBatch
<1> QED BY <1>1, <1>2, <1>3 DEF ResearchIsSound

\* The contact of the job that runs, and what is not locked by it.
LEMMA ResearchedIsAPerson ==
  ASSUME ResearchIsSound, Researched # {}
  PROVE /\ Contact \in Persons /\ Researched = {Contact}
        /\ job # NoJob /\ job \in RunRecord /\ ~job.waits
        /\ Unlocked = Alone
<1>1. job # NoJob /\ ~job.waits /\ Researched = {Contact} BY DEF Researched
<1>2. job \in RunRecord /\ job.index \in 1..Len(batches[job.batch].jobs)
  BY <1>1 DEF ResearchIsSound, RunsAJob
<1>3. batches[job.batch].jobs \in Seq(Persons)
  BY <1>2 DEF ResearchIsSound, ResearchTypes, BatchRecord, RunRecord
<1>4. Contact \in Persons BY <1>2, <1>3 DEF Contact
<1>5. Unlocked = Alone
  BY <1>1, <1>4 DEF ResearchIsSound, OneResearchEach, Unlocked, Alone
<1> QED BY <1>1, <1>2, <1>4, <1>5

\* The run goes on to the next job, or the batch is complete.
LEMMA AfterKeeps ==
  ASSUME ResearchIsSound,
         NEW b \in Batches, NEW jobs \in Seq(Persons), NEW i \in 1..Len(jobs),
         After(b, i, jobs, Alone),
         \A v \in Batches \ {b} : ~Processing(v),
         single' \in [Persons -> Nat \cup {NoJob}], Alone' = Alone,
         version' \in [Persons -> Nat]
  PROVE  ResearchIsSound'
<1> USE DEF ResearchIsSound
<1>1. CASE i < Len(jobs)
  <2>1. /\ job' = [batch |-> b, index |-> i + 1, waits |-> TRUE, read |-> 0]
        /\ batches' = [batches EXCEPT ![b] = [status |-> "processing", jobs |-> jobs]]
        /\ processing' = TRUE /\ active' = Alone
    BY <1>1 DEF After
  <2>2. job' \in RunRecord /\ job' # NoJob
    <3>1. i + 1 \in Nat /\ 0 \in Nat OBVIOUS
    <3>2. job' \in RunRecord BY <2>1, <3>1 DEF RunRecord
    <3> QED BY <3>2, RunsAreJobs
  <2>3. /\ batches' \in [Batches -> BatchRecord]
        /\ batches'[b] = [status |-> "processing", jobs |-> jobs]
        /\ \A v \in Batches \ {b} : batches'[v] = batches[v]
    BY <2>1 DEF ResearchTypes, BatchRecord
  <2>4. ResearchTypes' BY <2>1, <2>3 DEF ResearchTypes
  <2>5. RunsAJob' BY <1>1, <2>1, <2>2, <2>3 DEF RunsAJob
  <2>6. Researched' = {} BY <2>1 DEF Researched
  <2>7. OneResearchEach'
    BY <2>1, <2>2, <2>3, <2>6 DEF OneResearchEach, Processing, Runs, Alone
  <2> QED BY <2>4, <2>5, <2>7
<1>2. CASE ~(i < Len(jobs))
  <2>1. /\ job' = NoJob /\ processing' = FALSE /\ active' = Alone
        /\ batches' = [batches EXCEPT ![b] = [status |-> "complete", jobs |-> jobs]]
    BY <1>2 DEF After
  <2>2. /\ batches' \in [Batches -> BatchRecord]
        /\ batches'[b].status = "complete"
        /\ \A v \in Batches \ {b} : batches'[v] = batches[v]
    BY <2>1 DEF ResearchTypes, BatchRecord
  <2>3. ResearchTypes' BY <2>1, <2>2 DEF ResearchTypes
  <2>4. RunsAJob' BY <2>1 DEF RunsAJob
  <2>5. Researched' = {} BY <2>1 DEF Researched
  <2>6. OneResearchEach'
    BY <2>1, <2>2, <2>5 DEF OneResearchEach, Processing, Alone
  <2> QED BY <2>3, <2>4, <2>6
<1> QED BY <1>1, <1>2

\* A job begins while none is being researched by a batch.
LEMMA BeginKeeps ==
  ASSUME ResearchIsSound, Researched = {},
         NEW b \in Batches, NEW jobs \in Seq(Persons), NEW i \in 1..Len(jobs),
         Begin(b, i, jobs),
         \A v \in Batches \ {b} : ~Processing(v)
  PROVE  ResearchIsSound'
<1> USE DEF ResearchIsSound
<1>1. active = Alone BY DEF OneResearchEach, Alone
<1>2. single' = single /\ version' = version BY DEF Begin
<1>3. Alone' = Alone BY <1>2 DEF Alone
<1>4. CASE After(b, i, jobs, active)
  <2>1. After(b, i, jobs, Alone) BY <1>1, <1>4
  <2> QED BY <1>2, <1>3, <2>1, AfterKeeps DEF ResearchTypes
<1>5. CASE /\ jobs[i] \notin active
           /\ active' = active \cup {jobs[i]} /\ processing' = TRUE
           /\ job' = [batch |-> b, index |-> i, waits |-> FALSE, read |-> version[jobs[i]]]
           /\ batches' = [batches EXCEPT ![b] = [status |-> "processing", jobs |-> jobs]]
  <2>1. jobs[i] \in Persons /\ single[jobs[i]] = NoJob BY <1>1, <1>5 DEF Alone
  <2>2. job' \in RunRecord /\ job' # NoJob
    <3>1. i \in Nat /\ version[jobs[i]] \in Nat BY <2>1 DEF ResearchTypes
    <3>2. job' \in RunRecord BY <1>5, <3>1 DEF RunRecord
    <3> QED BY <3>2, RunsAreJobs
  <2>3. /\ batches' \in [Batches -> BatchRecord]
        /\ batches'[b] = [status |-> "processing", jobs |-> jobs]
        /\ \A v \in Batches \ {b} : batches'[v] = batches[v]
    BY <1>5 DEF ResearchTypes, BatchRecord
  <2>4. ResearchTypes' BY <1>2, <1>5, <2>3 DEF ResearchTypes
  <2>5. RunsAJob' BY <1>5, <2>2, <2>3 DEF RunsAJob
  <2>6. Contact' = jobs[i] BY <1>5, <2>3 DEF Contact
  <2>7. Researched' = {jobs[i]} BY <1>5, <2>2, <2>6 DEF Researched
  <2>8. OneResearchEach'
    BY <1>1, <1>2, <1>5, <2>1, <2>2, <2>3, <2>7 DEF OneResearchEach, Processing, Runs, Alone
  <2> QED BY <2>4, <2>5, <2>8
<1> QED BY <1>4, <1>5 DEF Begin

LEMMA LearntKeeps ==
  ASSUME ResearchTypes, NEW c \in Persons, NEW read, Learnt(c, read)
  PROVE  /\ version' \in [Persons -> Nat]
         /\ \A d \in Persons \ {c} : version'[d] = version[d]
<1>1. CASE version' = version BY <1>1 DEF ResearchTypes
<1>2. CASE version' = [version EXCEPT ![c] = @ + 1] BY <1>2 DEF ResearchTypes
<1> QED BY <1>1, <1>2 DEF Learnt

\* A step that leaves the batches and their run alone.
LEMMA AsideKeeps ==
  ASSUME ResearchIsSound, UNCHANGED <<batches, processing, job>>,
         single' \in [Persons -> Nat \cup {NoJob}], version' \in [Persons -> Nat],
         active' = Researched \cup Alone', \A c \in Researched : single'[c] = NoJob
  PROVE  ResearchIsSound'
<1>1. Researched' = Researched BY DEF Researched, Contact
<1>2. ResearchTypes' BY DEF ResearchIsSound, ResearchTypes
<1>3. RunsAJob' BY DEF ResearchIsSound, RunsAJob
<1>4. OneResearchEach' BY <1>1 DEF ResearchIsSound, OneResearchEach, Processing, Runs, Alone
<1> QED BY <1>2, <1>3, <1>4 DEF ResearchIsSound

\* A step that changes a batch, and no job's place in it.
LEMMA BatchKeeps ==
  ASSUME ResearchIsSound, UNCHANGED <<processing, job, single, active, version>>,
         batches' \in [Batches -> BatchRecord],
         \A b \in Batches : Processing(b)' => Processing(b),
         job # NoJob =>
           /\ batches'[job.batch].status \in {"processing", "cancelled"}
           /\ Len(batches'[job.batch].jobs) >= Len(batches[job.batch].jobs)
           /\ batches'[job.batch].jobs[job.index] = batches[job.batch].jobs[job.index]
  PROVE  ResearchIsSound'
<1>1. Researched' = Researched BY DEF Researched, Contact
<1>2. ResearchTypes' BY DEF ResearchIsSound, ResearchTypes
<1>3. RunsAJob'
  BY DEF ResearchIsSound, RunsAJob, ResearchTypes, BatchRecord, RunRecord
<1>4. OneResearchEach' BY <1>1 DEF ResearchIsSound, OneResearchEach, Processing, Runs
<1> QED BY <1>2, <1>3, <1>4 DEF ResearchIsSound

LEMMA JoinKeeps == ASSUME ResearchIsSound, NEW c \in Persons, Join(c) PROVE ResearchIsSound'
<1> DEFINE b == job.batch
<1>1. job # NoJob /\ job \in RunRecord /\ job.index \in 1..Len(batches[b].jobs) /\ b \in Batches
  BY DEF Join, ResearchIsSound, OneResearchEach, RunsAJob, RunRecord
<1>2. batches[b] \in BatchRecord BY <1>1 DEF ResearchIsSound, ResearchTypes
<1>3. batches' = [batches EXCEPT ![b] = [batches[b] EXCEPT !.jobs = Append(batches[b].jobs, c)]]
  BY DEF Join
<1>4. [batches[b] EXCEPT !.jobs = Append(batches[b].jobs, c)]
        = [status |-> batches[b].status, jobs |-> Append(batches[b].jobs, c)]
  <2>1. Append(batches[b].jobs, c) \in Seq(Persons) BY <1>2 DEF BatchRecord
  <2> QED BY <1>2, <2>1, JobsReplaced
<1>5. /\ batches'[b] = [status |-> batches[b].status, jobs |-> Append(batches[b].jobs, c)]
      /\ \A v \in Batches \ {b} : batches'[v] = batches[v]
      /\ batches' \in [Batches -> BatchRecord]
  <2>1. Append(batches[b].jobs, c) \in Seq(Persons) BY <1>2 DEF BatchRecord
  <2>2. [batches[b] EXCEPT !.jobs = Append(batches[b].jobs, c)] \in BatchRecord BY <1>2, <2>1, JobsReplaced
  <2> QED BY <1>1, <1>3, <1>4, <2>2 DEF ResearchIsSound, ResearchTypes
<1>6. batches[b].status = "processing" BY DEF Join, Processing
<1>7. /\ Len(Append(batches[b].jobs, c)) >= Len(batches[b].jobs)
      /\ Append(batches[b].jobs, c)[job.index] = batches[b].jobs[job.index]
  BY <1>1, <1>2 DEF BatchRecord
<1>8. \A v \in Batches : Processing(v)' => Processing(v) BY <1>5, <1>6 DEF Processing
<1>9. UNCHANGED <<processing, job, single, active, version>> BY DEF Join
<1> QED BY <1>1, <1>5, <1>6, <1>7, <1>8, <1>9, BatchKeeps

LEMMA CancelKeeps == ASSUME ResearchIsSound, NEW b \in Batches, Cancel(b) PROVE ResearchIsSound'
<1>1. batches[b] \in BatchRecord BY DEF ResearchIsSound, ResearchTypes
<1>2. [batches[b] EXCEPT !.status = "cancelled"] = [status |-> "cancelled", jobs |-> batches[b].jobs]
  BY <1>1 DEF BatchRecord
<1>3. /\ batches'[b] = [status |-> "cancelled", jobs |-> batches[b].jobs]
      /\ \A v \in Batches \ {b} : batches'[v] = batches[v]
      /\ batches' \in [Batches -> BatchRecord]
  BY <1>1, <1>2 DEF Cancel, ResearchIsSound, ResearchTypes, BatchRecord
<1>4. job # NoJob => job.batch \in Batches /\ batches[job.batch].status \in {"processing", "cancelled"}
                     /\ batches[job.batch].jobs \in Seq(Persons)
  BY DEF ResearchIsSound, RunsAJob, RunRecord, ResearchTypes, BatchRecord
<1>5. UNCHANGED <<processing, job, single, active, version>> BY DEF Cancel
<1>6. \A v \in Batches : Processing(v)' => Processing(v) BY <1>3 DEF Processing
<1> QED BY <1>3, <1>4, <1>5, <1>6, BatchKeeps

LEMMA AnswersKeep == ASSUME ResearchIsSound, Answers \/ Refuses PROVE ResearchIsSound'
<1> DEFINE b == job.batch
           jobs == batches[b].jobs
<1>1. Researched # {} BY DEF Answers, Refuses
<1>2. Contact \in Persons /\ job \in RunRecord /\ job # NoJob /\ Unlocked = Alone
  BY <1>1, ResearchedIsAPerson
<1>3. b \in Batches /\ jobs \in Seq(Persons) /\ job.index \in 1..Len(jobs)
  BY <1>2 DEF ResearchIsSound, RunsAJob, RunRecord, ResearchTypes, BatchRecord
<1>4. \A v \in Batches \ {b} : ~Processing(v) BY DEF ResearchIsSound, OneResearchEach, Runs
<1>5. single' = single /\ Alone' = Alone BY DEF Answers, Refuses, Alone
<1>6. version' \in [Persons -> Nat]
  BY <1>2, LearntKeeps DEF Answers, Refuses, ResearchIsSound, ResearchTypes
<1>7. PICK i \in 1..Len(jobs) : After(b, i, jobs, Alone)
  <2>1. CASE Answers BY <1>2, <1>3, <2>1 DEF Answers
  <2>2. CASE Refuses
    <3>1. Len(jobs) \in 1..Len(jobs) BY <1>3
    <3> QED BY <1>2, <2>2, <3>1 DEF Refuses
  <2> QED BY <2>1, <2>2
<1>8. single' \in [Persons -> Nat \cup {NoJob}] BY <1>5 DEF ResearchIsSound, ResearchTypes
<1> QED BY <1>3, <1>4, <1>5, <1>6, <1>7, <1>8, AfterKeeps

LEMMA UnwindKeeps == ASSUME ResearchIsSound, Unwind PROVE ResearchIsSound'
<1>1. job' = NoJob /\ processing' = FALSE /\ UNCHANGED <<batches, single, version>> BY DEF Unwind
<1>2. active' = Alone
  <2>1. CASE Researched = {}
    BY <2>1 DEF Unwind, Unlocked, ResearchIsSound, OneResearchEach, Alone
  <2>2. CASE Researched # {} BY <2>2, ResearchedIsAPerson DEF Unwind
  <2> QED BY <2>1, <2>2
<1>3. \A b \in Batches : ~Processing(b)
  BY DEF Unwind, ResearchIsSound, OneResearchEach, Runs, Processing
<1>4. ResearchTypes' BY <1>1 DEF ResearchIsSound, ResearchTypes
<1>5. Researched' = {} /\ RunsAJob' BY <1>1 DEF Researched, RunsAJob
<1>6. OneResearchEach' BY <1>1, <1>2, <1>3, <1>5 DEF OneResearchEach, Processing, Alone
<1> QED BY <1>4, <1>5, <1>6 DEF ResearchIsSound

LEMMA ResearchSoundNext == ResearchIsSound /\ [ResearchNext]_researchVars => ResearchIsSound'
<1> SUFFICES ASSUME ResearchIsSound, [ResearchNext]_researchVars PROVE ResearchIsSound' OBVIOUS
<1>1. ASSUME NEW c \in Persons, Join(c) PROVE ResearchIsSound' BY <1>1, JoinKeeps
<1>2. ASSUME NEW c \in Persons, Enrich(c) PROVE ResearchIsSound'
  <2>1. single' = [single EXCEPT ![c] = version[c]] /\ version[c] \in Nat /\ c \notin active
    BY <1>2 DEF Enrich, ResearchIsSound, ResearchTypes
  <2>2. single' \in [Persons -> Nat \cup {NoJob}] BY <2>1 DEF ResearchIsSound, ResearchTypes
  <2>3. Alone' = Alone \cup {c} BY <2>1, ResearchAssumption DEF Alone, ResearchIsSound, ResearchTypes
  <2>4. active' = Researched \cup Alone'
    BY <1>2, <2>3 DEF Enrich, ResearchIsSound, OneResearchEach, Alone
  <2>5. \A d \in Researched : single'[d] = NoJob
    BY <2>1 DEF ResearchIsSound, OneResearchEach, ResearchTypes
  <2>6. UNCHANGED <<batches, processing, job, version>> BY <1>2 DEF Enrich
  <2> QED BY <2>2, <2>4, <2>5, <2>6, AsideKeeps DEF ResearchIsSound, ResearchTypes
<1>3. ASSUME NEW c \in Persons, EnrichEnds(c) PROVE ResearchIsSound'
  <2>1. single' = [single EXCEPT ![c] = NoJob] /\ single[c] # NoJob BY <1>3 DEF EnrichEnds
  <2>2. single' \in [Persons -> Nat \cup {NoJob}] BY <2>1 DEF ResearchIsSound, ResearchTypes
  <2>3. Alone' = Alone \ {c} BY <2>1 DEF Alone, ResearchIsSound, ResearchTypes
  <2>4. c \notin Researched BY <2>1 DEF ResearchIsSound, OneResearchEach
  <2>5. active' = Researched \cup Alone'
    BY <1>3, <2>3, <2>4 DEF EnrichEnds, ResearchIsSound, OneResearchEach, Alone
  <2>6. \A d \in Researched : single'[d] = NoJob
    BY <2>1, <2>4 DEF ResearchIsSound, OneResearchEach, ResearchTypes
  <2>7. version' \in [Persons -> Nat] BY <1>3, LearntKeeps DEF EnrichEnds, ResearchIsSound
  <2>8. UNCHANGED <<batches, processing, job>> BY <1>3 DEF EnrichEnds
  <2> QED BY <2>2, <2>5, <2>6, <2>7, <2>8, AsideKeeps
<1>4. ASSUME NEW c \in Persons, Edit(c) PROVE ResearchIsSound'
  <2>1. version' \in [Persons -> Nat] BY <1>4 DEF Edit, ResearchIsSound, ResearchTypes
  <2>2. UNCHANGED <<batches, processing, job, single, active>> BY <1>4 DEF Edit
  <2>3. Alone' = Alone BY <2>2 DEF Alone
  <2> QED BY <2>1, <2>2, <2>3, AsideKeeps DEF ResearchIsSound, OneResearchEach, ResearchTypes, Alone
<1>5. ASSUME NEW b \in Batches, StartBatch(b) PROVE ResearchIsSound'
  <2>1. job = NoJob /\ Researched = {} /\ \A v \in Batches : ~Processing(v)
    BY <1>5 DEF StartBatch, ResearchIsSound, OneResearchEach, Researched, Runs
  <2>2. PICK jobs \in Seq(Persons) : Len(jobs) >= 1 /\ Begin(b, 1, jobs)
    <3>1. PICK c \in Persons, d \in Persons : Begin(b, 1, IF c = d THEN <<c>> ELSE <<c, d>>)
      BY <1>5 DEF StartBatch
    <3>2. /\ <<c>> \in Seq(Persons) /\ Len(<<c>>) = 1
          /\ <<c, d>> \in Seq(Persons) /\ Len(<<c, d>>) = 2
      OBVIOUS
    <3> DEFINE jobs == IF c = d THEN <<c>> ELSE <<c, d>>
    <3>3. jobs \in Seq(Persons) /\ Len(jobs) >= 1 /\ Begin(b, 1, jobs) BY <3>1, <3>2
    <3> HIDE DEF jobs
    <3> QED BY <3>3
  <2>3. 1 \in 1..Len(jobs) BY <2>2
  <2> QED BY <2>1, <2>2, <2>3, BeginKeeps
<1>6. ASSUME NEW b \in Batches, Cancel(b) PROVE ResearchIsSound' BY <1>6, CancelKeeps
<1>7. CASE NextJob
  <2>1. /\ job # NoJob /\ job.waits /\ Researched = {}
        /\ Begin(job.batch, job.index, batches[job.batch].jobs)
    BY <1>7 DEF NextJob, Researched
  <2>2. /\ job.batch \in Batches /\ batches[job.batch].jobs \in Seq(Persons)
        /\ job.index \in 1..Len(batches[job.batch].jobs)
    BY <2>1 DEF ResearchIsSound, RunsAJob, RunRecord, ResearchTypes, BatchRecord
  <2>3. \A v \in Batches \ {job.batch} : ~Processing(v) BY DEF ResearchIsSound, OneResearchEach, Runs
  <2> QED BY <2>1, <2>2, <2>3, BeginKeeps
<1>8. CASE Answers \/ Refuses BY <1>8, AnswersKeep
<1>9. CASE Unwind BY <1>9, UnwindKeeps
<1>10. CASE UNCHANGED researchVars
  BY <1>10 DEF researchVars, ResearchIsSound, ResearchTypes, RunsAJob, OneResearchEach, Researched, Contact,
     Processing, Runs
<1> QED BY <1>1, <1>2, <1>3, <1>4, <1>5, <1>6, <1>7, <1>8, <1>9, <1>10 DEF ResearchNext

LEMMA AlwaysResearchSound == ResearchSpec => []ResearchIsSound
BY ResearchSoundInit, ResearchSoundNext, PTL DEF ResearchSpec

\* Whichever way research of a contact is asked for, joined, cancelled or ended, it runs
\* once at a time, and the run lock is held exactly while a batch runs.
THEOREM ResearchIsExclusive == ResearchSpec => []OneResearchEach
<1>1. ResearchIsSound => OneResearchEach BY DEF ResearchIsSound
<1> QED BY <1>1, AlwaysResearchSound, PTL

\* The answer of a batch that was cancelled is dropped: only the owner's edit changes the
\* contact it was about.
THEOREM CancelledAnswersAreDropped == ResearchSpec => NothingAfterCancel
<1> DEFINE Kept == \A c \in Researched :
                     version'[c] # version[c] => Processing(job.batch) \/ Edit(c)
<1>1. ResearchIsSound /\ [ResearchNext]_researchVars => [Kept]_researchVars
  <2> SUFFICES ASSUME ResearchIsSound, ResearchNext, NEW c \in Researched, version'[c] # version[c],
                      ~Processing(job.batch)
               PROVE  Edit(c)
    OBVIOUS
  <2>1. c \in Persons /\ single[c] = NoJob
    BY ResearchedIsAPerson DEF ResearchIsSound, OneResearchEach
  <2>2. ASSUME NEW d \in Persons, Edit(d) PROVE Edit(c)
    BY <2>1, <2>2 DEF Edit, ResearchIsSound, ResearchTypes
  <2>3. ASSUME NEW d \in Persons, EnrichEnds(d) PROVE FALSE
    BY <2>1, <2>3, LearntKeeps DEF EnrichEnds, ResearchIsSound
  <2>4. ASSUME NEW d \in Persons, Join(d) \/ Enrich(d) PROVE FALSE BY <2>4 DEF Join, Enrich
  <2>5. ASSUME NEW b \in Batches, StartBatch(b) \/ Cancel(b) PROVE FALSE
    BY <2>5 DEF StartBatch, Cancel, Begin
  <2>6. CASE NextJob BY <2>6 DEF NextJob
  <2>7. CASE Answers \/ Refuses BY <2>7 DEF Answers, Refuses
  <2>8. CASE Unwind BY <2>8 DEF Unwind
  <2> QED BY <2>2, <2>3, <2>4, <2>5, <2>6, <2>7, <2>8 DEF ResearchNext
<1> QED BY <1>1, AlwaysResearchSound, PTL DEF ResearchSpec, NothingAfterCancel

\* What bounds a batch and the versions, beside what is sound.
BatchesFit ==
  \A b \in Batches : Len(batches[b].jobs) <= MaxJobs /\ (batches[b].status = "none" => batches[b] = NoBatch)
ReadsFit == \A c \in Persons : version[c] <= MaxVersion /\ (single[c] # NoJob => single[c] <= MaxVersion)
RunFits == job # NoJob => job.read <= MaxVersion

ResearchFits == BatchesFit /\ ReadsFit /\ RunFits

LEMMA AfterFits ==
  ASSUME ResearchTypes, ResearchFits,
         NEW b \in Batches, NEW jobs \in Seq(Persons), Len(jobs) <= MaxJobs, NEW i, NEW held,
         After(b, i, jobs, held)
  PROVE  BatchesFit' /\ RunFits'
<1>1. PICK status \in {"processing", "complete"} :
         batches' = [batches EXCEPT ![b] = [status |-> status, jobs |-> jobs]]
  BY DEF After
<1>2. batches'[b] = [status |-> status, jobs |-> jobs] /\ \A v \in Batches \ {b} : batches'[v] = batches[v]
  BY <1>1 DEF ResearchTypes
<1>3. BatchesFit' BY <1>2 DEF ResearchFits, BatchesFit
<1>4. job' = NoJob \/ job'.read = 0 BY DEF After
<1> QED BY <1>3, <1>4, ResearchAssumption DEF RunFits

LEMMA BeginFits ==
  ASSUME ResearchTypes, ResearchFits,
         NEW b \in Batches, NEW jobs \in Seq(Persons), Len(jobs) <= MaxJobs, NEW i \in 1..Len(jobs),
         Begin(b, i, jobs)
  PROVE  ResearchFits'
<1>1. ReadsFit' BY DEF Begin, ResearchFits, ReadsFit
<1>2. CASE After(b, i, jobs, active) BY <1>1, <1>2, AfterFits DEF ResearchFits
<1>3. CASE /\ job' = [batch |-> b, index |-> i, waits |-> FALSE, read |-> version[jobs[i]]]
           /\ batches' = [batches EXCEPT ![b] = [status |-> "processing", jobs |-> jobs]]
  <2>1. batches'[b] = [status |-> "processing", jobs |-> jobs] /\ \A v \in Batches \ {b} : batches'[v] = batches[v]
    BY <1>3 DEF ResearchTypes
  <2>2. BatchesFit' BY <2>1 DEF ResearchFits, BatchesFit
  <2>3. RunFits' BY <1>3 DEF ResearchFits, ReadsFit, RunFits
  <2> QED BY <1>1, <2>2, <2>3 DEF ResearchFits
<1> QED BY <1>2, <1>3 DEF Begin

\* A version that research read is not the last one when it writes.
LEMMA LearntFits ==
  ASSUME ResearchTypes, ReadsFit, NEW c \in Persons, NEW read, Learnt(c, read)
  PROVE  \A d \in Persons : version'[d] <= MaxVersion
<1>1. CASE version' = version BY <1>1 DEF ReadsFit
<1>2. CASE version[c] = read /\ read < MaxVersion /\ version' = [version EXCEPT ![c] = @ + 1]
  <2>1. version[c] \in Nat BY DEF ResearchTypes
  <2>2. version[c] + 1 <= MaxVersion BY <1>2, <2>1, ResearchAssumption
  <2>3. version'[c] = version[c] + 1 /\ \A d \in Persons \ {c} : version'[d] = version[d] BY <1>2 DEF ResearchTypes
  <2> QED BY <2>2, <2>3 DEF ReadsFit
<1> QED BY <1>1, <1>2 DEF Learnt

LEMMA ResearchFitsNext == ResearchIsSound /\ ResearchFits /\ [ResearchNext]_researchVars => ResearchFits'
<1> SUFFICES ASSUME ResearchIsSound, ResearchFits, [ResearchNext]_researchVars PROVE ResearchFits' OBVIOUS
<1> USE DEF ResearchFits
<1>0. /\ ResearchTypes
      /\ job # NoJob => /\ job.batch \in Batches /\ batches[job.batch] \in BatchRecord
                        /\ batches[job.batch].jobs \in Seq(Persons) /\ Len(batches[job.batch].jobs) <= MaxJobs
                        /\ job.index \in 1..Len(batches[job.batch].jobs)
  BY DEF ResearchIsSound, RunsAJob, RunRecord, ResearchTypes, BatchRecord, BatchesFit
<1>1. ASSUME NEW c \in Persons, Join(c) PROVE ResearchFits'
  <2>1. PICK b \in Batches : b = job.batch /\ batches[b].status = "processing" /\ Len(batches[b].jobs) < MaxJobs
    BY <1>0, <1>1 DEF Join, ResearchIsSound, OneResearchEach, Processing
  <2>2. PICK jobs \in Seq(Persons) : jobs = batches[b].jobs BY <2>1 DEF ResearchIsSound, ResearchTypes, BatchRecord
  <2>3. batches' = [batches EXCEPT ![b] = [batches[b] EXCEPT !.jobs = Append(jobs, c)]] BY <1>1, <2>1, <2>2 DEF Join
  <2>4. batches[b] \in BatchRecord /\ Append(jobs, c) \in Seq(Persons) BY DEF ResearchIsSound, ResearchTypes
  <2>5. /\ batches'[b] = [status |-> "processing", jobs |-> Append(jobs, c)]
        /\ \A v \in Batches \ {b} : batches'[v] = batches[v]
    BY <1>0, <2>1, <2>3, <2>4, JobsReplaced DEF ResearchTypes
  <2>6. Len(Append(jobs, c)) <= MaxJobs BY <2>1, <2>2, ResearchAssumption
  <2>7. BatchesFit' BY <2>5, <2>6 DEF BatchesFit
  <2>8. UNCHANGED <<job, single, version>> BY <1>1 DEF Join
  <2> QED BY <2>7, <2>8 DEF ReadsFit, RunFits
<1>2. ASSUME NEW c \in Persons, Enrich(c) PROVE ResearchFits'
  <2>1. \A d \in Persons : single'[d] = IF d = c THEN version[c] ELSE single[d]
    BY <1>0, <1>2 DEF Enrich, ResearchTypes
  <2>2. UNCHANGED <<batches, job, version>> BY <1>2 DEF Enrich
  <2> QED BY <2>1, <2>2 DEF BatchesFit, ReadsFit, RunFits
<1>3. ASSUME NEW c \in Persons, EnrichEnds(c) PROVE ResearchFits'
  <2>1. \A d \in Persons : version'[d] <= MaxVersion BY <1>0, <1>3, LearntFits DEF EnrichEnds
  <2>2. \A d \in Persons : single'[d] \in {NoJob, single[d]} BY <1>0, <1>3 DEF EnrichEnds, ResearchTypes
  <2>3. UNCHANGED <<batches, job>> BY <1>3 DEF EnrichEnds
  <2> QED BY <2>1, <2>2, <2>3 DEF BatchesFit, ReadsFit, RunFits
<1>4. ASSUME NEW c \in Persons, Edit(c) PROVE ResearchFits'
  <2>1. version[c] \in Nat /\ version[c] < MaxVersion BY <1>0, <1>4 DEF Edit, ResearchTypes
  <2>2. version[c] + 1 <= MaxVersion BY <2>1, ResearchAssumption
  <2>3. \A d \in Persons : version'[d] = IF d = c THEN version[c] + 1 ELSE version[d]
    BY <1>0, <1>4 DEF Edit, ResearchTypes
  <2>4. UNCHANGED <<batches, job, single>> BY <1>4 DEF Edit
  <2> QED BY <2>2, <2>3, <2>4 DEF BatchesFit, ReadsFit, RunFits
<1>5. ASSUME NEW b \in Batches, StartBatch(b) PROVE ResearchFits'
  <2>1. PICK c \in Persons, d \in Persons : Begin(b, 1, IF c = d THEN <<c>> ELSE <<c, d>>) BY <1>5 DEF StartBatch
  <2>2. PICK jobs \in Seq(Persons) : Len(jobs) \in {1, 2} /\ Begin(b, 1, jobs)
    <3>1. <<c>> \in Seq(Persons) /\ Len(<<c>>) = 1 /\ <<c, d>> \in Seq(Persons) /\ Len(<<c, d>>) = 2 OBVIOUS
    <3>2. CASE c = d BY <2>1, <3>1, <3>2
    <3>3. CASE c # d BY <2>1, <3>1, <3>3
    <3> QED BY <3>2, <3>3
  <2>3. Len(jobs) <= MaxJobs /\ 1 \in 1..Len(jobs)
    <3>1. MaxJobs \in Nat /\ MaxJobs # 0 /\ MaxJobs # 1 BY ResearchAssumption
    <3>2. 1 <= MaxJobs /\ 2 <= MaxJobs BY <3>1
    <3>3. CASE Len(jobs) = 1 BY <3>2, <3>3
    <3>4. CASE Len(jobs) = 2 BY <3>2, <3>4
    <3> QED BY <2>2, <3>3, <3>4
  <2> QED BY <1>0, <2>2, <2>3, BeginFits
<1>6. ASSUME NEW b \in Batches, Cancel(b) PROVE ResearchFits'
  <2>1. batches[b] \in BatchRecord BY <1>0 DEF ResearchTypes
  <2>2. [batches[b] EXCEPT !.status = "cancelled"] = [status |-> "cancelled", jobs |-> batches[b].jobs]
    BY <2>1 DEF BatchRecord
  <2>3. /\ batches'[b] = [status |-> "cancelled", jobs |-> batches[b].jobs]
        /\ \A v \in Batches \ {b} : batches'[v] = batches[v]
    BY <1>0, <1>6, <2>2 DEF Cancel, ResearchTypes
  <2>4. UNCHANGED <<job, single, version>> BY <1>6 DEF Cancel
  <2> QED BY <2>3, <2>4 DEF BatchesFit, ReadsFit, RunFits
<1>7. CASE NextJob BY <1>0, <1>7, BeginFits DEF NextJob
<1>8. CASE Answers \/ Refuses
  <2>1. Contact \in Persons /\ job # NoJob /\ UNCHANGED single BY <1>8, ResearchedIsAPerson DEF Answers, Refuses
  <2>2. \A d \in Persons : version'[d] <= MaxVersion BY <1>0, <1>8, <2>1, LearntFits DEF Answers, Refuses, ReadsFit
  <2>3. \E i : After(job.batch, i, batches[job.batch].jobs, Unlocked) BY <1>8 DEF Answers, Refuses
  <2>4. BatchesFit' /\ RunFits' BY <1>0, <2>1, <2>3, AfterFits
  <2> QED BY <2>1, <2>2, <2>4 DEF ReadsFit
<1>9. CASE Unwind BY <1>9 DEF Unwind, BatchesFit, ReadsFit, RunFits
<1>10. CASE UNCHANGED researchVars BY <1>10 DEF researchVars, BatchesFit, ReadsFit, RunFits
<1> QED BY <1>1, <1>2, <1>3, <1>4, <1>5, <1>6, <1>7, <1>8, <1>9, <1>10 DEF ResearchNext

\* Every variable of the research queue keeps its type: a batch has no more jobs than it
\* may, the job that runs is one of them, and no research read a version that never was.
THEOREM ResearchTypesHold == ResearchSpec => []ResearchTypeOK
<1>1. ResearchInit => ResearchFits
  BY ResearchAssumption DEF ResearchInit, ResearchFits, BatchesFit, ReadsFit, RunFits, NoBatch
<1>2. ResearchIsSound /\ ResearchFits => ResearchTypeOK
  <2> SUFFICES ASSUME ResearchIsSound, ResearchFits PROVE ResearchTypeOK OBVIOUS
  <2>1. ASSUME NEW b \in Batches
        PROVE  batches[b] = NoBatch \/ batches[b] \in [status : {"processing", "cancelled", "complete"}, jobs : Seq(Persons)]
    <3>1. batches[b] \in BatchRecord BY DEF ResearchIsSound, ResearchTypes
    <3>2. CASE batches[b].status = "none" BY <3>2 DEF ResearchFits, BatchesFit
    <3>3. CASE batches[b].status # "none" BY <3>1, <3>3 DEF BatchRecord
    <3> QED BY <3>2, <3>3
  <2>2. ASSUME job # NoJob PROVE job \in [batch : Batches, index : 1..MaxJobs, waits : BOOLEAN, read : Version]
    <3>1. /\ job \in RunRecord /\ job.index \in 1..Len(batches[job.batch].jobs) /\ job.read <= MaxVersion
          /\ job.batch \in Batches
      BY <2>2 DEF ResearchIsSound, RunsAJob, ResearchFits, RunFits, RunRecord
    <3>2. Len(batches[job.batch].jobs) \in Nat /\ Len(batches[job.batch].jobs) <= MaxJobs
      BY <3>1 DEF ResearchIsSound, ResearchTypes, BatchRecord, ResearchFits, BatchesFit
    <3>3. job.index \in 1..MaxJobs /\ job.read \in Version
      BY <3>1, <3>2, ResearchAssumption DEF RunRecord, Version
    <3> QED BY <3>1, <3>3 DEF RunRecord
  <2>3. \A c \in Persons : (single[c] = NoJob \/ single[c] \in Version) /\ version[c] \in Version
    BY ResearchAssumption DEF ResearchIsSound, ResearchTypes, ResearchFits, ReadsFit, Version
  <2>4. active \subseteq Persons
    BY ResearchedIsAPerson DEF ResearchIsSound, OneResearchEach
  <2>5. version \in [Persons -> Version] BY <2>3 DEF ResearchIsSound, ResearchTypes
  <2> QED BY <2>1, <2>2, <2>3, <2>4, <2>5 DEF ResearchTypeOK, ResearchIsSound, ResearchTypes
<1> QED BY <1>1, <1>2, ResearchFitsNext, AlwaysResearchSound, PTL DEF ResearchSpec

-----------------------------------------------------------------------------
(***************************************************************************)
(* The scans for duplicates, for every set of accounts and of scans.       *)
(***************************************************************************)
Elems(q) == {q[i] : i \in 1..Len(q)}
Distinct(q) == \A i, k \in 1..Len(q) : q[i] = q[k] => i = k

(***************************************************************************)
(* What the list operations make of the elements.                          *)
(***************************************************************************)
LEMMA Appended ==
  ASSUME NEW q \in Seq(Scans), Distinct(q), NEW s \in Scans \ Elems(q)
  PROVE  /\ Append(q, s) \in Seq(Scans) /\ Append(q, s) # <<>>
         /\ Distinct(Append(q, s)) /\ Elems(Append(q, s)) = Elems(q) \cup {s}
<1> DEFINE r == Append(q, s)
<1>1. /\ r \in Seq(Scans) /\ Len(r) = Len(q) + 1 /\ r[Len(q) + 1] = s /\ Len(q) \in Nat
      /\ \A i \in 1..Len(q) : r[i] = q[i]
  OBVIOUS
<1> HIDE DEF r
<1>2. 1..Len(r) = 1..Len(q) \cup {Len(q) + 1} BY <1>1
<1>3. Elems(r) = Elems(q) \cup {s} BY <1>1, <1>2 DEF Elems
<1>4. Distinct(r) BY <1>1, <1>2 DEF Distinct, Elems
<1>5. r # <<>> BY <1>1
<1> QED BY <1>1, <1>3, <1>4, <1>5 DEF r

LEMMA Shortened ==
  ASSUME NEW q \in Seq(Scans), Distinct(q), q # <<>>
  PROVE  /\ Tail(q) \in Seq(Scans) /\ Head(q) \in Scans /\ Head(q) \in Elems(q)
         /\ Distinct(Tail(q)) /\ Elems(Tail(q)) = Elems(q) \ {Head(q)}
<1> DEFINE r == Tail(q)
<1>1. /\ Len(q) \in Nat \ {0} /\ Head(q) = q[1] /\ Head(q) \in Scans
      /\ r \in Seq(Scans) /\ Len(r) = Len(q) - 1
      /\ \A i \in 1..Len(r) : r[i] = q[i + 1]
  OBVIOUS
<1> HIDE DEF r
<1>2. \A i \in 1..Len(r) : i + 1 \in 1..Len(q) /\ i + 1 # 1 BY <1>1
<1>3. \A i \in 1..Len(q) : i = 1 \/ (i - 1 \in 1..Len(r) /\ (i - 1) + 1 = i) BY <1>1
<1>4. 1 \in 1..Len(q) BY <1>1
<1>5. Elems(r) \subseteq Elems(q) \ {Head(q)}
  <2> SUFFICES ASSUME NEW i \in 1..Len(r) PROVE r[i] \in Elems(q) \ {Head(q)} BY DEF Elems
  <2> QED BY <1>1, <1>2, <1>4 DEF Elems, Distinct
<1>6. Elems(q) \ {Head(q)} \subseteq Elems(r)
  <2> SUFFICES ASSUME NEW i \in 1..Len(q), q[i] # Head(q) PROVE q[i] \in Elems(r) BY DEF Elems
  <2>1. i - 1 \in 1..Len(r) /\ r[i - 1] = q[i] BY <1>1, <1>3
  <2> QED BY <2>1 DEF Elems
<1>7. Distinct(r)
  <2> SUFFICES ASSUME NEW i \in 1..Len(r), NEW k \in 1..Len(r), r[i] = r[k] PROVE i = k
    BY DEF Distinct
  <2>1. i + 1 = k + 1 BY <1>1, <1>2 DEF Distinct
  <2> QED BY <1>1, <2>1
<1>8. Head(q) \in Elems(q) BY <1>1, <1>4 DEF Elems
<1> QED BY <1>1, <1>5, <1>6, <1>7, <1>8 DEF r

LEMMA Prefixed ==
  ASSUME NEW q \in Seq(Scans), Distinct(q), NEW s \in Scans \ Elems(q)
  PROVE  /\ <<s>> \o q \in Seq(Scans)
         /\ Distinct(<<s>> \o q) /\ Elems(<<s>> \o q) = Elems(q) \cup {s}
<1> DEFINE r == <<s>> \o q
<1>1. /\ r \in Seq(Scans) /\ Len(r) = Len(q) + 1 /\ r[1] = s /\ Len(q) \in Nat
      /\ \A i \in 1..Len(q) : r[i + 1] = q[i]
  OBVIOUS
<1> HIDE DEF r
<1>2. \A i \in 1..Len(r) : i = 1 \/ (i - 1 \in 1..Len(q) /\ (i - 1) + 1 = i) BY <1>1
<1>3. \A i \in 1..Len(q) : i + 1 \in 1..Len(r) BY <1>1
<1>4. 1 \in 1..Len(r) BY <1>1
<1>5. \A i \in 1..Len(r) : i = 1 \/ (r[i] = q[i - 1] /\ r[i] \in Elems(q) /\ r[i] # s)
  BY <1>1, <1>2 DEF Elems
<1>6. Distinct(r)
  <2> SUFFICES ASSUME NEW i \in 1..Len(r), NEW k \in 1..Len(r), r[i] = r[k] PROVE i = k
    BY DEF Distinct
  <2>1. CASE i = 1 \/ k = 1 BY <1>1, <1>5, <2>1
  <2>2. CASE i # 1 /\ k # 1
    <3>1. i - 1 \in 1..Len(q) /\ k - 1 \in 1..Len(q) /\ q[i - 1] = q[k - 1] BY <1>2, <1>5, <2>2
    <3>2. i - 1 = k - 1 BY <3>1 DEF Distinct
    <3> QED BY <1>1, <3>2
  <2> QED BY <2>1, <2>2
<1>7. Elems(r) \subseteq Elems(q) \cup {s}
  <2> SUFFICES ASSUME NEW i \in 1..Len(r) PROVE r[i] \in Elems(q) \cup {s} BY DEF Elems
  <2> QED BY <1>1, <1>5
<1>8. Elems(q) \cup {s} \subseteq Elems(r)
  <2>1. s \in Elems(r) BY <1>1, <1>4 DEF Elems
  <2>2. ASSUME NEW i \in 1..Len(q) PROVE q[i] \in Elems(r) BY <1>1, <1>3 DEF Elems
  <2> QED BY <2>1, <2>2 DEF Elems
<1> QED BY <1>1, <1>6, <1>7, <1>8 DEF r

(***************************************************************************)
(* The invariant.                                                          *)
(***************************************************************************)
Starting == {s \in Scans : scans[s].phase = "starting"}

\* A scan that starts is in one of the two lists, once.
ListsAreRight ==
  /\ scans \in [Scans -> Entry \cup {NoScan}] /\ scanning \in BOOLEAN
  /\ pending \in Seq(Scans) /\ immediates \in Seq(Scans)
  /\ Distinct(pending) /\ Distinct(immediates)
  /\ Elems(pending) \cap Elems(immediates) = {}
  /\ Starting = Elems(pending) \cup Elems(immediates)

LockIsRight ==
  /\ scanning <=> \E s \in Scans : scans[s].phase = "running"
  /\ \A s, t \in Scans : scans[s].phase = "running" /\ scans[t].phase = "running" => s = t

SomebodyWillCall == pending # <<>> => scanning \/ immediates # <<>>

ScansAreSound == ListsAreRight /\ LockIsRight /\ SomebodyWillCall

LEMMA ScansSoundInit == ScanInit => ScansAreSound
<1> SUFFICES ASSUME ScanInit PROVE ScansAreSound OBVIOUS
<1>1. /\ Elems(<<>>) = {} /\ Distinct(<<>>) /\ <<>> \in Seq(Scans) BY DEF Elems, Distinct
<1>2. \A s \in Scans : scans[s].phase = "none" BY DEF ScanInit, NoScan
<1>3. ListsAreRight BY <1>1, <1>2 DEF ScanInit, ListsAreRight, Starting
<1>4. LockIsRight /\ SomebodyWillCall BY <1>2 DEF ScanInit, LockIsRight, SomebodyWillCall
<1> QED BY <1>3, <1>4 DEF ScansAreSound

\* A scan's entry is replaced by one of another phase.
LEMMA Moved ==
  ASSUME ListsAreRight, NEW s \in Scans, NEW e \in Entry, scans' = [scans EXCEPT ![s] = e]
  PROVE  /\ scans' \in [Scans -> Entry \cup {NoScan}]
         /\ scans'[s].phase = e.phase
         /\ \A t \in Scans \ {s} : scans'[t].phase = scans[t].phase
BY DEF ListsAreRight

LEMMA PhaseReplaced ==
  ASSUME NEW s \in Scans, scans[s] \in Entry, NEW phase \in {"starting", "running", "ended"},
         scans' = [scans EXCEPT ![s].phase = phase]
  PROVE  \E e \in Entry : e.phase = phase /\ scans' = [scans EXCEPT ![s] = e]
<1> DEFINE e == [owner |-> scans[s].owner, phase |-> phase]
<1>1. e \in Entry /\ e.phase = phase BY DEF Entry
<1>2. [scans[s] EXCEPT !.phase = phase] = e BY DEF Entry
<1>3. scans' = [scans EXCEPT ![s] = [scans[s] EXCEPT !.phase = phase]] OBVIOUS
<1> QED BY <1>1, <1>2, <1>3

LEMMA NewIsNowhere ==
  ASSUME ListsAreRight, NEW s \in Scans, scans[s] = NoScan
  PROVE  s \notin Elems(pending) /\ s \notin Elems(immediates)
BY DEF ListsAreRight, Starting, NoScan

LEMMA ScanKeeps == ASSUME ScansAreSound, NEW s \in Scans, NEW a \in Accounts, Scan(s, a) PROVE ScansAreSound'
<1> DEFINE e == [owner |-> a, phase |-> "running"]
<1>1. e \in Entry /\ scans' = [scans EXCEPT ![s] = e] /\ scans[s] = NoScan
  BY DEF Scan, Create, Entry
<1>2. ~scanning /\ scanning' = TRUE /\ UNCHANGED <<pending, immediates>> BY DEF Scan
<1>3. /\ scans' \in [Scans -> Entry \cup {NoScan}] /\ scans'[s].phase = "running"
      /\ \A t \in Scans \ {s} : scans'[t].phase = scans[t].phase
  BY <1>1, Moved DEF ScansAreSound
<1>4. Starting' = Starting BY <1>1, <1>3 DEF Starting, NoScan
<1>5. ListsAreRight' BY <1>2, <1>3, <1>4 DEF ScansAreSound, ListsAreRight
<1>6. LockIsRight' BY <1>2, <1>3 DEF ScansAreSound, LockIsRight
<1> QED BY <1>2, <1>5, <1>6 DEF ScansAreSound, SomebodyWillCall

LEMMA EnqueueKeeps ==
  ASSUME ScansAreSound, NEW s \in Scans, NEW a \in Accounts, Enqueue(s, a) PROVE ScansAreSound'
<1> DEFINE e == [owner |-> a, phase |-> "starting"]
<1>1. e \in Entry /\ scans' = [scans EXCEPT ![s] = e] /\ scans[s] = NoScan
  BY DEF Enqueue, Create, Entry
<1>2. pending' = Append(pending, s) /\ scanning /\ UNCHANGED <<scanning, immediates>> BY DEF Enqueue
<1>3. /\ scans' \in [Scans -> Entry \cup {NoScan}] /\ scans'[s].phase = "starting"
      /\ \A t \in Scans \ {s} : scans'[t].phase = scans[t].phase
  BY <1>1, Moved DEF ScansAreSound
<1>4. s \notin Elems(pending) /\ s \notin Elems(immediates) BY <1>1, NewIsNowhere DEF ScansAreSound
<1>5. /\ pending' \in Seq(Scans) /\ Distinct(pending')
      /\ Elems(pending') = Elems(pending) \cup {s}
  BY <1>2, <1>4, Appended DEF ScansAreSound, ListsAreRight
<1>6. Starting' = Starting \cup {s} BY <1>3 DEF Starting
<1>7. ListsAreRight'
  BY <1>2, <1>3, <1>4, <1>5, <1>6 DEF ScansAreSound, ListsAreRight
<1>8. LockIsRight' BY <1>1, <1>2, <1>3 DEF ScansAreSound, LockIsRight, NoScan
<1> QED BY <1>2, <1>7, <1>8 DEF ScansAreSound, SomebodyWillCall

LEMMA FinishKeeps == ASSUME ScansAreSound, NEW s \in Scans, Finish(s) PROVE ScansAreSound'
<1>1. /\ scans[s] \in Entry /\ scans[s].phase = "running"
      /\ scans' = [scans EXCEPT ![s].phase = "ended"] /\ scanning' = FALSE
  BY DEF Finish, ScansAreSound, ListsAreRight, NoScan
<1>2. PICK e \in Entry : e.phase = "ended" /\ scans' = [scans EXCEPT ![s] = e]
  BY <1>1, PhaseReplaced
<1>4. /\ scans' \in [Scans -> Entry \cup {NoScan}] /\ scans'[s].phase = "ended"
      /\ \A t \in Scans \ {s} : scans'[t].phase = scans[t].phase
  BY <1>2, Moved DEF ScansAreSound
<1>5. Starting' = Starting BY <1>1, <1>4 DEF Starting
<1>6. LockIsRight' BY <1>1, <1>4 DEF ScansAreSound, LockIsRight
<1>7. CASE pending = <<>>
  <2>1. UNCHANGED <<pending, immediates>> BY <1>7 DEF Finish
  <2> QED BY <1>1, <1>4, <1>5, <1>6, <1>7, <2>1 DEF ScansAreSound, ListsAreRight, SomebodyWillCall
<1>8. CASE pending # <<>>
  <2>1. pending' = Tail(pending) /\ immediates' = Append(immediates, Head(pending))
    BY <1>8 DEF Finish
  <2>2. /\ pending' \in Seq(Scans) /\ Head(pending) \in Scans /\ Head(pending) \in Elems(pending)
        /\ Distinct(pending') /\ Elems(pending') = Elems(pending) \ {Head(pending)}
    BY <1>8, <2>1, Shortened DEF ScansAreSound, ListsAreRight
  <2>3. Head(pending) \in Scans \ Elems(immediates) BY <2>2 DEF ScansAreSound, ListsAreRight
  <2>4. /\ immediates' \in Seq(Scans) /\ immediates' # <<>> /\ Distinct(immediates')
        /\ Elems(immediates') = Elems(immediates) \cup {Head(pending)}
    BY <2>1, <2>3, Appended DEF ScansAreSound, ListsAreRight
  <2>5. Elems(pending') \cap Elems(immediates') = {} /\ Starting' = Elems(pending') \cup Elems(immediates')
    BY <1>5, <2>2, <2>4 DEF ScansAreSound, ListsAreRight
  <2>6. ListsAreRight' BY <1>1, <1>4, <2>2, <2>4, <2>5 DEF ListsAreRight
  <2> QED BY <1>6, <2>4, <2>6 DEF ScansAreSound, SomebodyWillCall
<1> QED BY <1>7, <1>8

LEMMA TakeTurnKeeps == ASSUME ScansAreSound, TakeTurn PROVE ScansAreSound'
<1> DEFINE s == Head(immediates)
<1>1. /\ immediates' \in Seq(Scans) /\ s \in Scans /\ s \in Elems(immediates)
      /\ Distinct(immediates') /\ Elems(immediates') = Elems(immediates) \ {s}
  BY Shortened DEF TakeTurn, ScansAreSound, ListsAreRight
<1>2. s \notin Elems(pending) /\ scans[s].phase = "starting"
  BY <1>1 DEF ScansAreSound, ListsAreRight, Starting
<1>3. CASE scanning
  <2>1. pending' = <<s>> \o pending /\ UNCHANGED <<scans, scanning>>
    BY <1>3 DEF TakeTurn, PutBack
  <2>2. pending' \in Seq(Scans) /\ Distinct(pending') /\ Elems(pending') = Elems(pending) \cup {s}
    BY <1>1, <1>2, <2>1, Prefixed DEF ScansAreSound, ListsAreRight
  <2>3. Starting' = Starting /\ LockIsRight' BY <2>1 DEF Starting, ScansAreSound, LockIsRight
  <2>4. ListsAreRight' BY <1>1, <1>2, <2>1, <2>2, <2>3 DEF ScansAreSound, ListsAreRight
  <2> QED BY <1>3, <2>1, <2>3, <2>4 DEF ScansAreSound, SomebodyWillCall
<1>4. CASE ~scanning
  <2>1. /\ scans' = [scans EXCEPT ![s].phase = "running"] /\ scanning' = TRUE
        /\ pending' = pending
    BY <1>4 DEF TakeTurn
  <2>2. scans[s] \in Entry BY <1>1, <1>2 DEF ScansAreSound, ListsAreRight, NoScan
  <2>3. PICK e \in Entry : e.phase = "running" /\ scans' = [scans EXCEPT ![s] = e]
    BY <1>1, <2>1, <2>2, PhaseReplaced
  <2>5. /\ scans' \in [Scans -> Entry \cup {NoScan}] /\ scans'[s].phase = "running"
        /\ \A t \in Scans \ {s} : scans'[t].phase = scans[t].phase
    BY <1>1, <2>3, Moved DEF ScansAreSound
  <2>6. Starting' = Starting \ {s} BY <2>5 DEF Starting
  <2>7. LockIsRight' BY <1>1, <1>4, <2>1, <2>5 DEF ScansAreSound, LockIsRight
  <2>8. ListsAreRight' BY <1>1, <1>2, <2>1, <2>5, <2>6 DEF ScansAreSound, ListsAreRight
  <2> QED BY <2>1, <2>7, <2>8 DEF ScansAreSound, SomebodyWillCall
<1> QED BY <1>3, <1>4

LEMMA ScansSoundNext == ScansAreSound /\ [ScanNext]_scanVars => ScansAreSound'
<1> SUFFICES ASSUME ScansAreSound, [ScanNext]_scanVars PROVE ScansAreSound' OBVIOUS
<1>1. ASSUME NEW s \in Scans, NEW a \in Accounts, Scan(s, a) \/ Enqueue(s, a) PROVE ScansAreSound'
  BY <1>1, ScanKeeps, EnqueueKeeps
<1>2. ASSUME NEW s \in Scans, Finish(s) PROVE ScansAreSound' BY <1>2, FinishKeeps
<1>3. CASE TakeTurn BY <1>3, TakeTurnKeeps
<1>4. CASE UNCHANGED scanVars
  <2>1. UNCHANGED <<scans, scanning, pending, immediates>> BY <1>4 DEF scanVars
  <2>2. Starting' = Starting BY <2>1 DEF Starting
  <2> QED BY <2>1, <2>2 DEF ScansAreSound, ListsAreRight, LockIsRight, SomebodyWillCall
<1> QED BY <1>1, <1>2, <1>3, <1>4 DEF ScanNext

LEMMA ScansSoundImplies == ScansAreSound => TurnsAreKept
<1> SUFFICES ASSUME ScansAreSound PROVE TurnsAreKept OBVIOUS
<1> DEFINE both == pending \o immediates
           n == Len(pending)
<1>1. /\ n \in Nat /\ Len(immediates) \in Nat /\ DOMAIN both = 1..(n + Len(immediates))
      /\ \A i \in 1..n : both[i] = pending[i]
      /\ \A i \in 1..Len(immediates) : both[n + i] = immediates[i]
  BY DEF ScansAreSound, ListsAreRight
<1> HIDE DEF both
<1>2. \A i \in DOMAIN both :
        \/ i \in 1..n /\ both[i] = pending[i]
        \/ i - n \in 1..Len(immediates) /\ both[i] = immediates[i - n] /\ i \notin 1..n
  <2> SUFFICES ASSUME NEW i \in DOMAIN both, i \notin 1..n
               PROVE i - n \in 1..Len(immediates) /\ both[i] = immediates[i - n]
    BY <1>1
  <2>1. i - n \in 1..Len(immediates) /\ n + (i - n) = i BY <1>1
  <2> QED BY <1>1, <2>1
<1>3. ASSUME NEW s \in Scans, scans[s].phase = "starting" PROVE In(s, both)
  <2>1. CASE s \in Elems(pending)
    <3>1. PICK i \in 1..n : pending[i] = s BY <2>1 DEF Elems
    <3>2. i \in DOMAIN both BY <1>1
    <3> QED BY <1>1, <3>1, <3>2 DEF In
  <2>2. CASE s \in Elems(immediates)
    <3>1. PICK i \in 1..Len(immediates) : immediates[i] = s BY <2>2 DEF Elems
    <3>2. n + i \in DOMAIN both BY <1>1
    <3> QED BY <1>1, <3>1, <3>2 DEF In
  <2> QED BY <1>3, <2>1, <2>2 DEF ScansAreSound, ListsAreRight, Starting
<1>4. ASSUME NEW i \in DOMAIN both, NEW k \in DOMAIN both, both[i] = both[k] PROVE i = k
  <2>1. CASE i \in 1..n /\ k \in 1..n
    BY <1>1, <1>4, <2>1 DEF ScansAreSound, ListsAreRight, Distinct
  <2>2. CASE i \notin 1..n /\ k \notin 1..n
    <3>1. i - n \in 1..Len(immediates) /\ k - n \in 1..Len(immediates)
          /\ immediates[i - n] = immediates[k - n]
      BY <1>2, <1>4, <2>2
    <3>2. i - n = k - n BY <3>1 DEF ScansAreSound, ListsAreRight, Distinct
    <3> QED BY <1>1, <3>2
  <2>3. ASSUME NEW x \in DOMAIN both, NEW y \in DOMAIN both, x \in 1..n, y \notin 1..n
        PROVE both[x] # both[y]
    <3>1. both[x] \in Elems(pending) BY <1>1, <2>3 DEF Elems
    <3>2. both[y] \in Elems(immediates) BY <1>2, <2>3 DEF Elems
    <3> QED BY <3>1, <3>2 DEF ScansAreSound, ListsAreRight
  <2> QED BY <1>4, <2>1, <2>2, <2>3
<1> QED BY <1>3, <1>4 DEF TurnsAreKept, ScansAreSound, LockIsRight, SomebodyWillCall, both

\* However requests, ends and turns interleave, one scan runs, and a turn that was booked
\* is kept in one place until it begins, with something that will start it.
THEOREM BookedTurnsAreKept == ScanSpec => []TurnsAreKept
<1>1. ScanSpec => []ScansAreSound
  BY ScansSoundInit, ScansSoundNext, PTL DEF ScanSpec
<1> QED BY <1>1, ScansSoundImplies, PTL

\* The lists of the scan queue hold scans, and each scan is of an account once it is made.
THEOREM ScanTypesHold == ScanSpec => []ScanTypeOK
<1>1. ScanSpec => []ScansAreSound
  BY ScansSoundInit, ScansSoundNext, PTL DEF ScanSpec
<1>2. ScansAreSound => ScanTypeOK BY DEF ScansAreSound, ListsAreRight, ScanTypeOK
<1> QED BY <1>1, <1>2, PTL

-----------------------------------------------------------------------------
(***************************************************************************)
(* Deletes with an undo window, for every set of items and of windows.     *)
(***************************************************************************)
\* DeletesGoOnce, window by window: an item's entry is the one window of it that is
\* waiting, out or done.
LiveStatus == {"waiting", "sending", "deleted"}
EntryIsLive ==
  /\ \A i \in Items : entries[i] # NoWindow =>
       window[entries[i]] # Unopened /\ window[entries[i]].item = i
       /\ window[entries[i]].status \in LiveStatus
  /\ \A w \in Opened : window[w].status \in LiveStatus => entries[window[w].item] = w
SentOnce == \A w \in Opened : requests[w] = IF window[w].status \in {"waiting", "undone"} THEN 0 ELSE 1
TimersWait == armed = {w \in Opened : window[w].status = "waiting"}
RemovedWereSent == \A i \in removed : \E w \in Opened : window[w].item = i /\ requests[w] = 1
NewNotSent == \A w \in Windows : window[w] = Unopened => requests[w] = 0

DeletesAreSound ==
  /\ DeletesTypeOK
  /\ EntryIsLive /\ SentOnce /\ TimersWait /\ RemovedWereSent /\ NewNotSent

LEMMA WindowsAreOfTheirType ==
  ASSUME DeletesTypeOK, NEW w \in Windows
  PROVE /\ w \in Opened <=> window[w] \in WindowType
        /\ w \in Opened => window[w].item \in Items
BY WindowAssumption DEF DeletesTypeOK, Opened, Unopened, WindowType

LEMMA DeletesSoundInit == DeletesInit => DeletesAreSound
BY WindowAssumption DEF DeletesInit, DeletesAreSound, DeletesTypeOK, EntryIsLive, SentOnce, TimersWait,
   RemovedWereSent, NewNotSent, Opened, Unopened

\* Windows that wait are sent, all of them in one call or one of them.
LEMMA SendKeeps ==
  ASSUME DeletesAreSound, NEW ws \in SUBSET Windows, \A w \in ws : w \in Opened /\ IsWaiting(w), Send(ws)
  PROVE DeletesAreSound'
<1> USE WindowAssumption DEF DeletesAreSound, Opened
<1>1. \A w \in Windows : window[w] # Unopened => window[w] \in WindowType
  BY WindowsAreOfTheirType
<1>2. ASSUME NEW w \in ws
      PROVE  /\ window[w] \in WindowType /\ window[w].status = "waiting" /\ window[w] # Unopened
             /\ window'[w] \in WindowType /\ window'[w].status = "sending" /\ window'[w] # Unopened
             /\ window'[w].item = window[w].item
             /\ requests'[w] = 1
  <2>1. window[w] \in WindowType /\ window[w].status = "waiting" /\ window[w] # Unopened
    BY <1>1 DEF IsWaiting
  <2>2. window'[w] = [window[w] EXCEPT !.status = "sending"] BY DEF Send
  <2>3. window'[w] \in WindowType /\ window'[w].status = "sending" /\ window'[w].item = window[w].item
    BY <2>1, <2>2 DEF WindowType
  <2>4. requests[w] = 0 BY <2>1 DEF SentOnce
  <2> QED BY <2>1, <2>3, <2>4 DEF Send, Unopened
<1>3. \A w \in Windows \ ws : window'[w] = window[w] /\ requests'[w] = requests[w]
  BY DEF Send
<1>4. DeletesTypeOK'
  <2>1. window' \in [Windows -> WindowType \cup {Unopened}]
    BY <1>2, <1>3 DEF Send, DeletesTypeOK, WindowType
  <2>2. requests' \in [Windows -> Nat] BY DEF Send, DeletesTypeOK
  <2> QED BY <2>1, <2>2 DEF Send, DeletesTypeOK
<1>5. \A w \in Windows : /\ window'[w] = Unopened <=> window[w] = Unopened
                         /\ window'[w].item = window[w].item
                         /\ window'[w].status \in LiveStatus <=> window[w].status \in LiveStatus
  <2> SUFFICES ASSUME NEW w \in Windows
               PROVE /\ window'[w] = Unopened <=> window[w] = Unopened
                     /\ window'[w].item = window[w].item
                     /\ window'[w].status \in LiveStatus <=> window[w].status \in LiveStatus
    OBVIOUS
  <2>1. CASE w \in ws BY <1>2, <2>1 DEF LiveStatus
  <2>2. CASE w \notin ws BY <1>3, <2>2
  <2> QED BY <2>1, <2>2
<1>6. EntryIsLive'
  BY <1>5 DEF EntryIsLive, Send, DeletesTypeOK
<1>7. SentOnce'
  <2>1. \A w \in ws : window'[w].status = "sending" /\ requests'[w] = 1 BY <1>2
  <2> QED BY <1>3, <1>5, <2>1 DEF SentOnce
<1>8. TimersWait'
  <2>1. \A w \in ws : window'[w].status = "sending" BY <1>2
  <2> QED BY <1>3, <1>5, <2>1 DEF TimersWait, Send
<1>9. RemovedWereSent'
  <2>1. \A w \in Windows : requests[w] = 1 => requests'[w] = 1 BY <1>2, <1>3
  <2>2. removed' = removed BY DEF Send
  <2>3. \A w \in Opened : w \in Opened' /\ window'[w].item = window[w].item BY <1>5
  <2> QED BY <2>1, <2>2, <2>3 DEF RemovedWereSent
<1>10. NewNotSent' BY <1>2, <1>3, <1>5 DEF NewNotSent
<1> QED BY <1>4, <1>6, <1>7, <1>8, <1>9, <1>10

LEMMA StartKeeps ==
  ASSUME DeletesAreSound, NEW i \in Items, NEW w \in Windows, StartPendingDelete(i, w) PROVE DeletesAreSound'
<1> USE WindowAssumption DEF DeletesAreSound, Opened, StartPendingDelete
<1>1. window'[w] = [item |-> i, status |-> "waiting"] /\ \A v \in Windows \ {w} : window'[v] = window[v]
  BY DEF DeletesTypeOK
<1>2. DeletesTypeOK'
  BY DEF DeletesTypeOK, WindowType
<1>3. \A v \in Windows : window[v] # Unopened => window[v].item \in Items
  BY WindowsAreOfTheirType
<1>4. EntryIsLive' BY <1>1, <1>3 DEF EntryIsLive, LiveStatus, DeletesTypeOK, Unopened
<1>5. SentOnce' BY <1>1 DEF SentOnce, NewNotSent, Unopened
<1>6. TimersWait' BY <1>1 DEF TimersWait, Unopened
<1>7. RemovedWereSent' BY <1>1 DEF RemovedWereSent, Unopened
<1>8. NewNotSent' BY <1>1 DEF NewNotSent, Unopened
<1> QED BY <1>2, <1>4, <1>5, <1>6, <1>7, <1>8

LEMMA UndoKeeps == ASSUME DeletesAreSound, NEW w \in Windows, Undo(w) PROVE DeletesAreSound'
<1> USE WindowAssumption DEF DeletesAreSound, Opened, Undo
<1>1. window[w] \in WindowType /\ window[w].status = "waiting" /\ window[w].item \in Items
  BY WindowsAreOfTheirType DEF IsWaiting
<1>2. /\ window'[w] = [item |-> window[w].item, status |-> "undone"]
      /\ \A v \in Windows \ {w} : window'[v] = window[v]
  BY <1>1 DEF DeletesTypeOK, WindowType
<1>3. DeletesTypeOK'
  <2>1. window' \in [Windows -> WindowType \cup {Unopened}]
    BY <1>1, <1>2 DEF DeletesTypeOK, WindowType
  <2> QED BY <2>1 DEF DeletesTypeOK
<1>4. \A v \in Windows : window[v] # Unopened => window[v].item \in Items
  BY WindowsAreOfTheirType
<1>5. EntryIsLive'
  <2>1. \A i \in Items : entries'[i] = IF i = window[w].item THEN NoWindow ELSE entries[i]
    BY <1>1 DEF DeletesTypeOK
  <2>2. window'[w].status \notin LiveStatus BY <1>2 DEF LiveStatus
  <2>3. \A i \in Items : entries'[i] # NoWindow => entries'[i] # w
    BY <1>1, <2>1 DEF EntryIsLive
  <2>4. \A i \in Items : entries[i] \in Windows \cup {NoWindow} BY DEF DeletesTypeOK
  <2>5. \A i \in Items : entries'[i] # NoWindow =>
           window'[entries'[i]] # Unopened /\ window'[entries'[i]].item = i
           /\ window'[entries'[i]].status \in LiveStatus
    BY <1>2, <2>1, <2>3, <2>4 DEF EntryIsLive
  <2>6. \A v \in Windows \ {w} : window[v] # Unopened /\ window[v].status \in LiveStatus
           => window[v].item # window[w].item
    BY <1>1 DEF EntryIsLive, IsCurrent
  <2> QED BY <1>2, <1>4, <2>1, <2>2, <2>5, <2>6 DEF EntryIsLive
<1>6. SentOnce' BY <1>1, <1>2 DEF SentOnce, Unopened
<1>7. TimersWait' BY <1>1, <1>2 DEF TimersWait, Unopened
<1>8. RemovedWereSent' BY <1>1, <1>2 DEF RemovedWereSent, Unopened
<1>9. NewNotSent' BY <1>1, <1>2 DEF NewNotSent, Unopened
<1> QED BY <1>3, <1>5, <1>6, <1>7, <1>8, <1>9

LEMMA DeleteEndsKeeps == ASSUME DeletesAreSound, NEW w \in Windows, DeleteEnds(w) PROVE DeletesAreSound'
<1> USE WindowAssumption DEF DeletesAreSound, Opened
<1>1. /\ window[w] \in WindowType /\ window[w].status = "sending" /\ window[w].item \in Items
      /\ entries[window[w].item] = w /\ requests[w] = 1
  BY WindowsAreOfTheirType DEF DeleteEnds, EntryIsLive, LiveStatus, SentOnce
<1>2. PICK s \in {"deleted", "failed"} :
        /\ window'[w] = [item |-> window[w].item, status |-> s]
        /\ \A v \in Windows \ {w} : window'[v] = window[v]
        /\ window' \in [Windows -> WindowType \cup {Unopened}]
        /\ entries' = IF s = "failed" THEN [entries EXCEPT ![window[w].item] = NoWindow] ELSE entries
        /\ removed' \in {removed, removed \cup {window[w].item}}
  <2>1. CASE window' = [window EXCEPT ![w].status = "deleted"] /\ entries' = entries
             /\ removed' = removed \cup {window[w].item}
    BY <1>1, <2>1 DEF DeletesTypeOK, WindowType
  <2>2. CASE /\ window' = [window EXCEPT ![w].status = "failed"]
             /\ removed' \in {removed, removed \cup {window[w].item}}
             /\ entries' = [entries EXCEPT ![window[w].item] = NoWindow]
    BY <1>1, <2>2 DEF DeletesTypeOK, WindowType
  <2> QED BY <1>1, <2>1, <2>2 DEF DeleteEnds, IsCurrent
<1>3. DeletesTypeOK' BY <1>1, <1>2 DEF DeleteEnds, DeletesTypeOK
<1>4. \A v \in Windows : window[v] # Unopened => window[v].item \in Items
  BY WindowsAreOfTheirType
<1>5. EntryIsLive'
  BY <1>1, <1>2, <1>4 DEF EntryIsLive, LiveStatus, DeletesTypeOK, Unopened
<1>6. armed' = armed /\ requests' = requests BY DEF DeleteEnds
<1>7. SentOnce' BY <1>1, <1>2, <1>6 DEF SentOnce, Unopened
<1>8. TimersWait' BY <1>1, <1>2, <1>6 DEF TimersWait, Unopened
<1>9. RemovedWereSent' BY <1>1, <1>2, <1>6 DEF RemovedWereSent, Unopened
<1>10. NewNotSent' BY <1>1, <1>2, <1>6 DEF NewNotSent, Unopened
<1> QED BY <1>3, <1>5, <1>7, <1>8, <1>9, <1>10

LEMMA DeletesSoundNext == DeletesAreSound /\ [DeletesNext]_deleteVars => DeletesAreSound'
<1> SUFFICES ASSUME DeletesAreSound, [DeletesNext]_deleteVars PROVE DeletesAreSound' OBVIOUS
<1>1. ASSUME NEW i \in Items, NEW w \in Windows, StartPendingDelete(i, w) PROVE DeletesAreSound'
  BY <1>1, StartKeeps
<1>2. ASSUME NEW w \in Windows, ToastCloses(w) \/ TimerRunsOut(w) PROVE DeletesAreSound'
  <2>1. Send({w}) /\ w \in Opened /\ IsWaiting(w)
    BY <1>2 DEF ToastCloses, TimerRunsOut, EndWindow, IsWaiting
  <2> QED BY <2>1, SendKeeps
<1>3. ASSUME NEW w \in Windows, Undo(w) PROVE DeletesAreSound' BY <1>3, UndoKeeps
<1>4. ASSUME NEW w \in Windows, DeleteEnds(w) PROVE DeletesAreSound' BY <1>4, DeleteEndsKeeps
<1>5. CASE PageHides BY <1>5, SendKeeps DEF PageHides, IsWaiting
<1>6. CASE UNCHANGED deleteVars
  BY <1>6 DEF deleteVars, DeletesAreSound, DeletesTypeOK, EntryIsLive, SentOnce, TimersWait,
     RemovedWereSent, NewNotSent, Opened
<1> QED BY <1>1, <1>2, <1>3, <1>4, <1>5, <1>6 DEF DeletesNext

LEMMA DeletesSoundImplies == DeletesAreSound => DeletesGoOnce
<1> SUFFICES ASSUME DeletesAreSound PROVE DeletesGoOnce OBVIOUS
<1>1. ASSUME NEW i \in Items
      PROVE {w \in Opened : window[w].item = i /\ window[w].status \in LiveStatus} = {entries[i]} \ {NoWindow}
  BY WindowAssumption DEF DeletesAreSound, DeletesTypeOK, EntryIsLive, Opened
<1> QED BY <1>1 DEF DeletesAreSound, DeletesGoOnce, LiveStatus, SentOnce, TimersWait, RemovedWereSent

\* Over every interleaving of toasts, timers, hidden pages, undos and failed requests, an
\* item is hidden by one window, which sends at most one request, and none after Undo.
THEOREM DeletesAreSentOnce == DeletesSpec => []DeletesGoOnce
<1>1. DeletesSpec => []DeletesAreSound
  BY DeletesSoundInit, DeletesSoundNext, PTL DEF DeletesSpec
<1> QED BY <1>1, DeletesSoundImplies, PTL

\* An entry is a window, a window that was opened is of an item, and the server removes items.
THEOREM DeletesTypesHold == DeletesSpec => []DeletesTypeOK
<1>1. DeletesSpec => []DeletesAreSound
  BY DeletesSoundInit, DeletesSoundNext, PTL DEF DeletesSpec
<1>2. DeletesAreSound => DeletesTypeOK BY DEF DeletesAreSound
<1> QED BY <1>1, <1>2, PTL

-----------------------------------------------------------------------------
(***************************************************************************)
(* Geocoding, for every set of contacts and of addresses.                  *)
(***************************************************************************)
\* The key somebody waits for is of the address the contact has, unless a change of it has
\* not been read, or the owner placed the pin: then no answer moves it.
WaitsAreRight ==
  /\ DOMAIN address = Contacts /\ DOMAIN pin = Contacts /\ DOMAIN latest = Contacts
  /\ DOMAIN manual = Contacts /\ DOMAIN event = Contacts
  /\ \A c \in Contacts : latest[c] \in {Nowhere, address[c]} \/ event[c] # "no" \/ manual[c]

\* What a pin may move to.
Follows(c) == pin'[c] # pin[c] /\ pin'[c] # Nowhere => ~manual'[c] /\ (pin'[c] = address[c] \/ event[c] # "no")

LEMMA WaitsInit == GeoInit => WaitsAreRight
BY DEF GeoInit, WaitsAreRight

LEMMA AppliesRight ==
  ASSUME WaitsAreRight, NEW task, Apply(task), UNCHANGED <<address, manual, event>>
  PROVE  WaitsAreRight' /\ \A c \in Contacts : Follows(c)
<1>1. \A c \in Contacts : pin'[c] = IF c \in Wanting(task) /\ ~manual[c] THEN task.key ELSE pin[c]
  BY DEF Apply, PinsOf
<1>2. \A c \in Wanting(task) : latest[c] = task.key BY DEF Wanting
<1>3. ASSUME NEW c \in Contacts PROVE Follows(c) BY <1>1, <1>2, <1>3 DEF WaitsAreRight, Follows
<1>4. DOMAIN pin' = Contacts BY DEF Apply, PinsOf
<1>5. DOMAIN latest' = Contacts /\ \A c \in Contacts : latest'[c] \in {Nowhere, latest[c]} BY DEF Apply
<1>6. WaitsAreRight' BY <1>4, <1>5 DEF WaitsAreRight
<1> QED BY <1>3, <1>6

LEMMA QueuesRight ==
  ASSUME WaitsAreRight, NEW c \in Contacts, NEW k, Queues(c, k)
  PROVE  DOMAIN latest' = Contacts /\ \A b \in Contacts : IF b = c THEN latest'[b] \in {Nowhere, k} ELSE latest'[b] = latest[b]
<1>1. latest' = [latest EXCEPT ![c] = IF cache[k] = "unknown" /\ ~off THEN k ELSE Nowhere] BY DEF Queues
<1> QED BY <1>1 DEF WaitsAreRight

LEMMA WaitsNext ==
  ASSUME WaitsAreRight, GeoNext
  PROVE  WaitsAreRight' /\ \A c \in Contacts : Follows(c)
<1> DEFINE Right == WaitsAreRight' /\ \A c \in Contacts : Follows(c)
<1>1. ASSUME NEW c \in Contacts, Subscriber(c) PROVE Right
  <2>1. CASE manual[c] BY <1>1, <2>1 DEF Subscriber, WaitsAreRight, Follows
  <2>2. CASE ~manual[c] /\ address[c] # Nowhere
    <3>1. /\ Queues(c, address[c]) /\ UNCHANGED <<address, manual>> /\ event' = [event EXCEPT ![c] = "no"]
          /\ pin' = IF cache[address[c]] = "found" THEN PinsOf({c}, address[c]) ELSE pin
      BY <1>1, <2>2 DEF Subscriber, Queued
    <3>2. \A b \in Contacts : pin'[b] \in {pin[b]} \cup (IF b = c THEN {address[c]} ELSE {}) BY <3>1 DEF PinsOf
    <3>3. DOMAIN pin' = Contacts BY <3>1 DEF PinsOf, WaitsAreRight
    <3>4. DOMAIN latest' = Contacts /\ \A b \in Contacts : IF b = c THEN latest'[b] \in {Nowhere, address[c]} ELSE latest'[b] = latest[b]
      BY <3>1, QueuesRight
    <3>5. /\ DOMAIN address' = Contacts /\ DOMAIN manual' = Contacts /\ DOMAIN event' = Contacts
          /\ \A b \in Contacts : address'[b] = address[b] /\ manual'[b] = manual[b] /\ (b # c => event'[b] = event[b])
      BY <3>1 DEF WaitsAreRight
    <3>6. WaitsAreRight' BY <3>3, <3>4, <3>5 DEF WaitsAreRight
    <3>7. \A b \in Contacts : Follows(b) BY <2>2, <3>1, <3>2 DEF Follows, WaitsAreRight
    <3> QED BY <3>6, <3>7
  <2>3. CASE ~manual[c] /\ address[c] = Nowhere
    <3>1. /\ latest' = [latest EXCEPT ![c] = Nowhere] /\ event' = [event EXCEPT ![c] = "no"] /\ address' = address
          /\ manual' = [manual EXCEPT ![c] = event[c] = "released"]
          /\ pin' = IF event[c] = "released" THEN pin ELSE [pin EXCEPT ![c] = Nowhere]
      BY <1>1, <2>3 DEF Subscriber
    <3>2. WaitsAreRight' BY <3>1 DEF WaitsAreRight
    <3>3. \A b \in Contacts : pin'[b] \in {pin[b], Nowhere} BY <3>1 DEF WaitsAreRight
    <3> QED BY <3>2, <3>3 DEF Follows
  <2> QED BY <2>1, <2>2, <2>3
<1>2. ASSUME NEW c \in Contacts, Regeocode(c) PROVE Right
  <2>1. /\ Queues(c, address[c]) /\ UNCHANGED <<address, event>> /\ manual' = [manual EXCEPT ![c] = FALSE]
        /\ pin' = [pin EXCEPT ![c] = IF cache[address[c]] = "found" THEN address[c] ELSE Nowhere]
    BY <1>2 DEF Regeocode
  <2>2. DOMAIN latest' = Contacts /\ \A b \in Contacts : IF b = c THEN latest'[b] \in {Nowhere, address[c]} ELSE latest'[b] = latest[b]
    BY <2>1, QueuesRight
  <2>3. /\ DOMAIN address' = Contacts /\ DOMAIN manual' = Contacts /\ DOMAIN event' = Contacts /\ DOMAIN pin' = Contacts
        /\ \A b \in Contacts : address'[b] = address[b] /\ event'[b] = event[b] /\ (b # c => manual'[b] = manual[b])
    BY <2>1 DEF WaitsAreRight
  <2>4. WaitsAreRight' BY <2>2, <2>3 DEF WaitsAreRight
  <2>5. \A b \in Contacts : Follows(b) BY <2>1 DEF Follows, WaitsAreRight
  <2> QED BY <2>4, <2>5
<1>3. ASSUME NEW c \in Contacts, NEW k, SetAddress(c, k) PROVE Right
  BY <1>3 DEF SetAddress, WaitsAreRight, Follows
<1>4. ASSUME NEW c \in Contacts, SetLocation(c) PROVE Right
  BY <1>4 DEF SetLocation, WaitsAreRight, Follows
<1>5. CASE ApplyKnown BY <1>5, AppliesRight DEF ApplyKnown
<1>6. ASSUME NEW k \in Keys, Found(k) PROVE Right BY <1>6, AppliesRight DEF Found, Answered
<1>7. ASSUME NEW k \in Keys, NotFound(k) PROVE Right
  BY <1>7 DEF NotFound, Answered, WaitsAreRight, Follows
<1>8. CASE \/ Drop \/ Ask \/ NoAnswer \/ Wake \/ (\E k \in Keys : FailureLapses(k) \/ Prune(k))
           \/ (\E k \in Searched : SearchPlace(k)) \/ (\E value \in BOOLEAN : SetGeocodingOff(value))
  <2>1. UNCHANGED <<address, pin, manual, event, latest>>
    BY <1>8 DEF Drop, Ask, NoAnswer, Wake, FailureLapses, Prune, SearchPlace, SetGeocodingOff
  <2> QED BY <2>1 DEF WaitsAreRight, Follows
<1> QED BY <1>1, <1>2, <1>3, <1>4, <1>5, <1>6, <1>7, <1>8, GeoAssumption DEF GeoNext

\* However lookups, edits, placed pins and place searches interleave, a late answer moves no
\* pin its owner placed, and none to an address its contact has left.
THEOREM PinsFollowAddresses == GeoSpec => PinFollowsAddress
<1>1. WaitsAreRight /\ [GeoNext]_geoVars => WaitsAreRight'
  <2>1. CASE UNCHANGED geoVars BY <2>1 DEF geoVars, WaitsAreRight
  <2> QED BY <2>1, WaitsNext
<1>2. WaitsAreRight /\ [GeoNext]_geoVars =>
        [\A c \in Contacts : pin'[c] # pin[c] /\ pin'[c] # Nowhere =>
           /\ ~manual'[c]
           /\ pin'[c] = address[c] \/ event[c] # "no"]_geoVars
  BY WaitsNext DEF Follows
<1> QED BY <1>1, <1>2, WaitsInit, PTL DEF GeoSpec, PinFollowsAddress


-----------------------------------------------------------------------------
(***************************************************************************)
(* What the geocoder's queue holds.                                        *)
(***************************************************************************)
LEMMA LeastOf ==
  ASSUME NEW T, T \subseteq Nat, T # {}
  PROVE  \E x \in T : \A y \in T : x <= y
<1> DEFINE R == OpToRel(<, Nat)
<1>1. IsWellFoundedOn(R, Nat) BY NatLessThanWellFounded
<1> HIDE DEF R
<1>2. \E x \in T : \A y \in T : ~(<<y, x>> \in R) BY <1>1, WFMin
<1>3. PICK x \in T : \A y \in T : ~(<<y, x>> \in R) BY <1>2
<1>4. \A y \in T : y < x => <<y, x>> \in R BY DEF R, OpToRel
<1>5. \A y \in T : ~(y < x) BY <1>3, <1>4
<1> QED BY <1>5

LEMMA ElementsAre ==
  ASSUME NEW S, NEW s \in Seq(S)
  PROVE  /\ Range(s) \subseteq S /\ Range(s) = {s[i] : i \in 1 .. Len(s)} /\ Range(<<>>) = {}
         /\ \A e \in S : Append(s, e) \in Seq(S) /\ Range(Append(s, e)) = Range(s) \cup {e}
         /\ s # <<>> => Head(s) \in S /\ Tail(s) \in Seq(S) /\ Range(s) = Range(Tail(s)) \cup {Head(s)}
<1>1. DOMAIN s = 1 .. Len(s) /\ Len(s) \in Nat /\ \A i \in 1 .. Len(s) : s[i] \in S OBVIOUS
<1>2. Range(<<>>) = {}
  <2>1. DOMAIN <<>> = {} OBVIOUS
  <2> QED BY <2>1 DEF Range
<1>3. ASSUME NEW e \in S PROVE Append(s, e) \in Seq(S) /\ Range(Append(s, e)) = Range(s) \cup {e}
  <2>1. /\ Append(s, e) \in Seq(S) /\ DOMAIN Append(s, e) = 1 .. Len(s) + 1
        /\ Append(s, e)[Len(s) + 1] = e /\ \A i \in 1 .. Len(s) : Append(s, e)[i] = s[i]
    BY <1>1
  <2> DEFINE a == Append(s, e)
  <2>2. \A x \in Range(a) : x \in Range(s) \cup {e}
    <3> SUFFICES ASSUME NEW i \in 1 .. Len(s) + 1 PROVE a[i] \in Range(s) \cup {e} BY <2>1 DEF Range
    <3> QED BY <1>1, <2>1 DEF Range
  <2>3. \A x \in Range(s) : x \in Range(a)
    <3> SUFFICES ASSUME NEW i \in 1 .. Len(s) PROVE s[i] \in Range(a) BY <1>1 DEF Range
    <3>1. i \in DOMAIN a /\ a[i] = s[i] BY <1>1, <2>1
    <3> QED BY <3>1 DEF Range
  <2>4. e \in Range(a)
    <3>1. Len(s) + 1 \in DOMAIN a BY <1>1, <2>1
    <3> QED BY <2>1, <3>1 DEF Range
  <2> QED BY <2>1, <2>2, <2>3, <2>4
<1>4. ASSUME s # <<>> PROVE Head(s) \in S /\ Tail(s) \in Seq(S) /\ Range(s) = Range(Tail(s)) \cup {Head(s)}
  <2>1. /\ Tail(s) \in Seq(S) /\ DOMAIN Tail(s) = 1 .. Len(s) - 1 /\ Head(s) = s[1] /\ Len(s) >= 1
        /\ \A i \in 1 .. Len(s) - 1 : Tail(s)[i] = s[i + 1]
    BY <1>1, <1>4
  <2> DEFINE t == Tail(s)
  <2>2. \A x \in Range(t) : x \in Range(s)
    <3> SUFFICES ASSUME NEW i \in 1 .. Len(s) - 1 PROVE t[i] \in Range(s) BY <2>1 DEF Range
    <3>1. i + 1 \in DOMAIN s /\ t[i] = s[i + 1] BY <1>1, <2>1
    <3> QED BY <3>1 DEF Range
  <2>3. \A x \in Range(s) : x \in Range(t) \cup {Head(s)}
    <3> SUFFICES ASSUME NEW i \in 1 .. Len(s), i # 1 PROVE s[i] \in Range(t) BY <1>1, <2>1 DEF Range
    <3>1. i - 1 \in DOMAIN t /\ t[i - 1] = s[i] BY <1>1, <2>1
    <3> QED BY <3>1 DEF Range
  <2>4. Head(s) \in Range(s) /\ Head(s) \in S
    <3>1. 1 \in 1 .. Len(s) BY <1>1, <2>1
    <3> QED BY <1>1, <2>1, <3>1 DEF Range
  <2> QED BY <2>1, <2>2, <2>3, <2>4
<1>5. Range(s) \subseteq S /\ Range(s) = {s[i] : i \in 1 .. Len(s)} BY <1>1 DEF Range
<1> QED BY <1>2, <1>3, <1>4, <1>5

\* The tasks that are left are those of the queue that are not taken out.
LEMMA WithoutIs ==
  ASSUME NEW S, NEW s \in Seq(S), NEW out
  PROVE  Without(s, out) \in Seq(S) /\ Range(Without(s, out)) = Range(s) \ out
<1> DEFINE Step(f, n) == IF n = 0 THEN <<>> ELSE IF s[n] \in out THEN f[n - 1] ELSE Append(f[n - 1], s[n])
           Recurses(f, n) == f = [i \in 0 .. n |-> Step(f, i)]
<1>1. \A n \in Nat : \E f : Recurses(f, n)
  <2> DEFINE T == {n \in Nat : ~\E f : Recurses(f, n)}
  <2> SUFFICES ASSUME T # {} PROVE FALSE OBVIOUS
  <2>1. T \subseteq Nat OBVIOUS
  <2> HIDE DEF T
  <2>4. PICK n \in T : \A y \in T : n <= y BY <2>1, LeastOf
  <2>2. CASE n = 0
    <3> DEFINE f == [i \in 0 .. 0 |-> <<>>]
    <3>1. Recurses(f, 0) OBVIOUS
    <3> QED BY <2>4, <2>2, <3>1 DEF T
  <2>3. CASE n # 0
    <3>1. n - 1 \in Nat /\ n - 1 \notin T BY <2>1, <2>3, <2>4
    <3>2. PICK g : Recurses(g, n - 1) BY <3>1 DEF T
    <3> DEFINE f == [i \in 0 .. n |-> IF i = n THEN Step(g, n) ELSE g[i]]
    <3>3. ASSUME NEW i \in 0 .. n PROVE f[i] = Step(f, i)
      <4>1. CASE i = n
        <5>1. f[n - 1] = g[n - 1] BY <2>1, <2>3, <2>4
        <5> QED BY <2>3, <4>1, <5>1
      <4>2. CASE i # n
        <5>1. i \in 0 .. n - 1 BY <2>1, <2>4, <4>2
        <5>2. g[i] = Step(g, i) BY <3>2, <5>1
        <5>3. i # 0 => f[i - 1] = g[i - 1] BY <2>1, <2>4, <5>1
        <5> QED BY <4>2, <5>2, <5>3
      <4> QED BY <4>1, <4>2
    <3>4. Recurses(f, n) BY <3>3
    <3> HIDE DEF f
    <3> QED BY <2>4, <3>4 DEF T
  <2> QED BY <2>2, <2>3
<1>2. Len(s) \in Nat /\ \A i \in 1 .. Len(s) : s[i] \in S OBVIOUS
<1>3. ASSUME NEW f, Recurses(f, Len(s))
      PROVE  \A n \in 0 .. Len(s) : f[n] \in Seq(S) /\ Range(f[n]) = {s[i] : i \in 1 .. n} \ out
  <2> DEFINE Right(n) == f[n] \in Seq(S) /\ Range(f[n]) = {s[i] : i \in 1 .. n} \ out
             T == {n \in 0 .. Len(s) : ~Right(n)}
  <2> SUFFICES ASSUME T # {} PROVE FALSE OBVIOUS
  <2>5. T \subseteq Nat BY <1>2
  <2> HIDE DEF T
  <2>6. PICK n \in T : \A y \in T : n <= y BY <2>5, LeastOf
  <2>1. n \in 0 .. Len(s) /\ n \in Nat /\ ~Right(n) BY <1>2, <2>6 DEF T
  <2>2. f[n] = Step(f, n) BY <1>3, <2>1
  <2>3. CASE n = 0
    <3>1. f[n] = <<>> BY <2>2, <2>3
    <3>2. {s[i] : i \in 1 .. n} = {} BY <2>3
    <3> QED BY <2>1, <2>3, <3>1, <3>2, ElementsAre
  <2>4. CASE n # 0
    <3>1. n - 1 \in 0 .. Len(s) /\ n - 1 \notin T /\ n \in 1 .. Len(s) BY <1>2, <2>1, <2>4, <2>5, <2>6
    <3>2. Right(n - 1) BY <3>1 DEF T
    <3>3. {s[i] : i \in 1 .. n} = {s[i] : i \in 1 .. n - 1} \cup {s[n]} BY <1>2, <3>1
    <3>4. CASE s[n] \in out
      <4>1. f[n] = f[n - 1] BY <2>2, <2>4, <3>4
      <4>2. Right(n) BY <3>2, <3>3, <3>4, <4>1
      <4> QED BY <2>1, <4>2
    <3>5. CASE s[n] \notin out
      <4>1. PICK g \in Seq(S) : g = f[n - 1] BY <3>2
      <4>2. f[n] = Append(g, s[n]) /\ s[n] \in S BY <1>2, <2>2, <2>4, <3>1, <3>5, <4>1
      <4>3. f[n] \in Seq(S) /\ Range(f[n]) = Range(g) \cup {s[n]} BY <4>2, ElementsAre
      <4>4. Right(n) BY <3>2, <3>3, <3>5, <4>1, <4>3
      <4> QED BY <2>1, <4>4
    <3> QED BY <3>4, <3>5
  <2> QED BY <2>3, <2>4
<1>4. PICK f : Recurses(f, Len(s)) /\ Without(s, out) = f[Len(s)]
  <2>1. \E f : Recurses(f, Len(s)) BY <1>1, <1>2
  <2> DEFINE F == CHOOSE f : Recurses(f, Len(s))
  <2>2. Recurses(F, Len(s)) BY <2>1
  <2>3. Without(s, out) = F[Len(s)] BY DEF Without
  <2> HIDE DEF F
  <2> QED BY <2>2, <2>3
<1>5. f[Len(s)] \in Seq(S) /\ Range(f[Len(s)]) = {s[i] : i \in 1 .. Len(s)} \ out BY <1>2, <1>3, <1>4
<1>6. Range(s) = {s[i] : i \in 1 .. Len(s)} BY DEF Range
<1> QED BY <1>4, <1>5, <1>6


\* Whose address somebody should be looking up.
Awaits(c) ==
  /\ address[c] # Nowhere /\ pin[c] = Nowhere /\ ~manual[c] /\ event[c] = "no"
  /\ cache[address[c]] # "failed" /\ ~wereOff /\ c \notin lapsed

\* What a contact waits for is queued or out.
HasItsTask(c) == latest[c] # Nowhere => [contact |-> c, key |-> latest[c]] \in Range(queue) \cup {asking}

GeoTypes ==
  /\ address \in [Contacts -> Maybe(Keys)] /\ pin \in [Contacts -> Maybe(Keys)]
  /\ latest \in [Contacts -> Maybe(Keys)] /\ DOMAIN manual = Contacts /\ DOMAIN event = Contacts
  /\ cache \in [Keys -> {"unknown", "found", "failed"}]
  /\ queue \in Seq(Task) /\ asking \in Maybe(Task) /\ lapsed \subseteq Contacts

AllHaveTasks == ~wereOff => \A c \in Contacts : HasItsTask(c)
AllWait == \A c \in Contacts : Awaits(c) => latest[c] = address[c]

AskedIsRight == GeoTypes /\ (off => wereOff) /\ AllHaveTasks /\ AllWait

LEMMA AskedInit == GeoInit => AskedIsRight
<1> SUFFICES ASSUME GeoInit PROVE AskedIsRight OBVIOUS
<1>1. GeoTypes BY DEF GeoInit, GeoTypes, Maybe
<1>2. AllHaveTasks /\ AllWait /\ (off => wereOff) BY DEF GeoInit, AllHaveTasks, HasItsTask, AllWait, Awaits
<1> QED BY <1>1, <1>2 DEF AskedIsRight

\* The tasks left when a contact's, or an address's, are taken out.
LEMMA LeftIs ==
  ASSUME GeoTypes, NEW c \in Contacts, NEW k \in Keys
  PROVE  /\ Without(queue, Of(c)) \in Seq(Task) /\ Without(queue, For(k)) \in Seq(Task)
         /\ \A b \in Contacts, j \in Keys : [contact |-> b, key |-> j] \in Range(queue) =>
              /\ b # c => [contact |-> b, key |-> j] \in Range(Without(queue, Of(c)))
              /\ j # k => [contact |-> b, key |-> j] \in Range(Without(queue, For(k)))
<1>1. queue \in Seq(Task) BY DEF GeoTypes
<1>2. PICK q \in Seq(Task) : q = queue BY <1>1
<1>3. /\ Without(q, Of(c)) \in Seq(Task) /\ Range(Without(q, Of(c))) = Range(q) \ Of(c)
      /\ Without(q, For(k)) \in Seq(Task) /\ Range(Without(q, For(k))) = Range(q) \ For(k)
  BY WithoutIs
<1>4. \A b \in Contacts, j \in Keys : /\ b # c => [contact |-> b, key |-> j] \notin Of(c)
                                      /\ j # k => [contact |-> b, key |-> j] \notin For(k)
  BY DEF Of, For
<1> QED BY <1>2, <1>3, <1>4

\* Who waits for a place that comes gets it, and waits no more; the others' tasks stay.
LEMMA AppliedAsked ==
  ASSUME GeoTypes, NEW task \in Task, Apply(task), UNCHANGED <<address, manual>>
  PROVE  /\ pin' \in [Contacts -> Maybe(Keys)] /\ latest' \in [Contacts -> Maybe(Keys)] /\ queue' \in Seq(Task)
         /\ \A c \in Contacts : pin'[c] = Nowhere => pin[c] = Nowhere
         /\ \A c \in Contacts : latest'[c] # latest[c] => latest[c] = task.key /\ latest'[c] = Nowhere
         /\ \A c \in Contacts, k \in Keys : k # task.key /\ [contact |-> c, key |-> k] \in Range(queue) =>
              [contact |-> c, key |-> k] \in Range(queue')
         /\ \A c \in Contacts : latest[c] = task.key /\ [contact |-> c, key |-> task.key] \in Range(queue) \cup {task} =>
              latest'[c] = Nowhere /\ (~manual[c] => pin'[c] # Nowhere)
<1>1. task.key \in Keys /\ task.contact \in Contacts /\ Nowhere \notin Keys BY GeoAssumption DEF Task
<1>2. PICK k \in Keys, b \in Contacts : k = task.key /\ b = task.contact BY <1>1
<1>3. queue' = Without(queue, For(k)) BY <1>2 DEF Apply
<1>4. pin' = [c \in Contacts |-> IF c \in Wanting(task) /\ ~manual[c] THEN k ELSE pin[c]]
  BY <1>2 DEF Apply, PinsOf
<1>5. latest' = [c \in Contacts |-> IF c \in Wanting(task) THEN Nowhere ELSE latest[c]] BY DEF Apply
<1>6. pin' \in [Contacts -> Maybe(Keys)] BY <1>4 DEF GeoTypes, Maybe
<1>7. latest' \in [Contacts -> Maybe(Keys)] BY <1>5 DEF GeoTypes, Maybe
<1>8. \A c \in Contacts : pin'[c] = Nowhere => pin[c] = Nowhere BY <1>1, <1>4
<1>9. \A c \in Contacts : latest'[c] # latest[c] => latest[c] = task.key /\ latest'[c] = Nowhere BY <1>5 DEF Wanting
<1>10. queue' \in Seq(Task) BY <1>2, <1>3, LeftIs
<1>11. \A c \in Contacts, j \in Keys : j # k /\ [contact |-> c, key |-> j] \in Range(queue) =>
         [contact |-> c, key |-> j] \in Range(queue')
  BY <1>2, <1>3, LeftIs
<1>12. \A c \in Contacts : latest[c] = k /\ [contact |-> c, key |-> k] \in Range(queue) \cup {task} => c \in Wanting(task)
  BY <1>2 DEF Wanting
<1>13. \A c \in Contacts : latest[c] = k /\ [contact |-> c, key |-> k] \in Range(queue) \cup {task} =>
         latest'[c] = Nowhere /\ (~manual[c] => pin'[c] # Nowhere)
  BY <1>1, <1>2, <1>4, <1>5, <1>12
<1> QED BY <1>2, <1>6, <1>7, <1>8, <1>9, <1>10, <1>11, <1>13

LEMMA QueuesAsked ==
  ASSUME GeoTypes, NEW c \in Contacts, NEW k \in Keys, Queues(c, k)
  PROVE  /\ latest' \in [Contacts -> Maybe(Keys)] /\ queue' \in Seq(Task) /\ lapsed' = lapsed \ {c}
         /\ latest'[c] = IF cache[k] = "unknown" /\ ~off THEN k ELSE Nowhere
         /\ latest'[c] = k => [contact |-> c, key |-> k] \in Range(queue')
         /\ \A b \in Contacts \ {c} : latest'[b] = latest[b]
         /\ \A b \in Contacts \ {c}, j \in Keys :
              [contact |-> b, key |-> j] \in Range(queue) => [contact |-> b, key |-> j] \in Range(queue')
<1> DEFINE left == Without(queue, Of(c))
<1>1. /\ latest' = [latest EXCEPT ![c] = IF cache[k] = "unknown" /\ ~off THEN k ELSE Nowhere]
      /\ queue' = IF cache[k] = "unknown" /\ ~off THEN Append(left, [contact |-> c, key |-> k]) ELSE left
      /\ lapsed' = lapsed \ {c}
  BY DEF Queues
<1>2. /\ left \in Seq(Task)
      /\ \A b \in Contacts \ {c}, j \in Keys :
           [contact |-> b, key |-> j] \in Range(queue) => [contact |-> b, key |-> j] \in Range(left)
  BY LeftIs
<1>3. latest' \in [Contacts -> Maybe(Keys)] /\ \A b \in Contacts \ {c} : latest'[b] = latest[b]
  BY <1>1 DEF GeoTypes, Maybe
<1> HIDE DEF left
<1>4. PICK q \in Seq(Task), t \in Task : q = left /\ t = [contact |-> c, key |-> k] BY <1>2 DEF Task
<1>5. Append(q, t) \in Seq(Task) /\ Range(Append(q, t)) = Range(q) \cup {t} BY ElementsAre
<1>6. CASE cache[k] = "unknown" /\ ~off
  <2>1. queue' = Append(q, t) BY <1>1, <1>4, <1>6
  <2>2. latest'[c] = k BY <1>1, <1>6 DEF GeoTypes
  <2> QED BY <1>1, <1>2, <1>3, <1>4, <1>5, <1>6, <2>1, <2>2
<1>7. CASE ~(cache[k] = "unknown" /\ ~off)
  <2>1. queue' = left BY <1>1, <1>7
  <2>2. latest'[c] = Nowhere /\ Nowhere # k BY <1>1, <1>7, GeoAssumption DEF GeoTypes
  <2> QED BY <1>1, <1>2, <1>3, <1>7, <2>1, <2>2
<1> QED BY <1>6, <1>7

\* A contact is queued for the address it has: it has its task, or its place, or no answer to wait for.
LEMMA QueuedAsked ==
  ASSUME AskedIsRight, NEW c \in Contacts, NEW k \in Keys, k = address[c], Queues(c, k),
         UNCHANGED <<address, cache, asking, off, wereOff>>,
         pin' \in [Contacts -> Maybe(Keys)], DOMAIN manual' = Contacts, DOMAIN event' = Contacts,
         cache[k] = "found" => pin'[c] # Nowhere,
         \A b \in Contacts \ {c} : pin'[b] = pin[b] /\ manual'[b] = manual[b] /\ event'[b] = event[b]
  PROVE  AskedIsRight'
<1> USE DEF AskedIsRight
<1>1. /\ latest' \in [Contacts -> Maybe(Keys)] /\ queue' \in Seq(Task) /\ lapsed' = lapsed \ {c}
      /\ latest'[c] = IF cache[k] = "unknown" /\ ~off THEN k ELSE Nowhere
      /\ latest'[c] = k => [contact |-> c, key |-> k] \in Range(queue')
      /\ \A b \in Contacts \ {c} : latest'[b] = latest[b]
      /\ \A b \in Contacts \ {c}, j \in Keys :
           [contact |-> b, key |-> j] \in Range(queue) => [contact |-> b, key |-> j] \in Range(queue')
  BY QueuesAsked
<1>2. GeoTypes' BY <1>1 DEF GeoTypes
<1>3. cache[k] \in {"unknown", "found", "failed"} /\ k # Nowhere BY GeoAssumption DEF GeoTypes
<1>4. ASSUME NEW b \in Contacts, ~wereOff PROVE HasItsTask(b)'
  <2>1. CASE b = c BY <1>1, <2>1 DEF HasItsTask
  <2>2. CASE b # c
    <3>1. HasItsTask(b) BY <1>4 DEF AllHaveTasks
    <3>2. latest[b] \in Maybe(Keys) BY DEF GeoTypes
    <3> QED BY <1>1, <2>2, <3>1, <3>2 DEF HasItsTask, Maybe
  <2> QED BY <2>1, <2>2
<1>5. ASSUME NEW b \in Contacts, Awaits(b)' PROVE latest'[b] = address'[b]
  <2>1. CASE b = c BY <1>1, <1>3, <1>5, <2>1 DEF Awaits
  <2>2. CASE b # c
    <3>1. Awaits(b) BY <1>1, <1>5, <2>2 DEF Awaits
    <3> QED BY <1>1, <2>2, <3>1 DEF AllWait
  <2> QED BY <2>1, <2>2
<1> QED BY <1>2, <1>4, <1>5 DEF AllHaveTasks, AllWait

\* Tasks that go nowhere keep who waits right, as long as no pin, address or failure goes.
LEMMA NothingTaken ==
  ASSUME AskedIsRight, UNCHANGED <<latest, queue, asking>>, (off' => wereOff'), (wereOff => wereOff'),
         GeoTypes', \A b \in Contacts : Awaits(b)' => address'[b] = address[b] /\ Awaits(b)
  PROVE  AskedIsRight'
<1> USE DEF AskedIsRight
<1>1. AllHaveTasks' BY DEF AllHaveTasks, HasItsTask
<1>2. AllWait' BY DEF AllWait
<1> QED BY <1>1, <1>2

\* A place comes, for a task that was queued or is out.
LEMMA PlaceAsked ==
  ASSUME AskedIsRight, NEW task \in Task, Apply(task), UNCHANGED <<address, manual, event, off, wereOff>>,
         asking \in {Nowhere, task}, asking' = Nowhere,
         cache' \in [Keys -> {"unknown", "found", "failed"}], \A k \in Keys \ {task.key} : cache'[k] = cache[k],
         lapsed' \subseteq Contacts, lapsed \subseteq lapsed', cache[task.key] = "failed" => LeftOut(task.key) \subseteq lapsed'
  PROVE  AskedIsRight'
<1> USE DEF AskedIsRight
<1>0. Nowhere \notin Keys /\ Nowhere \notin Task /\ task.key \in Keys BY GeoAssumption, TaskAssumption DEF Task
<1>1. /\ pin' \in [Contacts -> Maybe(Keys)] /\ latest' \in [Contacts -> Maybe(Keys)] /\ queue' \in Seq(Task)
      /\ \A c \in Contacts : pin'[c] = Nowhere => pin[c] = Nowhere
      /\ \A c \in Contacts : latest'[c] # latest[c] => latest[c] = task.key /\ latest'[c] = Nowhere
      /\ \A c \in Contacts, k \in Keys : k # task.key /\ [contact |-> c, key |-> k] \in Range(queue) =>
           [contact |-> c, key |-> k] \in Range(queue')
      /\ \A c \in Contacts : latest[c] = task.key /\ [contact |-> c, key |-> task.key] \in Range(queue) \cup {task} =>
           latest'[c] = Nowhere /\ (~manual[c] => pin'[c] # Nowhere)
  BY AppliedAsked
<1>2. GeoTypes' BY <1>1 DEF GeoTypes, Maybe
<1>3. ASSUME NEW b \in Contacts, ~wereOff, latest[b] = task.key
      PROVE  latest'[b] = Nowhere /\ (~manual[b] => pin'[b] # Nowhere)
  <2>1. [contact |-> b, key |-> task.key] \in Range(queue) \cup {asking}
    BY <1>0, <1>3 DEF AllHaveTasks, HasItsTask
  <2>2. [contact |-> b, key |-> task.key] \in Task BY <1>0 DEF Task
  <2>3. [contact |-> b, key |-> task.key] \in Range(queue) \cup {task} BY <1>0, <2>1, <2>2
  <2> QED BY <1>1, <1>3, <2>3
<1>4. ASSUME NEW b \in Contacts, ~wereOff PROVE HasItsTask(b)'
  <2>1. CASE latest[b] = task.key BY <1>3, <1>4, <2>1 DEF HasItsTask
  <2>2. CASE latest[b] # task.key /\ latest[b] # Nowhere
    <3>1. latest'[b] = latest[b] /\ latest[b] \in Keys BY <1>1, <2>2 DEF GeoTypes, Maybe
    <3>2. HasItsTask(b) BY <1>4 DEF AllHaveTasks
    <3>3. PICK t : t = [contact |-> b, key |-> latest[b]] OBVIOUS
    <3>4. t \in Range(queue) \cup {asking} /\ t # task BY <2>2, <3>2, <3>3 DEF HasItsTask
    <3>5. t \in Task BY <3>1, <3>3 DEF Task
    <3>6. t \in Range(queue) BY <1>0, <3>4, <3>5
    <3>7. t \in Range(queue') BY <1>1, <2>2, <3>1, <3>3, <3>6
    <3> QED BY <3>1, <3>3, <3>7 DEF HasItsTask
  <2>3. CASE latest[b] = Nowhere
    <3>1. latest'[b] = Nowhere BY <1>1, <2>3
    <3> QED BY <3>1 DEF HasItsTask
  <2> QED BY <2>1, <2>2, <2>3
<1>5. ASSUME NEW b \in Contacts, Awaits(b)' PROVE latest'[b] = address'[b]
  <2>1. /\ address[b] # Nowhere /\ pin[b] = Nowhere /\ pin'[b] = Nowhere /\ ~manual[b] /\ event[b] = "no"
        /\ ~wereOff /\ b \notin lapsed' /\ b \notin lapsed /\ address'[b] = address[b]
        /\ cache'[address[b]] # "failed" /\ address[b] \in Keys
    BY <1>1, <1>5 DEF Awaits, GeoTypes, Maybe
  <2>2. latest[b] # task.key BY <1>3, <2>1
  <2>3. CASE address[b] = task.key
    <3>1. b \in LeftOut(task.key) BY <2>1, <2>2, <2>3 DEF LeftOut
    <3>2. cache[address[b]] # "failed" BY <2>1, <2>3, <3>1
    <3>3. Awaits(b) BY <2>1, <3>2 DEF Awaits
    <3> QED BY <2>2, <2>3, <3>3 DEF AllWait
  <2>4. CASE address[b] # task.key
    <3>1. Awaits(b) BY <2>1, <2>4 DEF Awaits
    <3>2. latest'[b] = latest[b] BY <1>1, <2>2
    <3> QED BY <2>1, <3>1, <3>2 DEF AllWait
  <2> QED BY <2>3, <2>4
<1>6. AllHaveTasks' BY <1>4 DEF AllHaveTasks
<1>7. AllWait' BY <1>5 DEF AllWait
<1> QED BY <1>2, <1>6, <1>7

\* The task of a contact that waited and is not out now was queued, or went back.
LEMMA AskedNext == ASSUME AskedIsRight, GeoNext PROVE AskedIsRight'
<1> USE DEF AskedIsRight
<1>0. /\ \A c \in Contacts : address[c] \in Maybe(Keys) /\ (address[c] # Nowhere => address[c] \in Keys)
      /\ Nowhere \notin Keys /\ Nowhere \notin Task
  BY GeoAssumption, TaskAssumption DEF GeoTypes, Maybe
<1>1. ASSUME NEW c \in Contacts, Subscriber(c) PROVE AskedIsRight'
  <2>1. /\ UNCHANGED <<address, cache, asking, waits, off, wereOff>>
        /\ event' = [event EXCEPT ![c] = "no"] /\ event[c] # "no"
    BY <1>1 DEF Subscriber
  <2>2. DOMAIN event' = Contacts /\ \A b \in Contacts \ {c} : event'[b] = event[b] BY <2>1 DEF GeoTypes
  <2>3. CASE manual[c]
    <3>1. UNCHANGED <<pin, manual, queue, latest, lapsed>> BY <1>1, <2>3 DEF Subscriber
    <3>2. GeoTypes' BY <2>1, <3>1 DEF GeoTypes
    <3>3. \A b \in Contacts : Awaits(b)' => b # c /\ Awaits(b) BY <2>1, <2>2, <2>3, <3>1 DEF Awaits
    <3> QED BY <2>1, <3>1, <3>2, <3>3, NothingTaken
  <2>4. CASE ~manual[c] /\ address[c] # Nowhere
    <3>1. /\ Queues(c, address[c]) /\ UNCHANGED manual
          /\ pin' = IF cache[address[c]] = "found" THEN PinsOf({c}, address[c]) ELSE pin
      BY <1>1, <2>4 DEF Subscriber, Queued
    <3>2. PICK k \in Keys : k = address[c] BY <1>0, <2>4
    <3>3. Queues(c, k) BY <3>1, <3>2
    <3>4. pin' \in [Contacts -> Maybe(Keys)] /\ \A b \in Contacts \ {c} : pin'[b] = pin[b]
      BY <3>1, <3>2 DEF PinsOf, GeoTypes, Maybe
    <3>5. cache[k] = "found" => pin'[c] # Nowhere BY <1>0, <2>4, <3>1, <3>2 DEF PinsOf
    <3>6. DOMAIN manual' = Contacts BY <3>1 DEF GeoTypes
    <3> QED BY <2>1, <2>2, <3>1, <3>2, <3>3, <3>4, <3>5, <3>6, QueuedAsked
  <2>5. CASE ~manual[c] /\ address[c] = Nowhere
    <3>1. /\ queue' = Without(queue, Of(c)) /\ latest' = [latest EXCEPT ![c] = Nowhere]
          /\ manual' = [manual EXCEPT ![c] = event[c] = "released"] /\ UNCHANGED lapsed
          /\ pin' = IF event[c] = "released" THEN pin ELSE [pin EXCEPT ![c] = Nowhere]
      BY <1>1, <2>5 DEF Subscriber
    <3>2. /\ latest' \in [Contacts -> Maybe(Keys)] /\ pin' \in [Contacts -> Maybe(Keys)] /\ DOMAIN manual' = Contacts
          /\ \A b \in Contacts \ {c} : latest'[b] = latest[b] /\ pin'[b] = pin[b] /\ manual'[b] = manual[b]
          /\ latest'[c] = Nowhere
      BY <3>1 DEF GeoTypes, Maybe
    <3>3. queue' \in Seq(Task)
      <4>1. CASE \E k : k \in Keys BY <3>1, <4>1, LeftIs
      <4>2. CASE Keys = {}
        <5>1. PICK q \in Seq(Task) : q = queue BY DEF GeoTypes
        <5> QED BY <3>1, <5>1, WithoutIs
      <4> QED BY <4>1, <4>2
    <3>4. GeoTypes' BY <2>1, <2>2, <3>1, <3>2, <3>3 DEF GeoTypes
    <3>5. ASSUME NEW b \in Contacts, ~wereOff PROVE HasItsTask(b)'
      <4>1. CASE latest'[b] = Nowhere BY <4>1 DEF HasItsTask
      <4>2. CASE latest'[b] # Nowhere
        <5>1. b # c /\ latest'[b] = latest[b] BY <3>2, <4>2
        <5>2. PICK k \in Keys : k = latest[b] BY <4>2, <5>1 DEF GeoTypes, Maybe
        <5>3. [contact |-> b, key |-> k] \in Range(queue) \cup {asking}
          BY <3>5, <4>2, <5>1, <5>2 DEF AllHaveTasks, HasItsTask
        <5>4. [contact |-> b, key |-> k] \in Range(queue') \cup {asking} BY <3>1, <5>1, <5>3, LeftIs
        <5> QED BY <2>1, <5>1, <5>2, <5>4 DEF HasItsTask
      <4> QED BY <4>1, <4>2
    <3>6. ASSUME NEW b \in Contacts, Awaits(b)' PROVE latest'[b] = address'[b]
      <4>1. b # c BY <2>1, <2>5, <3>6 DEF Awaits
      <4>2. Awaits(b) BY <2>1, <2>2, <3>1, <3>2, <3>6, <4>1 DEF Awaits
      <4> QED BY <2>1, <3>2, <4>1, <4>2 DEF AllWait
    <3> QED BY <2>1, <3>4, <3>5, <3>6 DEF AllHaveTasks, AllWait
  <2> QED BY <2>3, <2>4, <2>5
<1>2. ASSUME NEW c \in Contacts, Regeocode(c) PROVE AskedIsRight'
  <2>1. /\ address[c] # Nowhere /\ manual' = [manual EXCEPT ![c] = FALSE] /\ Queues(c, address[c])
        /\ pin' = [pin EXCEPT ![c] = IF cache[address[c]] = "found" THEN address[c] ELSE Nowhere]
        /\ UNCHANGED <<address, event, cache, asking, waits, off, wereOff>>
    BY <1>2 DEF Regeocode
  <2>2. PICK k \in Keys : k = address[c] BY <1>0, <2>1
  <2>3. Queues(c, k) BY <2>1, <2>2
  <2>4. /\ pin' \in [Contacts -> Maybe(Keys)] /\ DOMAIN manual' = Contacts /\ DOMAIN event' = Contacts
        /\ \A b \in Contacts \ {c} : pin'[b] = pin[b] /\ manual'[b] = manual[b] /\ event'[b] = event[b]
        /\ cache[k] = "found" => pin'[c] # Nowhere
    BY <1>0, <2>1, <2>2 DEF GeoTypes, Maybe
  <2> QED BY <2>1, <2>2, <2>3, <2>4, QueuedAsked
<1>3. ASSUME NEW c \in Contacts, NEW k \in LivesAt[c], SetAddress(c, k) PROVE AskedIsRight'
  <2>1. k \in Maybe(Keys) BY <1>3, GeoAssumption DEF Maybe
  <2>2. /\ address' = [address EXCEPT ![c] = k] /\ manual' = [manual EXCEPT ![c] = FALSE]
        /\ event' = [event EXCEPT ![c] = IF manual[c] \/ @ = "released" THEN "released" ELSE "moved"]
        /\ lapsed' = lapsed \ {c}
        /\ UNCHANGED <<pin, cache, queue, latest, asking, waits, off, wereOff>>
    BY <1>3 DEF SetAddress
  <2>3. GeoTypes' BY <2>1, <2>2 DEF GeoTypes
  <2>4. ASSUME NEW b \in Contacts, Awaits(b)' PROVE address'[b] = address[b] /\ Awaits(b)
    <3>1. event'[c] # "no" BY <2>2 DEF GeoTypes
    <3>2. b # c BY <2>4, <3>1 DEF Awaits
    <3>3. address'[b] = address[b] /\ manual'[b] = manual[b] /\ event'[b] = event[b] BY <2>2, <3>2 DEF GeoTypes
    <3> QED BY <2>2, <2>4, <3>2, <3>3 DEF Awaits
  <2> QED BY <2>2, <2>3, <2>4, NothingTaken
<1>4. ASSUME NEW c \in Contacts, SetLocation(c) PROVE AskedIsRight'
  <2>1. /\ manual' = [manual EXCEPT ![c] = TRUE] /\ pin' = [pin EXCEPT ![c] = Nowhere]
        /\ UNCHANGED <<address, event, cache, queue, latest, asking, waits, off, wereOff, lapsed>>
    BY <1>4 DEF SetLocation
  <2>2. GeoTypes' BY <2>1 DEF GeoTypes, Maybe
  <2>3. ASSUME NEW b \in Contacts, Awaits(b)' PROVE address'[b] = address[b] /\ Awaits(b)
    <3>1. b # c BY <2>1, <2>3 DEF GeoTypes, Awaits
    <3>2. manual'[b] = manual[b] /\ pin'[b] = pin[b] BY <2>1, <3>1 DEF GeoTypes
    <3> QED BY <2>1, <2>3, <3>2 DEF Awaits
  <2> QED BY <2>1, <2>2, <2>3, NothingTaken
<1>5. CASE Drop
  <2>1. off /\ queue' = <<>> /\ UNCHANGED <<address, pin, manual, event, cache, latest, asking, waits, off, wereOff, lapsed>>
    BY <1>5 DEF Drop
  <2>2. GeoTypes' BY <2>1 DEF GeoTypes
  <2>3. wereOff' /\ \A b \in Contacts : ~Awaits(b)' BY <2>1 DEF Awaits
  <2> QED BY <2>1, <2>2, <2>3 DEF AllHaveTasks, AllWait
<1>6. CASE Ask
  <2>1. PICK q \in Seq(Task) : q = queue /\ q # <<>> BY <1>6 DEF Ask, GeoTypes
  <2>2. /\ asking' = Head(q) /\ queue' = Tail(q) /\ asking = Nowhere
        /\ UNCHANGED <<address, pin, manual, event, cache, latest, waits, off, wereOff, lapsed>>
    BY <1>6, <2>1 DEF Ask
  <2>3. Head(q) \in Task /\ Tail(q) \in Seq(Task) /\ Range(q) = Range(Tail(q)) \cup {Head(q)} BY <2>1, ElementsAre
  <2>4. GeoTypes' BY <2>2, <2>3 DEF GeoTypes, Maybe
  <2>5. ASSUME NEW b \in Contacts, ~wereOff PROVE HasItsTask(b)'
    <3>1. CASE latest[b] = Nowhere BY <2>2, <3>1 DEF HasItsTask
    <3>2. CASE latest[b] # Nowhere
      <4>1. PICK t : t = [contact |-> b, key |-> latest[b]] OBVIOUS
      <4>2. t \in Range(q) \cup {Nowhere} BY <2>1, <2>2, <2>5, <3>2, <4>1 DEF AllHaveTasks, HasItsTask
      <4>3. t \in Task BY <3>2, <4>1 DEF GeoTypes, Maybe, Task
      <4>4. t \in Range(queue') \cup {asking'} BY <1>0, <2>2, <2>3, <4>2, <4>3
      <4> QED BY <2>2, <4>1, <4>4 DEF HasItsTask
    <3> QED BY <3>1, <3>2
  <2>6. \A b \in Contacts : Awaits(b)' => Awaits(b) BY <2>2 DEF Awaits
  <2> QED BY <2>2, <2>4, <2>5, <2>6 DEF AllHaveTasks, AllWait
<1>7. CASE ApplyKnown
  <2>1. PICK q \in Seq(Task) : q = queue /\ q # <<>> BY <1>7 DEF ApplyKnown, GeoTypes
  <2>2. PICK task \in Task : task = Head(q) BY <2>1, ElementsAre
  <2>3. /\ Apply(task) /\ cache[task.key] = "found" /\ asking = Nowhere
        /\ UNCHANGED <<address, manual, event, cache, asking, off, wereOff, lapsed>>
    BY <1>7, <2>1, <2>2 DEF ApplyKnown
  <2> QED BY <2>3, PlaceAsked DEF GeoTypes
<1>8. ASSUME NEW k \in Keys, Found(k) PROVE AskedIsRight'
  <2>1. PICK task \in Task : task = asking /\ task.key = k BY <1>8 DEF Found, Answered, GeoTypes, Maybe
  <2>2. /\ Apply(task) /\ cache' = [cache EXCEPT ![k] = "found"] /\ asking' = Nowhere
        /\ lapsed' = IF cache[k] = "failed" THEN lapsed \cup LeftOut(k) ELSE lapsed
        /\ UNCHANGED <<address, manual, event, off, wereOff>>
    BY <1>8, <2>1 DEF Found, Answered
  <2>3. /\ cache' \in [Keys -> {"unknown", "found", "failed"}] /\ \A j \in Keys \ {k} : cache'[j] = cache[j]
        /\ lapsed' \subseteq Contacts
    BY <2>2 DEF GeoTypes, LeftOut
  <2> QED BY <2>1, <2>2, <2>3, PlaceAsked
<1>9. ASSUME NEW k \in Keys, NotFound(k) PROVE AskedIsRight'
  <2>1. PICK task \in Task : task = asking /\ task.key = k BY <1>9 DEF NotFound, Answered, GeoTypes, Maybe
  <2>2. /\ cache' = [cache EXCEPT ![k] = "failed"] /\ asking' = Nowhere
        /\ latest' = IF latest[task.contact] = k THEN [latest EXCEPT ![task.contact] = Nowhere] ELSE latest
        /\ UNCHANGED <<address, pin, manual, event, queue, off, wereOff, lapsed>>
    BY <1>9, <2>1 DEF NotFound, Answered
  <2>3. cache' \in [Keys -> {"unknown", "found", "failed"}] /\ cache'[k] = "failed" /\ \A j \in Keys \ {k} : cache'[j] = cache[j]
    BY <2>2 DEF GeoTypes
  <2>4. /\ latest' \in [Contacts -> Maybe(Keys)]
        /\ \A b \in Contacts : latest'[b] # latest[b] => latest[b] = k /\ latest'[b] = Nowhere
        /\ latest[task.contact] = k => latest'[task.contact] = Nowhere
    BY <2>2 DEF GeoTypes, Maybe, Task
  <2>5. GeoTypes' BY <2>2, <2>3, <2>4 DEF GeoTypes, Maybe
  <2>6. ASSUME NEW b \in Contacts, ~wereOff PROVE HasItsTask(b)'
    <3>1. CASE latest'[b] = Nowhere BY <3>1 DEF HasItsTask
    <3>2. CASE latest'[b] # Nowhere
      <4>1. latest'[b] = latest[b] BY <2>4, <3>2
      <4>2. PICK t : t = [contact |-> b, key |-> latest[b]] OBVIOUS
      <4>3. t # task BY <2>1, <2>4, <3>2, <4>1, <4>2
      <4>4. t \in Range(queue) BY <2>1, <2>6, <3>2, <4>1, <4>2, <4>3 DEF AllHaveTasks, HasItsTask
      <4> QED BY <2>2, <4>1, <4>2, <4>4 DEF HasItsTask
    <3> QED BY <3>1, <3>2
  <2>7. ASSUME NEW b \in Contacts, Awaits(b)' PROVE latest'[b] = address'[b]
    <3>1. address[b] # Nowhere /\ address[b] # k /\ address[b] \in Keys BY <1>0, <2>2, <2>3, <2>7 DEF Awaits
    <3>2. Awaits(b) BY <2>2, <2>3, <2>7, <3>1 DEF Awaits
    <3> QED BY <2>2, <2>4, <3>1, <3>2 DEF AllWait
  <2> QED BY <2>2, <2>5, <2>6, <2>7 DEF AllHaveTasks, AllWait
<1>10. CASE NoAnswer
  <2>1. PICK task \in Task : task = asking BY <1>10 DEF NoAnswer, GeoTypes, Maybe
  <2>2. PICK q \in Seq(Task) : q = queue BY DEF GeoTypes
  <2>3. /\ queue' = IF latest[task.contact] = task.key THEN Append(q, task) ELSE q
        /\ asking' = Nowhere
        /\ UNCHANGED <<address, pin, manual, event, cache, latest, off, wereOff, lapsed>>
    BY <1>10, <2>1, <2>2 DEF NoAnswer
  <2>4. Append(q, task) \in Seq(Task) /\ Range(Append(q, task)) = Range(q) \cup {task} BY ElementsAre
  <2>5. GeoTypes' BY <2>3, <2>4 DEF GeoTypes, Maybe
  <2>6. ASSUME NEW b \in Contacts, ~wereOff PROVE HasItsTask(b)'
    <3>1. CASE latest[b] = Nowhere BY <2>3, <3>1 DEF HasItsTask
    <3>2. CASE latest[b] # Nowhere
      <4>1. PICK t : t = [contact |-> b, key |-> latest[b]] OBVIOUS
      <4>2. t \in Range(q) \cup {task} BY <2>1, <2>2, <2>6, <3>2, <4>1 DEF AllHaveTasks, HasItsTask
      <4>3. t = task => latest[task.contact] = task.key BY <4>1
      <4>4. t \in Range(queue') BY <2>3, <2>4, <4>2, <4>3
      <4> QED BY <2>3, <4>1, <4>4 DEF HasItsTask
    <3> QED BY <3>1, <3>2
  <2>7. \A b \in Contacts : Awaits(b)' => Awaits(b) BY <2>3 DEF Awaits
  <2> QED BY <2>3, <2>5, <2>6, <2>7 DEF AllHaveTasks, AllWait
<1>11. ASSUME NEW k \in Keys, FailureLapses(k) PROVE AskedIsRight'
  <2>1. /\ cache[k] = "failed" /\ cache' = [cache EXCEPT ![k] = "unknown"] /\ lapsed' = lapsed \cup LeftOut(k)
        /\ UNCHANGED <<address, pin, manual, event, queue, latest, asking, waits, off, wereOff>>
    BY <1>11 DEF FailureLapses
  <2>2. \A j \in Keys \ {k} : cache'[j] = cache[j] BY <2>1 DEF GeoTypes
  <2>3. GeoTypes' BY <2>1 DEF GeoTypes, LeftOut
  <2>4. ASSUME NEW b \in Contacts, Awaits(b)' PROVE latest'[b] = address'[b]
    <3>1. CASE address[b] = k BY <2>1, <2>4, <3>1 DEF Awaits, LeftOut
    <3>2. CASE address[b] # k
      <4>1. Awaits(b) BY <1>0, <2>1, <2>2, <2>4, <3>2 DEF Awaits
      <4> QED BY <2>1, <4>1 DEF AllWait
    <3> QED BY <3>1, <3>2
  <2>5. AllHaveTasks' BY <2>1 DEF AllHaveTasks, HasItsTask
  <2> QED BY <2>1, <2>3, <2>4, <2>5 DEF AllWait
<1>12. ASSUME Wake \/ (\E k \in Keys : Prune(k)) \/ (\E k \in Searched : SearchPlace(k))
              \/ (\E value \in BOOLEAN : SetGeocodingOff(value))
       PROVE  AskedIsRight'
  <2>1. /\ UNCHANGED <<address, pin, manual, event, queue, latest, asking, lapsed>>
        /\ (off' => wereOff') /\ (wereOff => wereOff')
    <3>1. CASE Wake \/ (\E k \in Keys : Prune(k)) \/ \E k \in Searched : SearchPlace(k)
      BY <3>1 DEF Wake, Prune, SearchPlace
    <3>2. CASE \E value \in BOOLEAN : SetGeocodingOff(value)
      <4>1. PICK value \in BOOLEAN : SetGeocodingOff(value) BY <3>2
      <4>2. off' = value /\ wereOff' = (wereOff \/ value) BY <4>1 DEF SetGeocodingOff
      <4>3. (off' => wereOff') /\ (wereOff => wereOff') BY <4>2, ZenonT(30)
      <4> QED BY <4>1, <4>3 DEF SetGeocodingOff
    <3> QED BY <1>12, <3>1, <3>2
  <2>2. /\ cache' \in [Keys -> {"unknown", "found", "failed"}]
        /\ \A k \in Keys : cache[k] = "failed" => cache'[k] = "failed" \/ \A c \in Contacts : address[c] # k
    <3>1. CASE Wake \/ \E value \in BOOLEAN : SetGeocodingOff(value)
      BY <3>1 DEF Wake, SetGeocodingOff, GeoTypes
    <3>2. ASSUME NEW k \in Keys, Prune(k) \/ SearchPlace(k)
          PROVE  /\ cache' \in [Keys -> {"unknown", "found", "failed"}]
                 /\ \A j \in Keys : cache[j] = "failed" => cache'[j] = "failed" \/ \A c \in Contacts : address[c] # j
      BY <3>2 DEF Prune, SearchPlace, GeoTypes
    <3> QED BY <1>12, <3>1, <3>2, GeoAssumption
  <2>3. GeoTypes' BY <2>1, <2>2 DEF GeoTypes
  <2>4. ASSUME NEW b \in Contacts, Awaits(b)' PROVE Awaits(b) BY <1>0, <2>1, <2>2, <2>4 DEF Awaits
  <2> QED BY <2>1, <2>3, <2>4, NothingTaken
<1> QED BY <1>1, <1>2, <1>3, <1>4, <1>5, <1>6, <1>7, <1>8, <1>9, <1>10, <1>11, <1>12, GeoAssumption DEF GeoNext

\* "The task stays queued until an answer, so 'Waiting for the geocoder' is true": through
\* edits, pins placed and released, lost answers and others' answers, who is said to wait has
\* a task queued or out, as long as lookups were never turned off, but for those whose
\* address's failure lapsed with nobody asking for it.
THEOREM WaitingStaysTrue == GeoSpec => []WaitingIsTrue
<1>1. AskedIsRight /\ [GeoNext]_geoVars => AskedIsRight'
  <2>1. CASE UNCHANGED geoVars
    BY <2>1 DEF geoVars, AskedIsRight, GeoTypes, AllHaveTasks, HasItsTask, AllWait, Awaits
  <2> QED BY <2>1, AskedNext
<1>2. AskedIsRight => WaitingIsTrue
  <2> SUFFICES ASSUME AskedIsRight, NEW c \in Contacts, SaidToWait(c), ~wereOff, c \notin lapsed PROVE IsAskedFor(c)
    BY DEF WaitingIsTrue
  <2>1. Awaits(c) BY DEF SaidToWait, Awaits
  <2>2. latest[c] = address[c] /\ address[c] # Nowhere BY <2>1 DEF AskedIsRight, AllWait, Awaits
  <2> QED BY <2>2 DEF AskedIsRight, AllHaveTasks, HasItsTask, IsAskedFor
<1> QED BY <1>1, <1>2, AskedInit, PTL DEF GeoSpec

\* The variables whose values AskedIsRight leaves open.
MarksAreRight ==
  /\ manual \in [Contacts -> BOOLEAN] /\ event \in [Contacts -> {"no", "moved", "released"}]
  /\ waits \in BOOLEAN /\ off \in BOOLEAN /\ wereOff \in BOOLEAN

LEMMA MarksNext == MarksAreRight /\ [GeoNext]_geoVars => MarksAreRight'
<1> SUFFICES ASSUME MarksAreRight, [GeoNext]_geoVars PROVE MarksAreRight' OBVIOUS
<1> USE DEF MarksAreRight
<1>1. ASSUME NEW c \in Contacts, SetLocation(c) PROVE MarksAreRight' BY <1>1 DEF SetLocation
<1>2. ASSUME NEW c \in Contacts, Subscriber(c) PROVE MarksAreRight'
  <2>1. event' = [event EXCEPT ![c] = "no"] /\ UNCHANGED <<waits, off, wereOff>> BY <1>2 DEF Subscriber
  <2>2. manual' = manual \/ manual' = [manual EXCEPT ![c] = event[c] = "released"] BY <1>2 DEF Subscriber
  <2>3. (event[c] = "released") \in BOOLEAN OBVIOUS
  <2>4. manual' \in [Contacts -> BOOLEAN] BY <2>2, <2>3
  <2> QED BY <2>1, <2>4
<1>3. ASSUME NEW c \in Contacts, Regeocode(c) PROVE MarksAreRight' BY <1>3 DEF Regeocode
<1>4. ASSUME NEW c \in Contacts, NEW k, SetAddress(c, k) PROVE MarksAreRight' BY <1>4 DEF SetAddress
<1>5. CASE Drop \/ Ask \/ ApplyKnown \/ NoAnswer \/ Wake
  BY <1>5 DEF Drop, Ask, ApplyKnown, NoAnswer, Wake
<1>6. ASSUME NEW k \in Keys, Found(k) \/ NotFound(k) PROVE MarksAreRight' BY <1>6 DEF Found, NotFound, Answered
<1>7. ASSUME NEW k \in Keys, SearchPlace(k) \/ FailureLapses(k) \/ Prune(k) PROVE MarksAreRight'
  BY <1>7 DEF SearchPlace, FailureLapses, Prune
<1>8. ASSUME NEW value \in BOOLEAN, SetGeocodingOff(value) PROVE MarksAreRight'
  <2>1. off' \in BOOLEAN /\ wereOff' \in BOOLEAN BY <1>8, Zenon DEF SetGeocodingOff
  <2> QED BY <1>8, <2>1 DEF SetGeocodingOff
<1>9. CASE UNCHANGED geoVars BY <1>9 DEF geoVars
<1> QED BY <1>1, <1>2, <1>3, <1>4, <1>5, <1>6, <1>7, <1>8, <1>9, GeoAssumption DEF GeoNext

\* Every variable of the geocoder keeps its type: what is queued, or out, is a task, and
\* a pin is nowhere or at an address.
THEOREM GeoTypesHold == GeoSpec => []GeoTypeOK
<1>1. AskedIsRight /\ [GeoNext]_geoVars => AskedIsRight'
  <2>1. CASE UNCHANGED geoVars
    BY <2>1 DEF geoVars, AskedIsRight, GeoTypes, AllHaveTasks, HasItsTask, AllWait, Awaits
  <2> QED BY <2>1, AskedNext
<1>2. GeoInit => MarksAreRight BY DEF GeoInit, MarksAreRight
<1>3. AskedIsRight /\ MarksAreRight => GeoTypeOK BY DEF AskedIsRight, GeoTypes, MarksAreRight, GeoTypeOK
<1> QED BY <1>1, <1>2, <1>3, AskedInit, MarksNext, PTL DEF GeoSpec

-----------------------------------------------------------------------------
(***************************************************************************)
(* The worker and the chain of its jobs, for every set of jobs.            *)
(***************************************************************************)
States == {"new", "queued", "waits", "posted"} \cup Outcomes

\* The chain holds the jobs that have not settled, once each; only its head is further
\* than queued.
ChainIsRight ==
  /\ work \in [Jobs -> States] /\ chain \in Seq(Jobs)
  /\ \A i, k \in 1..Len(chain) : chain[i] = chain[k] => i = k
  /\ \A i \in 2..Len(chain) : work[chain[i]] = "queued"
  /\ \A i \in 1..Len(chain) : work[chain[i]] \in {"queued", "waits", "posted"}
  /\ \A j \in Jobs : work[j] \in {"queued", "waits", "posted"} => \E i \in 1..Len(chain) : chain[i] = j

\* The promise of a worker is the one of the thread.
PromiseIsRight ==
  /\ ready \in {"none", "pending", "resolved", "rejected"}
  /\ thread \in {"none", "starting", "up", "dying"}
  /\ thread = "starting" <=> ready = "pending"
  /\ thread = "up" => ready = "resolved"
  /\ ready = "resolved" => thread \in {"up", "dying"}

\* The job that waits, or is posted, has what will settle it.
HeadIsServed ==
  /\ \A j \in Jobs : work[j] = "waits" => ready = "pending"
  /\ \A j \in Jobs : work[j] = "posted" => ready = "resolved" /\ j \notin canceledJobs

Inductive == ChainIsRight /\ PromiseIsRight /\ HeadIsServed

LEMMA TailFacts ==
  ASSUME NEW s \in Seq(Jobs), s # <<>>
  PROVE  /\ Len(s) \in Nat \ {0} /\ Head(s) = s[1] /\ Head(s) \in Jobs
         /\ Tail(s) \in Seq(Jobs) /\ Len(Tail(s)) = Len(s) - 1
         /\ \A i \in 1..Len(Tail(s)) : Tail(s)[i] = s[i + 1]
OBVIOUS

\* A job that waits or is posted is the head of the chain, and no other is either.
LEMMA HeadWorks ==
  ASSUME ChainIsRight, NEW j \in Jobs, work[j] \in {"waits", "posted"}
  PROVE  chain # <<>> /\ Head(chain) = j /\ \A k \in Jobs \ {j} : work[k] \notin {"waits", "posted"}
<1>1. PICK i \in 1..Len(chain) : chain[i] = j BY DEF ChainIsRight
<1>2. Len(chain) \in Nat BY DEF ChainIsRight
<1>3. i = 1 BY <1>1, <1>2 DEF ChainIsRight
<1>4. chain # <<>> BY <1>1, <1>2
<1>5. Head(chain) = chain[1] BY <1>4, TailFacts DEF ChainIsRight
<1>6. ASSUME NEW k \in Jobs, k # j, work[k] \in {"waits", "posted"} PROVE FALSE
  <2>1. PICK m \in 1..Len(chain) : chain[m] = k BY <1>6 DEF ChainIsRight
  <2>2. m \in 2..Len(chain) BY <1>1, <1>2, <1>3, <1>6, <2>1
  <2> QED BY <1>6, <2>1, <2>2 DEF ChainIsRight
<1> QED BY <1>1, <1>3, <1>4, <1>5, <1>6

\* The head of the chain settles.
LEMMA HeadSettles ==
  ASSUME ChainIsRight, chain # <<>>, NEW o \in Outcomes,
         work' = [work EXCEPT ![Head(chain)] = o], chain' = Tail(chain)
  PROVE  ChainIsRight' /\ \A j \in Jobs : work'[j] \notin {"waits", "posted"}
<1> DEFINE h == Head(chain)
<1>1. /\ Len(chain) \in Nat \ {0} /\ h = chain[1] /\ h \in Jobs
      /\ chain' \in Seq(Jobs) /\ Len(chain') = Len(chain) - 1
      /\ \A i \in 1..Len(chain') : chain'[i] = chain[i + 1]
  BY TailFacts DEF ChainIsRight
<1>2. work' \in [Jobs -> States] /\ work'[h] = o /\ \A j \in Jobs \ {h} : work'[j] = work[j]
  BY <1>1 DEF ChainIsRight, States
<1>3. o \notin {"queued", "waits", "posted"} BY DEF Outcomes
<1>4. \A i \in 1..Len(chain') : i + 1 \in 2..Len(chain) /\ chain[i + 1] \in Jobs \ {h}
  BY <1>1 DEF ChainIsRight
<1>5. \A i \in 1..Len(chain') : work'[chain'[i]] = "queued"
  BY <1>1, <1>2, <1>4 DEF ChainIsRight
<1>6. \A i, k \in 1..Len(chain') : chain'[i] = chain'[k] => i = k
  <2> SUFFICES ASSUME NEW i \in 1..Len(chain'), NEW k \in 1..Len(chain'), chain'[i] = chain'[k]
               PROVE i = k
    OBVIOUS
  <2>1. chain[i + 1] = chain[k + 1] /\ i + 1 \in 1..Len(chain) /\ k + 1 \in 1..Len(chain)
    BY <1>1
  <2>2. i + 1 = k + 1 BY <2>1 DEF ChainIsRight
  <2> QED BY <1>1, <2>2
<1>7. ASSUME NEW j \in Jobs, work'[j] \in {"queued", "waits", "posted"}
      PROVE  \E i \in 1..Len(chain') : chain'[i] = j
  <2>1. j # h /\ work[j] \in {"queued", "waits", "posted"} BY <1>2, <1>3, <1>7
  <2>2. PICK m \in 1..Len(chain) : chain[m] = j BY <2>1 DEF ChainIsRight
  <2>3. m # 1 BY <1>1, <2>1, <2>2
  <2>4. m - 1 \in 1..Len(chain') /\ (m - 1) + 1 = m BY <1>1, <2>2, <2>3
  <2>5. chain'[m - 1] = j BY <1>1, <2>2, <2>4
  <2> QED BY <2>4, <2>5
<1>8. ASSUME NEW j \in Jobs, work'[j] \in {"waits", "posted"} PROVE FALSE
  <2>1. PICK i \in 1..Len(chain') : chain'[i] = j BY <1>7, <1>8
  <2> QED BY <1>5, <1>8, <2>1
<1>9. 2..Len(chain') \subseteq 1..Len(chain') BY <1>1
<1>10. ChainIsRight' BY <1>1, <1>2, <1>5, <1>6, <1>7, <1>9 DEF ChainIsRight
<1> QED BY <1>8, <1>10

\* The head of the chain waits for a worker, or is posted to it.
LEMMA HeadAdvances ==
  ASSUME ChainIsRight, chain # <<>>, NEW s \in {"waits", "posted"},
         work' = [work EXCEPT ![Head(chain)] = s], chain' = chain
  PROVE  /\ ChainIsRight' /\ Head(chain) \in Jobs /\ work'[Head(chain)] = s
         /\ \A j \in Jobs \ {Head(chain)} : work'[j] \notin {"waits", "posted"}
<1> DEFINE h == Head(chain)
<1>1. Len(chain) \in Nat \ {0} /\ h = chain[1] /\ h \in Jobs BY TailFacts DEF ChainIsRight
<1>2. work' \in [Jobs -> States] /\ work'[h] = s /\ \A j \in Jobs \ {h} : work'[j] = work[j]
  BY <1>1 DEF ChainIsRight, States
<1>3. \A i \in 2..Len(chain) : chain[i] \in Jobs \ {h} BY <1>1 DEF ChainIsRight
<1>4. work[h] \in {"queued", "waits", "posted"} BY <1>1 DEF ChainIsRight
<1>5. \A i \in 1..Len(chain) : i = 1 \/ i \in 2..Len(chain) BY <1>1
<1>6. ChainIsRight'
  <2>1. \A i \in 2..Len(chain) : work'[chain[i]] = "queued" BY <1>2, <1>3 DEF ChainIsRight
  <2>2. \A i \in 1..Len(chain) : work'[chain[i]] \in {"queued", "waits", "posted"}
    BY <1>1, <1>2, <1>5, <2>1
  <2>3. \A j \in Jobs : work'[j] \in {"queued", "waits", "posted"} => \E i \in 1..Len(chain) : chain[i] = j
    BY <1>2, <1>4 DEF ChainIsRight
  <2> QED BY <1>2, <2>1, <2>2, <2>3 DEF ChainIsRight
<1>7. ASSUME NEW j \in Jobs \ {h}, work'[j] \in {"waits", "posted"} PROVE FALSE
  <2>1. PICK i \in 1..Len(chain) : chain[i] = j BY <1>2, <1>7 DEF ChainIsRight
  <2>2. i \in 2..Len(chain) BY <1>1, <2>1
  <2> QED BY <1>6, <1>7, <2>1, <2>2 DEF ChainIsRight
<1> QED BY <1>1, <1>2, <1>6, <1>7

LEMMA RejectedSettles ==
  ASSUME ChainIsRight, chain # <<>>, NEW x, NEW y, Rejected(x, y)
  PROVE  ChainIsRight' /\ \A j \in Jobs : work'[j] \notin {"waits", "posted"}
<1>1. \E o \in Outcomes : work' = [work EXCEPT ![Head(chain)] = o]
  BY DEF Rejected, Outcomes
<1>2. chain' = Tail(chain) BY DEF Rejected
<1> QED BY <1>1, <1>2, HeadSettles

\* The head is posted to a worker that is there, or was canceled while it waited.
LEMMA PostedServes ==
  ASSUME ChainIsRight, chain # <<>>, Posted
  PROVE  /\ ChainIsRight'
         /\ \A j \in Jobs : work'[j] # "waits" /\ (work'[j] = "posted" => j \notin canceledJobs')
<1>1. CASE Head(chain) \in canceledJobs
  <2>1. Rejected(TRUE, FALSE) BY <1>1 DEF Posted
  <2> QED BY <2>1, RejectedSettles
<1>2. CASE Head(chain) \notin canceledJobs
  <2>1. work' = [work EXCEPT ![Head(chain)] = "posted"] /\ chain' = chain
        /\ canceledJobs' = canceledJobs
    BY <1>2 DEF Posted
  <2> QED BY <1>2, <2>1, HeadAdvances
<1> QED BY <1>1, <1>2

\* What a broken promise, or a death, leaves: nobody waits and nobody is posted.
LEMMA BrokenLeaves ==
  ASSUME Inductive, PromiseBroken, ready = "pending"
  PROVE  ChainIsRight' /\ \A j \in Jobs : work'[j] \notin {"waits", "posted"}
<1>1. CASE InState("waits") # {}
  <2>1. chain # <<>> BY <1>1, HeadWorks DEF InState, Inductive
  <2> QED BY <1>1, <2>1, RejectedSettles DEF PromiseBroken, Inductive
<1>2. CASE InState("waits") = {}
  <2>1. UNCHANGED <<work, chain>> BY <1>2 DEF PromiseBroken
  <2> QED BY <1>2, <2>1 DEF InState, Inductive, ChainIsRight, HeadIsServed
<1> QED BY <1>1, <1>2

LEMMA FailedLeaves ==
  ASSUME Inductive, NEW retired, FailAll(retired), thread \in {"up", "dying"}
  PROVE  ChainIsRight' /\ \A j \in Jobs : work'[j] \notin {"waits", "posted"}
<1>1. CASE InState("posted") # {}
  <2>1. chain # <<>> BY <1>1, HeadWorks DEF InState, Inductive
  <2> QED BY <1>1, <2>1, RejectedSettles DEF FailAll, Inductive
<1>2. CASE InState("posted") = {}
  <2>1. UNCHANGED <<work, chain>> BY <1>2 DEF FailAll
  <2> QED BY <1>2, <2>1 DEF InState, Inductive, ChainIsRight, HeadIsServed, PromiseIsRight
<1> QED BY <1>1, <1>2

LEMMA InductiveInit == CpuInit => Inductive
BY DEF CpuInit, Inductive, ChainIsRight, PromiseIsRight, HeadIsServed, States, Outcomes

LEMMA SubmitKeeps == ASSUME Inductive, NEW j \in Jobs, Submit(j) PROVE Inductive'
<1>1. work[j] = "new" /\ UNCHANGED <<thread, ready, canceledJobs>> BY DEF Submit
<1>2. work \in [Jobs -> States] /\ chain \in Seq(Jobs) /\ Len(chain) \in Nat
  BY DEF Inductive, ChainIsRight
<1>3. CASE work' = [work EXCEPT ![j] = "in process"] /\ chain' = chain
  <2>1. \A i \in 1..Len(chain) : chain[i] \in Jobs \ {j}
    BY <1>1, <1>2 DEF Inductive, ChainIsRight
  <2>2. work' \in [Jobs -> States] BY <1>2, <1>3 DEF States, Outcomes
  <2>3. \A k \in Jobs : work'[k] = IF k = j THEN "in process" ELSE work[k] BY <1>2, <1>3
  <2>4. \A i \in 1..Len(chain) : work'[chain[i]] = work[chain[i]] BY <2>1, <2>3
  <2>5. \A i \in 2..Len(chain) : i \in 1..Len(chain) BY <1>2
  <2>6. \A i \in 1..Len(chain) : work'[chain[i]] \in {"queued", "waits", "posted"}
    BY <2>4 DEF Inductive, ChainIsRight
  <2>7. \A i \in 2..Len(chain) : work'[chain[i]] = "queued"
    BY <2>4, <2>5 DEF Inductive, ChainIsRight
  <2>8. \A k \in Jobs : work'[k] \in {"queued", "waits", "posted"} => \E i \in 1..Len(chain) : chain[i] = k
    BY <2>3 DEF Inductive, ChainIsRight
  <2>9. \A i, k \in 1..Len(chain) : chain[i] = chain[k] => i = k BY DEF Inductive, ChainIsRight
  <2>10. ChainIsRight' BY <1>2, <1>3, <2>2, <2>6, <2>7, <2>8, <2>9 DEF ChainIsRight
  <2> QED BY <1>1, <2>3, <2>10 DEF Inductive, PromiseIsRight, HeadIsServed
<1>4. CASE work' = [work EXCEPT ![j] = "queued"] /\ chain' = Append(chain, j)
  <2>1. \A i \in 1..Len(chain) : chain[i] \in Jobs \ {j}
    BY <1>1, <1>2 DEF Inductive, ChainIsRight
  <2>2. work' \in [Jobs -> States] BY <1>2, <1>4 DEF States
  <2>3. \A k \in Jobs : work'[k] = IF k = j THEN "queued" ELSE work[k] BY <1>2, <1>4
  <2>4. /\ chain' \in Seq(Jobs) /\ Len(chain') = Len(chain) + 1 /\ chain'[Len(chain) + 1] = j
        /\ \A i \in 1..Len(chain) : chain'[i] = chain[i]
    BY <1>2, <1>4
  <2>5. \A i \in 1..Len(chain') : i \in 1..Len(chain) \/ i = Len(chain) + 1 BY <1>2, <2>4
  <2>6. \A i, k \in 1..Len(chain') : chain'[i] = chain'[k] => i = k
    BY <2>1, <2>4, <2>5 DEF Inductive, ChainIsRight
  <2>7. \A i \in 2..Len(chain') : work'[chain'[i]] = "queued"
    <3> SUFFICES ASSUME NEW i \in 2..Len(chain') PROVE work'[chain'[i]] = "queued" OBVIOUS
    <3>1. CASE i = Len(chain) + 1 BY <2>3, <2>4, <3>1
    <3>2. CASE i \in 2..Len(chain)
      <4>1. i \in 1..Len(chain) BY <3>2
      <4>2. chain[i] \in Jobs \ {j} /\ chain'[i] = chain[i] BY <2>1, <2>4, <4>1
      <4>3. work[chain[i]] = "queued" BY <3>2 DEF Inductive, ChainIsRight
      <4> QED BY <2>3, <4>2, <4>3
    <3> QED BY <1>2, <2>4, <3>1, <3>2
  <2>8. \A i \in 1..Len(chain') : work'[chain'[i]] \in {"queued", "waits", "posted"}
    BY <2>1, <2>3, <2>4, <2>5 DEF Inductive, ChainIsRight
  <2>9. ASSUME NEW k \in Jobs, work'[k] \in {"queued", "waits", "posted"}
        PROVE  \E i \in 1..Len(chain') : chain'[i] = k
    <3>1. CASE k = j
      <4>1. Len(chain) + 1 \in 1..Len(chain') BY <1>2, <2>4
      <4> QED BY <2>4, <3>1, <4>1
    <3>2. CASE k # j
      <4>1. PICK i \in 1..Len(chain) : chain[i] = k
        BY <2>3, <2>9, <3>2 DEF Inductive, ChainIsRight
      <4>2. i \in 1..Len(chain') BY <1>2, <2>4
      <4> QED BY <2>4, <4>1, <4>2
    <3> QED BY <3>1, <3>2
  <2>10. ChainIsRight' BY <2>2, <2>4, <2>6, <2>7, <2>8, <2>9 DEF ChainIsRight
  <2> QED BY <1>1, <2>3, <2>10 DEF Inductive, PromiseIsRight, HeadIsServed
<1> QED BY <1>3, <1>4 DEF Submit

LEMMA InductiveStep == Inductive /\ [CpuNext]_cpuVars => Inductive'
<1> SUFFICES ASSUME Inductive, [CpuNext]_cpuVars PROVE Inductive' OBVIOUS
<1> USE DEF Inductive
<1>1. ASSUME NEW j \in Jobs, Submit(j) PROVE Inductive' BY <1>1, SubmitKeeps
<1>2. ASSUME NEW j \in Jobs, CancelJob(j) PROVE Inductive'
  <2>1. UNCHANGED <<work, chain, thread, ready>> BY <1>2 DEF CancelJob
  <2>2. \A k \in Jobs : work[k] = "posted" => k \notin canceledJobs'
    BY <1>2 DEF CancelJob, HeadIsServed
  <2> QED BY <2>1, <2>2 DEF ChainIsRight, PromiseIsRight, HeadIsServed
<1>3. ASSUME HasTurn PROVE /\ chain # <<>>
                           /\ \A j \in Jobs : work[j] \notin {"waits", "posted"}
  BY <1>3, HeadWorks DEF HasTurn
<1>4. ASSUME Waits, HasTurn, ready' = "pending", PromiseIsRight' PROVE Inductive'
  <2>1. ChainIsRight' /\ \A j \in Jobs : work'[j] # "posted"
    BY <1>3, <1>4, HeadAdvances DEF Waits
  <2> QED BY <1>4, <2>1 DEF HeadIsServed
<1>5. CASE Spawn
  <2>1. PromiseIsRight' BY <1>5 DEF Spawn, PromiseIsRight
  <2> QED BY <1>4, <1>5, <2>1 DEF Spawn
<1>6. CASE RefuseSpent
  <2>1. ChainIsRight' /\ \A j \in Jobs : work'[j] \notin {"waits", "posted"}
    BY <1>3, <1>6, RejectedSettles DEF RefuseSpent
  <2> QED BY <1>6, <2>1 DEF RefuseSpent, PromiseIsRight, HeadIsServed
<1>7. CASE TakeWorker
  <2>1. HasTurn /\ UNCHANGED <<thread, ready>> BY <1>7 DEF TakeWorker
  <2>2. PromiseIsRight' BY <2>1 DEF PromiseIsRight
  <2>3. CASE ready = "pending" /\ Waits BY <1>4, <2>1, <2>2, <2>3
  <2>4. CASE ready = "resolved" /\ Posted
    BY <1>3, <2>1, <2>2, <2>4, PostedServes DEF HeadIsServed
  <2>5. CASE ready = "rejected" /\ Rejected(FALSE, FALSE)
    BY <1>3, <2>1, <2>2, <2>5, RejectedSettles DEF HeadIsServed
  <2> QED BY <1>7, <2>3, <2>4, <2>5 DEF TakeWorker
<1>8. CASE Started
  <2>1. /\ ready = "pending" /\ ready' = "resolved" /\ thread' = "up" /\ PromiseKept
        /\ PromiseIsRight'
    BY <1>8 DEF Started, PromiseIsRight
  <2>2. CASE InState("waits") # {}
    <3>1. chain # <<>> BY <2>2, HeadWorks DEF InState
    <3> QED BY <2>1, <2>2, <3>1, PostedServes DEF PromiseKept, HeadIsServed
  <2>3. CASE InState("waits") = {}
    BY <2>1, <2>3 DEF PromiseKept, InState, ChainIsRight, HeadIsServed
  <2> QED BY <2>2, <2>3
<1>9. CASE StartFailed \/ StartExit
  <2>1. PromiseIsRight' BY <1>9 DEF StartFailed, StartExit, PromiseIsRight
  <2>2. ChainIsRight' /\ \A j \in Jobs : work'[j] \notin {"waits", "posted"}
    BY <1>9, BrokenLeaves DEF StartFailed, StartExit
  <2> QED BY <2>1, <2>2 DEF HeadIsServed
<1>10. CASE Answer
  <2>1. UNCHANGED <<thread, ready, canceledJobs>> /\ chain # <<>>
    BY <1>10, HeadWorks DEF Answer, InState
  <2>2. CASE Rejected(FALSE, FALSE) BY <2>1, <2>2, RejectedSettles DEF PromiseIsRight, HeadIsServed
  <2>3. CASE ~Rejected(FALSE, FALSE)
    <3>1. \E o \in Outcomes : work' = [work EXCEPT ![Head(chain)] = o]
      BY <1>10, <2>3 DEF Answer, Outcomes
    <3>2. chain' = Tail(chain) BY <1>10, <2>3 DEF Answer
    <3> QED BY <2>1, <3>1, <3>2, HeadSettles DEF PromiseIsRight, HeadIsServed
  <2> QED BY <2>2, <2>3
<1>11. CASE WorkerError
  <2>1. PromiseIsRight' BY <1>11 DEF WorkerError, PromiseIsRight
  <2>2. ChainIsRight' /\ \A j \in Jobs : work'[j] \notin {"waits", "posted"}
    BY <1>11, FailedLeaves DEF WorkerError
  <2> QED BY <2>1, <2>2 DEF HeadIsServed
<1>12. CASE WorkerExit
  <2>1. PromiseIsRight' BY <1>12 DEF WorkerExit, PromiseIsRight
  <2>2. ChainIsRight' /\ \A j \in Jobs : work'[j] \notin {"waits", "posted"}
    BY <1>12, FailedLeaves DEF WorkerExit
  <2> QED BY <2>1, <2>2 DEF HeadIsServed
<1>13. CASE UNCHANGED cpuVars
  BY <1>13 DEF cpuVars, ChainIsRight, PromiseIsRight, HeadIsServed
<1> QED BY <1>1, <1>2, <1>5, <1>6, <1>7, <1>8, <1>9, <1>10, <1>11, <1>12, <1>13 DEF CpuNext

LEMMA InductiveImplies == Inductive => TurnsAreServed
<1> SUFFICES ASSUME Inductive PROVE TurnsAreServed OBVIOUS
<1> USE DEF Inductive
<1>1. InState("queued") \cup InState("waits") \cup InState("posted") = {chain[i] : i \in DOMAIN chain}
  BY DEF InState, ChainIsRight
<1> QED BY <1>1 DEF TurnsAreServed, ChainIsRight, PromiseIsRight, HeadIsServed, InState

\* Whatever starts, answers, fails or dies, and whoever gives up, the chain of jobs never
\* hangs on a promise or a worker that nothing will settle.
THEOREM ChainNeverHangs == CpuSpec => []TurnsAreServed
<1>1. CpuSpec => []Inductive
  BY InductiveInit, InductiveStep, PTL DEF CpuSpec
<1> QED BY <1>1, InductiveImplies, PTL

\* What Inductive leaves open.
FlagsAreRight ==
  /\ modelSpent \in BOOLEAN /\ disabled \in BOOLEAN
  /\ canceledJobs \subseteq Jobs /\ aborted \subseteq Jobs

LEMMA RejectedFlags ==
  ASSUME FlagsAreRight, NEW canceled, NEW retired, Rejected(canceled, retired) PROVE disabled' \in BOOLEAN
<1>1. \E x : disabled' = (disabled \/ x)
  BY DEF Rejected
<1> QED BY <1>1

LEMMA FlagsNext == FlagsAreRight /\ [CpuNext]_cpuVars => FlagsAreRight'
<1> SUFFICES ASSUME FlagsAreRight, [CpuNext]_cpuVars PROVE FlagsAreRight' OBVIOUS
<1>1. disabled' \in BOOLEAN
  <2>1. CASE disabled' = disabled BY <2>1 DEF FlagsAreRight
  <2>2. ASSUME NEW canceled, NEW retired, Rejected(canceled, retired) PROVE disabled' \in BOOLEAN
    BY <2>2, RejectedFlags
  <2>3. ASSUME NEW retired, FailAll(retired) PROVE disabled' \in BOOLEAN
    <3>1. ASSUME disabled' = (disabled \/ retired) PROVE disabled' \in BOOLEAN BY <3>1
    <3> QED BY <2>2, <2>3, <3>1 DEF FailAll
  <2>4. ASSUME Posted PROVE disabled' \in BOOLEAN BY <2>1, <2>2, <2>4 DEF Posted
  <2>5. ASSUME PromiseKept \/ PromiseBroken PROVE disabled' \in BOOLEAN
    BY <2>1, <2>2, <2>4, <2>5 DEF PromiseKept, PromiseBroken
  <2>6. CASE \E j \in Jobs : Submit(j) \/ CancelJob(j) BY <2>1, <2>6 DEF Submit, CancelJob
  <2>7. CASE Spawn BY <2>1, <2>7 DEF Spawn, Waits
  <2>8. CASE RefuseSpent BY <2>2, <2>8 DEF RefuseSpent
  <2>9. CASE TakeWorker BY <2>1, <2>2, <2>4, <2>9 DEF TakeWorker, Waits
  <2>10. CASE Started \/ StartFailed \/ StartExit BY <2>5, <2>10 DEF Started, StartFailed, StartExit
  <2>11. CASE Answer BY <2>1, <2>2, <2>11 DEF Answer
  <2>12. CASE WorkerError \/ WorkerExit BY <2>3, <2>12 DEF WorkerError, WorkerExit
  <2>13. CASE UNCHANGED cpuVars BY <2>1, <2>13 DEF cpuVars
  <2> QED BY <2>6, <2>7, <2>8, <2>9, <2>10, <2>11, <2>12, <2>13 DEF CpuNext
<1>2. modelSpent' \in {modelSpent, TRUE} /\ aborted' \subseteq Jobs /\ canceledJobs' \subseteq Jobs
  BY DEF FlagsAreRight, CpuNext, cpuVars, Submit, CancelJob, Spawn, Waits, RefuseSpent, TakeWorker, Posted,
     Started, PromiseKept, StartFailed, StartExit, Answer, WorkerError, WorkerExit
<1> QED BY <1>1, <1>2 DEF FlagsAreRight

\* Every variable of the worker's host keeps its type: only jobs that were submitted are
\* in the chain, canceled or aborted.
THEOREM CpuTypesHold == CpuSpec => []CpuTypeOK
<1>1. CpuSpec => []Inductive
  BY InductiveInit, InductiveStep, PTL DEF CpuSpec
<1>2. CpuInit => FlagsAreRight BY DEF CpuInit, FlagsAreRight
<1>3. Inductive /\ FlagsAreRight => CpuTypeOK
  BY DEF Inductive, ChainIsRight, PromiseIsRight, States, FlagsAreRight, CpuTypeOK
<1> QED BY <1>1, <1>2, <1>3, FlagsNext, PTL DEF CpuSpec
=============================================================================
