----------------------------- MODULE MCLiveness -----------------------------
(***************************************************************************)
(* What must happen in the end: instances of JobRunner, SearchIndexQueue,  *)
(* ConnectorSync and ScanQueue, each under the fairness its own fair       *)
(* specification states.  They share no state here, so a behaviour is one  *)
(* of one of them, which `which` names, and the fairness of the others     *)
(* asks nothing of it.                                                     *)
(***************************************************************************)
EXTENDS ConnectorSync, TLC

CONSTANTS ada, ann, bob, mail, dav, t1, t2, s1, s2, s3, a1, b1, empty, None

\* ConnectorSync: two connectors of one owner; one sync may never end.
LiveOwnerOf == (mail :> ann) @@ (dav :> ann)

VARIABLES
  which,
  jobRow, due, gone, on, mode, active, jobPending, lastTurn, owed, latest,
  status, text, vector, row, aiOff, boot, ready, timer, busy, running, explicit, processed, seen, batch,
  embed, backfill, importing, cutOff, deferred, unheard, tries, failures,
  scans, scanning, pending, immediates

\* One keyed job for each of two accounts, and one place to run them.
Jobs == INSTANCE JobRunner WITH
          Owners <- {ann, bob}, Instance <- bob,
          Keys <- {a1, b1}, OwnerOf <- (a1 :> ann) @@ (b1 :> bob),
          MaxTries <- (a1 :> 2) @@ (b1 :> 2), Registered <- {a1, b1},
          Recurring <- {}, Switchable <- {}, AtStart <- {}, StartNow <- {},
          Payloads <- {empty}, Empty <- empty, Concurrency <- 1,
          row <- jobRow, pending <- jobPending

\* One contact and the server's own model.
Index == INSTANCE SearchIndexQueue WITH
           Contacts <- {ada}, Archivable <- {}, Provider <- FALSE,
           BatchSize <- 2, MaxAttempts <- 2, MaxEdits <- 2, MaxFailures <- 0

Turns == INSTANCE ScanQueue WITH Accounts <- {ada, ann, bob}, Scans <- {s1, s2, s3}

jobVars == <<jobRow, due, gone, on, mode, active, jobPending, lastTurn, owed, latest>>
indexVars ==
  <<status, text, vector, row, aiOff, boot, ready, timer, busy, running, explicit, processed, seen, batch,
    embed, backfill, importing, cutOff, deferred, unheard, tries, failures>>
scanVars == <<scans, scanning, pending, immediates>>

LivenessInit ==
  /\ which \in {"jobs", "index", "sync", "scan"}
  /\ Jobs!Init /\ Index!Init /\ SyncInit /\ Turns!ScanInit

\* A step of the one that `which` names.
Of(name, next) == which = name /\ next /\ UNCHANGED which

LivenessNext ==
  \/ Of("jobs", Jobs!Next) /\ UNCHANGED <<indexVars, syncVars, scanVars>>
  \/ Of("index", Index!Next) /\ UNCHANGED <<jobVars, syncVars, scanVars>>
  \/ Of("sync", SyncNext) /\ UNCHANGED <<jobVars, indexVars, scanVars>>
  \/ Of("scan", Turns!ScanNext) /\ UNCHANGED <<jobVars, indexVars, syncVars>>

JobsAreFair ==
  /\ WF_jobVars(Of("jobs", Jobs!PollJobs))
  /\ WF_jobVars(Of("jobs", Jobs!Boot(TRUE)))
  /\ \A k \in {a1, b1} :
       WF_jobVars(Of("jobs", Jobs!FallDue(k))) /\ WF_jobVars(Of("jobs", Jobs!Settle(k)))

IndexIsFair ==
  /\ WF_indexVars(Of("index", \E c \in {ada} : Index!FallDue(c))) /\ WF_indexVars(Of("index", Index!Boot))
  /\ WF_indexVars(Of("index", Index!SelectBatch))
  /\ WF_indexVars(Of("index", \E item \in batch : Index!Claim(item)))
  /\ WF_indexVars(Of("index", Index!Embedded \/ Index!EmbedFails))
  /\ WF_indexVars(Of("index", Index!Settle)) /\ WF_indexVars(Of("index", Index!EndDrain))
  /\ SF_indexVars(Of("index", Index!TimerFires)) /\ SF_indexVars(Of("index", Index!FinishImport))
  /\ SF_indexVars(Of("index", Index!StartBackfill \/ Index!StartFails))
  /\ SF_indexVars(Of("index", Index!FinishBackfill))

SyncsAreFair ==
  /\ \A c \in {mail, dav} : SF_syncVars(Of("sync", Tick /\ c \in activeRuns'))
  /\ \A t \in {t1, t2} :
       WF_syncVars(Of("sync", Deadline(t))) /\ WF_syncVars(Of("sync", Grace(t)))
  /\ WF_syncVars(Of("sync", EndOf(t2)))

ScansAreFair ==
  /\ WF_scanVars(Of("scan", Turns!TakeTurn))
  /\ \A s \in {s1, s2, s3} : WF_scanVars(Of("scan", Turns!Finish(s)))

LivenessSpec ==
  /\ LivenessInit /\ [][LivenessNext]_<<which, jobVars, indexVars, syncVars, scanVars>>
  /\ JobsAreFair /\ IndexIsFair /\ SyncsAreFair /\ ScansAreFair

\* JobRunner: a due job starts, whatever the other owners queue meanwhile, and once
\* writes to a key stop a run starts after the last of them, while the process lives.
WorkIsServed == Jobs!WorkIsServed

\* SearchIndexQueue: the index catches up with a contact, while the process lives with
\* a model that loaded, its row is not put back for later, and a drain was told of it.
ContactsAreIndexed == which = "index" => Index!IndexCatchesUp

\* SyncsKeepUp and CursorsGoForward are ConnectorSync's own.

\* ScanQueue: a scan that was booked runs.
BookedScanRuns == Turns!BookedScanRuns
=============================================================================
