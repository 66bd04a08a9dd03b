--------------------------- MODULE MCIndexModels ---------------------------
(***************************************************************************)
(* SearchIndexQueue with each of its two sorts of model, which `model`     *)
(* names: the one of the server, with two contacts, and a hosted one,      *)
(* whose account turns AI off and on and archives its one contact.         *)
(***************************************************************************)
EXTENDS MCSearchIndexQueue

CONSTANT cy

VARIABLE model

Hosted == INSTANCE SearchIndexQueue WITH
            Contacts <- {cy}, Archivable <- {cy}, Provider <- TRUE,
            MaxEdits <- 2, MaxFailures <- 0

ModelsInit ==
  \/ model = "local" /\ Init
  \/ model = "hosted" /\ Hosted!Init

ModelsNext ==
  \/ model = "local" /\ Next /\ UNCHANGED model
  \/ model = "hosted" /\ Hosted!Next /\ UNCHANGED model

ModelsSpec == ModelsInit /\ [][ModelsNext]_<<vars, model>>

\* SearchIndexQueue: an active contact whose vector is not of its present text is queued,
\* over edits during an embedding, restarts and rebuilds.  AI switched off drops rows.
StaleIsQueuedLocally == model = "local" => StaleIsQueued

\* SearchIndexQueue: what was queued waits for a drain, a timer or the end of the start-up,
\* unless it was put back, or a trigger alone queued it.  A hosted model is drained only
\* when somebody asks.
QueuedIsDrainedLocally == model = "local" => QueuedIsDrained

\* SearchIndexQueue: nothing of the trash is indexed, with either model, and the start-up
\* with the server's own queues what an import that died left out.
LivingAreIndexed == IF model = "local" THEN IndexHoldsTheLiving ELSE Hosted!TrashIsNotIndexed
=============================================================================
