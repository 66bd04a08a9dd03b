-------------------------- MODULE SearchIndexQueue --------------------------
(***************************************************************************)
(* The durable queue that keeps every contact's search vector current:     *)
(* server/services/search/indexQueue.ts, embedContact and the backfill of  *)
(* vectorIndex.ts, and the writes that feed them (the triggers of          *)
(* ftsIndex.ts, the searchIndex subscriber, contactService).               *)
(*                                                                         *)
(* A drain holds the thread between two awaits: `busy` is true then, and   *)
(* only its own steps (or the death of the process) are enabled.  While it *)
(* awaits an embedding, writes, timers and the backfill interleave.        *)
(***************************************************************************)
EXTENDS Integers, FiniteSets

CONSTANTS Contacts,
          Archivable,     \* contacts somebody archives
          Provider,       \* is a hosted model pinned
          BatchSize,      \* DRAIN_BATCH_SIZE
          MaxAttempts,    \* MAX_ATTEMPTS
          MaxEdits,       \* bound: edits of a contact
          MaxFailures,    \* bound: embedding calls that fail
          None

ASSUME SearchAssumption ==
  /\ IsFiniteSet(Contacts) /\ Archivable \subseteq Contacts
  /\ Provider \in BOOLEAN
  /\ BatchSize \in Nat \ {0} /\ MaxAttempts \in Nat \ {0}
  /\ MaxEdits \in Nat /\ MaxFailures \in Nat

Texts == 0 .. MaxEdits
Outcomes == {"embedding", "indexed", "outdated", "dropped", "not_ready", "error"}
QueueRow == [status : {"pending", "processing", "failed"}, attempts : Nat, due : BOOLEAN]
Embed == [id : Contacts, attempts : Nat, read : Texts, outcome : Outcomes]

ASSUME NoneAssumption ==
  None \notin Texts /\ None \notin QueueRow /\ None \notin Embed /\ None \notin [Contacts -> Texts \cup {None}]

VARIABLES
  status, text,   \* contacts: what the row is, and the text its vector stands for
  vector,         \* search_embeddings and the passages: the text each was made from
  row,            \* search_index_queue
  aiOff,          \* the owner turned AI off
  boot,           \* the process: down, loading the model, or done (or failed) doing so
  ready,          \* can the embedder answer
  timer,          \* the drain timer: off, soon, or set for the backoff of a contact
  busy,           \* a drain runs between two awaits
  running, explicit, processed, seen, batch, embed,   \* the drain
  backfill,       \* the texts a backfill round read
  importing,      \* contacts an import created and has not queued yet
  \* History, which no action reads, and one bound.
  cutOff,         \* contacts whose import died before it queued them
  deferred,       \* rows put back for later since they were queued
  unheard,        \* rows a trigger alone queued, with no drain to come, since when none came
  tries,          \* failed tries since the row was queued
  failures        \* bound: embedding calls that failed

contacts == <<status, text, aiOff>>
index    == <<vector, row>>
drain    == <<busy, running, explicit, processed, seen, batch, embed>>
ghosts   == <<cutOff, deferred, unheard, tries, failures>>
vars     == <<contacts, index, boot, ready, timer, drain, backfill, importing, ghosts>>

Attempts == 0 .. MaxAttempts
InTrash == {"trash", "archived_trash"}
Statuses == {"none", "active", "archived", "gone"} \cup InTrash

TypeOK ==
  /\ status \in [Contacts -> Statuses]
  /\ text \in [Contacts -> Texts]
  /\ vector \in [Contacts -> Texts \cup {None}]
  /\ row \in [Contacts -> QueueRow \cup {None}] /\ \A c \in Contacts : row[c] # None => row[c].attempts \in Attempts
  /\ boot \in {"down", "loading", "done", "failed"}
  /\ {aiOff, ready, busy, running, explicit} \subseteq BOOLEAN
  /\ timer \in {"off", "soon"} \cup Contacts
  /\ processed \in 0 .. BatchSize
  /\ seen \subseteq Contacts
  /\ batch \subseteq [id : Contacts, attempts : Attempts]
  /\ embed \in Embed \cup {None} /\ (embed # None => embed.attempts \in Attempts)
  /\ backfill \in [Contacts -> Texts \cup {None}] \cup {None}
  /\ importing \subseteq Contacts /\ cutOff \subseteq Contacts /\ deferred \subseteq Contacts
  /\ unheard \subseteq Contacts
  /\ tries \in [Contacts -> 0 .. MaxFailures]
  /\ failures \in 0 .. MaxFailures

Up == boot # "down"
Idle == Up /\ ~busy
Active(c) == status[c] = "active"

\* mayEmbedContactsFor says no: the owner's AI switch keeps a hosted model away.
Refused == Provider /\ aiOff

Pending(c) == row[c] # None /\ row[c].status = "pending"
Processing(c) == row[c] # None /\ row[c].status = "processing"
DueRows == {c \in Contacts : Pending(c) /\ row[c].due}
LaterRows == {c \in Contacts : Pending(c) /\ ~row[c].due}
Fresh == [status |-> "pending", attempts |-> 0, due |-> TRUE]

(***************************************************************************)
(* The timer, and the call that starts a drain.                            *)
(***************************************************************************)
\* A drain runs, or the timer or the end of the backfill brings one.
DrainComes == timer # "off" \/ running \/ backfill # None

\* triggerIndexDrain: a timer that is already set stays as it is.
Armed(delay) == IF timer = "off" THEN delay ELSE timer

\* drainIndexQueue, up to its first read of the queue.  Whether somebody asked for the
\* drain matters to a hosted model only.
DrainIndexQueue(allowed) ==
  IF running \/ backfill # None
  THEN /\ timer' = IF backfill # None THEN "soon" ELSE "off"
       /\ UNCHANGED drain
  ELSE /\ timer' = "off"
       /\ IF Provider /\ ~allowed
          THEN UNCHANGED drain
          ELSE /\ running' = TRUE /\ busy' = TRUE
               /\ explicit' = (Provider /\ allowed)
               /\ processed' = 0 /\ seen' = {} /\ batch' = {} /\ embed' = None

\* The backoff timer of a contact never fires before its row is due.
TimerFires ==
  /\ Idle /\ timer # "off"
  /\ timer \notin LaterRows
  /\ DrainIndexQueue(FALSE)
  /\ UNCHANGED <<contacts, index, boot, ready, backfill, importing, ghosts>>

FallDue(c) ==
  /\ c \in LaterRows
  /\ row' = [row EXCEPT ![c].due = TRUE]
  /\ UNCHANGED <<contacts, vector, boot, ready, timer, drain, backfill, importing, ghosts>>

(***************************************************************************)
(* The writes that feed the queue.  Each one commits and dispatches its    *)
(* events before anything else runs.                                       *)
(***************************************************************************)
\* scheduleSearchIndex: the active ones among C are queued afresh, and a drain is
\* due soon.
Schedule(C, now) ==
  LET queued == {c \in C : now[c] = "active"}
  IN /\ row' = [c \in Contacts |-> IF c \in queued THEN Fresh ELSE row[c]]
     /\ timer' = Armed("soon")
     /\ cutOff' = cutOff \ queued
     /\ deferred' = deferred \ queued
     /\ tries' = [c \in Contacts |-> IF c \in queued THEN 0 ELSE tries[c]]
     /\ unheard' = {} /\ UNCHANGED failures

\* search_vector_update, within the write that changed a column, or a child row through
\* searchExpansion: the vector goes, an active contact is queued afresh, and another
\* loses its row.  The trigger arms nothing.
SearchVectorUpdate(c, now) ==
  LET queued == {b \in {c} : now[b] = "active"}
  IN /\ vector' = [vector EXCEPT ![c] = None]
     /\ row' = [row EXCEPT ![c] = IF c \in queued THEN Fresh ELSE None]
     /\ cutOff' = cutOff \ queued
     /\ deferred' = deferred \ queued
     /\ tries' = [tries EXCEPT ![c] = IF c \in queued THEN 0 ELSE @]
     /\ UNCHANGED failures

\* Whom a drain may never be told of, when nobody arms the timer for c.
Unheard(c) == IF DrainComes THEN unheard ELSE unheard \cup {c}

unaffected == <<aiOff, boot, ready, drain, backfill>>

\* createContact, and every other write that adds one contact.
Create(c) ==
  /\ Idle /\ status[c] = "none"
  /\ status' = [status EXCEPT ![c] = "active"]
  /\ Schedule({c}, status')
  /\ UNCHANGED <<text, vector, importing, unaffected>>

\* A batch of an import creates contacts.  The child rows of one have the trigger queue
\* it; the timer is armed, and the others queued, after the last batch.
ImportRow(c) ==
  /\ Idle /\ status[c] = "none"
  /\ status' = [status EXCEPT ![c] = "active"]
  /\ importing' = importing \cup {c}
  /\ \/ UNCHANGED <<index, ghosts>>
     \/ SearchVectorUpdate(c, status') /\ unheard' = Unheard(c)
  /\ UNCHANGED <<text, timer, unaffected>>

FinishImport ==
  /\ Idle /\ importing # {}
  /\ Schedule(importing, status)
  /\ importing' = {}
  /\ UNCHANGED <<status, text, vector, unaffected>>

\* An edit of a field of SEARCH_FIELDS, tags and interests too: the trigger, and the
\* subscriber, which arms the timer.
EditText(c) ==
  /\ Idle /\ status[c] \in {"active", "archived"} /\ text[c] < MaxEdits
  /\ text' = [text EXCEPT ![c] = @ + 1]
  /\ SearchVectorUpdate(c, status)
  /\ timer' = Armed("soon") /\ unheard' = {}
  /\ UNCHANGED <<status, importing, unaffected>>

\* An edit of jobs or schools, which the passages are cut from, or of emails and phones,
\* which they are not: the trigger alone.  The subscriber does not know these fields.
EditDetails(c) ==
  /\ Idle /\ status[c] \in {"active", "archived"}
  /\ \/ UNCHANGED text
     \/ text[c] < MaxEdits /\ text' = [text EXCEPT ![c] = @ + 1]
  /\ SearchVectorUpdate(c, status)
  /\ unheard' = IF Active(c) THEN Unheard(c) ELSE unheard
  /\ UNCHANGED <<status, timer, importing, unaffected>>

\* Archiving changes no searchable field: nothing is queued, now or on the way back.
Archive(c) ==
  /\ Idle /\ c \in Archivable
  /\ \/ status[c] = "active" /\ status' = [status EXCEPT ![c] = "archived"]
     \/ status[c] = "archived" /\ status' = [status EXCEPT ![c] = "active"]
  /\ UNCHANGED <<text, index, timer, importing, ghosts, unaffected>>

\* deleteContact, and "delete forever" from the trash.  The trash remembers that a
\* contact was archived.
Trash(c) ==
  /\ Idle
  /\ \/ status[c] = "active" /\ status' = [status EXCEPT ![c] = "trash"]
     \/ status[c] = "archived" /\ status' = [status EXCEPT ![c] = "archived_trash"]
     \/ status[c] \in InTrash /\ status' = [status EXCEPT ![c] = "gone"]
  /\ vector' = [vector EXCEPT ![c] = None]
  /\ row' = [row EXCEPT ![c] = None]
  /\ UNCHANGED <<text, timer, importing, ghosts, unaffected>>

RestoreContact(c) ==
  /\ Idle /\ status[c] \in InTrash
  /\ status' = [status EXCEPT ![c] = IF @ = "trash" THEN "active" ELSE "archived"]
  /\ Schedule({c}, status')
  /\ UNCHANGED <<text, vector, importing, unaffected>>

SwitchAi ==
  /\ Idle /\ Provider
  /\ aiOff' = ~aiOff
  /\ UNCHANGED <<status, text, index, boot, ready, timer, drain, backfill, importing, ghosts>>

Missing(c) == Active(c) /\ vector[c] = None
Failed(c) == Active(c) /\ row[c] # None /\ row[c].status = "failed"

\* POST /search/refresh-index: "Index missing", or all of it, and a drain.  A
\* hosted model needs the account's AI switch.
RefreshIndex(forceAll) ==
  /\ Idle /\ ~Refused
  /\ LET queued == {c \in Contacts : IF forceAll THEN Active(c) ELSE Missing(c) \/ Failed(c)}
     IN /\ row' = [c \in Contacts |-> IF c \in queued THEN Fresh ELSE IF forceAll THEN None ELSE row[c]]
        /\ vector' = [c \in Contacts |-> IF forceAll THEN None ELSE vector[c]]
        /\ cutOff' = cutOff \ queued
        /\ deferred' = deferred \ queued
        /\ tries' = [c \in Contacts |-> IF c \in queued THEN 0 ELSE tries[c]]
  /\ DrainIndexQueue(TRUE) /\ unheard' = {}
  /\ UNCHANGED <<contacts, boot, ready, backfill, importing, failures>>

\* The same request of another account drains the whole queue.
RefreshIndexElsewhere ==
  /\ Idle /\ DrainIndexQueue(TRUE) /\ unheard' = {}
  /\ UNCHANGED <<contacts, index, boot, ready, backfill, importing, cutOff, deferred, tries, failures>>

(***************************************************************************)
(* The drain.                                                              *)
(***************************************************************************)
idle == <<contacts, boot, ready, backfill, importing>>

\* What one read of the queue returns: due rows, oldest first, up to the limit.
Candidates ==
  LET limit == BatchSize - processed
  IN {C \in SUBSET DueRows : Cardinality(C) <= limit /\ (C = DueRows \/ Cardinality(C) = limit)}

SelectBatch ==
  /\ busy /\ embed = None /\ batch = {} /\ processed < BatchSize
  /\ \E C \in Candidates :
       /\ C \ seen # {}
       /\ batch' = {[id |-> c, attempts |-> row[c].attempts] : c \in C \ seen}
  /\ UNCHANGED <<idle, index, timer, busy, running, explicit, processed, seen, embed, ghosts>>

\* embedContact up to its first await.
Embedding(c) ==
  IF ~ready THEN "not_ready"
  ELSE IF ~Active(c) \/ Refused THEN "dropped"
  ELSE "embedding"

Claim(item) ==
  /\ busy /\ embed = None /\ item \in batch
  /\ batch' = batch \ {item}
  /\ seen' = seen \cup {item.id}
  /\ processed' = processed + 1
  /\ IF Pending(item.id)
     THEN /\ row' = [row EXCEPT ![item.id].status = "processing"]
          /\ embed' = [id |-> item.id, attempts |-> item.attempts, read |-> text[item.id],
                       outcome |-> Embedding(item.id)]
          /\ busy' = FALSE
     ELSE UNCHANGED <<row, embed, busy>>
  /\ UNCHANGED <<idle, vector, timer, running, explicit, ghosts>>

\* Variants: only the status, or only the text, is read again.
UnchangedAlways(c, read) == Active(c)
UnchangedWhereverItIs(c, read) == text[c] = read

Unchanged(c, read) == Active(c) /\ text[c] = read

\* The model answers: the vector is written if the contact still reads the same.
Embedded ==
  /\ Idle /\ embed # None /\ embed.outcome = "embedding"
  /\ IF Unchanged(embed.id, embed.read)
     THEN /\ vector' = [vector EXCEPT ![embed.id] = embed.read]
          /\ embed' = [embed EXCEPT !.outcome = "indexed"]
     ELSE /\ embed' = [embed EXCEPT !.outcome = "outdated"]
          /\ UNCHANGED vector
  /\ UNCHANGED <<idle, row, timer, busy, running, explicit, processed, seen, batch, ghosts>>

\* The model fails, or the owner turned AI off between its two calls.
EmbedFails ==
  /\ Idle /\ embed # None /\ embed.outcome = "embedding"
  /\ \/ /\ failures < MaxFailures
        /\ failures' = failures + 1
        /\ tries' = [tries EXCEPT ![embed.id] = @ + 1]
        /\ embed' = [embed EXCEPT !.outcome = "error"]
     \/ /\ Refused
        /\ embed' = [embed EXCEPT !.outcome = "dropped"]
        /\ UNCHANGED <<failures, tries>>
  /\ UNCHANGED <<idle, index, timer, busy, running, explicit, processed, seen, batch, cutOff, deferred, unheard>>

\* Variant: the row of an indexed contact is deleted whatever its status.
RowDeletedAlways(c) == None

\* "Delete only if still in 'processing'."
RowAfterIndexed(c) == IF Processing(c) THEN None ELSE row[c]

PutBack(c, attempts) ==
  IF Processing(c) THEN [status |-> "pending", attempts |-> attempts, due |-> FALSE] ELSE row[c]

RowAfterError(c, attempts) ==
  IF attempts < MaxAttempts THEN PutBack(c, attempts)
  ELSE IF Processing(c) THEN [row[c] EXCEPT !.status = "failed", !.attempts = attempts]
  ELSE row[c]

\* What the drain writes about the outcome, and then goes on.
Settle ==
  /\ Idle /\ embed # None /\ embed.outcome # "embedding"
  /\ LET c == embed.id
         attempts == embed.attempts + 1
     IN /\ row' = [row EXCEPT ![c] =
             CASE embed.outcome = "indexed" -> RowAfterIndexed(c)
               [] embed.outcome = "dropped" -> None
               [] embed.outcome \in {"outdated", "not_ready"} ->
                    PutBack(c, IF row[c] = None THEN 0 ELSE row[c].attempts)
               [] embed.outcome = "error" -> RowAfterError(c, attempts)]
        /\ timer' = IF embed.outcome = "error" /\ attempts < MaxAttempts THEN Armed(c) ELSE timer
        /\ deferred' = IF Processing(c) /\ embed.outcome \in {"outdated", "not_ready", "error"}
                       THEN deferred \cup {c} ELSE deferred
  /\ embed' = None /\ busy' = TRUE
  /\ UNCHANGED <<idle, vector, running, explicit, processed, seen, batch, cutOff, unheard, tries, failures>>

\* Variant: the drain ends without a look at what is left.
EndDrainQuietly ==
  /\ busy /\ embed = None /\ batch = {}
  /\ processed = BatchSize \/ \E C \in Candidates : C \subseteq seen
  /\ running' = FALSE /\ busy' = FALSE /\ explicit' = FALSE
  /\ processed' = 0 /\ seen' = {}
  /\ UNCHANGED <<idle, index, timer, batch, embed, ghosts>>

\* The limit is reached, or no row it read is new to this drain.
EndDrain ==
  /\ busy /\ embed = None /\ batch = {}
  /\ processed = BatchSize \/ \E C \in Candidates : C \subseteq seen
  /\ timer' = IF DueRows # {} /\ (~Provider \/ explicit) THEN Armed("soon") ELSE timer
  /\ running' = FALSE /\ busy' = FALSE /\ explicit' = FALSE
  /\ processed' = 0 /\ seen' = {}
  /\ UNCHANGED <<idle, index, batch, embed, ghosts>>

(***************************************************************************)
(* The process: start-up, the backfill, and death.                         *)
(***************************************************************************)
\* initSearchIndexQueue: rows of an interrupted drain are pending again.
Recovered == [c \in Contacts |-> IF Processing(c) THEN [row[c] EXCEPT !.status = "pending"] ELSE row[c]]

InitSearchIndexQueue == row' = Recovered /\ timer' = Armed("soon")

Boot ==
  /\ boot = "down"
  /\ boot' = "loading" /\ ready' = Provider
  /\ InitSearchIndexQueue
  /\ UNCHANGED <<contacts, vector, drain, backfill, importing, ghosts>>

\* The model loads, and the backfill reads the contacts that have no vector and
\* queues those that are not queued, unless the owner keeps them from a hosted model.
StartBackfill ==
  /\ Idle /\ boot = "loading" /\ backfill = None
  /\ ready' = TRUE
  /\ LET round == {c \in Contacts : Missing(c) /\ ~Refused}
     IN /\ backfill' = [c \in Contacts |-> IF c \in round THEN text[c] ELSE None]
        /\ row' = [c \in Contacts |-> IF c \in round /\ row[c] = None THEN Fresh ELSE row[c]]
        /\ cutOff' = cutOff \ round
        /\ deferred' = {c \in deferred : row[c] # None}
  /\ unheard' = {}
  /\ UNCHANGED <<contacts, vector, boot, timer, drain, importing, tries, failures>>

\* The round's vectors are written for the contacts that still read the same.
FinishBackfill ==
  /\ Idle /\ backfill # None /\ ~Refused
  /\ LET stored == {c \in Contacts : backfill[c] # None /\ Unchanged(c, backfill[c])}
     IN /\ vector' = [c \in Contacts |-> IF c \in stored THEN text[c] ELSE vector[c]]
        /\ row' = [c \in Contacts |-> IF c \in stored THEN None ELSE Recovered[c]]
  /\ timer' = Armed("soon")
  /\ backfill' = None /\ boot' = "done"
  /\ UNCHANGED <<contacts, ready, drain, importing, ghosts>>

\* The model does not load, or fails or is refused in the backfill.
StartFails ==
  /\ Idle /\ boot = "loading"
  /\ \/ backfill = None /\ boot' = "failed"
     \/ backfill # None /\ boot' = "done"
  /\ backfill' = None
  /\ InitSearchIndexQueue /\ unheard' = {}
  /\ UNCHANGED <<contacts, vector, ready, drain, importing, cutOff, deferred, tries, failures>>

Crash ==
  /\ Up
  /\ boot' = "down" /\ ready' = FALSE /\ timer' = "off" /\ backfill' = None
  /\ busy' = FALSE /\ running' = FALSE /\ explicit' = FALSE
  /\ processed' = 0 /\ seen' = {} /\ batch' = {} /\ embed' = None
  /\ cutOff' = cutOff \cup importing /\ importing' = {} /\ unheard' = {}
  /\ UNCHANGED <<contacts, index, deferred, tries, failures>>

Init ==
  /\ status = [c \in Contacts |-> "none"] /\ text = [c \in Contacts |-> 0]
  /\ vector = [c \in Contacts |-> None] /\ row = [c \in Contacts |-> None]
  /\ aiOff = FALSE /\ boot = "down" /\ ready = FALSE /\ timer = "off"
  /\ busy = FALSE /\ running = FALSE /\ explicit = FALSE
  /\ processed = 0 /\ seen = {} /\ batch = {} /\ embed = None
  /\ backfill = None /\ importing = {}
  /\ cutOff = {} /\ deferred = {} /\ unheard = {} /\ tries = [c \in Contacts |-> 0] /\ failures = 0

Write(c) ==
  \/ Create(c) \/ ImportRow(c) \/ EditText(c) \/ EditDetails(c)
  \/ Archive(c) \/ Trash(c) \/ RestoreContact(c)

DrainStep ==
  \/ SelectBatch \/ \E item \in batch : Claim(item)
  \/ Embedded \/ EmbedFails \/ Settle \/ EndDrain

Next ==
  \/ \E c \in Contacts : Write(c) \/ FallDue(c)
  \/ FinishImport \/ SwitchAi
  \/ \E forceAll \in BOOLEAN : RefreshIndex(forceAll)
  \/ RefreshIndexElsewhere
  \/ TimerFires \/ DrainStep
  \/ Boot \/ StartBackfill \/ FinishBackfill \/ StartFails \/ Crash

Spec == Init /\ [][Next]_vars

(***************************************************************************)
(* Safety.                                                                 *)
(***************************************************************************)
Stale(c) == Active(c) /\ vector[c] # text[c]

\* "A change to a searchable field deletes the contact's vectors and passages and
\* queues it for indexing": an active contact whose vector is not of its present
\* text has a row, over edits during an embedding, restarts and rebuilds.  Only an
\* import in progress, or one that died, is behind.
StaleIsQueued ==
  \A c \in Contacts : Stale(c) => row[c] # None \/ c \in importing \cup cutOff

\* A contact in the trash, or deleted, has no vector and no row.
TrashIsNotIndexed ==
  \A c \in Contacts : status[c] \in {"none", "gone"} \cup InTrash => vector[c] = None /\ row[c] = None

\* Nothing of the trash is indexed, and the start-up queues what an import that died left
\* out.
IndexHoldsTheLiving ==
  /\ TrashIsNotIndexed
  /\ boot = "done" => \A c \in cutOff : ~Missing(c)

\* A row is never left `processing` by nobody, and one that was queued waits for a timer,
\* a drain or the end of the start-up, not for the next write.  Not so a row that was
\* put back for later, and one that a trigger alone queued while no drain was to come.
QueuedIsDrained ==
  \A c \in Contacts :
    /\ Up /\ Processing(c) => embed # None /\ embed.id = c
    /\ Up /\ ~Provider /\ Pending(c) /\ c \notin deferred \cup unheard => DrainComes

\* "newer edits supersede older attempts": a row is given up after MAX_ATTEMPTS
\* failures since it was queued.
FailedAfterMaxAttempts ==
  \A c \in Contacts : row[c] # None /\ row[c].status = "failed" => tries[c] >= MaxAttempts

\* "The fields the search document reads, relations included": no edit leaves an active
\* contact queued with nobody to drain it.  Only an import in progress does.
QueueIsHeard ==
  \A c \in Contacts : Active(c) /\ Pending(c) /\ c \in unheard => c \in importing

(***************************************************************************)
(* Action and liveness properties.                                         *)
(***************************************************************************)
\* "A result for a contact that changed while it was embedded is dropped."
WritesCurrent ==
  \A c \in DOMAIN vector : vector'[c] \notin {None, vector[c]} => vector'[c] = text[c]
OnlyCurrentVectors == [][WritesCurrent]_vars

\* Strong where a drain that holds the thread disables a callback that is due: the
\* event loop runs it once the thread is free.
Fairness ==
  /\ WF_vars(\E c \in Contacts : FallDue(c)) /\ WF_vars(Boot)
  /\ WF_vars(SelectBatch) /\ WF_vars(\E item \in batch : Claim(item))
  /\ WF_vars(Embedded \/ EmbedFails) /\ WF_vars(Settle) /\ WF_vars(EndDrain)
  /\ SF_vars(TimerFires) /\ SF_vars(FinishImport)
  /\ SF_vars(StartBackfill \/ StartFails) /\ SF_vars(FinishBackfill)

LiveSpec == Spec /\ Fairness

\* The index catches up with a contact, while the process lives with a model that
\* loaded, its row is not put back for later, and a drain was told of it.
IndexCatchesUp ==
  \A c \in Contacts : Stale(c) ~> ~Stale(c) \/ c \in deferred \cup unheard \/ ~Up \/ boot = "failed"

\* "Temporary failures retry with exponential backoff up to MAX_ATTEMPTS": a row
\* that is to be tried again leaves `pending`, without another write or a restart.
ToBeRetried(c) == Pending(c) /\ row[c].attempts > 0
RetriesHappen == \A c \in Contacts : ToBeRetried(c) ~> ~ToBeRetried(c) \/ ~Up

\* "index the missing contacts, or all of them": what is due when a drain somebody
\* asked for runs is claimed, by that drain or by those it leads to.
RequestsAreServed == \A c \in Contacts : explicit /\ c \in DueRows ~> c \notin DueRows \/ ~Up
=============================================================================
