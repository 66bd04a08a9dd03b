# contrack: TLA+ models, checks and proofs

contrack is a self-hosted contact manager: an Express server over one SQLite
file (`server/`), a React client (`src/`), and contracts both import
(`shared/`). One Node process serves every account. It has no second database
and no broker, so all of its background work is its own: a job table, an
outbox of events, a queue of contacts to embed, a queue for AI calls, and a
dozen smaller in-memory queues. These modules model that machinery.

## How the program runs, and how the models use it

JavaScript runs one callback at a time and every SQLite call is synchronous.
So **an action is one synchronous stretch of code**: what runs between two
`await`s, timers or microtasks. What makes the program hard is what can happen
*between* those stretches:

* a handler awaits, and its row, its owner or its contact changes meanwhile;
* the process dies, and memory goes while the tables stay;
* a statement or a handler throws halfway through a sequence of writes;
* a timer is armed, cleared or already set, and the next step depends on it;
* accounts share slots, places and turns.

Where one stretch makes several writes in several transactions (a dispatch of
events, a drain), the model splits it at the writes, because the process can
die there; nothing else is enabled in between.

Source references below are to the repository's files. `PROJECT.json` maps
every definition that models code to its lines.

## Inventory

For each part: its state; its operations; who it talks to; what is hard; and
what makes it correct. `PROJECT.json` says for each whether it is modelled.

**Background job runner** (`server/jobs/runner.ts`). State: the table `jobs`,
whose partial unique index allows one live row per key; in memory the running
set, `pendingAfterRunning` and the owners' last turns. Operations: enqueue,
reschedule, cancel, poll and claim, settle (success, retry, failure),
requeue at boot, schedule declared kinds, stop. Handlers of other parts run in
it. Hard: an enqueue during a run, retries with a newer payload, crashes on
any try, switches, failed bookkeeping, deletion of the owner. Correct: no key
runs twice at once, no enqueue is lost, tries are bounded, schedules survive,
owners take turns, at most `JOB_CONCURRENCY` run. *Modelled: `JobRunner`,
`KeyedWork`, `JobCrashLoop`.*

**Job definitions** (`server/jobs/*.ts` beside the runner). Tables of kinds
with intervals and handlers. *Not modelled; the kinds are constants of the
runner's model.*

**Domain events** (`server/events/dispatcher.ts`, `record.ts`). State: the
append-only `domain_events` with one cursor and failure count for each
subscriber; in memory the registry, `dispatching`, `again`, a deferred dispatch
and a retry timer. Operations: record inside a write's transaction, dispatch,
catch up at boot, sweep. Hard: transactions that roll back, handlers that write
or throw, crashes between a handler and the save of a cursor, new subscribers,
retention. Correct: nothing skipped, nothing uncommitted delivered, order kept,
nobody stranded. *Modelled: `EventDispatcher`, `EventDelivery`.*

**Event subscribers** (`server/events/contactSubscribers.ts`). Seven of them:
search index, dedupe vector, check of a new contact, geocoder, score, the owner's
caches, research of a new contact. *The first is part of `SearchIndexQueue`, the
geocoder's of `GeocodeQueue` (`Subscriber`), the caches' of `SearchAnswers`
(`ClearCaches`). The others mark a row or start work of another part.*

**Search index queue** (`server/services/search/indexQueue.ts`, with
`embedContact` and the backfill of `vectorIndex.ts`, the triggers of
`ftsIndex.ts`, and `modules/search/start.ts`). State: `search_index_queue`, the
vectors, the debounce timer, one drain, one backfill round. Operations: write,
import, archive, trash, restore, refresh, drain (claim, embed, settle), start
up. Hard: an edit while the model embeds the former text; one timer for all
rows, which only some writers of the queue arm; crashes; a hosted model the owner
turns off. Correct: a stale vector is queued, nothing of the trash is indexed, only
current vectors are written, and a row that somebody told the queue of has a timer, a
drain or a start-up to come. Rows the SQL triggers queue alone have none (below:
`unheard`). *Modelled: `SearchIndexQueue`.*

**Vector, passage and full-text indexes.** *Partly: what is embedded, stale or
removed is in `SearchIndexQueue`. The rebuild after a change of model and the
order of several accounts' backfill rounds (`vectorIndex.ts:662`) are not
modelled: one account is. The full-text tables are kept by SQL triggers.*

**AI work queue** (`server/ai/workQueue.ts`). State: the running count, two
queues for each account, the rotation with a pointer for each tier, the count of
interactive starts in a row; the search lane's running count and queue; the map
of shared works. Operations: run, enqueue, evict, refuse, abort, dispatch;
share, give up, leave. Hard: two pointers over a rotation that accounts join
and leave; eviction when full; callers that leave in a later microtask.
Correct: no idle slot, right counts, fair turns and evictions, background work
is reached, a shared work is cancelled when and only when nobody wants it.
*Modelled: `GenerationQueue`, `GenerationTurns`, `SearchLane`, `WorkQueue`,
`SharedWork`.*

**AI gateway, providers and routing** (`server/ai/gateway.ts`, `resilience.ts`,
`routing/`). Translation, network calls, retries under a timeout, quotas. *Not
modelled; its timeout is why a generation ends in the queue's model.*

**CPU worker host** (`server/workers/cpuHost.ts`). One worker, a chain of runs,
cancels before and after a job is posted, a model that loads once, a fallback in
process. Hard: the worker dies with an error and then an exit, or an exit alone,
at any point of that chain. Correct: every job settles. *Modelled:
`CpuWorkerHost`.*

**Request coalescer and AI caches** (`server/utils/requestCoalescer.ts`,
`aiCache.ts`, `services/search/semanticCache.ts`). State: the flights in the air,
the answers kept for the exact words and those kept for the meaning. Hard: an
edit between the moment a question is keyed and the moment its answer is kept, of
columns a revision follows or of those none does; a
flight aborted by its last caller while a new caller has the same key. Correct:
nobody gets an answer of older text or notes than the question; the same question is
worked on once. *Partly: `SearchAnswers`. The planner's, the recap's and the drafts' use of
the coalescer is not modelled.*

**Duplicate detection** (`server/services/dedupe`, `server/routes/dedupe`).
State: scans, a run lock for the instance, booked turns; suggestions, merges and
their undo. Hard: a turn shifted out before the lock is taken, a cancel while a
scan unwinds; merges that chain and are undone in any order while records move
on and contacts are purged; checks that work from what they read before an await.
Correct: a booked turn comes; a hidden contact can be brought back; an undo takes
nothing a person touched since; a pair kept apart stays apart. *Partly:
`ScanQueue`, `ContactMerge`. Scoring and blocking are statistics.*

**Contact research** (`server/services/aiSearch`, `server/services/research`).
A batch queue with one run lock, joining and cancelling, and a contact's own
research beside it. Correct: one research for each contact, locks go with it,
no answer of a cancelled batch is written. *Partly: `ResearchQueue`. Techniques
and prompts are text and network.*

**Connector sync** (`server/connectors/`). State: connectors with status,
cursor and attempts; run rows; a lock on a connector and a count for an owner.
Hard: a deadline with a grace that lets a hung sync overlap the next, a pause
or a change of settings during a run; one mail that comes through two mailboxes.
Correct: slots and counts are those of the syncs that hold them, a pause holds,
each mail is logged and counted once. *Partly: `ConnectorSync`,
`ConnectorIngest` (mail only). Adapters parse remote formats.*

**Geocoding** (`server/services/geocoding/`). One lookup at a time; addresses
change while an answer is awaited; pins a person placed must stay; a lookup
without an answer waits; a failure lapses after a week. *Partly: `GeocodeQueue`. The
start-up sweep and the order of providers are not modelled.*

**Contacts** (`server/services/contactService.ts`, `contactPurge.ts`,
`contactGuard.ts`). *The event log's and the index queue's models take its
commits as steps. Trash, restore, purge and merge are in `ContactMerge`, the
archive in `SearchIndexQueue`.*

**Interactions, lists, tags, follow-ups, relationships.** Single
transactions; `lastContacted` is derived. *Not modelled.*

**Search queries** (`server/services/searchService.ts`). A question waits for its
vector and for models while contacts, notes, facets and lists change. *Partly:
`SearchAnswers` has what `runSearch` reads, shares and keeps; ranking is text.*

**Import and export.** Parsing, then one transaction. *Not modelled.*

**Backups and maintenance** (`backupService.ts`, `maintenanceService.ts`).
Copies, checksums, VACUUM; one coalesced promise and an order at shutdown. *Not
modelled; the sweep of old events is in `EventDispatcher`.*

**Accounts and sign-in, OAuth server and MCP.** Cryptography around single
statements. *Not modelled; `purgeOwner` is an action of the runner's and the
event log's models.*

**Tenancy.** Isolation is a property of SQL text, checked by the repository's
own lint. *Not modelled: every model's owner is explicit.*

**Database and migrations, HTTP routes, shared contracts.** DDL, validation,
schemas. *Not modelled.*

**Client.** `src/lib/pendingDeletes.ts` keeps an undo window with a toast, a
timer and a flush when the page hides; requests fail on their way out or back.
Correct: a window's delete goes out once and never after its undo. *Partly:
`PendingDeletes`. The views have no protocol.*

## The modules

### `JobRunner`, `KeyedWork`, `JobCrashLoop`

`row[k]` is the one live row of a dedupe key (the index allows one), `NoRow`
when none is queued or running; ended rows are history the runner never reads.
`due[k]` ranks the due rows by `runAt`: time matters only through which rows
are due and in what order. `active`, `pending` and `lastTurn` are the memory of
one process and go with it (`Exit`). `owed` and `latest` are history: an
enqueue that no run has started after, and its payload.

| action | code |
| --- | --- |
| `Enqueue`, `SwitchOn`, `SwitchOff` | `enqueueJob`, `scheduleNextRun`, `cancelQueued`, all through `upsertQueued` |
| `PollJobs` | `pollJobs`: `dueJobs`, `takeTurns`, and the claims, in one stretch |
| `Succeed`, `Retry`, `FailForGood` | `settle`, with `scheduleNext` at its end |
| `Unrecorded` | `settle` whose own writes throw |
| `EndWithoutRow`, `PurgeOwner` | a run that outlives its account; `purgeOwner` |
| `Boot`, `Stop`, `Exit` | `startJobRunner`, `stopJobRunner`, a shutdown or crash |

A poll is atomic: its handlers run synchronously up to their first `await`, and
none of those prefixes enqueues the key it runs. `KeyedWork` is the abstract
specification: keys are asked for, worked on at most `Slots` at a time and
never twice at once, and forgotten only by a switch, with their account, or,
once interrupted, at a start. `ImplementsKeyedWork` is the refinement.
`JobCrashLoop` counts in a row the deaths during one key's run.

### `EventDispatcher`, `EventDelivery`

`log`, `committed`, `swept` and `gone` are the event table; `cursors` is
`event_cursors`. `mode` says where the synchronous code is. A write is
`RecordEvent`, then `Commit` or `Rollback`; a nested write that asks for a
dispatch with the transaction open is `DeferUntilCommitted`. A dispatch is
`DispatchEvents`, then for each subscriber in the registry's order
`TakeSubscriber`, `Handle` or `Throw` for each event, `Reached`; `EndRound`
saves the cursors and goes round again or ends, and `DatabaseError` is a failed
read or save. `HandlerWrites` is what a handler commits meanwhile. `Boot(S)`
registers the subscribers of the release that starts and catches up.
History: `base` (where a cursor began), `handled`, `skipped`, `failed`,
`lossy` (a dispatch ended unsaved) and `cut` (the latest ended on a database
error: nothing is armed then, and the next write dispatches).
Left out: `DISABLE_BACKGROUND_JOBS`, which arms no retry timer, and batches of
200 events, which change nothing a property sees.

`EventDelivery` is what the outbox promises without transactions, rounds and tries:
each subscriber is given what was published since it joined, one event after the
other and each once (or it is dropped, but has its turn), from a place that goes back
only to where it was saved. `ImplementsDelivery` is the refinement. A subscriber's
place is where its turn in hand is, or what the dispatch will save for it, or its
cursor; only committed events are published; an event handled or skipped is
`Deliver`, `Reached` is `PassOver`, the end of a round `Save`, a database error or a
crash `Lose`, and the transactions and rounds between them are stutters.

### `SearchIndexQueue`

`text[c]` numbers the texts a contact's vector should stand for and
`vector[c]` is the one it was made from. `busy` is true while the drain holds
the thread: then only its steps, and death, are enabled. The drain is
`SelectBatch`, `Claim` (through `embedContact`'s first await), `Embedded` or
`EmbedFails`, `Settle`, `EndDrain`. Writes commit and dispatch their events in
one stretch, so the trigger's work and the subscriber's are one action.
`SearchVectorUpdate` is the trigger `search_vector_update`: the vector goes and the
row of an active contact is queued, but no timer is armed. It runs for the columns of
`SEARCH_VECTOR_COLUMNS` and, because a write to a child table clears
`searchExpansion`, for child rows. `EditText` is an edit of the subscriber's
`SEARCH_FIELDS`, tags and interests among them: the trigger, and the subscriber arms the
timer. `EditDetails` is one of jobs and schools (which the passages are cut from), emails
and phones: the trigger alone. `Archive`, `Trash`, `RestoreContact`, `Create` are the
other writes. An import creates its contacts in batches, in which the trigger may queue
them (`ImportRow`), and arms the timer after its last one (`FinishImport`). `unheard` is
history: the rows a trigger queued alone while no drain was to come (`DrainComes`) and
none came since. `StartBackfill`, `FinishBackfill`, `StartFails` are the start
of the search module. Rows queued in one statement may be read in any order.
Left out: the rebuild of the store after a model change, the rounds of further
accounts, a backfill started from the settings.

### `GenerationQueue`, `GenerationTurns`, `SearchLane`, `WorkQueue`, `SharedWork`

A waiting job is its account and its tier; the queues of all accounts are parts
of one `line` in order of arrival. `queue.order` is `accountOrder`,
`queue.last` the position of each tier's last turn (from 1; 0 for the code's
-1), `queue.count` the `waitingCount` that gates admission. `RunImmediately`,
`Enqueue`, `EnqueueInPlace` and `Refuse` are the outcomes of `run`; `Abort` is
the signal of a waiting job; `Finish` is the `finally` that calls
`dispatchNext`. `started` and `answer` are history: what the last step did.
`GenerationTurns` watches whom each account saw start before it. `SearchLane`
is the second pool; `WorkQueue` composes both as the class does.
`activeByAccount` only feeds a status snapshot and is left out.

`SharedWork` is one key of the class of that name. The race between a caller's
signal and the answer, the microtask that starts a work and the `finally` of
each caller are actions of their own, because others come between them.
`Forget` reuses the name of a work nobody refers to.

### The services

Nine small machines that share no state, each a module of its own; `MCServices`
puts them and `SharedWork` side by side in one run (`which` names the one a
behaviour is of), and `MCLiveness` four machines under their fairness.

**`ConnectorSync`.** A sync is a thread with two awaits: `Tick`, `SyncNow` begin
it (`startSync`), its steps are `EndOf` (pull, push, the write of status and
cursor), `Deadline` aborts it and `Grace` frees its slots whether it ended or
not, so a late end meets the next sync of its connector. `OpenEdit` reads the
row, `SaveEdit` writes it back once the server answered; `Pause`, `Resume`,
`RemoveConnector`, `Reconnect` are the owner's. `Stop` and `Exit` are an orderly
end and a crash. `remote` is how far a server's changes go; a cursor is how far
the sync's list went. Left out: the length of a backoff, the rows of
`connector_runs`, the adapters.

**`ConnectorIngest`.** The loop of `ingestStream` over two mailboxes of one
owner: `StartIngest` reads the siblings and the contacts' addresses, each mail is
`Skip`ped, `Share`d (a sibling has it), `Log`ged, `RollUp`ed into the day's entry
or `Count`ed as a stranger's, `EndIngest` saves the cursor, `LoseIngest` is any
failure before. Left out: events of contacts, photos and calendars, mentions,
`deleteImported`. A rollup entry the owner deletes swallows the later mails of
that day; a connector added during a run is unknown to it (`Stale`).

**`ScanQueue`.** The run lock, the booked turns, and the `setImmediate` between a
scan's end and the turn it gives, in which a request can take the lock.

**`ResearchQueue`.** `StartBatch`, `Join`, `Cancel`, `NextJob`, `Answers`,
`Refuses`, `Unwind` are a batch; `Enrich`, `EnrichEnds` a contact's own research;
`Edit` what changes a contact meanwhile.

**`GeocodeQueue`.** The rows' address and pin, the event the subscriber has not
read, the cache, the queue with its newest key for each contact, one lookup out.
A task without an answer goes back behind the others, and the drain waits
(`NoAnswer`, `Wake`). A cached failure lapses after `FAILURE_TTL_DAYS`
(`FailureLapses`), and the daily sweep drops what no contact uses (`Prune`).
`SaidToWait` is the "pending" of `notOnMap`. `lapsed` is history: who was at an address
without a task when the failure that kept them out lapsed, or was overwritten by an answer
to somebody else's task. Left out: the start-up sweep, providers. What one sees in
it: an address that was not found is not looked up again without an edit, a person's
request or a start, although the list says that it waits once the failure lapsed; turning lookups off drops the queue and turning them on does not fill it;
the old pin stays when the new address is not found.

**`CpuWorkerHost`.** `chain` is the promise `tail`; a job's turn is a microtask
away, so the event loop waits for it (`HasTurn`). `Spawn`, `RefuseSpent`,
`TakeWorker` are a turn; `Started`, `StartFailed`, `StartExit`, `Answer`,
`WorkerError`, `WorkerExit` what the worker says; `CancelJob` a caller's signal.

**`PendingDeletes`.** A window of an item is opened, sent by its toast, its timer
or the page's end, undone, or fails and shows the item again; the toast of an
older window can still call back.

**`ContactMerge`.** `tables` is what transactions write: `into` (`canonicalId`),
`gone`, `trash`, the records `rows`, the merge `log` with what it moved and the
snapshot of it, the `review` and the pairs kept `apart`. `Merged` is
`executeMerge`, `Undone` the transaction of `undoSoftMerge` with `RowsBack` its
loop over moved records (an untouched record moves back, an edited or deleted
one is copied or left), `Purged` takes a contact with every contact merged into
it, `Expired` the daily sweep of merges past their undo. `check` is what a full
check read at its start (`StartCheck`) and merges at its end (`EndCheck`),
`corpus` an import's check, which yields between two contacts (`ImportCheck`);
`CheckOne` is the check after a write. Left out: scalar fields, lists, mentions,
follow-up dates, ghosts, edits that change a record's key, two imports at once.
`StartCheck` reads `Live` contacts. `buildPassContext` (`dedupe/context.ts:19-25`) does
not name `deletedAt`, but asks for `isArchived = 0`, and what goes to the trash is
archived by the same statement (`contactService.ts:682`, `:911`), cannot be edited there
(`contactGuard.ts`), and gets its former mark back with the restore (`:935-938`). So no
check takes what was in the trash when it began; what goes there during it is still
among those it read (`trashed`, below).
Seen in it and not a property: undoing B into A after C was merged into A leaves
A without C's record of the same key, which stays on hidden C; and when D was
merged into B, B into A, D is undone (with a copy, since the record is on A) and
then B, B keeps D's record too. A contact purged during a full check makes
`storeSuggestions` throw after the review was cleared.

**`SearchAnswers`.** `now` is the revisions of the searched columns with their child
rows, of notes, and of facets. The code counts the first two (`search_revision`,
`notes_revision`); the third is what a facet asks for and no revision follows: tracking,
scores, pins, the members of a list. `EditFacet` changes those, and empties the caches
when the write is the owner's. `asked` is each request with what it read, `flight` the shared works, `inFlight` those a
caller can still join, `recent` and `alike` the two caches. `AskQuestion` reads
the revisions and the cache of exact words, `MeansTheSame` the cache of meanings
once the vector is there; `JoinFlight` and `StartFlight` are `coalesce`;
`ReadEvidence` is the retrieval after the planner, `ModelAnswers` keeps what was
verified, `ModelFails` and `AnswerLocally` are the local list instead;
`LeaveFlight` and `EndAborted` are a caller's signal. An answer is abstracted to
the revisions its evidence was read at, and all questions mean the same. Left out:
questions that need no model, embedders other than the built-in one, the five
minutes of a key. What one sees in it: the look at the cache inside a flight asks
for no revision again, so a question can get an answer that was right when it
was asked although the contacts changed during its embedding.

## The runs

| run | question | states | result |
| --- | --- | --- | --- |
| `runner_safety` | does any interleaving of enqueues, polls, failures, switches, crashes, boots and deletions lose work, run it twice, exceed its tries, end a schedule or break turns; is the runner a `KeyedWork` | 171,000 | holds |
| `crash_loop_start` | can a start-up job kill every boot | - | violated |
| `events_safety` | does any crash, throw, failed save, rollback, sweep or release make a cursor skip, repeat, reorder or strand an event; is the dispatcher an `EventDelivery` | 1,960,000 | holds |
| `events_purge` | is an event skipped only after its own tries | - | violated |
| `search_safety` | with the server's model or a hosted one: is every stale vector queued, every queued row drained that somebody was told of, nothing of the trash indexed, only the current text's vector written | 1,110,000 | holds |
| `search_archive` | is a stale vector queued once contacts are archived and brought back | - | violated |
| `ai_queue` | order, slots, turns and tiers of the AI queue, and the lane | 78,000 | holds |
| `ai_queue_starves` | does waiting work of every account start | - | violated |
| `services` | ten services side by side: shared works cancelled when and only when nobody wants them, slots and pauses of syncs, mails logged and counted once, turns of scans, one research for each contact, pins that follow their address, a chain of worker jobs that never hangs, deletes sent once, merges that can be undone, answers whose text and notes are never older than their question | 738,000 | holds |
| `catches_up` | do due jobs start, does the index catch up, do connectors sync beside one that hangs and do their cursors go back only by a late sync, does a booked scan run | 15,000 | holds |
| `ingest_ignored` | is an ignored sender ignored for good | - | violated |
| `merge_kept_apart` | is a pair kept apart never merged by a check | - | violated |

No run checks deadlock: each stops for a reason that is the bound's and not the
code's, since no event, edit, request or merge is left to make. What must not
stop is stated instead: `NothingStranded`, `QueuedIsDrainedLocally`,
`NothingIdles`, `TurnsAreKept`, `WaitingIsTrue`, `TurnsAreServed`, and the
properties of `catches_up`. The type invariant of every machine is proved, for all
instances, and no run repeats it.

### Bounds

* Runner: one keyed job with two payloads and one of each declared sort
  (switchable, recurring with a start-up run, start-up with a delay), two
  accounts, two slots. Keys share only slots and turns, so a second keyed job
  adds a third competitor and no new pair. `Concurrency` is below the number of
  keys, so polls leave work over. Tries are 1 and 2: the last try, and one
  before it.
* Events: two subscribers, one for both kinds and one for one kind, two events,
  two tries. Skipping, order, nested writes and the second round need two
  events; a cursor passing an event of a kind it does not take needs two kinds.
  `events_purge` uses three tries, so that a skip after fewer is not a skip on
  the first.
* Search (`MCIndexModels`): with the server's model two contacts, one edit of
  each, one failure, a batch of two; with a hosted model one contact, two edits
  and the archive. A drain's limit and the order within its batch need two rows.
* AI queue: three accounts, two slots, three waiting places, two interactive
  starts in a row. The smallest waiting room in which an account can hold more
  than another while a third asks.
* Services. Shared work: three callers, two works of one key. Syncs: one owner,
  two connectors, two threads of which one may never end, so that a late end can
  meet the next sync; cursors are in `MCLiveness`. Ingest: two mailboxes, one
  added during a run, two mails of one sender that reach both, a threshold of two;
  one server gives its list anew, and the owner deletes the entries one mailbox made
  of one mail. Scans: three accounts, four scans. Research: two owners, three contacts, two batches of two.
  Geocoding: two contacts and two addresses, of which they share one and one contact
  can have none; lookups are turned off once. Worker: two embeddings and a reranking. Deletes: two items, three windows, so that one item
  can have two. Merges: three contacts, so that merges chain; two merges, four
  records of which a person touches one, and two steps besides merges and undos (the
  ends of checks are not counted); `MaxSteps` is the 20 steps of `liveContactId`, which three contacts do not
  reach. Answers: two requests, of which one may be worded
  in two ways, and two edits; three requests were run by hand and hold as well.
* `catches_up`: a key for each of two accounts and one slot; a contact with two
  edits; two connectors of one owner; three scans of three accounts.
  Its syncs push nothing.

### Fairness

* Runner: the poll is an interval timer; a run ends (a handler returns or
  throws); time passes; an operator starts the server with background jobs on.
  Nothing makes a deletion, a switch or a stop happen. The second half of
  `WorkIsServed` supposes that writes to the key end, because each one puts the
  run off by five seconds, which the code means to do.
* Index: weak for steps of the drain, which run on their own. Strong for timers
  and for the start-up's continuations: a drain that holds the thread disables
  them again and again, and the event loop runs what is due as soon as the
  thread is free. Fairness never asks an embedding to succeed.
* Syncs: the tick is a timer and takes a due connector whenever it has the
  chance again and again (strong: another connector of the owner can hold the
  place); deadline and grace are timers; only the second thread must end, the
  first may hang for ever.
* Scans: a turn is a `setImmediate`, and a scan ends, in success, failure or by
  a cancel that its passes look at.
* AI queue: a generation ends, because the gateway runs it under a timeout.

## Findings

Each is a run that reaches a state the repository's own words exclude.

1. **A start-up job that kills the process does so at every boot**
   (`crash_loop_start`). `requeueInterruptedJobs` fails a row that used every
   try, and the same boot inserts a fresh one.
2. **A purge leaves a failure count to the next event** (`events_purge`). The
   count beside a cursor belongs to no event; deleting an account's failing
   event leaves it, and the next one is skipped early.
3. **Editing an archived contact and bringing it back leaves it without a
   vector** (`search_archive`). The edit deletes the vector and queues nothing,
   since the contact is not active; unarchiving touches no searchable column.
   A refresh or a restart repairs it.
4. **An account can starve in the AI queue** (`ai_queue_starves`). An account
   that empties its queue leaves the rotation and comes back behind the
   pointer. `TurnsInOrder` is what does hold: among accounts that *stay* in the
   rotation none starts twice before another starts once.
5. **An ignored sender comes back through another mailbox** (`ingest_ignored`).
   `ignoreCorrespondent` marks the row of one connector; the same address in the
   owner's other mailbox is counted afresh and becomes a suggested contact. What does
   hold, and is proved: the mailbox that was told never suggests them again
   (`IgnoredWhereTold`), so with one mailbox an ignored sender is ignored for good
   (`OneMailboxIgnoresForGood`).
6. **A check merges a pair that was kept apart while it ran**
   (`merge_kept_apart`). A check reads the exclusions once and yields before it
   merges; `executeMerge` asks for none. `ApartStaysApart` is what does hold: a
   check never merges a pair that was apart when it began, so with no check or import
   under way a new one merges no pair that is kept apart (`ApartIsKept`).

More properties are stated in the modules, are violated by the code, and have a
configuration kept beside the runs' that prints the trace. Of
`SearchIndexQueue` (`tlc -config MCSearchIndexQueue_<name>.cfg
MCSearchIndexQueue`):

* `unheard`, `QueueIsHeard`: a job or a school is edited. The triggers delete the vector
  with the passages and queue the row, but the subscriber does not know these fields
  (`contactSubscribers.ts:57` says that it lists "the fields the search document reads,
  relations included"), so no timer is armed and the contact is out of semantic search
  until another contact's write, a refresh or the next start. An email or a phone does the
  same. `QueuedIsDrained` and `IndexCatchesUp` hold for every
  other row.
* `attempts`, `FailedAfterMaxAttempts`: `attempts` is read with the batch; a row
  queued afresh while another of its batch is awaited is written with the old
  count, and given up after fewer failures than it had tries.
* `retries`, `RetriesHappen`: a row put back because its contact changed arms no
  timer, so without another write it waits for the next start.
* `request`, `RequestsAreServed`: with a hosted model, a refresh with more rows
  than one batch hands the rest to a timer, whose drain is not an explicit one
  and does nothing.

Of the services (`tlc -config MCServices_<name>.cfg MCServices`):

* `geocoder`, `WaitingIsAlwaysTrue`: an address is not found, its task goes, and a week
  later the failure no longer counts: the list says "Waiting for the geocoder" and no task
  is queued before the next start, an edit or a request (`queue.ts:16-17`: "The task stays
  queued until an answer, so "Waiting for the geocoder" is true"). `WaitingIsTrue` is the
  same but for who is `lapsed`.
* `geocoder`, with the line its comment names, `NotAskedAgain`: an address that found nothing is asked for again at
  once when a second contact with it is already queued (`docs/map.md:241`: "it
  does not try an address that found nothing again for seven days").
* `paused`, `PausedUntilResumed`: credentials the server refuses overwrite a pause
  with `needs_reauth` (`docs/import-and-sync.md:397`: a paused connector "does
  not sync until you select **Resume**"; `service.ts:1037-1040`).
* `fallback`, `FallsBackOnlyUnstarted`: a worker that dies after its model was
  loaded disables the worker, and later embeddings run in process
  (`cpuHost.ts:29-31` says only a worker that cannot start does that).
* `facets`, `FacetsAreFresh`: no key of an answer holds what a facet asks for. An owner's
  write empties the caches instead (`ownerCaches`, `listService.ts:326-329`), and an answer
  that is in flight then passes the check of the revisions (`searchService.ts:1061`), is
  kept afterwards, and the next identical question gets it. A score or a geocoder's pin
  empties none (`docs/architecture.md:287-289`: "A contact change bumps its owner's
  `search_revision` [...] so an edit makes older answers stale").
* `trashed`, `TrashIsSkipped`: a contact moved to the trash while a check runs is
  merged all the same, and can become the primary that hides a live one
  (`docs/duplicates.md:88-89`).

## What is proved

TLAPS proves, for every value of the constants that the named assumptions allow:

| module | theorems | from | assumptions |
| --- | --- | --- | --- |
| `JobRunnerProofs` | `TypeCorrect`, `RunsAreExclusive`, `EnqueuesSurvive`, `TriesAreBounded`, `SchedulesHold`, `OwnersTakeTurns`, and the refinement `RunnerIsKeyedWork` | `IInv`; `TurnsInv` for the last two | `KeysAssumption`: finite keys and accounts, declared keys belong to the instance, tries are positive; `PayloadsAssumption`, `ConcurrencyAssumption` |
| `EventDispatcherProofs` | `NoEventIsPassedOver`, `OnlyCommittedIsHandled`, `OrderIsKept`, `NobodyIsStranded`; `SkipsAreOfTried`, `EveryTryIsTaken`; `EventTypesHold`; the refinement `DispatcherIsDelivery` | `Safe`, and `Attends` for `NobodyIsStranded`; `Counts` for the skips and the types; `Safe` and `Forward` for the refinement | `EventsAssumption`, `NoneAssumption` |
| `SearchIndexProofs` | `VectorsAreCurrent`; `StaleContactsAreQueued`, `QueuedRowsAreDrained`, `OnlyTheLivingAreIndexed`; `IndexTypesHold` | `IndexIsRight`, and `OwnIsRight` for the second to the fourth; `HostedIsRight` for the hosted model; `RowsFit`, `WorkFits`, `TriesFit` for the types | `SearchAssumption`: finitely many contacts; `NoneAssumption`; the second to the fourth suppose `OwnModel`: the server's own model, and contacts nobody archives |
| `GenerationQueueProofs` | `WaitingRoomIsRight`, `NoSlotStaysIdle`, `EvictionsAndTiersAreFair`, `AccountsTakeTurns`; `WorkTypesHold` | `WorkIsSound`: `RoomIsRight`, `TurnsAreRight`, `PassesAreCounted`, `LaneIsRight` | `QueueAssumption`, `LaneAssumption` |
| `SharedWorkProofs` | `BooksAreRight`, `WantedWorkGoesOn`, `IdenticalWorkIsShared`, `UnwantedWorkStops`, `SharingIsSound`; `QuestionsAreAnswered`, `AnswersTypesHold` | `TypeOK` and `Bookkeeping`; `QuestionsAreSound`, and `WithinNow` for the types | `SharedAssumption`: finitely many callers; `AnswersAssumption`: somebody may ask something |
| `ConnectorProofs` | `SlotsAreExclusive`, `PausesAreKept`, `CursorsGoBackOnlyLate`, `SyncTypesHold`; `MailsAreCountedOnce`, `MailsAreLoggedOnce`, `IgnoredWhereTold`, `OneMailboxIgnoresForGood`, `IngestTypesHold` | `Types` and `Slots`, `EditIsRead`, `CursorsAreBehind`; `IngestIsRight`, and `Bounds` for the types | `SyncAssumption`: finitely many connectors; `RunAssumption`; `IngestAssumption` |
| `ContactMergeProofs` | `HiddenCanBeShown`, `UndosGiveBack`, `ApartPairsStayApart`, `ApartIsKept`; `MergeTypesHold` | `MergesAreRight`: `HiddenExist`, `NoCycle`, `OpenIsRight`, `OneOpen`, `Saved`; `TrashExists` for the types | `MergeAssumption`: finitely many contacts, what there is at the start is well formed |
| `ServicesProofs` | `ResearchIsExclusive`, `CancelledAnswersAreDropped`, `BookedTurnsAreKept`, `DeletesAreSentOnce`, `PinsFollowAddresses`, `WaitingStaysTrue`, `ChainNeverHangs`; `ResearchTypesHold`, `ScanTypesHold`, `DeletesTypesHold`, `GeoTypesHold`, `CpuTypesHold` | `ResearchIsSound`, `ScansAreSound`, `DeletesAreSound`, `WaitsAreRight`, `AskedIsRight`; `ChainIsRight`, `PromiseIsRight`, `HeadIsServed` for the worker | `ResearchAssumption`: a batch may have two jobs; `WindowAssumption`, `GeoAssumption`, `TaskAssumption`, `WorkerAssumption` |

Each proof has one lemma for each action (or for a few alike) and one step for
each conjunct that it can disturb; the last step is temporal.

**Why `IInv`.** No property of the runner is inductive alone. `NoLostEnqueue`
after a retry needs that a pending entry always belongs to a running row
(`PendingHasRun`); `NewestPayload` after a retry or a boot needs that a run
without a pending enqueue carries the newest payload (`RunHasNewest`, and
`DownHasNoMemory` when the process is gone); `TriesBounded` over a poll and a
boot needs that a row's tries agree with its status (`TriesMatchStatus`);
`OffQueuesNothingNew` needs that declared rows carry the empty payload and
nothing waits for a kind that is off (`DeclaredRows`); all of them need that
nothing of a deleted account comes back (`GoneLeaveNothing`). To `IInv` the ranks
of rows and turns matter only by their type, so those proofs do not depend on which
order the poll takes.

**Why `TurnsInv`.** Turns and the refinement do depend on it. `TurnsInv` adds that no
two rows that wait have the same rank and no two owners had the same turn: then
"comes before" is a strict total order on what is due, a poll takes the first of it,
and it takes no more than the slots that are free. From that follow `OwnersTakeTurns`
(an owner is passed over only by owners who waited longer) and that a poll of the
runner is starts of `KeyedWork`, its boot one requeue of what was interrupted, and
every other step one of its actions or a stutter.

**Why `WorkIsSound`.** The waiting room is three views of one thing: the jobs in line,
the counter that gates admission, and the accounts in rotation. `RoomIsRight` says that
they agree; without it neither an eviction nor a dispatch can be shown to find what it
looks for. `TurnsAreRight` is the heart of `AccountsTakeTurns`: whoever an account saw
start since its own last start has its next turn later, counted around the rotation
from the pointer, and this must survive insertions behind the pointer, accounts that
leave it, and evictions. `PassesAreCounted` says that the interactive starts somebody
of the background tier saw are at most those counted in a row.

**Why `IndexIsRight` and `OwnIsRight`.** A row's state means something only together
with who works on it: a row that is `processing` is the drain's, which awaits an answer
for it, a row that is not due was put back, and somebody (a timer, a drain, the start)
will look at every other. `FoundIsSo` carries what the drain found over the await: an
answer counts as indexed only while its row is still `processing`, and every edit since
made the row `pending`. `CutOffAreFound` is for imports that died. The three theorems
that rest on `OwnIsRight` suppose the server's own model and that nobody archives: with
archiving `StaleIsQueued` is false (finding 3), and a hosted model drops rows and is
drained only on request.

**Why `RowsFit` and `WorkFits`.** That a row is tried no more than MAX_ATTEMPTS is not a
fact about rows alone: a drain writes the count it read with the batch, plus one. So a row
that is not given up, an item of a batch and the one whose answer is awaited must all have
tries left, and a read of the queue returns only rows that wait. `WorkFits` also carries
the limit: rows claimed and rows in hand are together at most one batch.

**Why `QuestionsAreSound`.** That an answer's text and notes are not older than its
question is not inductive: the answer comes from a cache or a flight somebody else filled. The
invariant says of each kept answer that it is not older than the key it is kept under,
of each flight that it read its evidence after its key, and of each request that its
key is of what it read itself. `WithinNow` bounds each of those revisions by the present
ones, which is what the types need.

**Why `CursorsAreBehind`.** A sync that was freed at its deadline may end after the next
one of its connector and write where it listed the server, long ago. The invariant orders
the two: whoever holds a connector listed the server no earlier than every late one of it,
and no earlier than its cursor. So only a late end can move a cursor back
(`CursorsGoBackOnlyLate`).

**Why `IngestIsRight`.** That no sender is counted too often needs that a connector's
count is at most the mails of the sender it has *read* (a link that is not `Unread`,
which no step makes `Unread` again); that cursors skip nothing needs the same of a run
under way, up to the mail in hand; that a mail is logged once needs that whoever has an
entry on the timeline, has a link to it in a connector that exists.

**Why `Safe`.** `CursorSkipsNothing` is about saved cursors, and a dispatch
saves at its end, so `Skips` says the same of how far each subscriber *got*
(`Reach`: its saved cursor, what the dispatch will save for it, or the turn in
hand). That needs `Rounds`, what a round in hand may be: a turn starts at its
subscriber's cursor, a subscriber that was reached waits no more, nothing passes
what is committed. `Saves`, that everything handled is behind some cursor while
no dispatch ended unsaved, is what keeps the order. `Attends` adds for
`NothingStranded` that a round which stopped nobody took everyone to its end, and
that an idle process owes nobody anything.

**Why `Forward`.** A subscriber's place in `EventDelivery` is read off three variables: its
turn in hand, what the dispatch will save for it, or its cursor. That a step of the
dispatcher moves it as `EventDelivery` may needs that what will be saved is never behind
the cursor (`Forward`), and that a turn starts where its subscriber is and passes only
what is committed (`Safe`). Steps of transactions and of rounds then move no place.

**Why `Counts`.** A cursor's `failures` names no event, so a proof that a skip cost
MAX_FAILURES tries must say whose tries it counts. `Places` says it of the count wherever
it stands (`Beside`: the saved row, the row the dispatch will save, the turn in hand): it
is at most the tries of the event that comes next, or of one that was purged (`Earned`).
Where nothing is purged the second part is empty, and `SkipsAfterMaxFailures` follows
(`EveryTryIsTaken`); where events are purged it is false (finding 2), and
`SkipsAreOfTried` is what is left of it.

**Why `MergesAreRight`.** The tables say twice who is hidden: by `canonicalId` and by the
open entries of the log. That the two agree one to one (`OpenIsRight`, `OneOpen`) is kept by
an undo only because no other open entry names its duplicate, and by a purge only because
it takes the whole chain: a contact left behind would be hidden by one that is gone
(`HiddenExist`). That a chain ends is a rank that falls along it (`NoCycle`), and a merge
keeps one because neither of its two contacts is hidden. `Saved` gives `UndosGiveBack` what
it needs of an entry: its records have their places, and what it kept of them is the
duplicate's. A check merges several pairs in one stretch, each read anew; that this whole
stretch keeps the invariant, and merges nothing it knew to be apart, is the lemma
`InTurnKeeps`, again from a least step where it would go wrong.

**Why the services' invariants.** Counts of slots are not inductive without
saying which thread holds one (`Slots`: a thread that was freed holds none even
while it runs on, and no two hold the same connector). A booked scan keeps its
turn because somebody will call it (`SomebodyWillCall`: a scan runs or a turn was
given) and the lists name each scan once. `OneResearchEach` needs that the batch
in hand points at a job of its own (`RunsAJob`). The chain of the worker never
hangs because the promise of its start, the thread and the head of the chain
agree (`PromiseIsRight`) until the exit that follows every error. A delete is
sent once because an entry's window is live and a sent window has no timer. A lookup's
answer moves the right pins because the key somebody waits for is the address he has,
unless a change of it waits to be read or the owner placed the pin (`WaitsAreRight`).
That a contact said to wait has a task also needs the other half of the book
(`AskedIsRight`): whoever has a latest key has the task of it queued or out
(`AllHaveTasks`), and the latest key of who is said to wait and did not lapse is that of
the address (`AllWait`);
without it the filter that takes a contact's or an address's tasks off the queue could
take the one that counts. What the filter leaves (`Without`, a recursive function over
the queue) is the lemma `WithoutIs`: from a least index where it would go wrong
(`LeastOf`), which stands in for the induction the prover does not do.

**Only model-checked.** Liveness (`catches_up`) and the violations, which are out of the
prover's reach. Every invariant and every action property of a run that holds is proved.

## Hazards without a property

`PROJECT.json` lists the hazards with the properties that would catch them. One
has none, because the code does go wrong there and no document promises otherwise: a
batch's old `attempts` (`indexQueue.ts:226`), which has a spare configuration above.
Three have a property that holds but for what the code does not keep, with a spare
configuration for that: rows queued by a trigger alone (`contactSubscribers.ts:58`),
failures that lapse (`geocoding/queue.ts:130`), facets (`searchService.ts:1061`). The hazard
of the runner's pending entries (`runner.ts:616`) has a half without one: a crash on
a row's last try ends the row and forgets the enqueue that waited for it.

## Not modelled

* Adapters, prompts, routing, quotas, parsers, geocoding providers: formats and
  network. Scoring, blocking, ranking: statistics over text, which the
  repository measures with its own evaluations.
* Sign-in, tokens, passkeys, OAuth, tenancy: cryptography around single
  statements, and SQL text that the repository lints.
* Views, routes, contracts, migrations: rendering, validation, DDL.
* The coalescer's other callers, the backup's coalesced promise, the rebuild of
  the vector store and the rounds of several accounts, contacts and calendars of
  the ingest, the scalar fields of a merge, interactions with their derived
  `lastContacted`. These have state and an order, and are what a continuation
  would take first; the order above is the one that would pay.

## Running it

`tlc -config MCJobRunner_safety.cfg MCJobRunner` checks a run;
`tlapm JobRunnerProofs.tla` checks a proof. `PROJECT.json` lists the runs, their
properties, and for each property a mutant of the model that violates it. The
operators a comment calls "Variant" are those mutants; no action uses them.
