--------------------------- MODULE ConnectorSync ----------------------------
(***************************************************************************)
(* When connectors sync: server/connectors/scheduler.ts, and the rows that *)
(* server/connectors/service.ts keeps of them.                             *)
(*                                                                         *)
(* A sync is a thread of promises with two awaits: the pull, with the      *)
(* ingest, and the push.  It reads its connector's row once, at its start, *)
(* and writes it at its end; a deadline aborts it, and a while after that  *)
(* its slots are free whether it ended or not.  An edit with a new secret  *)
(* reads the row, waits for the server's answer and writes the row back.   *)
(***************************************************************************)
EXTENDS Integers, Sequences, FiniteSets, Functions

CONSTANTS
  Connectors, Owners, OwnerOf, \* the connectors, and whose each one is
  Pushes,       \* those whose adapter writes to the server too
  Threads,      \* names for the syncs under way
  Stubborn,     \* the threads that may never end
  Concurrency,  \* CONNECTOR_SYNC_CONCURRENCY
  Edited,       \* bound: the connectors the owner touches
  MaxRemote,    \* bound: changes on all servers
  NoRun

ASSUME SyncAssumption ==
  /\ OwnerOf \in [Connectors -> Owners] /\ IsFiniteSet(Connectors)
  /\ Pushes \cup Edited \subseteq Connectors /\ Stubborn \subseteq Threads
  /\ Concurrency \in Nat \ {0} /\ MaxRemote \in Nat

VARIABLES
  connector,    \* the rows: status and cursor; "gone" when removed
  dueList,      \* the connectors whose nextRunAt has passed, by nextRunAt
  remote,       \* how far each server's own changes go
  sync,         \* the syncs under way, by thread
  activeRuns, activeOwners,
  edit,         \* the edit that waits for the server's answer, or NoRun
  scheduler     \* "up", "stopping" once stopConnectorScheduler has aborted, or "down"

syncVars == <<connector, dueList, remote, sync, activeRuns, activeOwners, edit, scheduler>>

Status == {"active", "paused", "error", "needs_reauth", "gone"}
Phase == {"pulling", "pushing"}
Cursor == 0..MaxRemote
\* `listed`: how far the server went when the sync began; `clock`: whether its deadline
\* has aborted it, and then whether its slots were freed without it.
SyncRun == [conn : Connectors, phase : Phase, listed : Cursor, clock : {"runs", "aborted", "freed"}]

ASSUME RunAssumption == NoRun \notin SyncRun

SyncTypeOK ==
  /\ connector \in [Connectors -> [status : Status, cursor : Cursor]]
  /\ dueList \in Seq(Connectors) /\ \A i, j \in DOMAIN dueList : dueList[i] = dueList[j] => i = j
  /\ remote \in [Connectors -> Cursor]
  /\ sync \in [Threads -> SyncRun \cup {NoRun}]
  /\ activeRuns \subseteq Connectors
  /\ activeOwners \in [Owners -> Nat]
  /\ edit # NoRun => edit \in [conn : Connectors, status : Status, due : BOOLEAN]
  /\ scheduler \in {"up", "stopping", "down"}

Exists(c) == connector[c].status # "gone"
Syncing == {t \in Threads : sync[t] # NoRun}
Idle == Threads \ Syncing
IsDue(c) == \E i \in DOMAIN dueList : dueList[i] = c
Place(c) == CHOOSE i \in DOMAIN dueList : dueList[i] = c
NotDue(c) ==
  IF IsDue(c) THEN SubSeq(dueList, 1, Place(c) - 1) \o SubSeq(dueList, Place(c) + 1, Len(dueList))
  ELSE dueList
DueNow(c) == IF IsDue(c) THEN dueList ELSE Append(dueList, c)

\* Requests and ticks end first.
Up == scheduler = "up"

-----------------------------------------------------------------------------
(***************************************************************************)
(* The scheduler.                                                          *)
(***************************************************************************)
\* Time passes a connector's nextRunAt, or a shorter interval moves it up to now.
Elapse(c) ==
  /\ Exists(c) /\ ~IsDue(c)
  /\ dueList' = Append(dueList, c)
  /\ UNCHANGED <<connector, remote, sync, activeRuns, activeOwners, edit, scheduler>>

NewRun(c) == [conn |-> c, phase |-> "pulling", listed |-> remote[c], clock |-> "runs"]

\* Variant: a tick forgets which connectors and owners are being synced.
EligibleAnyway(c) == connector[c].status \in {"active", "error"}

\* The due rows a tick may start.
Eligible(c) ==
  /\ connector[c].status \in {"active", "error"}
  /\ c \notin activeRuns /\ activeOwners[OwnerOf[c]] = 0

\* The first due connector of each idle owner, as many as there are slots.
Candidates ==
  LET ready == {i \in DOMAIN dueList : Eligible(dueList[i])}
      firsts == {i \in ready : \A j \in ready : j < i => OwnerOf[dueList[j]] # OwnerOf[dueList[i]]}
  IN {dueList[i] : i \in {k \in firsts :
        Cardinality({j \in firsts : j < k}) < Concurrency - Cardinality(activeRuns)}}

\* Idle threads for the connectors a tick or a request starts.
Assignments(cs) == {f \in Injection(cs, Threads) : \A c \in cs : f[c] \in Idle}

\* startSync for connectors `cs`.
StartSync(cs) ==
  /\ \E thread \in Assignments(cs) :
       sync' = [t \in Threads |-> IF \E c \in cs : thread[c] = t
                                 THEN NewRun(CHOOSE c \in cs : thread[c] = t) ELSE sync[t]]
  /\ activeRuns' = activeRuns \cup cs
  /\ activeOwners' = [o \in Owners |-> activeOwners[o] + Cardinality({c \in cs : OwnerOf[c] = o})]

Tick ==
  /\ Up /\ Candidates # {}
  /\ StartSync(Candidates)
  /\ UNCHANGED <<connector, dueList, remote, edit, scheduler>>

\* POST /:id/sync, whatever the connector's status.
SyncNow(c) ==
  /\ Up /\ Exists(c) /\ c \notin activeRuns
  /\ StartSync({c})
  /\ UNCHANGED <<connector, dueList, remote, edit, scheduler>>

\* Variant: a sync that ends late gives its slots back a second time.
FreedTwice(t) ==
  LET o == OwnerOf[sync[t].conn]
  IN /\ activeRuns' = activeRuns \ {sync[t].conn}
     /\ activeOwners' = [activeOwners EXCEPT ![o] = IF @ = 0 THEN 0 ELSE @ - 1]

\* free(): the sync gives its slots back, once.
Freed(t) ==
  LET o == OwnerOf[sync[t].conn]
  IN IF sync[t].clock # "freed"
     THEN /\ activeRuns' = activeRuns \ {sync[t].conn}
          /\ activeOwners' = [activeOwners EXCEPT ![o] = @ - 1]
     ELSE UNCHANGED <<activeRuns, activeOwners>>

Deadline(t) ==
  /\ t \in Syncing /\ sync[t].clock = "runs"
  /\ sync' = [sync EXCEPT ![t].clock = "aborted"]
  /\ UNCHANGED <<connector, dueList, remote, activeRuns, activeOwners, edit, scheduler>>

\* Variant: nothing frees the slots of a sync that does not end.
GraceNever(t) == FALSE /\ UNCHANGED syncVars

\* ABORT_GRACE_MS after the deadline: the slots go back, and the sync may go on.
Grace(t) ==
  /\ t \in Syncing /\ sync[t].clock = "aborted" /\ Up
  /\ Freed(t)
  /\ sync' = [sync EXCEPT ![t].clock = "freed"]
  /\ UNCHANGED <<connector, dueList, remote, edit, scheduler>>

-----------------------------------------------------------------------------
(***************************************************************************)
(* A sync.  Its writes to a row that is gone change nothing.               *)
(***************************************************************************)
Written(c, row) == IF Exists(c) THEN [connector EXCEPT ![c] = row] ELSE connector

\* Variant: the status a sync ends with replaces a pause set during it.
KeptNone(c, status) == status

\* A pause set during a sync stays.
Kept(c, status) == IF connector[c].status = "paused" THEN "paused" ELSE status

\* The end of a clean sync: the next run is an interval away.
Succeed(t) ==
  LET c == sync[t].conn
  IN /\ connector' = Written(c, [status |-> Kept(c, "active"), cursor |-> sync[t].listed])
     /\ dueList' = NotDue(c)
     /\ Freed(t)
     /\ sync' = [sync EXCEPT ![t] = NoRun]

\* The pull is done: every adapter returns how far it listed the server, and that
\* cursor is saved before the push starts.
Pulled(t) ==
  /\ t \in Syncing /\ sync[t].phase = "pulling"
  /\ LET c == sync[t].conn
     IN IF c \in Pushes
        THEN /\ connector' = Written(c, [connector[c] EXCEPT !.cursor = sync[t].listed])
             /\ sync' = [sync EXCEPT ![t].phase = "pushing"]
             /\ UNCHANGED <<dueList, activeRuns, activeOwners>>
        ELSE Succeed(t)
  /\ UNCHANGED <<remote, edit, scheduler>>

Pushed(t) ==
  /\ t \in Syncing /\ sync[t].phase = "pushing"
  /\ Succeed(t)
  /\ UNCHANGED <<remote, edit, scheduler>>

\* A sync that failed or was aborted: the next try is a backoff away.
Fail(t) ==
  /\ t \in Syncing
  /\ connector' = Written(sync[t].conn, [connector[sync[t].conn] EXCEPT !.status = Kept(sync[t].conn, "error")])
  /\ dueList' = NotDue(sync[t].conn)
  /\ Freed(t)
  /\ sync' = [sync EXCEPT ![t] = NoRun]
  /\ UNCHANGED <<remote, edit, scheduler>>

\* The server refused the credentials, or the key does not open them: the connector
\* needs its owner, paused or not.
Deny(t) ==
  /\ t \in Syncing
  /\ connector' = Written(sync[t].conn, [connector[sync[t].conn] EXCEPT !.status = "needs_reauth"])
  /\ Freed(t)
  /\ sync' = [sync EXCEPT ![t] = NoRun]
  /\ UNCHANGED <<dueList, remote, edit, scheduler>>

EndOf(t) == Pulled(t) \/ Pushed(t) \/ Fail(t) \/ Deny(t)

-----------------------------------------------------------------------------
(***************************************************************************)
(* What the owner does.                                                    *)
(***************************************************************************)
Pause(c) ==
  /\ Up /\ Exists(c)
  /\ connector' = [connector EXCEPT ![c].status = "paused"]
  /\ UNCHANGED <<dueList, remote, sync, activeRuns, activeOwners, edit, scheduler>>

Activated(c) ==
  /\ connector' = [connector EXCEPT ![c].status = "active"]
  /\ dueList' = DueNow(c)

Resume(c) ==
  /\ Up /\ Exists(c)
  /\ Activated(c)
  /\ UNCHANGED <<remote, sync, activeRuns, activeOwners, edit, scheduler>>

\* An edit with a new secret, up to the server's answer: it keeps what it read.
OpenEdit(c) ==
  /\ Up /\ Exists(c) /\ edit = NoRun
  /\ edit' = [conn |-> c, status |-> connector[c].status, due |-> IsDue(c)]
  /\ UNCHANGED <<connector, dueList, remote, sync, activeRuns, activeOwners, scheduler>>

EditEnds ==
  /\ Up /\ edit # NoRun
  /\ edit' = NoRun
  /\ UNCHANGED <<remote, sync, activeRuns, activeOwners, scheduler>>

\* The server refused the secret, or the row is gone.
DropEdit == EditEnds /\ UNCHANGED <<connector, dueList>>

\* A reconnection asks for `active` with the secret.
Reconnect == EditEnds /\ Exists(edit.conn) /\ Activated(edit.conn)

\* The edit writes the status and the nextRunAt it read, with what the answer makes of
\* them: a secret taken ends an error, a busy server starts one.
SaveEdit ==
  /\ EditEnds /\ Exists(edit.conn)
  /\ \/ edit.status \in {"needs_reauth", "error"} /\ Activated(edit.conn)
     \/ /\ edit.status # "paused"
        /\ connector' = [connector EXCEPT ![edit.conn].status = "error"]
        /\ dueList' = NotDue(edit.conn)
     \/ /\ edit.status \in {"active", "paused"}
        /\ connector' = [connector EXCEPT ![edit.conn].status = edit.status]
        /\ dueList' \in {DueNow(edit.conn)} \cup IF edit.due THEN {} ELSE {NotDue(edit.conn)}

RemoveConnector(c) ==
  /\ Up /\ Exists(c)
  /\ connector' = [connector EXCEPT ![c].status = "gone"]
  /\ dueList' = NotDue(c)
  /\ UNCHANGED <<remote, sync, activeRuns, activeOwners, edit, scheduler>>

\* A change on the server.
Change(c) ==
  /\ \A d \in Connectors : remote[d] < MaxRemote
  /\ remote' = [remote EXCEPT ![c] = @ + 1]
  /\ UNCHANGED <<connector, dueList, sync, activeRuns, activeOwners, edit, scheduler>>

-----------------------------------------------------------------------------
(***************************************************************************)
(* The process.                                                            *)
(***************************************************************************)
\* stopConnectorScheduler: every sync is aborted, and has five seconds to end.
Stop ==
  /\ Up
  /\ scheduler' = "stopping"
  /\ sync' = [t \in Threads |-> IF t \in Syncing /\ sync[t].clock = "runs"
                              THEN [sync[t] EXCEPT !.clock = "aborted"] ELSE sync[t]]
  /\ UNCHANGED <<connector, dueList, remote, activeRuns, activeOwners, edit>>

\* The process ends, by a crash or after Stop, and another starts: the rows remain.
Exit ==
  /\ scheduler # "down"
  /\ scheduler' = "down"
  /\ sync' = [t \in Threads |-> NoRun]
  /\ activeRuns' = {} /\ activeOwners' = [o \in Owners |-> 0] /\ edit' = NoRun
  /\ UNCHANGED <<connector, dueList, remote>>

StartConnectorScheduler ==
  /\ scheduler = "down"
  /\ scheduler' = "up"
  /\ UNCHANGED <<connector, dueList, remote, sync, activeRuns, activeOwners, edit>>

SyncInit ==
  /\ connector = [c \in Connectors |-> [status |-> "active", cursor |-> 0]]
  /\ dueList = <<>> /\ remote = [c \in Connectors |-> 0]
  /\ sync = [t \in Threads |-> NoRun] /\ activeRuns = {} /\ activeOwners = [o \in Owners |-> 0]
  /\ edit = NoRun /\ scheduler = "up"

SyncNext ==
  \/ Tick \/ Stop \/ Exit \/ StartConnectorScheduler \/ DropEdit \/ Reconnect \/ SaveEdit
  \/ \E c \in Connectors : Elapse(c) \/ Change(c)
  \/ \E c \in Edited : SyncNow(c) \/ Pause(c) \/ Resume(c) \/ OpenEdit(c) \/ RemoveConnector(c)
  \/ \E t \in Threads : Deadline(t) \/ Grace(t) \/ EndOf(t)

SyncSpec == SyncInit /\ [][SyncNext]_syncVars

\* A tick runs every minute, whatever else runs; timers fire; every sync but those of
\* the stubborn threads ends by itself.
SyncFairness ==
  /\ \A c \in Connectors : SF_syncVars(Tick /\ c \in activeRuns')
  /\ \A t \in Threads : WF_syncVars(Deadline(t)) /\ WF_syncVars(Grace(t))
  /\ \A t \in Threads \ Stubborn : WF_syncVars(EndOf(t))

FairSyncSpec == SyncSpec /\ SyncFairness

-----------------------------------------------------------------------------
(***************************************************************************)
(* Properties.                                                             *)
(***************************************************************************)
Holding == {t \in Syncing : sync[t].clock # "freed"}

\* The slots are those of the syncs that have not outlived their deadline, however
\* late one ends: a connector is locked by one sync, and an owner is counted busy once
\* for each.
SlotsAreRight ==
  /\ activeRuns = {sync[t].conn : t \in Holding}
  /\ \A t, u \in Holding : sync[t].conn = sync[u].conn => t = u
  /\ \A o \in Owners : activeOwners[o] = Cardinality({t \in Holding : OwnerOf[sync[t].conn] = o})

\* A pause outlasts the syncs and the edits that began after it: only the owner ends
\* it, or a sync whose credentials are refused, or an edit from before the pause.
PauseHolds ==
  [][\A c \in Connectors : connector[c].status = "paused" /\ connector'[c].status # "paused" =>
       \/ Resume(c) \/ RemoveConnector(c) \/ Reconnect
       \/ \E t \in Threads : Deny(t)
       \/ SaveEdit /\ edit.status # "paused"]_syncVars

\* "It does not sync until you select Resume."
PausedUntilResumed ==
  [][\A c \in Connectors : connector[c].status = "paused" /\ connector'[c].status # "paused" =>
       Resume(c) \/ RemoveConnector(c) \/ Reconnect]_syncVars

\* A connector that is due is synced, though a sync of the same owner hangs for ever.
SyncsKeepUp ==
  \A c \in Connectors :
    IsDue(c) /\ connector[c].status \in {"active", "error"}
      ~> c \in activeRuns \/ connector[c].status \notin {"active", "error"} \/ ~IsDue(c) \/ ~Up

\* A cursor goes back, so that what came after it is read twice, only when a sync that
\* outlived its deadline ends after a later one.
CursorsGoForward ==
  [][\A c \in Connectors : connector'[c].cursor < connector[c].cursor =>
       \E t \in Syncing \ Holding : sync[t].conn = c /\ sync'[t] # sync[t]]_syncVars
=============================================================================
