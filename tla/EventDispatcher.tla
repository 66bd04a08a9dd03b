-------------------------- MODULE EventDispatcher --------------------------
(***************************************************************************)
(* The outbox of domain events: server/events/record.ts and dispatcher.ts, *)
(* and the sweep of old events in services/maintenanceService.ts.          *)
(*                                                                         *)
(* A write records events in its own transaction, commits, and calls       *)
(* dispatchEvents().  The dispatch hands every subscriber the events of its*)
(* types it has not seen, in id order, and keeps one cursor per subscriber.*)
(* The code is synchronous, so between two callbacks nothing of a dispatch *)
(* is in progress; the steps of a dispatch are actions here because the    *)
(* process can die between any two of them, and because a handler may      *)
(* write and throw.                                                        *)
(***************************************************************************)
EXTENDS Integers, Sequences, FiniteSetsExt

CONSTANTS Subscribers, Kinds, Owners,
          Rank,          \* their place in the order they were registered
          Takes,         \* the kinds each subscriber receives
          Deletable,     \* owners an administrator may delete
          MaxFailures,   \* MAX_FAILURES
          MaxEvents,     \* bound: events ever recorded
          None

ASSUME EventsAssumption ==
  /\ Rank \in [Subscribers -> Nat]
  /\ \A s, r \in Subscribers : Rank[s] = Rank[r] => s = r
  /\ Takes \in [Subscribers -> SUBSET Kinds]
  /\ Deletable \subseteq Owners
  /\ MaxFailures \in Nat \ {0} /\ MaxEvents \in Nat

VARIABLES
  log,        \* the events recorded, by id; those past `committed` are not committed
  committed,  \* the newest committed id
  swept,      \* ids the sweep removed
  gone,       \* deleted owners, whose events went with them
  cursors,    \* event_cursors
  mode,       \* what the process is in the middle of
  registry,   \* the subscribers this process registered
  deferred, retry,   \* a dispatch waits in a microtask, or for the retry timer
  upTo, todo, at, moved, stopped, again,   \* locals of the dispatch
  \* History, which no action reads.
  base,       \* where each subscriber's cursor started
  handled, skipped, failed,   \* per subscriber: ids handled, skipped; throws per id
  lossy,      \* has a dispatch ended without saving where it got to
  cut         \* did the latest dispatch end on a database error

store    == <<log, committed, swept, gone, cursors>>
timers   == <<deferred, retry>>
locals   == <<upTo, todo, at, moved, stopped, again>>
history  == <<base, handled, skipped, failed, lossy, cut>>
vars     == <<store, mode, registry, timers, locals, history>>

Ids == 1 .. MaxEvents
Event == [kind : Kinds, owner : Owners]
Cursor == [last : 0 .. MaxEvents, failures : 0 .. MaxFailures - 1]
Turn == [sub : Subscribers, last : 0 .. MaxEvents, failures : 0 .. MaxFailures - 1]

ASSUME NoneAssumption == None \notin Cursor /\ None \notin Turn

Recorded == 1 .. Len(log)
Rows == {e \in Recorded \ swept : log[e].owner \notin gone}
Wants(s, e) == e \in Recorded /\ log[e].kind \in Takes[s]

\* newestEventId: of the rows left in `events`; ids are never used again.
NewestEventId == Max(Rows \cup {0})

TypeOK ==
  /\ log \in Seq(Event) /\ Len(log) <= MaxEvents
  /\ committed \in 0 .. Len(log)
  /\ swept \subseteq Ids /\ gone \subseteq Deletable
  /\ cursors \in [Subscribers -> Cursor \cup {None}]
  /\ mode \in {"down", "idle", "tx", "written", "dispatch"}
  /\ registry \subseteq Subscribers
  /\ deferred \in BOOLEAN /\ retry \in BOOLEAN /\ again \in BOOLEAN
  /\ upTo \in 0 .. MaxEvents
  /\ todo \subseteq Subscribers /\ stopped \subseteq Subscribers
  /\ at \in Turn \cup {None}
  /\ moved \in [Subscribers -> Cursor \cup {None}]
  /\ base \in [Subscribers -> 0 .. MaxEvents]
  /\ handled \in [Subscribers -> SUBSET Ids] /\ skipped \in [Subscribers -> SUBSET Ids]
  /\ failed \in [Subscribers -> [Ids -> 0 .. MaxFailures]]
  /\ lossy \in BOOLEAN /\ cut \in BOOLEAN

(***************************************************************************)
(* Writes.                                                                 *)
(***************************************************************************)
\* recordEvent, inside the transaction of the write; the first one opens it.
RecordEvent(event) ==
  /\ mode \in {"idle", "tx"}
  /\ Len(log) < MaxEvents /\ event.owner \notin gone
  /\ log' = Append(log, event)
  /\ mode' = "tx"
  /\ UNCHANGED <<committed, swept, gone, cursors, registry, timers, locals, history>>

\* Variant: dispatchEvents does not look for an open transaction.
DispatchInTransaction ==
  /\ mode = "tx" /\ deferred' = TRUE
  /\ handled' = [s \in Subscribers |->
       IF s \in registry
       THEN handled[s] \cup {e \in committed + 1 .. Len(log) : Wants(s, e)} ELSE handled[s]]
  /\ UNCHANGED <<store, mode, registry, retry, locals, base, skipped, failed, lossy, cut>>

\* A write nested in another calls dispatchEvents with the transaction open.
DeferUntilCommitted ==
  /\ mode = "tx" /\ deferred' = TRUE
  /\ UNCHANGED <<store, mode, registry, retry, locals, history>>

Commit ==
  /\ mode = "tx"
  /\ committed' = Len(log)
  /\ mode' = "written"
  /\ UNCHANGED <<log, swept, gone, cursors, registry, timers, locals, history>>

\* The write throws: its events go with it, and their ids are used again.
Rollback ==
  /\ mode = "tx"
  /\ log' = SubSeq(log, 1, committed)
  /\ mode' = "idle"
  /\ UNCHANGED <<committed, swept, gone, cursors, registry, timers, locals, history>>

(***************************************************************************)
(* The dispatch.                                                           *)
(***************************************************************************)
Round ==
  /\ upTo' = NewestEventId
  /\ todo' = registry
  /\ at' = None
  /\ moved' = [s \in Subscribers |-> None]
  /\ again' = FALSE

StartDispatch ==
  /\ mode' = "dispatch"
  /\ stopped' = {}
  /\ Round

\* The locals of a dispatch end with it.
EndDispatch ==
  /\ mode' = "idle"
  /\ upTo' = 0 /\ todo' = {} /\ at' = None /\ stopped' = {} /\ again' = FALSE
  /\ moved' = [s \in Subscribers |-> None]

\* The write that committed calls dispatchEvents, or a microtask or the retry
\* timer does.
DispatchEvents ==
  /\ \/ mode = "written" /\ UNCHANGED timers
     \/ mode = "idle" /\ deferred /\ deferred' = FALSE /\ UNCHANGED retry
     \/ mode = "idle" /\ retry /\ retry' = FALSE /\ UNCHANGED deferred
  /\ StartDispatch
  /\ UNCHANGED <<store, registry, base, handled, skipped, failed, lossy, cut>>

StillRuns(s) == s \notin stopped

\* The subscribers that are not stopped have their turn in the round, in the order
\* of the registry.
TakeSubscriber(s) ==
  /\ mode = "dispatch" /\ at = None /\ s \in todo /\ StillRuns(s)
  /\ \A r \in todo : StillRuns(r) => Rank[s] <= Rank[r]
  /\ IF cursors[s].last >= upTo
     THEN todo' = todo \ {s} /\ UNCHANGED at
     ELSE at' = [sub |-> s, last |-> cursors[s].last, failures |-> cursors[s].failures]
          /\ UNCHANGED todo
  /\ UNCHANGED <<store, mode, registry, timers, upTo, moved, stopped, again, history>>

NextFor(s, last) == {e \in last + 1 .. upTo : Wants(s, e) /\ e \in Rows}

\* Variant: the read has no order.
IsAny(e) == e \in NextFor(at.sub, at.last)
IsNext(e) == e \in NextFor(at.sub, at.last) /\ \A d \in NextFor(at.sub, at.last) : e <= d

\* What a handler writes and commits while it runs: nothing, or one event, whose
\* dispatchEvents only sets `again`.
HandlerWrites ==
  \/ UNCHANGED <<log, committed, again>>
  \/ /\ Len(log) < MaxEvents
     /\ \E event \in Event : event.owner \notin gone /\ log' = Append(log, event)
     /\ committed' = Len(log) + 1
     /\ again' = TRUE

\* The handler returns.
Handle(e) ==
  /\ mode = "dispatch" /\ at # None /\ IsNext(e)
  /\ HandlerWrites
  /\ at' = [sub |-> at.sub, last |-> e, failures |-> 0]
  /\ handled' = [handled EXCEPT ![at.sub] = @ \cup {e}]
  /\ UNCHANGED <<swept, gone, cursors, mode, registry, timers, upTo, todo, moved, stopped,
                 base, skipped, failed, lossy, cut>>

\* Variant: whichever way it ends, the cursor is put at the end of the round.
LeaveAtEnd(last, failures) ==
  /\ moved' = [moved EXCEPT ![at.sub] = [last |-> upTo, failures |-> failures]]
  /\ at' = None
  /\ todo' = todo \ {at.sub}

\* Where the subscriber got to, whichever way `deliver` ends.
Leave(last, failures) ==
  /\ moved' = [moved EXCEPT ![at.sub] = [last |-> last, failures |-> failures]]
  /\ at' = None
  /\ todo' = todo \ {at.sub}

\* Variant: one try too few.
TriesOnceLess(failures) == failures + 1 < MaxFailures

TriesAgain(failures) == failures < MaxFailures

\* The handler throws: its subscriber stops for this dispatch with the count
\* beside the cursor, or the event has failed often enough and is skipped.
Throw(e) ==
  /\ mode = "dispatch" /\ at # None /\ IsNext(e)
  /\ HandlerWrites
  /\ failed' = [failed EXCEPT ![at.sub][e] = Min({@ + 1, MaxFailures})]
  /\ IF TriesAgain(at.failures + 1)
     THEN /\ Leave(at.last, at.failures + 1)
          /\ stopped' = stopped \cup {at.sub}
          /\ UNCHANGED skipped
     ELSE /\ at' = [sub |-> at.sub, last |-> e, failures |-> 0]
          /\ skipped' = [skipped EXCEPT ![at.sub] = @ \cup {e}]
          /\ UNCHANGED <<moved, todo, stopped>>
  /\ UNCHANGED <<swept, gone, cursors, mode, registry, timers, upTo, base, handled, lossy, cut>>

\* No more events of its types up to `upTo`: the cursor passes the others too.
Reached ==
  /\ mode = "dispatch" /\ at # None /\ NextFor(at.sub, at.last) = {}
  /\ Leave(upTo, at.failures)
  /\ UNCHANGED <<store, mode, registry, timers, upTo, stopped, again, history>>

Saved(m) ==
  [s \in Subscribers |->
     IF m[s] = None THEN cursors[s]
     ELSE [last |-> Max({cursors[s].last, m[s].last}), failures |-> m[s].failures]]

\* Variant: no timer for the subscribers that stopped.
EndRoundWithoutTimer ==
  /\ mode = "dispatch" /\ at = None /\ todo \subseteq stopped
  /\ cursors' = Saved(moved)
  /\ IF again \/ NewestEventId > upTo
     THEN Round /\ UNCHANGED <<mode, stopped, cut>>
     ELSE EndDispatch /\ cut' = FALSE
  /\ UNCHANGED <<log, committed, swept, gone, registry, timers,
                 base, handled, skipped, failed, lossy>>

\* The round is over: the cursors are saved in one transaction, and the loop goes
\* round again for events the handlers wrote.
EndRound ==
  /\ mode = "dispatch" /\ at = None /\ todo \subseteq stopped
  /\ cursors' = Saved(moved)
  /\ IF again \/ NewestEventId > upTo
     THEN Round /\ UNCHANGED <<mode, stopped, retry, cut>>
     ELSE EndDispatch /\ retry' = (retry \/ stopped # {}) /\ cut' = FALSE
  /\ UNCHANGED <<log, committed, swept, gone, registry, deferred,
                 base, handled, skipped, failed, lossy>>

\* A database error ends the dispatch: a failed read after the cursors of those
\* served are saved, or the failed save itself.
DatabaseError ==
  /\ mode = "dispatch"
  /\ LET got == IF at = None THEN moved
                ELSE [moved EXCEPT ![at.sub] = [last |-> at.last, failures |-> at.failures]]
     IN \/ cursors' = Saved(got) /\ UNCHANGED lossy
        \/ UNCHANGED cursors /\ lossy' = TRUE
  /\ EndDispatch
  /\ retry' = (retry \/ stopped # {})
  /\ cut' = TRUE
  /\ UNCHANGED <<log, committed, swept, gone, registry, deferred,
                 base, handled, skipped, failed>>

(***************************************************************************)
(* Restarts, deletion, maintenance.                                        *)
(***************************************************************************)
Crash ==
  /\ mode # "down"
  /\ mode' = "down"
  /\ upTo' = 0 /\ todo' = {} /\ at' = None /\ stopped' = {} /\ again' = FALSE
  /\ moved' = [s \in Subscribers |-> None]
  /\ log' = SubSeq(log, 1, committed)
  /\ deferred' = FALSE /\ retry' = FALSE
  /\ lossy' = (lossy \/ mode = "dispatch")
  /\ cut' = FALSE
  /\ UNCHANGED <<committed, swept, gone, cursors, registry,
                 base, handled, skipped, failed>>

\* Boot registers the subscribers of this build (a release may add some: they
\* start from now) and catches up from the cursors.
Boot(S) ==
  /\ mode = "down" /\ S # {} /\ registry \subseteq S
  /\ registry' = S
  /\ cursors' = [s \in Subscribers |->
       IF s \in S /\ cursors[s] = None THEN [last |-> NewestEventId, failures |-> 0] ELSE cursors[s]]
  /\ base' = [s \in Subscribers |->
       IF s \in S /\ cursors[s] = None THEN Len(log) ELSE base[s]]
  /\ mode' = "dispatch"
  /\ upTo' = NewestEventId /\ todo' = S
  /\ UNCHANGED <<at, moved, stopped, again>>
  /\ UNCHANGED <<log, committed, swept, gone, timers,
                 handled, skipped, failed, lossy, cut>>

\* purgeOwner deletes the account's events with it.
PurgeOwner(o) ==
  /\ mode = "idle"
  /\ gone' = gone \cup {o}
  /\ UNCHANGED <<log, committed, swept, cursors, mode, registry, timers, locals, history>>

Passed(n) == \A s \in registry : n <= cursors[s].last

\* sweepEvents: old events that every registered subscriber has passed.
SweepEvents(n) ==
  /\ mode = "idle" /\ n \in Recorded /\ Passed(n)
  /\ swept' = swept \cup 1 .. n
  /\ UNCHANGED <<log, committed, gone, cursors, mode, registry, timers, locals, history>>

Init ==
  /\ log = <<>> /\ committed = 0 /\ swept = {} /\ gone = {}
  /\ cursors = [s \in Subscribers |-> None]
  /\ mode = "down" /\ registry = {}
  /\ deferred = FALSE /\ retry = FALSE /\ again = FALSE
  /\ upTo = 0 /\ todo = {} /\ at = None /\ stopped = {}
  /\ moved = [s \in Subscribers |-> None]
  /\ base = [s \in Subscribers |-> 0]
  /\ handled = [s \in Subscribers |-> {}] /\ skipped = [s \in Subscribers |-> {}]
  /\ failed = [s \in Subscribers |-> [e \in Ids |-> 0]]
  /\ lossy = FALSE /\ cut = FALSE

Next ==
  \/ \E event \in Event : RecordEvent(event)
  \/ DeferUntilCommitted \/ Commit \/ Rollback
  \/ DispatchEvents
  \/ \E s \in Subscribers : TakeSubscriber(s)
  \/ \E e \in Ids : Handle(e) \/ Throw(e)
  \/ Reached \/ EndRound \/ DatabaseError
  \/ Crash
  \/ \E S \in SUBSET Subscribers : Boot(S)
  \/ \E o \in Deletable : PurgeOwner(o)
  \/ \E n \in Ids : SweepEvents(n)

Spec == Init /\ [][Next]_vars

(***************************************************************************)
(* Safety.                                                                 *)
(***************************************************************************)
Accounted(s, e) ==
  \/ e \in handled[s] \cup skipped[s]
  \/ e \in Recorded /\ log[e].owner \in gone

\* Neither a cursor nor the sweep passes an event that a subscriber wants and has not
\* handled or given up, over crashes, failed saves and rounds.
PassedBy(s) == {e \in swept : e > base[s]} \cup
  IF cursors[s] = None THEN {} ELSE base[s] + 1 .. cursors[s].last
CursorSkipsNothing ==
  \A s \in registry : \A e \in PassedBy(s) : Wants(s, e) => Accounted(s, e)

\* No subscriber is handed an event of a transaction that is open or rolled back ("so it
\* never reads rows that may still roll back"), though such ids are used again.
NothingUncommitted ==
  \A s \in Subscribers : handled[s] \cup skipped[s] \subseteq 1 .. committed

\* An event is skipped for a subscriber only after MAX_FAILURES tries of that event.
SkipsAfterMaxFailures ==
  \A s \in Subscribers : \A e \in skipped[s] : failed[s][e] >= MaxFailures

\* When the process is at rest and the latest dispatch was not cut off by the
\* database, nobody is behind, or somebody is about to dispatch.
NothingStranded ==
  mode = "idle" /\ ~deferred /\ ~retry /\ ~cut =>
    \A s \in registry : cursors[s].last >= NewestEventId

(***************************************************************************)
(* Action properties.                                                      *)
(***************************************************************************)
InOrder ==
  \A s \in registry : \A e \in (handled'[s] \cup skipped'[s]) \ (handled[s] \cup skipped[s]) :
    \A d \in base[s] + 1 .. e - 1 : Wants(s, d) => Accounted(s, d)
HandedAgain == \E e \in Ids : Handle(e) /\ e \in handled[at.sub]

\* A subscriber is handed an event only after every earlier one it wants, and a second
\* time only when a dispatch was cut off before it saved where it got to.
DeliveredInOrder == [][InOrder /\ (HandedAgain => lossy)]_vars

(***************************************************************************)
(* What the outbox promises: EventDelivery.  A subscriber's place is where *)
(* its turn is, what the dispatch will save for it, or its cursor.         *)
(***************************************************************************)
Place(s) ==
  IF at # None /\ at.sub = s THEN at.last
  ELSE IF moved[s] # None THEN moved[s].last
  ELSE IF cursors[s] # None THEN cursors[s].last ELSE 0
SavedPlace(s) == IF cursors[s] # None THEN cursors[s].last ELSE 0

Delivery == INSTANCE EventDelivery WITH
              events <- [e \in 1 .. committed |-> log[e]], expired <- swept, deleted <- gone, joined <- registry,
              place <- [s \in Subscribers |-> Place(s)], saved <- [s \in Subscribers |-> SavedPlace(s)],
              given <- handled, dropped <- skipped

\* Every behaviour of the dispatcher is one of EventDelivery: however often it crashes,
\* fails to save or goes round again, each subscriber is given its events in order, from a
\* place that is behind nothing it was not given.
ImplementsDelivery == Delivery!Spec

(***************************************************************************)
(* Liveness.  The code of a dispatch runs to its end, timers fire, and the *)
(* process is started again.                                               *)
(***************************************************************************)
Fairness ==
  /\ SF_vars(DispatchEvents) /\ WF_vars(Reached) /\ WF_vars(EndRound)
  /\ WF_vars(Commit \/ Rollback)
  /\ \A s \in Subscribers : WF_vars(TakeSubscriber(s))
  /\ \A e \in Ids : WF_vars(Handle(e) \/ Throw(e))
  /\ WF_vars(\E S \in SUBSET Subscribers : Boot(S))

LiveSpec == Spec /\ Fairness

\* A committed event reaches every subscriber that wants it, or is given up after
\* its tries, unless the process dies or the database fails first.
EventsArrive ==
  \A s \in Subscribers, e \in Ids :
    (s \in registry /\ e <= committed /\ e > base[s] /\ Wants(s, e))
      ~> (Accounted(s, e) \/ mode = "down" \/ cut)
=============================================================================
