----------------------- MODULE EventDispatcherProofs ------------------------
(***************************************************************************)
(* Theorems about EventDispatcher, for every set of subscribers, of kinds  *)
(* and of owners and every number of events.                               *)
(***************************************************************************)
EXTENDS EventDispatcher, WellFoundedInduction, TLAPS

Types ==
  /\ log \in Seq(Event) /\ Len(log) <= MaxEvents
  /\ committed \in 0 .. Len(log)
  /\ swept \subseteq 1 .. committed
  /\ cursors \in [Subscribers -> Cursor \cup {None}]
  /\ mode \in {"down", "idle", "tx", "written", "dispatch"}
  /\ registry \subseteq Subscribers
  /\ upTo \in 0 .. committed
  /\ todo \subseteq registry /\ stopped \subseteq Subscribers
  /\ at \in Turn \cup {None}
  /\ moved \in [Subscribers -> Cursor \cup {None}]
  /\ base \in [Subscribers -> 0 .. MaxEvents]
  /\ handled \in [Subscribers -> SUBSET Ids] /\ skipped \in [Subscribers -> SUBSET Ids]

\* A dispatch has its subscriber's turn begin at its cursor, and moves no cursor past
\* what is committed.
Rounds ==
  /\ mode # "tx" => committed = Len(log)
  /\ mode # "dispatch" => at = None /\ \A s \in Subscribers : moved[s] = None
  /\ at # None => at.sub \in todo /\ at.last <= upTo /\ cursors[at.sub].last <= at.last
  /\ \A s \in todo : moved[s] = None
  /\ \A s \in Subscribers : moved[s] # None => s \in registry /\ moved[s].last <= committed
  /\ \A s \in Subscribers : cursors[s] # None => cursors[s].last <= committed
  /\ \A s \in Subscribers : cursors[s] # None <=> s \in registry
  /\ \A s \in Subscribers : handled[s] \cup skipped[s] \subseteq 1 .. committed
  /\ \A s \in Subscribers : s \notin registry => handled[s] = {}

\* How far a subscriber got, in the table or in the dispatch that will save it.
Reach(s, e) ==
  \/ e <= cursors[s].last
  \/ moved[s] # None /\ e <= moved[s].last
  \/ at # None /\ at.sub = s /\ e <= at.last
Passes(s, e) == e \in swept \/ Reach(s, e)

\* CursorSkipsNothing, for the cursors a dispatch has not saved yet too.
Skips ==
  \A s \in registry, e \in Ids : Wants(s, e) /\ e > base[s] /\ Passes(s, e) => Accounted(s, e)

\* While every dispatch saved its cursors, what was handled is behind them.
Saves == ~lossy => \A s \in registry : \A e \in handled[s] : Reach(s, e)

Safe == Types /\ Rounds /\ Skips /\ Saves

(***************************************************************************)
(* The largest of some numbers.                                            *)
(***************************************************************************)
LEMMA MaxIsIn ==
  ASSUME NEW n \in Nat, NEW S \in SUBSET (0 .. n), S # {}
  PROVE  Max(S) \in S /\ \A i \in S : i <= Max(S)
<1> DEFINE T == {i \in 0 .. n : n - i \in S}
<1>1. T \subseteq Nat OBVIOUS
<1>2. T # {}
  <2>1. PICK i \in S : TRUE OBVIOUS
  <2>2. n - i \in 0 .. n /\ n - (n - i) = i OBVIOUS
  <2> QED BY <2>1, <2>2
<1>3. \E x \in T : \A y \in T : ~ (<<y, x>> \in OpToRel(<, Nat))
  BY <1>1, <1>2, WFMin, NatLessThanWellFounded
<1>4. PICK x \in T : \A y \in T : x <= y
  <2>1. \A x, y \in Nat : y < x => <<y, x>> \in OpToRel(<, Nat) BY DEF OpToRel
  <2>2. PICK x \in T : \A y \in T : ~ (<<y, x>> \in OpToRel(<, Nat)) BY <1>3
  <2>3. \A y \in T : ~ (y < x) BY <1>1, <2>1, <2>2
  <2> QED BY <1>1, <2>3
<1>5. n - x \in S OBVIOUS
<1>6. ASSUME NEW j \in S PROVE n - x >= j
  <2>1. n - j \in T OBVIOUS
  <2>2. x <= n - j BY <1>4, <2>1
  <2> QED BY <1>1, <2>2
<1>7. \E k \in S : \A j \in S : k >= j BY <1>5, <1>6
<1> QED BY <1>7 DEF Max

LEMMA NewestIsNewest ==
  ASSUME Types
  PROVE  /\ NewestEventId \in 0 .. Len(log) /\ \A e \in Rows : e <= NewestEventId
         /\ Rows \subseteq 1 .. Len(log)
<1>1. Len(log) \in Nat /\ Rows \cup {0} \subseteq 0 .. Len(log)
  BY DEF Types, Rows, Recorded
<1>2. Max(Rows \cup {0}) \in Rows \cup {0} /\ \A e \in Rows \cup {0} : e <= Max(Rows \cup {0})
  BY <1>1, MaxIsIn
<1> QED BY <1>1, <1>2 DEF NewestEventId, Rows, Recorded

\* The cursor a round leaves.
LEMMA SavedIs ==
  ASSUME Types, NEW m \in [Subscribers -> Cursor \cup {None}],
         \A s \in Subscribers : m[s] # None => cursors[s] # None
  PROVE  /\ Saved(m) \in [Subscribers -> Cursor \cup {None}]
         /\ \A s \in Subscribers :
              /\ m[s] = None => Saved(m)[s] = cursors[s]
              /\ m[s] # None => /\ Saved(m)[s] # None
                                /\ Saved(m)[s].failures = m[s].failures
                                /\ Saved(m)[s].last \in {cursors[s].last, m[s].last}
                                /\ cursors[s].last <= Saved(m)[s].last /\ m[s].last <= Saved(m)[s].last
<1>1. ASSUME NEW s \in Subscribers, m[s] # None
      PROVE  /\ Saved(m)[s] \in Cursor
             /\ Saved(m)[s].failures = m[s].failures
             /\ Saved(m)[s].last \in {cursors[s].last, m[s].last}
             /\ cursors[s].last <= Saved(m)[s].last /\ m[s].last <= Saved(m)[s].last
  <2>1. cursors[s] \in Cursor /\ m[s] \in Cursor BY <1>1 DEF Types
  <2>2. PICK a \in 0 .. MaxEvents, b \in 0 .. MaxEvents : a = cursors[s].last /\ b = m[s].last
    BY <2>1 DEF Cursor
  <2>3. Max({a, b}) \in {a, b} /\ \A i \in {a, b} : i <= Max({a, b})
    BY MaxIsIn, EventsAssumption
  <2>4. Saved(m)[s] = [last |-> Max({a, b}), failures |-> m[s].failures] BY <1>1, <2>2 DEF Saved
  <2>5. Saved(m)[s].last = Max({a, b}) BY <2>4
  <2> QED BY <2>1, <2>2, <2>3, <2>4, <2>5 DEF Cursor
<1>2. ASSUME NEW s \in Subscribers, m[s] = None PROVE Saved(m)[s] = cursors[s] BY <1>2 DEF Saved
<1>3. Saved(m) \in [Subscribers -> Cursor \cup {None}]
  <2>1. \A s \in Subscribers : Saved(m)[s] \in Cursor \cup {None} BY <1>1, <1>2 DEF Types
  <2>2. Saved(m) = [s \in Subscribers |-> Saved(m)[s]] BY DEF Saved
  <2> QED BY <2>1, <2>2
<1> QED BY <1>1, <1>2, <1>3, NoneAssumption

(***************************************************************************)
(* What was passed stays accounted for.                                    *)
(***************************************************************************)
LEMMA CursorsAreNumbers ==
  ASSUME Types, Rounds
  PROVE  /\ committed \in Nat /\ Len(log) \in Nat /\ committed <= Len(log)
         /\ upTo \in Nat /\ upTo <= committed
         /\ \A s \in registry : /\ s \in Subscribers
                                /\ cursors[s] \in Cursor /\ cursors[s].last \in 0 .. committed
                                /\ base[s] \in 0 .. MaxEvents
         /\ \A s \in Subscribers : moved[s] # None => moved[s] \in Cursor /\ moved[s].last \in 0 .. committed
         /\ at # None => /\ at.sub \in registry /\ at.last \in 0 .. upTo
                         /\ at.failures \in 0 .. MaxFailures - 1
<1>1. committed \in Nat /\ Len(log) \in Nat /\ committed <= Len(log) /\ upTo \in Nat /\ upTo <= committed
  BY DEF Types
<1>2. ASSUME NEW s \in registry
      PROVE  /\ s \in Subscribers /\ cursors[s] \in Cursor /\ cursors[s].last \in 0 .. committed
             /\ base[s] \in 0 .. MaxEvents
  <2>1. s \in Subscribers /\ cursors[s] # None /\ cursors[s] \in Cursor /\ cursors[s].last <= committed
    BY DEF Types, Rounds
  <2> QED BY <1>1, <2>1 DEF Types, Cursor
<1>3. ASSUME NEW s \in Subscribers, moved[s] # None
      PROVE  moved[s] \in Cursor /\ moved[s].last \in 0 .. committed
  <2>1. moved[s] \in Cursor /\ moved[s].last <= committed BY <1>3 DEF Types, Rounds
  <2> QED BY <1>1, <2>1 DEF Cursor
<1>4. ASSUME at # None
      PROVE  at.sub \in registry /\ at.last \in 0 .. upTo /\ at.failures \in 0 .. MaxFailures - 1
  <2>1. at \in Turn /\ at.sub \in todo /\ at.last <= upTo BY <1>4 DEF Types, Rounds
  <2> QED BY <1>1, <2>1 DEF Types, Turn
<1> QED BY <1>1, <1>2, <1>3, <1>4

LEMMA PassedIsCommitted ==
  ASSUME Types, Rounds, NEW s \in registry, NEW e \in Ids, Passes(s, e)
  PROVE  e \in 1 .. committed
<1>1. e \in Nat /\ e >= 1 BY EventsAssumption DEF Ids
<1>2. CASE e \in swept BY <1>2 DEF Types
<1>3. CASE Reach(s, e) BY <1>1, <1>3, CursorsAreNumbers DEF Reach
<1> QED BY <1>2, <1>3 DEF Passes

LEMMA AccountedStays ==
  ASSUME Types, NEW s \in Subscribers, NEW e \in 1 .. committed,
         Len(log') \in Nat, committed <= Len(log'), log'[e] = log[e], gone \subseteq gone',
         handled[s] \subseteq handled'[s], skipped[s] \subseteq skipped'[s]
  PROVE  (Wants(s, e)' => Wants(s, e)) /\ (Accounted(s, e) => Accounted(s, e)')
BY DEF Types, Wants, Accounted, Recorded

LEMMA SkipsStays ==
  ASSUME Types, Rounds, Skips,
         Len(log') \in Nat, committed <= Len(log'), \A e \in 1 .. committed : log'[e] = log[e],
         registry' = registry, base' = base, gone \subseteq gone',
         \A s \in registry : handled[s] \subseteq handled'[s] /\ skipped[s] \subseteq skipped'[s],
         \A s \in registry, e \in Ids : Passes(s, e)' /\ e > base[s] => Passes(s, e)
  PROVE  Skips'
<1> SUFFICES ASSUME NEW s \in registry, NEW e \in Ids, Wants(s, e)', e > base[s], Passes(s, e)'
             PROVE  Accounted(s, e)'
  BY DEF Skips
<1>1. Passes(s, e) OBVIOUS
<1>2. e \in 1 .. committed BY <1>1, PassedIsCommitted
<1>3. s \in Subscribers BY DEF Types
<1>4. Wants(s, e) /\ (Accounted(s, e) => Accounted(s, e)') BY <1>2, <1>3, AccountedStays
<1> QED BY <1>1, <1>4 DEF Skips

LEMMA LogFacts ==
  ASSUME Types
  PROVE  /\ Len(SubSeq(log, 1, committed)) = committed /\ SubSeq(log, 1, committed) \in Seq(Event)
         /\ \A e \in 1 .. committed : SubSeq(log, 1, committed)[e] = log[e]
         /\ \A event \in Event : /\ Append(log, event) \in Seq(Event)
                                 /\ Len(Append(log, event)) = Len(log) + 1
                                 /\ \A e \in 1 .. Len(log) : Append(log, event)[e] = log[e]
<1>1. log \in Seq(Event) /\ committed \in 0 .. Len(log) /\ Len(log) \in Nat BY DEF Types
<1>2. \A e \in 1 .. committed : log[e] \in Event BY <1>1
<1> QED BY <1>1, <1>2

(***************************************************************************)
(* The steps outside a dispatch.                                           *)
(***************************************************************************)
LEMMA SafeInit == Init => Safe
<1> SUFFICES ASSUME Init PROVE Safe OBVIOUS
<1> USE DEF Init
<1>1. Types BY EventsAssumption DEF Types, Ids
<1>2. Rounds BY DEF Rounds
<1>3. Skips /\ Saves BY DEF Skips, Saves
<1> QED BY <1>1, <1>2, <1>3 DEF Safe

\* The log changes past what is committed, or what is committed grows with it.
LEMMA WriteKeeps ==
  ASSUME Safe, UNCHANGED <<swept, gone, cursors, registry, at, moved, upTo, todo, stopped, base,
                           handled, skipped, lossy>>,
         log' \in Seq(Event), Len(log') <= MaxEvents,
         committed <= Len(log'), \A e \in 1 .. committed : log'[e] = log[e],
         committed' \in committed .. Len(log'),
         mode # "dispatch", mode' \in {"idle", "tx", "written"},
         mode' # "tx" => committed' = Len(log')
  PROVE  Safe'
<1> USE DEF Safe
<1>1. Len(log') \in Nat /\ committed \in Nat BY DEF Types
<1>2. Types' BY <1>1 DEF Types
<1>3. Rounds' BY <1>1, CursorsAreNumbers DEF Rounds
<1>4. \A s, e : Passes(s, e)' <=> Passes(s, e) BY DEF Passes, Reach
<1>5. Skips' BY <1>1, <1>4, SkipsStays
<1>6. Saves' BY DEF Saves, Reach
<1> QED BY <1>2, <1>3, <1>5, <1>6

LEMMA WritesStep ==
  ASSUME Safe, (\E event \in Event : RecordEvent(event)) \/ DeferUntilCommitted \/ Commit \/ Rollback
  PROVE  Safe'
<1>0. Types /\ Rounds BY DEF Safe
<1>1. ASSUME NEW event \in Event, RecordEvent(event) PROVE Safe'
  <2>1. Len(log') = Len(log) + 1 /\ log' \in Seq(Event) /\ \A e \in 1 .. Len(log) : log'[e] = log[e]
    BY <1>0, <1>1, LogFacts DEF RecordEvent
  <2>2. committed \in Nat /\ Len(log) \in Nat /\ committed <= Len(log) /\ Len(log) < MaxEvents
    BY <1>0, <1>1, CursorsAreNumbers DEF RecordEvent
  <2>3. /\ Len(log') <= MaxEvents /\ committed <= Len(log') /\ committed' \in committed .. Len(log')
        /\ \A e \in 1 .. committed : log'[e] = log[e]
    BY <1>1, <2>1, <2>2, EventsAssumption DEF RecordEvent
  <2> QED BY <1>1, <2>1, <2>3, WriteKeeps DEF RecordEvent, store, timers, locals, history
<1>2. CASE DeferUntilCommitted
  <2>1. committed' \in committed .. Len(log') BY <1>0, <1>2, CursorsAreNumbers DEF DeferUntilCommitted, store
  <2> QED BY <1>0, <1>2, <2>1, WriteKeeps, CursorsAreNumbers
          DEF DeferUntilCommitted, store, timers, locals, history, Types
<1>3. CASE Commit
  <2>1. committed' \in committed .. Len(log') BY <1>0, <1>3, CursorsAreNumbers DEF Commit
  <2> QED BY <1>0, <1>3, <2>1, WriteKeeps, CursorsAreNumbers
          DEF Commit, timers, locals, history, Types
<1>4. CASE Rollback
  <2>1. Len(log') = committed /\ log' \in Seq(Event) /\ \A e \in 1 .. committed : log'[e] = log[e]
    BY <1>0, <1>4, LogFacts DEF Rollback
  <2>2. committed' \in committed .. Len(log') /\ Len(log') <= MaxEvents
    BY <1>0, <1>4, <2>1, CursorsAreNumbers, EventsAssumption DEF Rollback, Types
  <2> QED BY <1>0, <1>4, <2>1, <2>2, WriteKeeps, CursorsAreNumbers
          DEF Rollback, timers, locals, history
<1> QED BY <1>1, <1>2, <1>3, <1>4

\* Ids leave the table: those of an account, or those every subscriber passed.
LEMMA RemovalStep ==
  ASSUME Safe, (\E o \in Deletable : PurgeOwner(o)) \/ (\E n \in Ids : SweepEvents(n))
  PROVE  Safe'
<1> USE DEF Safe
<1>1. mode = "idle" /\ Len(log) = committed /\ committed \in Nat
  BY CursorsAreNumbers DEF PurgeOwner, SweepEvents, Rounds
<1>2. /\ UNCHANGED <<log, committed, cursors, mode, registry, upTo, todo, at, moved, stopped,
                     base, handled, skipped, lossy>>
      /\ gone \subseteq gone'
  BY DEF PurgeOwner, SweepEvents, locals, history
<1>3. \A s, e : Reach(s, e)' <=> Reach(s, e) BY <1>2 DEF Reach
<1>4. swept' \subseteq 1 .. committed
  <2>1. swept \subseteq 1 .. committed BY DEF Types
  <2>2. CASE \E o \in Deletable : PurgeOwner(o) BY <2>1, <2>2 DEF PurgeOwner
  <2>3. CASE \E n \in Ids : SweepEvents(n)
    <3>1. PICK n \in 1 .. committed : swept' = swept \cup 1 .. n
      BY <1>1, <2>3 DEF SweepEvents, Recorded
    <3>2. 1 .. n \subseteq 1 .. committed BY <1>1, <3>1
    <3> QED BY <2>1, <3>1, <3>2
  <2> QED BY <2>2, <2>3
<1>5. Types' BY <1>2, <1>4 DEF Types
<1>6. Rounds' BY <1>2 DEF Rounds
<1>7. ASSUME NEW s \in registry, NEW e \in Ids, Passes(s, e)' PROVE Passes(s, e)
  <2>1. CASE \E n \in Ids : SweepEvents(n)
    <3>1. PICK n \in Ids : SweepEvents(n) BY <2>1
    <3>2. CASE e \in 1 .. n
      <4>1. n <= cursors[s].last BY <3>1 DEF SweepEvents, Passed
      <4>2. cursors[s].last \in Nat BY CursorsAreNumbers
      <4> QED BY <3>2, <4>1, <4>2, EventsAssumption DEF Passes, Reach, Ids
    <3>3. CASE e \notin 1 .. n BY <1>3, <1>7, <3>1, <3>3 DEF SweepEvents, Passes
    <3> QED BY <3>2, <3>3
  <2>2. CASE \E o \in Deletable : PurgeOwner(o) BY <1>3, <1>7, <2>2 DEF PurgeOwner, Passes
  <2> QED BY <2>1, <2>2
<1>8. Skips' BY <1>1, <1>2, <1>7, SkipsStays
<1>9. Saves' BY <1>2, <1>3 DEF Saves
<1> QED BY <1>5, <1>6, <1>8, <1>9

LEMMA CrashStep == ASSUME Safe, Crash PROVE Safe'
<1> USE DEF Safe
<1>1. Len(log') = committed /\ log' \in Seq(Event) /\ \A e \in 1 .. committed : log'[e] = log[e]
  BY LogFacts DEF Crash
<1>2. committed \in Nat /\ committed <= Len(log) /\ Len(log) \in Nat BY CursorsAreNumbers
<1>3. Types' BY <1>1, <1>2, NoneAssumption, EventsAssumption DEF Crash, Types
<1>4. Rounds' BY <1>1 DEF Crash, Rounds
<1>5. \A s \in registry, e \in Ids : Passes(s, e)' => Passes(s, e)
  <2>1. \A s \in registry : moved'[s] = None BY DEF Crash, Types
  <2> QED BY <2>1 DEF Crash, Passes, Reach
<1>6. Skips' BY <1>1, <1>2, <1>5, SkipsStays DEF Crash
<1>7. Saves'
  <2> SUFFICES ASSUME ~lossy, mode # "dispatch" PROVE \A s \in registry : \A e \in handled[s] : Reach(s, e)'
    BY DEF Saves, Crash
  <2> QED BY DEF Crash, Saves, Rounds, Reach, Types
<1> QED BY <1>3, <1>4, <1>6, <1>7

\* A build's new subscribers start from now.
LEMMA BootStep == ASSUME Safe, NEW S \in SUBSET Subscribers, Boot(S) PROVE Safe'
<1> USE DEF Safe
<1>1. /\ mode = "down" /\ registry \subseteq S /\ registry' = S /\ Len(log) = committed
      /\ at = None /\ at' = None /\ \A s \in Subscribers : moved[s] = None
      /\ UNCHANGED <<log, committed, swept, gone, moved, handled, skipped, lossy, stopped>>
  BY DEF Boot, Rounds, history
<1>2. NewestEventId \in 0 .. committed /\ committed \in Nat /\ committed <= MaxEvents
  BY <1>1, NewestIsNewest, CursorsAreNumbers DEF Types
<1>3. ASSUME NEW s \in S
      PROVE  /\ s \in registry => cursors'[s] = cursors[s] /\ base'[s] = base[s]
             /\ s \notin registry => /\ cursors'[s] = [last |-> NewestEventId, failures |-> 0]
                                     /\ base'[s] = committed
  BY <1>1, <1>3 DEF Boot, Rounds
<1>4. \A s \in Subscribers \ S : cursors'[s] = cursors[s] /\ base'[s] = base[s] BY DEF Boot
<1>5. [last |-> NewestEventId, failures |-> 0] \in Cursor BY <1>2, EventsAssumption DEF Cursor
<1>6. Types'
  <2>1. \A s \in Subscribers : cursors'[s] \in Cursor \cup {None} /\ base'[s] \in 0 .. MaxEvents
    <3> SUFFICES ASSUME NEW s \in Subscribers
                 PROVE  cursors'[s] \in Cursor \cup {None} /\ base'[s] \in 0 .. MaxEvents
      OBVIOUS
    <3>1. cursors[s] \in Cursor \cup {None} /\ base[s] \in 0 .. MaxEvents BY DEF Types
    <3>2. CASE s \notin S \/ s \in registry BY <1>1, <1>3, <1>4, <3>1, <3>2
    <3>3. CASE s \in S /\ s \notin registry BY <1>2, <1>3, <1>5, <3>3
    <3> QED BY <3>2, <3>3
  <2>2. cursors' \in [Subscribers -> Cursor \cup {None}] /\ base' \in [Subscribers -> 0 .. MaxEvents]
    BY <2>1 DEF Boot
  <2> QED BY <1>1, <1>2, <2>2 DEF Boot, Types
<1>7. Rounds'
  <2>1. \A s \in Subscribers : cursors'[s] # None <=> s \in S
    BY <1>1, <1>3, <1>4, <1>5, NoneAssumption DEF Rounds
  <2>2. \A s \in Subscribers : cursors'[s] # None => cursors'[s].last <= committed
    BY <1>1, <1>2, <1>3, <2>1 DEF Rounds
  <2>3. mode' = "dispatch" /\ todo' = S BY DEF Boot
  <2> QED BY <1>1, <2>1, <2>2, <2>3 DEF Rounds
<1>8. ASSUME NEW s \in S, NEW e \in Ids, Wants(s, e)', e > base'[s], Passes(s, e)'
      PROVE  Accounted(s, e)'
  <2>1. CASE s \in registry
    <3>1. Passes(s, e) /\ Wants(s, e) /\ e > base[s]
      BY <1>1, <1>3, <1>8, <2>1 DEF Passes, Reach, Wants, Recorded
    <3>2. Accounted(s, e) BY <2>1, <3>1 DEF Skips
    <3> QED BY <1>1, <3>2 DEF Accounted, Recorded
  <2>2. CASE s \notin registry
    <3>1. e \in swept \/ e <= NewestEventId BY <1>1, <1>3, <1>8, <2>2 DEF Passes, Reach
    <3>2. e \in Nat /\ e > committed BY <1>3, <1>8, <2>2, EventsAssumption DEF Ids
    <3> QED BY <1>2, <3>1, <3>2 DEF Types
  <2> QED BY <2>1, <2>2
<1>9. Skips' BY <1>1, <1>8 DEF Skips
<1>10. Saves'
  <2> SUFFICES ASSUME ~lossy, NEW s \in S, NEW e \in handled[s] PROVE Reach(s, e)'
    BY <1>1 DEF Saves
  <2>1. s \in registry BY DEF Rounds
  <2> QED BY <1>1, <1>3, <2>1 DEF Saves, Reach
<1> QED BY <1>6, <1>7, <1>9, <1>10

(***************************************************************************)
(* The steps of a dispatch.                                                *)
(***************************************************************************)
LEMMA StartStep == ASSUME Safe, DispatchEvents PROVE Safe'
<1> USE DEF Safe
<1>1. /\ UNCHANGED <<log, committed, swept, gone, cursors, registry, base, handled, skipped, lossy>>
      /\ mode # "dispatch" /\ mode # "tx" /\ mode' = "dispatch" /\ stopped' = {}
      /\ upTo' = NewestEventId /\ todo' = registry /\ at' = None
      /\ moved' = [s \in Subscribers |-> None]
  BY DEF DispatchEvents, StartDispatch, Round, store
<1>2. at = None /\ moved' = moved BY <1>1 DEF Rounds, Types
<1>3. Len(log) = committed /\ upTo' \in 0 .. committed BY <1>1, NewestIsNewest DEF Rounds
<1>4. Types' BY <1>1, <1>2, <1>3 DEF Types
<1>5. Rounds' BY <1>1, <1>2, <1>3 DEF Rounds, Types
<1>6. \A s, e : Reach(s, e)' <=> Reach(s, e) BY <1>1, <1>2 DEF Reach
<1>7. \A s, e : Passes(s, e)' <=> Passes(s, e) BY <1>1, <1>6 DEF Passes
<1>8. Skips' BY <1>1, <1>7, CursorsAreNumbers, SkipsStays
<1>9. Saves' BY <1>1, <1>6 DEF Saves
<1> QED BY <1>4, <1>5, <1>8, <1>9

LEMMA TakeStep == ASSUME Safe, NEW s \in Subscribers, TakeSubscriber(s) PROVE Safe'
<1> USE DEF Safe
<1>1. /\ UNCHANGED <<log, committed, swept, gone, cursors, mode, registry, upTo, moved, stopped,
                     base, handled, skipped, lossy>>
      /\ at = None /\ s \in todo /\ mode = "dispatch"
  BY DEF TakeSubscriber, store, history
<1>2. s \in registry /\ moved[s] = None /\ cursors[s] \in Cursor BY <1>1, CursorsAreNumbers DEF Types, Rounds
<1>3. CASE todo' = todo \ {s} /\ at' = at
  <2>1. Types' BY <1>1, <1>3 DEF Types
  <2>2. Rounds' BY <1>1, <1>3 DEF Rounds
  <2>3. \A r, e : Reach(r, e)' <=> Reach(r, e) BY <1>1, <1>3 DEF Reach
  <2>4. \A r, e : Passes(r, e)' <=> Passes(r, e) BY <1>1, <2>3 DEF Passes
  <2>5. Skips' BY <1>1, <2>4, CursorsAreNumbers, SkipsStays
  <2>6. Saves' BY <1>1, <2>3 DEF Saves
  <2> QED BY <2>1, <2>2, <2>5, <2>6
<1>4. CASE /\ cursors[s].last < upTo /\ todo' = todo
           /\ at' = [sub |-> s, last |-> cursors[s].last, failures |-> cursors[s].failures]
  <2>1. at' \in Turn /\ at'.sub = s /\ at'.last = cursors[s].last BY <1>2, <1>4 DEF Turn, Cursor
  <2>2. Types' BY <1>1, <1>4, <2>1 DEF Types
  <2>3. cursors[s].last \in Nat /\ upTo \in Nat BY <1>2, CursorsAreNumbers
  <2>4. Rounds' BY <1>1, <1>2, <1>4, <2>1, <2>3 DEF Rounds
  <2>5. \A r, e : Reach(r, e)' <=> Reach(r, e) BY <1>1, <1>4, <2>1 DEF Reach
  <2>6. \A r, e : Passes(r, e)' <=> Passes(r, e) BY <1>1, <2>5 DEF Passes
  <2>7. Skips' BY <1>1, <2>6, CursorsAreNumbers, SkipsStays
  <2>8. Saves' BY <1>1, <2>5 DEF Saves
  <2> QED BY <2>2, <2>4, <2>7, <2>8
<1>5. cursors[s].last \in Nat /\ upTo \in Nat BY <1>2, CursorsAreNumbers
<1> QED BY <1>3, <1>4, <1>5 DEF TakeSubscriber

\* What a handler wrote is committed, and the events before it are the same.
LEMMA HandlerWrote ==
  ASSUME Safe, mode = "dispatch", HandlerWrites
  PROVE  /\ log' \in Seq(Event) /\ Len(log') <= MaxEvents /\ committed' = Len(log')
         /\ Len(log') \in Nat /\ committed \in Nat /\ committed <= committed'
         /\ \A e \in 1 .. committed : log'[e] = log[e]
         /\ committed = Len(log)
<1> USE DEF Safe
<1>1. committed = Len(log) /\ committed \in Nat /\ log \in Seq(Event) /\ Len(log) <= MaxEvents
  BY CursorsAreNumbers DEF Rounds, Types
<1>2. CASE UNCHANGED <<log, committed, again>> BY <1>1, <1>2
<1>3. CASE /\ Len(log) < MaxEvents
           /\ \E event \in Event : event.owner \notin gone /\ log' = Append(log, event)
           /\ committed' = Len(log) + 1
  <2>1. Len(log') = Len(log) + 1 /\ log' \in Seq(Event) /\ \A e \in 1 .. Len(log) : log'[e] = log[e]
    BY <1>3, LogFacts
  <2> QED BY <1>1, <1>3, <2>1, EventsAssumption
<1> QED BY <1>2, <1>3 DEF HandlerWrites

\* What a subscriber's next event comes after is accounted for.
LEMMA BeforeNext ==
  ASSUME Safe, mode = "dispatch", at # None, NEW e \in 0 .. upTo,
         \A d \in NextFor(at.sub, at.last) : e <= d
  PROVE  \A d \in Ids : d > base[at.sub] /\ d < e /\ Wants(at.sub, d) => Accounted(at.sub, d)
<1> USE DEF Safe
<1>1. at.sub \in registry /\ at.last \in 0 .. upTo /\ upTo \in Nat BY CursorsAreNumbers
<1> SUFFICES ASSUME NEW d \in Ids, d > base[at.sub], d < e, Wants(at.sub, d)
             PROVE  Accounted(at.sub, d)
  OBVIOUS
<1>2. d \in Nat /\ d \in Recorded BY EventsAssumption DEF Wants, Ids
<1>3. CASE d <= at.last BY <1>1, <1>3 DEF Skips, Passes, Reach
<1>4. CASE d > at.last
  <2>1. d \in at.last + 1 .. upTo BY <1>1, <1>2, <1>4
  <2>2. d \notin Rows BY <1>1, <1>2, <2>1 DEF NextFor
  <2>3. d \in swept \/ log[d].owner \in gone BY <1>2, <2>2 DEF Rows
  <2>4. CASE d \in swept BY <1>1, <2>4 DEF Skips, Passes
  <2>5. CASE log[d].owner \in gone BY <1>2, <2>5 DEF Accounted
  <2> QED BY <2>3, <2>4, <2>5
<1> QED BY <1>1, <1>2, <1>3, <1>4

\* The dispatch gets to an event and goes on: it was handled, or skipped.
LEMMA AdvanceKeeps ==
  ASSUME Safe, mode = "dispatch", at # None, NEW e \in Ids, IsNext(e), HandlerWrites,
         at' = [sub |-> at.sub, last |-> e, failures |-> 0],
         \/ handled' = [handled EXCEPT ![at.sub] = @ \cup {e}] /\ skipped' = skipped
         \/ skipped' = [skipped EXCEPT ![at.sub] = @ \cup {e}] /\ handled' = handled,
         UNCHANGED <<swept, gone, cursors, mode, registry, upTo, todo, moved, stopped, base, lossy>>
  PROVE  Safe'
<1> USE DEF Safe
<1>1. PICK s \in registry : s = at.sub BY CursorsAreNumbers
<1>2. /\ e \in Nat /\ at.last \in Nat /\ at.last < e /\ e <= upTo /\ upTo <= committed
      /\ upTo \in Nat /\ committed \in Nat
      /\ \A d \in NextFor(s, at.last) : e <= d
  BY <1>1, CursorsAreNumbers DEF IsNext, NextFor
<1>3. at \in Turn /\ s \in Subscribers BY <1>1 DEF Types
<1>4. at' \in Turn /\ at'.sub = s /\ at'.last = e
  <2>1. e \in 0 .. MaxEvents /\ 0 \in 0 .. MaxFailures - 1 BY EventsAssumption DEF Ids
  <2> QED BY <1>1, <1>3, <2>1 DEF Turn
<1>5. at' # None BY <1>4, NoneAssumption
<1>6. /\ handled[s] \cup skipped[s] \cup {e} = handled'[s] \cup skipped'[s]
      /\ handled[s] \subseteq handled'[s] /\ skipped[s] \subseteq skipped'[s]
      /\ handled'[s] \subseteq handled[s] \cup {e}
      /\ \A r \in Subscribers \ {s} : handled'[r] = handled[r] /\ skipped'[r] = skipped[r]
      /\ handled' \in [Subscribers -> SUBSET Ids] /\ skipped' \in [Subscribers -> SUBSET Ids]
  <2>1. handled[s] \in SUBSET Ids /\ skipped[s] \in SUBSET Ids BY <1>3 DEF Types
  <2>2. CASE handled' = [handled EXCEPT ![s] = @ \cup {e}] /\ skipped' = skipped
    BY <1>3, <2>1, <2>2 DEF Types
  <2>3. CASE skipped' = [skipped EXCEPT ![s] = @ \cup {e}] /\ handled' = handled
    BY <1>3, <2>1, <2>3 DEF Types
  <2> QED BY <1>1, <2>2, <2>3
<1>7. Types' BY <1>2, <1>4, <1>6, HandlerWrote DEF Types
<1>8. Rounds'
  <2>1. s \in todo /\ cursors[s].last <= at.last /\ cursors[s].last \in Nat
    BY <1>1, CursorsAreNumbers DEF Rounds
  <2>2. at'.sub \in todo' /\ at'.last <= upTo' /\ cursors'[at'.sub].last <= at'.last
    BY <1>2, <1>4, <2>1
  <2>3. \A r \in Subscribers : moved[r] # None => moved[r].last <= committed' BY <1>2, HandlerWrote, CursorsAreNumbers
  <2>4. \A r \in Subscribers : cursors[r] # None => cursors[r].last <= committed'
    BY <1>2, HandlerWrote, CursorsAreNumbers DEF Rounds
  <2>5. \A r \in Subscribers : handled'[r] \cup skipped'[r] \subseteq 1 .. committed'
    <3>1. 1 .. committed \subseteq 1 .. committed' /\ e \in 1 .. committed'
      BY <1>2, HandlerWrote, EventsAssumption DEF Ids
    <3> QED BY <1>6, <3>1 DEF Rounds
  <2>6. \A r \in Subscribers : r \notin registry => handled'[r] = {} BY <1>1, <1>6 DEF Rounds
  <2> QED BY <2>2, <2>3, <2>4, <2>5, <2>6, HandlerWrote DEF Rounds
<1>9. ASSUME NEW r \in registry, NEW d \in Ids, Wants(r, d)', d > base[r], Passes(r, d)'
      PROVE  Accounted(r, d)'
  <2>1. r \in Subscribers /\ handled[r] \subseteq handled'[r] /\ skipped[r] \subseteq skipped'[r]
    BY <1>6 DEF Types
  <2>2. d \in Nat BY EventsAssumption DEF Ids
  <2>3. CASE Passes(r, d)
    <3>1. d \in 1 .. committed BY <2>3, PassedIsCommitted
    <3>2. Wants(r, d) /\ (Accounted(r, d) => Accounted(r, d)')
      BY <1>9, <2>1, <3>1, AccountedStays, HandlerWrote
    <3> QED BY <1>9, <2>3, <3>2 DEF Skips
  <2>4. CASE ~Passes(r, d)
    <3>1. r = s /\ d <= e BY <1>4, <1>9, <2>4 DEF Passes, Reach
    <3>2. d \in 1 .. committed BY <1>2, <2>2, <3>1 DEF Ids
    <3>3. Wants(r, d) /\ (Accounted(r, d) => Accounted(r, d)')
      BY <1>9, <2>1, <3>2, AccountedStays, HandlerWrote
    <3>4. CASE d < e
      BY <1>1, <1>2, <1>9, <3>1, <3>3, <3>4, BeforeNext
    <3>5. CASE d = e BY <1>6, <3>1, <3>5 DEF Accounted
    <3> QED BY <1>2, <2>2, <3>1, <3>4, <3>5
  <2> QED BY <2>3, <2>4
<1>10. Skips' BY <1>9 DEF Skips
<1>11. Saves'
  <2> SUFFICES ASSUME ~lossy, NEW r \in registry, NEW d \in handled'[r] PROVE Reach(r, d)' BY DEF Saves
  <2>1. r \in Subscribers BY DEF Types
  <2>2. CASE d \in handled[r]
    <3>1. Reach(r, d) BY <2>2 DEF Saves
    <3>2. d \in Nat BY <2>1, <2>2, EventsAssumption DEF Types, Ids
    <3> QED BY <1>1, <1>2, <1>4, <1>5, <3>1, <3>2 DEF Reach
  <2>3. CASE d \notin handled[r]
    <3>1. r = s /\ d = e BY <1>6, <2>1, <2>3
    <3> QED BY <1>2, <1>4, <1>5, <3>1 DEF Reach
  <2> QED BY <2>2, <2>3
<1> QED BY <1>7, <1>8, <1>10, <1>11

\* A subscriber's turn ends at `last`, and what is before it is accounted for.
LEMMA LeaveKeeps ==
  ASSUME Safe, mode = "dispatch", at # None, HandlerWrites,
         NEW last \in 0 .. upTo, NEW failures \in 0 .. MaxFailures - 1, at.last <= last,
         Leave(last, failures), stopped' \subseteq Subscribers,
         \A d \in Ids : d > base[at.sub] /\ d <= last /\ Wants(at.sub, d) => Accounted(at.sub, d),
         UNCHANGED <<swept, gone, cursors, mode, registry, upTo, base, handled, skipped, lossy>>
  PROVE  Safe'
<1> USE DEF Safe
<1>1. PICK s \in registry : s = at.sub BY CursorsAreNumbers
<1>2. /\ at.last \in Nat /\ upTo <= committed /\ upTo \in Nat /\ committed \in Nat /\ s \in Subscribers
      /\ last \in Nat /\ last <= committed
  BY <1>1, CursorsAreNumbers
<1>3. at' = None /\ todo' = todo \ {s}
      /\ moved' = [moved EXCEPT ![s] = [last |-> last, failures |-> failures]]
  BY <1>1 DEF Leave
<1>4. [last |-> last, failures |-> failures] \in Cursor BY <1>2, EventsAssumption DEF Cursor, Types
<1>5. /\ moved' \in [Subscribers -> Cursor \cup {None}]
      /\ moved'[s].last = last /\ moved'[s] # None
      /\ \A r \in Subscribers \ {s} : moved'[r] = moved[r]
  BY <1>2, <1>3, <1>4, NoneAssumption DEF Types
<1>6. Types' BY <1>2, <1>3, <1>5, HandlerWrote DEF Types
<1>7. Rounds'
  <2>1. \A r \in Subscribers : moved'[r] # None => r \in registry' /\ moved'[r].last <= committed'
    BY <1>2, <1>5, HandlerWrote, CursorsAreNumbers DEF Rounds
  <2>2. \A r \in Subscribers : cursors[r] # None => cursors[r].last <= committed'
    BY <1>2, HandlerWrote, CursorsAreNumbers DEF Rounds
  <2>3. \A r \in Subscribers : handled[r] \cup skipped[r] \subseteq 1 .. committed'
    <3>1. 1 .. committed \subseteq 1 .. committed' BY <1>2, HandlerWrote
    <3> QED BY <3>1 DEF Rounds
  <2>4. \A r \in todo' : moved'[r] = None BY <1>3, <1>5 DEF Rounds, Types
  <2> QED BY <1>3, <2>1, <2>2, <2>3, <2>4, HandlerWrote DEF Rounds
<1>8. ASSUME NEW r \in registry, NEW d \in Ids, Wants(r, d)', d > base[r], Passes(r, d)'
      PROVE  Accounted(r, d)'
  <2>1. r \in Subscribers BY DEF Types
  <2>2. d \in Nat BY EventsAssumption DEF Ids
  <2>3. Passes(r, d) \/ (r = s /\ d <= last) BY <1>3, <1>5, <1>8, <2>1 DEF Passes, Reach
  <2>4. d \in 1 .. committed BY <1>2, <2>2, <2>3, PassedIsCommitted DEF Ids
  <2>5. Wants(r, d) /\ (Accounted(r, d) => Accounted(r, d)')
    BY <1>8, <2>1, <2>4, AccountedStays, HandlerWrote
  <2> QED BY <1>1, <1>8, <2>3, <2>5 DEF Skips
<1>9. Skips' BY <1>8 DEF Skips
<1>10. Saves'
  <2> SUFFICES ASSUME ~lossy, NEW r \in registry, NEW d \in handled[r] PROVE Reach(r, d)' BY DEF Saves
  <2>1. r \in Subscribers /\ Reach(r, d) BY DEF Saves, Types
  <2>2. d \in Nat BY <2>1, EventsAssumption DEF Types, Ids
  <2>3. CASE r # s BY <1>1, <1>3, <1>5, <2>1, <2>3 DEF Reach
  <2>4. CASE r = s
    <3>1. moved[s] = None BY <1>1 DEF Rounds
    <3> QED BY <1>1, <1>2, <1>5, <2>1, <2>2, <2>4, <3>1 DEF Reach
  <2> QED BY <2>3, <2>4
<1> QED BY <1>6, <1>7, <1>9, <1>10

LEMMA HandleStep == ASSUME Safe, NEW e \in Ids, Handle(e) PROVE Safe'
BY AdvanceKeeps DEF Handle

LEMMA ThrowStep == ASSUME Safe, NEW e \in Ids, Throw(e) PROVE Safe'
<1>1. /\ mode = "dispatch" /\ at # None /\ IsNext(e) /\ HandlerWrites
      /\ UNCHANGED <<swept, gone, cursors, mode, registry, upTo, base, handled, lossy>>
  BY DEF Throw
<1>2. at.failures \in 0 .. MaxFailures - 1 /\ at.sub \in registry /\ at.last \in 0 .. upTo /\ upTo \in Nat
  BY <1>1, CursorsAreNumbers DEF Safe
<1>3. CASE TriesAgain(at.failures + 1)
  <2>1. at.failures + 1 \in 0 .. MaxFailures - 1
    BY <1>2, <1>3, EventsAssumption DEF TriesAgain
  <2>2. /\ Leave(at.last, at.failures + 1) /\ skipped' = skipped /\ stopped' = stopped \cup {at.sub}
    BY <1>3 DEF Throw
  <2>3. stopped' \subseteq Subscribers BY <1>2, <2>2 DEF Safe, Types
  <2>4. \A d \in Ids : d > base[at.sub] /\ d <= at.last /\ Wants(at.sub, d) => Accounted(at.sub, d)
    BY <1>1, <1>2 DEF Safe, Skips, Passes, Reach
  <2>5. PICK last \in 0 .. upTo, failures \in 0 .. MaxFailures - 1 :
          last = at.last /\ failures = at.failures + 1
    BY <1>2, <2>1
  <2>6. Leave(last, failures) BY <2>2, <2>5 DEF Leave
  <2>7. at.last <= last BY <1>2, <2>5
  <2> QED BY <1>1, <2>2, <2>3, <2>4, <2>5, <2>6, <2>7, LeaveKeeps
<1>4. CASE ~TriesAgain(at.failures + 1)
  <2>1. /\ at' = [sub |-> at.sub, last |-> e, failures |-> 0]
        /\ skipped' = [skipped EXCEPT ![at.sub] = @ \cup {e}]
        /\ UNCHANGED <<moved, todo, stopped>>
    BY <1>4 DEF Throw
  <2> QED BY <1>1, <2>1, AdvanceKeeps
<1> QED BY <1>3, <1>4

LEMMA ReachedStep == ASSUME Safe, Reached PROVE Safe'
<1>1. /\ mode = "dispatch" /\ at # None /\ NextFor(at.sub, at.last) = {} /\ Leave(upTo, at.failures)
      /\ UNCHANGED <<log, committed, swept, gone, cursors, mode, registry, upTo, stopped, again,
                     base, handled, skipped, lossy>>
  BY DEF Reached, store, history
<1>2. at.failures \in 0 .. MaxFailures - 1 /\ at.sub \in registry /\ at.last \in 0 .. upTo /\ upTo \in Nat
  BY <1>1, CursorsAreNumbers DEF Safe
<1>3. \A d \in Ids : d > base[at.sub] /\ d <= upTo /\ Wants(at.sub, d) => Accounted(at.sub, d)
  <2>1. \A d \in Ids : d > base[at.sub] /\ d < upTo /\ Wants(at.sub, d) => Accounted(at.sub, d)
    <3>1. PICK e \in 0 .. upTo : e = upTo BY <1>2
    <3>2. \A d \in NextFor(at.sub, at.last) : e <= d BY <1>1
    <3>3. \A d \in Ids : d > base[at.sub] /\ d < e /\ Wants(at.sub, d) => Accounted(at.sub, d)
      BY <1>1, <3>2, BeforeNext
    <3> QED BY <3>1, <3>3
  <2>2. ASSUME upTo \in Ids, upTo > base[at.sub], Wants(at.sub, upTo) PROVE Accounted(at.sub, upTo)
    <3>1. CASE upTo = at.last BY <1>1, <1>2, <2>2, <3>1 DEF Safe, Skips, Passes, Reach
    <3>2. CASE upTo # at.last
      <4>1. upTo \in at.last + 1 .. upTo BY <1>2, <3>2
      <4>2. upTo \notin Rows /\ upTo \in Recorded BY <1>1, <2>2, <4>1 DEF NextFor, Wants
      <4>3. upTo \in swept \/ log[upTo].owner \in gone BY <4>2 DEF Rows
      <4> QED BY <1>2, <2>2, <4>2, <4>3 DEF Accounted, Safe, Skips, Passes
    <3> QED BY <3>1, <3>2
  <2> QED BY <1>2, <2>1, <2>2, EventsAssumption DEF Ids
<1>4. HandlerWrites BY <1>1 DEF HandlerWrites
<1>5. PICK last \in 0 .. upTo, failures \in 0 .. MaxFailures - 1 : last = upTo /\ failures = at.failures
  BY <1>2
<1>6. Leave(last, failures) /\ at.last <= last /\ stopped' \subseteq Subscribers
  BY <1>1, <1>2, <1>5 DEF Leave, Safe, Types
<1> QED BY <1>1, <1>3, <1>4, <1>5, <1>6, LeaveKeeps

\* The cursors are saved as `m` has them, and the dispatch goes on or ends.
LEMMA SaveKeeps ==
  ASSUME Safe, mode = "dispatch", NEW m \in [Subscribers -> Cursor \cup {None}],
         \A s \in Subscribers : m[s] # None => s \in registry /\ m[s].last <= committed,
         \A s \in registry, e \in Ids :
           Reach(s, e) <=> e <= cursors[s].last \/ (m[s] # None /\ e <= m[s].last),
         cursors' = Saved(m), at' = None, moved' = [s \in Subscribers |-> None],
         todo' \subseteq registry, stopped' \subseteq Subscribers, upTo' \in 0 .. committed,
         mode' \in {"dispatch", "idle"},
         UNCHANGED <<log, committed, swept, gone, registry, base, handled, skipped, lossy>>
  PROVE  Safe'
<1> USE DEF Safe
<1>1. \A s \in Subscribers : m[s] # None => cursors[s] # None BY DEF Rounds
<1>2. /\ cursors' \in [Subscribers -> Cursor \cup {None}]
      /\ \A s \in Subscribers :
           /\ m[s] = None => cursors'[s] = cursors[s]
           /\ m[s] # None => /\ cursors'[s] # None
                             /\ cursors'[s].last \in {cursors[s].last, m[s].last}
                             /\ cursors[s].last <= cursors'[s].last /\ m[s].last <= cursors'[s].last
  BY <1>1, SavedIs
<1>3. Types' BY <1>2 DEF Types
<1>4. \A s \in Subscribers : moved'[s] = None OBVIOUS
<1>5. committed = Len(log) BY DEF Rounds
<1>6. Rounds'
  <2>1. \A s \in Subscribers : cursors'[s] # None <=> s \in registry BY <1>1, <1>2 DEF Rounds
  <2>2. \A s \in Subscribers : cursors'[s] # None => cursors'[s].last <= committed
    BY <1>1, <1>2 DEF Rounds
  <2> QED BY <1>4, <1>5, <2>1, <2>2 DEF Rounds, Types
<1>7. ASSUME NEW s \in registry, NEW e \in Ids PROVE Reach(s, e)' <=> Reach(s, e)
  <2>1. s \in Subscribers /\ e \in Nat /\ cursors[s].last \in Nat
    BY CursorsAreNumbers, EventsAssumption DEF Ids
  <2>2. Reach(s, e)' <=> e <= cursors'[s].last BY <1>4, <2>1 DEF Reach
  <2>3. CASE m[s] = None BY <1>2, <2>1, <2>2, <2>3
  <2>4. CASE m[s] # None
    <3>1. m[s].last \in Nat BY <2>1, <2>4, EventsAssumption DEF Cursor
    <3> QED BY <1>2, <2>1, <2>2, <2>4, <3>1
  <2> QED BY <2>3, <2>4
<1>8. \A s \in registry, e \in Ids : Passes(s, e)' => Passes(s, e) BY <1>7 DEF Passes
<1>9. Skips' BY <1>8, CursorsAreNumbers, SkipsStays
<1>10. Saves'
  <2>1. \A s \in registry : handled[s] \subseteq Ids BY DEF Types
  <2> QED BY <1>7, <2>1 DEF Saves
<1> QED BY <1>3, <1>6, <1>9, <1>10

LEMMA RoundEnds == ASSUME Safe, EndRound PROVE Safe'
<1> USE DEF Safe
<1>1. /\ mode = "dispatch" /\ at = None /\ cursors' = Saved(moved) /\ at' = None
      /\ moved' = [s \in Subscribers |-> None]
      /\ mode' \in {"dispatch", "idle"} /\ todo' \in {registry, {}} /\ stopped' \in {stopped, {}}
      /\ upTo' \in {NewestEventId, 0}
      /\ UNCHANGED <<log, committed, swept, gone, registry, base, handled, skipped, lossy>>
  BY DEF EndRound, Round, EndDispatch
<1>2. committed = Len(log) /\ upTo' \in 0 .. committed
  BY <1>1, NewestIsNewest, CursorsAreNumbers DEF Rounds
<1>3. PICK m \in [Subscribers -> Cursor \cup {None}] : m = moved BY DEF Types
<1>4. cursors' = Saved(m) BY <1>1, <1>3 DEF Saved
<1>5. \A s \in registry, e \in Ids :
        Reach(s, e) <=> e <= cursors[s].last \/ (m[s] # None /\ e <= m[s].last)
  BY <1>1, <1>3 DEF Reach
<1>6. \A s \in Subscribers : m[s] # None => s \in registry /\ m[s].last <= committed BY <1>3 DEF Rounds
<1>7. todo' \subseteq registry /\ stopped' \subseteq Subscribers BY <1>1 DEF Types
<1> QED BY <1>1, <1>2, <1>4, <1>5, <1>6, <1>7, SaveKeeps

LEMMA ErrorStep == ASSUME Safe, DatabaseError PROVE Safe'
<1> USE DEF Safe
<1>1. /\ mode = "dispatch" /\ at' = None /\ moved' = [s \in Subscribers |-> None]
      /\ mode' = "idle" /\ todo' = {} /\ stopped' = {} /\ upTo' = 0
      /\ UNCHANGED <<log, committed, swept, gone, registry, base, handled, skipped>>
  BY DEF DatabaseError, EndDispatch
<1>2. committed \in Nat /\ 0 \in 0 .. committed /\ committed = Len(log)
  BY <1>1, CursorsAreNumbers DEF Rounds
<1>3. CASE cursors' = cursors /\ lossy' = TRUE
  <2>1. \A s \in Subscribers : moved'[s] = None BY <1>1
  <2>2. Types' BY <1>1, <1>2, <1>3 DEF Types
  <2>3. Rounds' BY <1>1, <1>2, <1>3, <2>1 DEF Rounds
  <2>4. \A s \in registry, e \in Ids : Passes(s, e)' => Passes(s, e)
    BY <1>1, <1>3, <2>1 DEF Passes, Reach, Types
  <2>5. Skips' BY <1>1, <2>4, CursorsAreNumbers, SkipsStays
  <2> QED BY <1>3, <2>2, <2>3, <2>5 DEF Saves
<1>4. ASSUME NEW m, m = IF at = None THEN moved
                        ELSE [moved EXCEPT ![at.sub] = [last |-> at.last, failures |-> at.failures]],
             cursors' = Saved(m), lossy' = lossy
      PROVE  Safe'
  <2>1. CASE at = None
    <3>1. m \in [Subscribers -> Cursor \cup {None}] BY <1>4, <2>1 DEF Types
    <3>2. \A s \in Subscribers : m[s] # None => s \in registry /\ m[s].last <= committed
      BY <1>4, <2>1 DEF Rounds
    <3>3. \A s \in registry, e \in Ids :
            Reach(s, e) <=> e <= cursors[s].last \/ (m[s] # None /\ e <= m[s].last)
      BY <1>4, <2>1 DEF Reach
    <3> QED BY <1>1, <1>2, <1>4, <3>1, <3>2, <3>3, SaveKeeps
  <2>2. CASE at # None
    <3>1. PICK r \in registry : r = at.sub BY <2>2, CursorsAreNumbers
    <3>2. /\ r \in Subscribers /\ at.last \in 0 .. upTo /\ upTo <= committed /\ upTo \in Nat
          /\ at.failures \in 0 .. MaxFailures - 1
      BY <2>2, <3>1, CursorsAreNumbers
    <3>3. [last |-> at.last, failures |-> at.failures] \in Cursor
      BY <1>2, <3>2, EventsAssumption DEF Cursor, Types
    <3>4. m = [moved EXCEPT ![r] = [last |-> at.last, failures |-> at.failures]] BY <1>4, <2>2, <3>1
    <3>5. /\ m \in [Subscribers -> Cursor \cup {None}]
          /\ m[r].last = at.last /\ m[r] # None /\ \A s \in Subscribers \ {r} : m[s] = moved[s]
      BY <3>2, <3>3, <3>4, NoneAssumption DEF Types
    <3>6. \A s \in Subscribers : m[s] # None => s \in registry /\ m[s].last <= committed
      BY <1>2, <3>1, <3>2, <3>5 DEF Rounds
    <3>7. moved[r] = None BY <2>2, <3>1 DEF Rounds
    <3>8. \A s \in registry, e \in Ids :
            Reach(s, e) <=> e <= cursors[s].last \/ (m[s] # None /\ e <= m[s].last)
      BY <2>2, <3>1, <3>5, <3>7 DEF Reach, Types
    <3> QED BY <1>1, <1>2, <1>4, <3>5, <3>6, <3>8, SaveKeeps
  <2> QED BY <2>1, <2>2
<1> QED BY <1>3, <1>4 DEF DatabaseError

LEMMA SafeStep == Safe /\ [Next]_vars => Safe'
<1> SUFFICES ASSUME Safe, [Next]_vars PROVE Safe' OBVIOUS
<1>1. CASE (\E event \in Event : RecordEvent(event)) \/ DeferUntilCommitted \/ Commit \/ Rollback
  BY <1>1, WritesStep
<1>2. CASE DispatchEvents BY <1>2, StartStep
<1>3. CASE \E s \in Subscribers : TakeSubscriber(s) BY <1>3, TakeStep
<1>4. CASE \E e \in Ids : Handle(e) \/ Throw(e) BY <1>4, HandleStep, ThrowStep
<1>5. CASE Reached BY <1>5, ReachedStep
<1>6. CASE EndRound BY <1>6, RoundEnds
<1>7. CASE DatabaseError BY <1>7, ErrorStep
<1>8. CASE Crash BY <1>8, CrashStep
<1>9. CASE \E S \in SUBSET Subscribers : Boot(S) BY <1>9, BootStep
<1>10. CASE (\E o \in Deletable : PurgeOwner(o)) \/ (\E n \in Ids : SweepEvents(n)) BY <1>10, RemovalStep
<1>11. CASE UNCHANGED vars
  <2>1. UNCHANGED <<log, committed, swept, gone, cursors, mode, registry, upTo, todo, at, moved, stopped,
                    base, handled, skipped, lossy>>
    BY <1>11 DEF vars, store, locals, history
  <2>2. \A s, e : Reach(s, e)' <=> Reach(s, e) BY <2>1 DEF Reach
  <2>3. \A s, e : Passes(s, e)' <=> Passes(s, e) BY <2>1, <2>2 DEF Passes
  <2>4. Types' BY <2>1 DEF Safe, Types
  <2>5. Rounds' BY <2>1 DEF Safe, Rounds
  <2>6. Skips' BY <2>1, <2>3, CursorsAreNumbers, SkipsStays DEF Safe
  <2>7. Saves' BY <2>1, <2>2 DEF Safe, Saves
  <2> QED BY <2>4, <2>5, <2>6, <2>7 DEF Safe
<1> QED BY <1>1, <1>2, <1>3, <1>4, <1>5, <1>6, <1>7, <1>8, <1>9, <1>10, <1>11 DEF Next

LEMMA SafeHolds == Spec => []Safe
BY SafeInit, SafeStep, PTL DEF Spec

(***************************************************************************)
(* The theorems.                                                           *)
(***************************************************************************)
\* Over crashes, failed saves, rounds and rollbacks, no cursor and no sweep passes an
\* event its subscriber wants and has neither handled nor given up.
THEOREM NoEventIsPassedOver == Spec => []CursorSkipsNothing
<1>1. Safe => CursorSkipsNothing
  <2> SUFFICES ASSUME Safe, NEW s \in registry, NEW e \in PassedBy(s), Wants(s, e)
               PROVE  Accounted(s, e)
    BY DEF CursorSkipsNothing
  <2>1. e \in Ids
    <3>1. e \in 1 .. Len(log) BY DEF Wants, Recorded
    <3> QED BY <3>1, CursorsAreNumbers, EventsAssumption DEF Safe, Types, Ids
  <2>2. cursors[s].last \in Nat /\ base[s] \in Nat /\ cursors[s] # None
    BY CursorsAreNumbers, NoneAssumption, EventsAssumption DEF Safe
  <2>3. e > base[s] /\ (e \in swept \/ e <= cursors[s].last)
    BY <2>1, <2>2, EventsAssumption DEF PassedBy, Ids
  <2> QED BY <2>1, <2>3 DEF Safe, Skips, Passes, Reach
<1> QED BY <1>1, SafeHolds, PTL

\* A handler sees committed events only.
THEOREM OnlyCommittedIsHandled == Spec => []NothingUncommitted
<1>1. Safe => NothingUncommitted BY DEF Safe, Rounds, NothingUncommitted
<1> QED BY <1>1, SafeHolds, PTL

\* Events come in order, and come again only when a dispatch was cut off before it saved.
THEOREM OrderIsKept == Spec => DeliveredInOrder
<1>1. ASSUME Safe, Next PROVE InOrder /\ (HandedAgain => lossy)
  <2>1. ASSUME NEW e \in Ids, Handle(e) \/ Throw(e)
        PROVE  InOrder /\ (e \in handled[at.sub] => lossy)
    <3>1. /\ mode = "dispatch" /\ at # None /\ IsNext(e)
          /\ \A s \in Subscribers : (handled'[s] \cup skipped'[s]) \ (handled[s] \cup skipped[s])
                                      \subseteq IF s = at.sub THEN {e} ELSE {}
      BY <1>1, <2>1 DEF Handle, Throw, Safe, Types
    <3>2. /\ at.sub \in registry /\ at.last \in Nat /\ e > at.last /\ e \in 0 .. upTo /\ e \in Nat
          /\ base[at.sub] \in Nat
      BY <1>1, <3>1, CursorsAreNumbers, EventsAssumption DEF Safe, IsNext, NextFor
    <3>3. \A d \in Ids : d > base[at.sub] /\ d < e /\ Wants(at.sub, d) => Accounted(at.sub, d)
      BY <1>1, <3>1, <3>2, BeforeNext DEF IsNext
    <3>4. InOrder
      <4>1. \A d \in base[at.sub] + 1 .. e - 1 : d \in Ids /\ d > base[at.sub] /\ d < e
        BY <3>2, EventsAssumption DEF Ids
      <4> QED BY <1>1, <3>1, <3>3, <4>1 DEF InOrder, Safe, Types
    <3>5. ASSUME e \in handled[at.sub], ~lossy PROVE FALSE
      <4>1. Reach(at.sub, e) BY <1>1, <3>2, <3>5 DEF Safe, Saves
      <4>2. moved[at.sub] = None /\ cursors[at.sub].last <= at.last /\ cursors[at.sub].last \in Nat
        BY <1>1, <3>1, <3>2, CursorsAreNumbers DEF Safe, Rounds
      <4> QED BY <3>2, <4>1, <4>2 DEF Reach
    <3> QED BY <3>4, <3>5
  <2>2. CASE UNCHANGED <<handled, skipped>> /\ ~HandedAgain BY <2>2 DEF InOrder
  <2>3. ~(\E e \in Ids : Handle(e) \/ Throw(e)) => UNCHANGED <<handled, skipped>> /\ ~HandedAgain
    BY <1>1 DEF Next, RecordEvent, DeferUntilCommitted, Commit, Rollback, DispatchEvents, TakeSubscriber,
                Reached, EndRound, DatabaseError, Crash, Boot, PurgeOwner, SweepEvents, history, HandedAgain
  <2> QED BY <2>1, <2>2, <2>3 DEF HandedAgain
<1>2. Safe /\ [Next]_vars => [InOrder /\ (HandedAgain => lossy)]_vars BY <1>1
<1> QED BY <1>2, SafeHolds, PTL DEF Spec, DeliveredInOrder

(***************************************************************************)
(* Nobody is left behind.                                                  *)
(***************************************************************************)
\* In a dispatch that no subscriber stopped in, those that had their turn are at the
\* end of the round; at rest, nobody is behind what is committed.
Attends ==
  /\ mode = "dispatch" /\ stopped = {} => \A s \in registry \ todo : Reach(s, upTo)
  /\ mode \in {"idle", "tx"} /\ ~deferred /\ ~retry /\ ~cut =>
       \A s \in registry : \A e \in Rows : e <= committed => e <= cursors[s].last

LEMMA AttendsOutside ==
  ASSUME Safe, Attends, mode # "dispatch" \/ Crash, Next
  PROVE  Attends'
<1> USE DEF Safe
<1>1. committed \in Nat /\ Len(log) \in Nat /\ committed <= Len(log) BY CursorsAreNumbers
<1>2. CASE mode' \in {"down", "written"} BY <1>2 DEF Attends
<1>3. ASSUME NEW event \in Event, RecordEvent(event) PROVE Attends'
  <2>1. \A e \in 1 .. committed : log'[e] = log[e]
    BY <1>1, <1>3, LogFacts DEF RecordEvent
  <2>2. \A e \in Rows' : e <= committed => e \in Rows
    BY <1>1, <1>3, <2>1, LogFacts DEF RecordEvent, Rows, Recorded
  <2> QED BY <1>3, <2>2 DEF RecordEvent, timers, history, Attends
<1>4. CASE DeferUntilCommitted BY <1>4 DEF DeferUntilCommitted, Attends
<1>5. CASE Rollback
  <2>1. Len(log') = committed /\ \A e \in 1 .. committed : log'[e] = log[e] BY <1>5, LogFacts DEF Rollback
  <2>2. Rows' \subseteq Rows BY <1>1, <1>5, <2>1 DEF Rollback, Rows, Recorded
  <2> QED BY <1>5, <2>2 DEF Rollback, timers, history, Attends
<1>6. CASE DispatchEvents BY <1>6 DEF DispatchEvents, StartDispatch, Round, store, Attends
<1>7. ASSUME NEW S \in SUBSET Subscribers, Boot(S) PROVE Attends' BY <1>7 DEF Boot, Attends
<1>8. ASSUME (\E o \in Deletable : PurgeOwner(o)) \/ (\E n \in Ids : SweepEvents(n)) PROVE Attends'
  <2>1. Rows' \subseteq Rows BY <1>8 DEF PurgeOwner, SweepEvents, Rows, Recorded
  <2> QED BY <1>8, <2>1 DEF PurgeOwner, SweepEvents, timers, locals, history, Attends
<1>9. Crash => mode' = "down" BY DEF Crash
<1>10. Commit => mode' = "written" BY DEF Commit
<1> QED BY <1>2, <1>3, <1>4, <1>5, <1>6, <1>7, <1>8, <1>9, <1>10
        DEF Next, TakeSubscriber, Handle, Throw, Reached, EndRound, DatabaseError

LEMMA AttendsInside ==
  ASSUME Safe, Attends, mode = "dispatch", ~Crash, Next
  PROVE  Attends'
<1> USE DEF Safe
<1>1. /\ upTo \in Nat
      /\ \A s \in registry : s \in Subscribers /\ cursors[s].last \in Nat
  BY CursorsAreNumbers
<1>2. ASSUME NEW s \in Subscribers, TakeSubscriber(s) PROVE Attends'
  <2>1. /\ UNCHANGED <<cursors, mode, registry, upTo, moved, stopped>> /\ at = None
        /\ todo' \in {todo, todo \ {s}} /\ (todo' = todo \/ cursors[s].last >= upTo)
    BY <1>2 DEF TakeSubscriber, store
  <2>2. ASSUME stopped = {}, NEW r \in registry \ todo' PROVE Reach(r, upTo)'
    <3>1. CASE r \in todo BY <1>1, <2>1, <3>1 DEF Reach
    <3>2. CASE r \notin todo BY <2>1, <2>2, <3>2 DEF Attends, Reach
    <3> QED BY <3>1, <3>2
  <2> QED BY <2>1, <2>2 DEF Attends
<1>3. ASSUME NEW e \in Ids, Handle(e) \/ Throw(e) PROVE Attends'
  <2>1. mode' = "dispatch" /\ UNCHANGED <<cursors, registry, upTo>> BY <1>3 DEF Handle, Throw
  <2>2. CASE stopped' # {} BY <2>1, <2>2 DEF Attends
  <2>3. CASE stopped' = {}
    <3>1. UNCHANGED <<moved, todo, stopped>> BY <1>3, <2>3 DEF Handle, Throw
    <3>2. at # None /\ at.sub \in todo BY <1>3 DEF Handle, Throw, Rounds
    <3>3. \A s \in registry \ todo : Reach(s, upTo) => Reach(s, upTo)' BY <2>1, <3>1, <3>2 DEF Reach
    <3> QED BY <2>1, <2>3, <3>1, <3>3 DEF Attends
  <2> QED BY <2>2, <2>3
<1>4. CASE Reached
  <2>1. /\ mode' = "dispatch" /\ UNCHANGED <<cursors, registry, upTo, stopped>> /\ at # None
        /\ todo' = todo \ {at.sub}
        /\ moved' = [moved EXCEPT ![at.sub] = [last |-> upTo, failures |-> at.failures]]
    BY <1>4 DEF Reached, Leave, store
  <2>2. PICK s \in registry : s = at.sub BY <2>1, CursorsAreNumbers
  <2>3. at.failures \in 0 .. MaxFailures - 1 /\ upTo \in 0 .. MaxEvents
    BY <1>1, <2>1, CursorsAreNumbers, EventsAssumption DEF Types
  <2>4. [last |-> upTo, failures |-> at.failures] \in Cursor BY <2>3 DEF Cursor
  <2>5. moved'[s] # None /\ moved'[s].last = upTo /\ \A r \in Subscribers \ {s} : moved'[r] = moved[r]
    BY <1>1, <2>1, <2>2, <2>4, NoneAssumption DEF Types
  <2>6. ASSUME stopped = {}, NEW r \in registry \ todo' PROVE Reach(r, upTo)'
    <3>1. CASE r = s BY <1>1, <2>1, <2>5, <3>1 DEF Reach
    <3>2. CASE r # s
      <4>1. Reach(r, upTo) BY <2>1, <2>2, <2>6, <3>2 DEF Attends
      <4> QED BY <1>1, <2>1, <2>2, <2>5, <3>2, <4>1 DEF Reach
    <3> QED BY <3>1, <3>2
  <2> QED BY <2>1, <2>6 DEF Attends
<1>5. CASE EndRound
  <2>1. /\ at = None /\ todo \subseteq stopped /\ cursors' = Saved(moved)
        /\ UNCHANGED <<log, committed, swept, gone, registry>>
    BY <1>5 DEF EndRound
  <2>2. CASE again \/ NewestEventId > upTo
    BY <1>5, <2>1, <2>2 DEF EndRound, Round, Attends
  <2>3. CASE ~(again \/ NewestEventId > upTo)
    <3>1. mode' = "idle" /\ retry' = (retry \/ stopped # {}) BY <1>5, <2>3 DEF EndRound, EndDispatch
    <3>2. ASSUME stopped = {}, NEW s \in registry, NEW e \in Rows PROVE e <= cursors'[s].last
      <4>1. Reach(s, upTo) BY <2>1, <3>2 DEF Attends
      <4>2. upTo <= cursors[s].last \/ (moved[s] # None /\ upTo <= moved[s].last)
        BY <2>1, <4>1 DEF Reach
      <4>3. PICK m \in [Subscribers -> Cursor \cup {None}] : m = moved BY DEF Types
      <4>4. cursors' = Saved(m) BY <2>1, <4>3 DEF Saved
      <4>5. \A r \in Subscribers : m[r] # None => cursors[r] # None BY <4>3 DEF Rounds
      <4>6. /\ m[s] = None => cursors'[s] = cursors[s]
            /\ m[s] # None => /\ cursors'[s].last \in {cursors[s].last, m[s].last}
                              /\ cursors[s].last <= cursors'[s].last /\ m[s].last <= cursors'[s].last
        BY <1>1, <4>4, <4>5, SavedIs
      <4>7. m[s] # None => m[s].last \in Nat BY <1>1, <4>3, CursorsAreNumbers
      <4>8. upTo <= cursors'[s].last /\ cursors'[s].last \in Nat BY <1>1, <4>2, <4>3, <4>6, <4>7
      <4>9. e <= NewestEventId /\ NewestEventId <= upTo /\ NewestEventId \in Nat /\ e \in Nat
        BY <1>1, <2>3, NewestIsNewest
      <4> QED BY <1>1, <4>8, <4>9
    <3>3. Rows' = Rows BY <2>1 DEF Rows, Recorded
    <3> QED BY <2>1, <3>1, <3>2, <3>3 DEF Attends
  <2> QED BY <2>2, <2>3
<1>6. CASE DatabaseError BY <1>6 DEF DatabaseError, EndDispatch, Attends
<1> QED BY <1>2, <1>3, <1>4, <1>5, <1>6
        DEF Next, RecordEvent, DeferUntilCommitted, Commit, Rollback, DispatchEvents, Boot, PurgeOwner, SweepEvents

\* At rest, nobody is behind unless somebody is about to dispatch or the database failed.
THEOREM NobodyIsStranded == Spec => []NothingStranded
<1>1. Init => Attends BY DEF Init, Attends
<1>2. Safe /\ Attends /\ [Next]_vars => Attends'
  <2>1. ASSUME Safe, Attends, UNCHANGED vars PROVE Attends'
    <3>1. Rows' = Rows BY <2>1 DEF vars, store, Rows, Recorded
    <3>3. UNCHANGED <<committed, cursors, mode, registry, deferred, retry, cut, upTo, todo, stopped>>
      BY <2>1 DEF vars, store, timers, locals, history
    <3>2. \A s : Reach(s, upTo)' <=> Reach(s, upTo) BY <2>1 DEF vars, store, locals, Reach
    <3> QED BY <2>1, <3>1, <3>2, <3>3 DEF Attends
  <2> QED BY <2>1, AttendsOutside, AttendsInside
<1>3. Safe /\ Attends => NothingStranded
  <2> SUFFICES ASSUME Safe, Attends, mode = "idle", ~deferred, ~retry, ~cut, NEW s \in registry
               PROVE  cursors[s].last >= NewestEventId
    BY DEF NothingStranded
  <2>1. Len(log) \in Nat /\ committed = Len(log) /\ cursors[s].last \in Nat
    BY CursorsAreNumbers DEF Safe, Rounds
  <2>2. Rows \cup {0} \subseteq 0 .. Len(log) BY <2>1 DEF Rows, Recorded
  <2>3. NewestEventId \in Rows \cup {0} BY <2>1, <2>2, MaxIsIn DEF NewestEventId
  <2>4. \A e \in Rows : e <= cursors[s].last BY <2>1, <2>2 DEF Attends
  <2> QED BY <2>1, <2>3, <2>4
<1> QED BY <1>1, <1>2, <1>3, SafeHolds, PTL DEF Spec

(***************************************************************************)
(* Nothing is given up early, unless events were purged.                   *)
(***************************************************************************)
\* The count of failures beside a place, in the table or in the dispatch.
Beside(s, last, n) ==
  \/ cursors[s] # None /\ cursors[s].last = last /\ cursors[s].failures = n
  \/ moved[s] # None /\ moved[s].last = last /\ moved[s].failures = n
  \/ at # None /\ at.sub = s /\ at.last = last /\ at.failures = n

\* No event the subscriber will be handed after `last` is older than `d`.
NoneBefore(s, last, d) == \A x \in Rows : Wants(s, x) /\ x > last => d <= x

\* The count is of tries of the event that comes next, unless that one was purged.
Earned(s, last, n) ==
  n > 0 => \E d \in 1 .. committed :
    /\ Wants(s, d) /\ failed[s][d] > 0 /\ NoneBefore(s, last, d)
    /\ log[d].owner \in gone \/ (d > last /\ d \notin swept /\ failed[s][d] >= n)

PurgedBefore(s, e) == \E d \in 1 .. e - 1 : Wants(s, d) /\ failed[s][d] > 0 /\ log[d].owner \in gone
GivenUp(s, e) == failed[s][e] >= MaxFailures \/ PurgedBefore(s, e)

\* An event is skipped only after MAX_FAILURES tries of it, or with tries taken over
\* from an earlier event of a deleted account.
SkipsAreEarned == \A s \in Subscribers : \A e \in skipped[s] : GivenUp(s, e)

Tries == failed \in [Subscribers -> [Ids -> 0 .. MaxFailures]]
Forward == \A s \in Subscribers : moved[s] # None => cursors[s].last <= moved[s].last
Places == \A s \in Subscribers, last \in 0 .. MaxEvents, n \in 0 .. MaxFailures - 1 :
            Beside(s, last, n) => Earned(s, last, n)
Counts == Tries /\ Forward /\ Places /\ SkipsAreEarned

\* What every step keeps: the committed events, who is gone and what was tried.
Kept ==
  /\ Len(log') \in Nat /\ committed <= Len(log') /\ \A e \in 1 .. committed : log'[e] = log[e]
  /\ committed' \in Nat /\ committed <= committed'
  /\ gone \subseteq gone' /\ swept \subseteq swept'
  /\ \A s \in Subscribers, e \in Ids : failed[s][e] <= failed'[s][e]

LEMMA EarnedStays ==
  ASSUME Types, Tries, Tries', Kept,
         NEW s \in Subscribers, NEW last \in Nat, NEW n \in Nat, Earned(s, last, n),
         \A e \in swept' : e \in swept \/ e <= last
  PROVE  Earned(s, last, n)'
<1> SUFFICES ASSUME n > 0 PROVE Earned(s, last, n)' BY DEF Earned
<1>1. PICK d \in 1 .. committed :
        /\ Wants(s, d) /\ failed[s][d] > 0 /\ NoneBefore(s, last, d)
        /\ log[d].owner \in gone \/ (d > last /\ d \notin swept /\ failed[s][d] >= n)
  BY DEF Earned
<1>2. committed \in Nat /\ Len(log) \in Nat /\ committed <= Len(log) /\ Len(log) <= MaxEvents BY DEF Types
<1>3. d \in Nat /\ d \in Ids /\ d \in 1 .. committed' /\ d \in Recorded' /\ log'[d] = log[d]
  BY <1>1, <1>2, EventsAssumption DEF Ids, Recorded, Kept
<1>4. failed[s][d] \in Nat /\ failed'[s][d] \in Nat /\ failed[s][d] <= failed'[s][d]
  BY <1>3, EventsAssumption DEF Tries, Kept
<1>5. Wants(s, d)' BY <1>1, <1>3 DEF Wants
<1>6. ASSUME NEW x \in Rows', Wants(s, x)', x > last PROVE d <= x
  <2>1. x \in 1 .. Len(log') /\ x \notin swept' /\ log'[x].owner \notin gone' BY <1>6 DEF Rows, Recorded
  <2>2. CASE x > committed BY <1>1, <1>2, <2>1, <2>2 DEF Kept
  <2>3. CASE x <= committed
    <3>1. x \in 1 .. committed /\ x \in Recorded /\ log'[x] = log[x]
      BY <1>2, <2>1, <2>3 DEF Kept, Recorded
    <3>2. x \in Rows /\ Wants(s, x) BY <1>6, <2>1, <3>1 DEF Kept, Rows, Wants
    <3> QED BY <1>1, <1>6, <3>2 DEF NoneBefore
  <2> QED BY <1>2, <2>1, <2>2, <2>3 DEF Kept
<1>7. NoneBefore(s, last, d)' BY <1>6 DEF NoneBefore
<1>8. log'[d].owner \in gone' \/ (d > last /\ d \notin swept' /\ failed'[s][d] >= n)
  BY <1>1, <1>3, <1>4 DEF Kept
<1>9. failed'[s][d] > 0 BY <1>1, <1>4
<1> QED BY <1>3, <1>5, <1>7, <1>8, <1>9 DEF Earned

LEMMA GivenUpStays ==
  ASSUME Types, Tries, Tries', Kept, NEW s \in Subscribers, NEW e \in 1 .. committed, GivenUp(s, e)
  PROVE  GivenUp(s, e)'
<1>1. committed \in Nat /\ Len(log) \in Nat /\ committed <= Len(log) /\ Len(log) <= MaxEvents BY DEF Types
<1>2. e \in Ids BY <1>1, EventsAssumption DEF Ids
<1>3. \A d \in Ids : failed[s][d] \in Nat /\ failed'[s][d] \in Nat /\ failed[s][d] <= failed'[s][d]
  BY EventsAssumption DEF Tries, Kept
<1>4. CASE failed[s][e] >= MaxFailures BY <1>2, <1>3, <1>4, EventsAssumption DEF GivenUp
<1>5. CASE PurgedBefore(s, e)
  <2>1. PICK d \in 1 .. e - 1 : Wants(s, d) /\ failed[s][d] > 0 /\ log[d].owner \in gone
    BY <1>5 DEF PurgedBefore
  <2>2. d \in Ids /\ d \in 1 .. committed /\ d \in Recorded' /\ log'[d] = log[d]
    BY <1>1, <2>1, EventsAssumption DEF Ids, Recorded, Kept
  <2>3. Wants(s, d)' /\ failed'[s][d] > 0 /\ log'[d].owner \in gone'
    BY <1>3, <2>1, <2>2 DEF Wants, Kept
  <2> QED BY <2>3 DEF GivenUp, PurgedBefore
<1> QED BY <1>4, <1>5 DEF GivenUp

\* The counts a step leaves are earned if they were there before it or it earns them.
LEMMA CountsStay ==
  ASSUME Safe, Counts, Kept, Tries', Forward',
         \A s \in Subscribers, last \in 0 .. MaxEvents, n \in 0 .. MaxFailures - 1 :
           /\ Beside(s, last, n)' => Beside(s, last, n) \/ Earned(s, last, n)'
           /\ Beside(s, last, n)' => \A e \in swept' : e \in swept \/ e <= last,
         \A s \in Subscribers : \A e \in skipped'[s] : e \in skipped[s] \/ GivenUp(s, e)'
  PROVE  Counts'
<1>1. ASSUME NEW s \in Subscribers, NEW last \in 0 .. MaxEvents, NEW n \in 0 .. MaxFailures - 1,
             Beside(s, last, n)'
      PROVE  Earned(s, last, n)'
  <2>1. last \in Nat /\ n \in Nat BY EventsAssumption
  <2>2. CASE Beside(s, last, n)
    <3>1. Earned(s, last, n) BY <2>2 DEF Counts, Places
    <3>2. \A e \in swept' : e \in swept \/ e <= last BY <1>1
    <3> QED BY <2>1, <3>1, <3>2, EarnedStays DEF Safe, Counts
  <2> QED BY <1>1, <2>2
<1>2. Places' BY <1>1 DEF Places
<1>3. SkipsAreEarned'
  <2> SUFFICES ASSUME NEW s \in Subscribers, NEW e \in skipped'[s] PROVE GivenUp(s, e)'
    BY DEF SkipsAreEarned
  <2>1. CASE e \in skipped[s]
    <3>1. e \in 1 .. committed BY <2>1 DEF Safe, Rounds
    <3>2. GivenUp(s, e) BY <2>1 DEF Counts, SkipsAreEarned
    <3> QED BY <3>1, <3>2, GivenUpStays DEF Safe, Counts
  <2> QED BY <2>1
<1> QED BY <1>2, <1>3 DEF Counts

\* A step that moves no counts and tries nothing.
LEMMA CountsUntouched ==
  ASSUME Safe, Counts, Kept, UNCHANGED <<cursors, moved, at, failed, skipped, swept>>
  PROVE  Counts'
<1>1. Tries' /\ Forward' BY DEF Counts, Tries, Forward
<1>2. \A s, last, n : Beside(s, last, n)' <=> Beside(s, last, n) BY DEF Beside
<1> QED BY <1>1, <1>2, CountsStay

LEMMA TriesAreNumbers ==
  ASSUME Tries
  PROVE  /\ \A s \in Subscribers, e \in Ids : failed[s][e] \in 0 .. MaxFailures /\ failed[s][e] <= failed[s][e]
         /\ MaxFailures \in Nat /\ MaxFailures > 0
BY EventsAssumption DEF Tries

LEMMA CountsOutside ==
  ASSUME Safe, Counts,
         \/ (\E event \in Event : RecordEvent(event)) \/ DeferUntilCommitted \/ Commit \/ Rollback
         \/ (\E o \in Deletable : PurgeOwner(o))
  PROVE  Counts'
<1>0. Types /\ Rounds /\ Tries BY DEF Safe, Counts
<1>1. committed \in Nat /\ Len(log) \in Nat /\ committed <= Len(log) BY <1>0, CursorsAreNumbers
<1>2. UNCHANGED <<cursors, moved, at, failed, skipped, swept>> /\ gone \subseteq gone'
  BY DEF RecordEvent, DeferUntilCommitted, Commit, Rollback, PurgeOwner, store, locals, history
<1>3. /\ Len(log') \in Nat /\ committed <= Len(log') /\ committed' \in {committed, Len(log)}
      /\ \A e \in 1 .. committed : log'[e] = log[e]
  <2>1. ASSUME NEW event \in Event, log' = Append(log, event)
        PROVE  Len(log') = Len(log) + 1 /\ \A e \in 1 .. committed : log'[e] = log[e]
    BY <1>0, <1>1, <2>1, LogFacts
  <2>2. CASE \E event \in Event : RecordEvent(event) BY <1>1, <2>1, <2>2 DEF RecordEvent
  <2>3. CASE Rollback BY <1>0, <1>1, <2>3, LogFacts DEF Rollback
  <2>4. CASE DeferUntilCommitted \/ Commit \/ \E o \in Deletable : PurgeOwner(o)
    BY <1>1, <2>4 DEF DeferUntilCommitted, Commit, PurgeOwner, store
  <2> QED BY <2>2, <2>3, <2>4
<1>4. Kept BY <1>0, <1>1, <1>2, <1>3, TriesAreNumbers DEF Kept
<1> QED BY <1>2, <1>4, CountsUntouched

\* The sweep leaves the events that some subscriber has not passed.
LEMMA CountsSwept == ASSUME Safe, Counts, NEW n \in Ids, SweepEvents(n) PROVE Counts'
<1>0. Types /\ Rounds /\ Tries BY DEF Safe, Counts
<1>1. /\ mode = "idle" /\ swept' = swept \cup 1 .. n
      /\ UNCHANGED <<log, committed, gone, cursors, moved, at, failed, skipped>>
      /\ \A s \in registry : n <= cursors[s].last
  BY DEF SweepEvents, Passed, locals, history
<1>2. Kept BY <1>0, <1>1, CursorsAreNumbers, TriesAreNumbers DEF Kept
<1>3. Tries' /\ Forward' BY <1>1 DEF Counts, Tries, Forward
<1>4. ASSUME NEW s \in Subscribers, NEW last \in 0 .. MaxEvents, NEW k \in 0 .. MaxFailures - 1,
             Beside(s, last, k)'
      PROVE  Beside(s, last, k) /\ \A e \in swept' : e \in swept \/ e <= last
  <2>1. Beside(s, last, k) BY <1>1, <1>4 DEF Beside
  <2>2. cursors[s] # None /\ cursors[s].last = last BY <1>0, <1>1, <2>1 DEF Beside, Rounds
  <2>3. s \in registry BY <1>0, <2>2 DEF Rounds
  <2>4. n <= last /\ last \in Nat /\ n \in Nat BY <1>1, <2>2, <2>3, EventsAssumption DEF Ids
  <2> QED BY <1>1, <2>1, <2>4
<1> QED BY <1>1, <1>2, <1>3, <1>4, CountsStay

LEMMA CountsCrash == ASSUME Safe, Counts, Crash PROVE Counts'
<1>0. Types /\ Rounds /\ Tries BY DEF Safe, Counts
<1>1. /\ at' = None /\ moved' = [s \in Subscribers |-> None] /\ log' = SubSeq(log, 1, committed)
      /\ UNCHANGED <<committed, swept, gone, cursors, failed, skipped>>
  BY DEF Crash
<1>2. Kept BY <1>0, <1>1, LogFacts, CursorsAreNumbers, TriesAreNumbers DEF Kept
<1>3. Tries' /\ Forward' BY <1>1 DEF Counts, Tries, Forward
<1>4. \A s \in Subscribers : \A last, n : Beside(s, last, n)' => Beside(s, last, n) BY <1>1 DEF Beside
<1> QED BY <1>1, <1>2, <1>3, <1>4, CountsStay

LEMMA CountsBoot == ASSUME Safe, Counts, NEW S \in SUBSET Subscribers, Boot(S) PROVE Counts'
<1>0. Types /\ Rounds /\ Tries BY DEF Safe, Counts
<1>1. /\ mode = "down"
      /\ cursors' = [s \in Subscribers |->
           IF s \in S /\ cursors[s] = None THEN [last |-> NewestEventId, failures |-> 0] ELSE cursors[s]]
      /\ UNCHANGED <<log, committed, swept, gone, moved, at, failed, skipped>>
  BY DEF Boot
<1>2. Kept BY <1>0, <1>1, CursorsAreNumbers, TriesAreNumbers DEF Kept
<1>3. at = None /\ \A s \in Subscribers : moved[s] = None BY <1>0, <1>1 DEF Rounds
<1>4. Tries' /\ Forward' BY <1>0, <1>1, <1>3 DEF Tries, Forward
<1>5. ASSUME NEW s \in Subscribers, NEW last \in 0 .. MaxEvents, NEW n \in 0 .. MaxFailures - 1,
             Beside(s, last, n)'
      PROVE  Beside(s, last, n) \/ Earned(s, last, n)'
  <2>1. cursors'[s] # None /\ cursors'[s].last = last /\ cursors'[s].failures = n
    BY <1>1, <1>3, <1>5 DEF Beside
  <2>2. CASE cursors'[s] = cursors[s] BY <2>1, <2>2 DEF Beside
  <2>3. CASE cursors'[s] = [last |-> NewestEventId, failures |-> 0] BY <2>1, <2>3 DEF Earned
  <2> QED BY <1>1, <2>2, <2>3
<1> QED BY <1>1, <1>2, <1>4, <1>5, CountsStay

LEMMA CountsStart == ASSUME Safe, Counts, DispatchEvents PROVE Counts'
<1>0. Types /\ Rounds /\ Tries BY DEF Safe, Counts
<1>1. /\ UNCHANGED <<log, committed, swept, gone, cursors, failed, skipped>> /\ mode # "dispatch"
      /\ at' = None /\ moved' = [s \in Subscribers |-> None]
  BY DEF DispatchEvents, StartDispatch, Round, store
<1>2. at' = at /\ moved' = moved BY <1>0, <1>1 DEF Rounds, Types
<1>3. Kept BY <1>0, <1>1, CursorsAreNumbers, TriesAreNumbers DEF Kept
<1> QED BY <1>1, <1>2, <1>3, CountsUntouched

LEMMA CountsTake == ASSUME Safe, Counts, NEW r \in Subscribers, TakeSubscriber(r) PROVE Counts'
<1>0. Types /\ Rounds /\ Tries BY DEF Safe, Counts
<1>1. /\ UNCHANGED <<log, committed, swept, gone, cursors, moved, failed, skipped>>
      /\ \/ at' = at
         \/ at' = [sub |-> r, last |-> cursors[r].last, failures |-> cursors[r].failures]
      /\ r \in todo
  BY DEF TakeSubscriber, store, history
<1>2. Kept BY <1>0, <1>1, CursorsAreNumbers, TriesAreNumbers DEF Kept
<1>3. Tries' /\ Forward' BY <1>1 DEF Counts, Tries, Forward
<1>4. cursors[r] # None BY <1>0, <1>1 DEF Rounds, Types
<1>5. \A s \in Subscribers : \A last, n : Beside(s, last, n)' => Beside(s, last, n) BY <1>1, <1>4 DEF Beside
<1> QED BY <1>1, <1>2, <1>3, <1>5, CountsStay

\* What a subscriber that failed is handed is what it failed on, if that was not purged.
LEMMA NextIsTried ==
  ASSUME Safe, Counts, at # None, NEW e \in Ids, IsNext(e)
  PROVE  /\ e \in 1 .. committed /\ Wants(at.sub, e) /\ e \in Rows /\ NoneBefore(at.sub, at.last, e)
         /\ failed[at.sub][e] >= at.failures \/ PurgedBefore(at.sub, e)
<1>0. Types /\ Rounds /\ Tries BY DEF Safe, Counts
<1>1. PICK s \in Subscribers, last \in 0 .. MaxEvents, n \in 0 .. MaxFailures - 1 :
        s = at.sub /\ last = at.last /\ n = at.failures
  BY <1>0 DEF Types, Turn
<1>2. /\ upTo \in Nat /\ committed \in Nat /\ upTo <= committed /\ last \in Nat /\ n \in Nat
      /\ committed <= Len(log) /\ Len(log) \in Nat /\ Len(log) <= MaxEvents
      /\ MaxEvents \in Nat /\ e \in Nat
  BY <1>0, <1>1, CursorsAreNumbers, EventsAssumption DEF Ids, Types
<1>3. e \in last + 1 .. upTo /\ Wants(s, e) /\ e \in Rows /\ \A d \in NextFor(s, last) : e <= d
  BY <1>1 DEF IsNext, NextFor
<1>4. e \in 1 .. committed BY <1>2, <1>3
<1>5. ASSUME NEW x \in Rows, Wants(s, x), x > last PROVE e <= x
  <2>1. x \in Nat BY <1>2 DEF Rows, Recorded
  <2>2. CASE x <= upTo
    <3>1. x \in last + 1 .. upTo BY <1>2, <1>5, <2>1, <2>2
    <3> QED BY <1>3, <1>5, <3>1 DEF NextFor
  <2> QED BY <1>2, <1>3, <2>1, <2>2
<1>6. NoneBefore(s, last, e) BY <1>5 DEF NoneBefore
<1>7. failed[s][e] >= n \/ PurgedBefore(s, e)
  <2>1. CASE n = 0 BY <1>0, <2>1, TriesAreNumbers
  <2>2. CASE n > 0
    <3>1. Beside(s, last, n) BY <1>1 DEF Beside
    <3>2. Earned(s, last, n) BY <3>1 DEF Counts, Places
    <3>3. PICK d \in 1 .. committed :
            /\ Wants(s, d) /\ failed[s][d] > 0 /\ NoneBefore(s, last, d)
            /\ log[d].owner \in gone \/ (d > last /\ d \notin swept /\ failed[s][d] >= n)
      BY <2>2, <3>2 DEF Earned
    <3>4. d <= e BY <1>2, <1>3, <3>3 DEF NoneBefore
    <3>5. CASE log[d].owner \in gone
      <4>1. d # e BY <1>3, <3>5 DEF Rows
      <4>2. d \in 1 .. e - 1 BY <1>2, <3>4, <4>1
      <4> QED BY <3>3, <3>5, <4>2 DEF PurgedBefore
    <3>6. CASE log[d].owner \notin gone
      <4>1. d \in Rows BY <1>2, <3>3, <3>6 DEF Rows, Recorded
      <4>2. e <= d BY <1>2, <3>3, <3>6, <4>1, <1>5
      <4>3. d = e BY <1>2, <3>4, <4>2
      <4> QED BY <3>3, <3>6, <4>3
    <3> QED BY <3>5, <3>6
  <2> QED BY <1>2, <2>1, <2>2
<1> QED BY <1>1, <1>3, <1>4, <1>6, <1>7

\* A turn goes on to another place, or ends at one, with a count that is earned.
LEMMA CountsMove ==
  ASSUME Safe, Counts, at # None, HandlerWrites, mode = "dispatch", Tries',
         \A s \in Subscribers, e \in Ids : failed[s][e] <= failed'[s][e],
         NEW last \in 0 .. MaxEvents, NEW n \in 0 .. MaxFailures - 1, at.last <= last,
         NEW r \in Subscribers, r = at.sub, Earned(r, last, n)',
         \/ moved' = moved /\ at' = [sub |-> at.sub, last |-> last, failures |-> n]
         \/ Leave(last, n),
         \A s \in Subscribers : \A e \in skipped'[s] : e \in skipped[s] \/ GivenUp(s, e)',
         UNCHANGED <<swept, gone, cursors>>
  PROVE  Counts'
<1>0. Types /\ Rounds /\ Tries BY DEF Safe, Counts
<1>1. r \in registry BY <1>0, CursorsAreNumbers
<1>2. cursors[r] \in Cursor /\ cursors[r].last <= at.last /\ cursors[r].last \in Nat /\ at.last \in Nat
      /\ last \in Nat
  BY <1>0, <1>1, CursorsAreNumbers, EventsAssumption DEF Rounds
<1>3. Kept BY <1>0, HandlerWrote DEF Kept
<1>4. [last |-> last, failures |-> n] # None
  <2>1. [last |-> last, failures |-> n] \in Cursor BY DEF Cursor
  <2> QED BY <2>1, NoneAssumption
<1>5. \/ moved' = moved
      \/ moved' \in [Subscribers -> Cursor \cup {None}] /\ at' = None
         /\ moved' = [moved EXCEPT ![r] = [last |-> last, failures |-> n]]
  <2>1. [last |-> last, failures |-> n] \in Cursor BY DEF Cursor
  <2>2. moved \in [Subscribers -> Cursor \cup {None}] BY <1>0 DEF Types
  <2>3. [moved EXCEPT ![r] = [last |-> last, failures |-> n]] \in [Subscribers -> Cursor \cup {None}]
    BY <2>1, <2>2
  <2>4. CASE Leave(last, n) BY <1>1, <2>3, <2>4 DEF Leave
  <2> QED BY <2>4
<1>6. Forward'
  <2> SUFFICES ASSUME NEW s \in Subscribers, moved'[s] # None PROVE cursors[s].last <= moved'[s].last
    BY DEF Forward
  <2>1. CASE moved'[s] = moved[s] BY <2>1 DEF Counts, Forward
  <2>2. CASE moved'[s] # moved[s]
    <3>1. s = r /\ moved'[s] = [last |-> last, failures |-> n] BY <1>0, <1>5, <2>2 DEF Types
    <3> QED BY <1>2, <3>1
  <2> QED BY <2>1, <2>2
<1>7. ASSUME NEW s \in Subscribers, NEW l \in 0 .. MaxEvents, NEW k \in 0 .. MaxFailures - 1,
             Beside(s, l, k)'
      PROVE  Beside(s, l, k) \/ Earned(s, l, k)'
  <2>1. CASE cursors[s] # None /\ cursors[s].last = l /\ cursors[s].failures = k BY <2>1 DEF Beside
  <2>2. CASE moved'[s] # None /\ moved'[s].last = l /\ moved'[s].failures = k
    <3>1. CASE moved'[s] = moved[s] BY <2>2, <3>1 DEF Beside
    <3>2. CASE moved'[s] # moved[s]
      <4>1. s = r /\ moved'[s] = [last |-> last, failures |-> n] BY <1>0, <1>5, <3>2 DEF Types
      <4>2. l = last /\ k = n BY <2>2, <4>1
      <4> QED BY <4>1, <4>2
    <3> QED BY <3>1, <3>2
  <2>3. CASE at' # None /\ at'.sub = s /\ at'.last = l /\ at'.failures = k
    <3>1. at' = [sub |-> at.sub, last |-> last, failures |-> n] BY <2>3 DEF Leave
    <3>2. s = r /\ l = last /\ k = n BY <2>3, <3>1
    <3> QED BY <3>2
  <2> QED BY <1>7, <2>1, <2>2, <2>3 DEF Beside
<1> QED BY <1>3, <1>6, <1>7, CountsStay

LEMMA CountsHandle == ASSUME Safe, Counts, NEW e \in Ids, Handle(e) PROVE Counts'
<1>0. Types /\ Rounds /\ Tries BY DEF Safe, Counts
<1>1. /\ mode = "dispatch" /\ at # None /\ IsNext(e) /\ HandlerWrites
      /\ at' = [sub |-> at.sub, last |-> e, failures |-> 0] /\ moved' = moved
      /\ UNCHANGED <<swept, gone, cursors, failed, skipped>>
  BY DEF Handle
<1>2. e \in 0 .. MaxEvents /\ 0 \in 0 .. MaxFailures - 1 BY EventsAssumption DEF Ids
<1>3. PICK r \in Subscribers : r = at.sub BY <1>0, <1>1 DEF Types, Turn
<1>4. at.last <= e /\ Tries'
  BY <1>0, <1>1, <1>2, CursorsAreNumbers, EventsAssumption DEF IsNext, NextFor, Tries
<1>5. Earned(r, e, 0)' BY DEF Earned
<1> QED BY <1>0, <1>1, <1>2, <1>3, <1>4, <1>5, TriesAreNumbers, CountsMove

LEMMA CountsThrow == ASSUME Safe, Counts, NEW e \in Ids, Throw(e) PROVE Counts'
<1>0. Types /\ Rounds /\ Tries BY DEF Safe, Counts
<1>1. /\ mode = "dispatch" /\ at # None /\ IsNext(e) /\ HandlerWrites
      /\ failed' = [failed EXCEPT ![at.sub][e] = Min({@ + 1, MaxFailures})]
      /\ UNCHANGED <<swept, gone, cursors>>
  BY DEF Throw
<1>2. PICK s \in Subscribers, last \in 0 .. MaxEvents, n \in 0 .. MaxFailures - 1 :
        s = at.sub /\ last = at.last /\ n = at.failures
  BY <1>0, <1>1 DEF Types, Turn
<1>3. PICK f \in 0 .. MaxFailures : f = failed[s][e] BY <1>0, TriesAreNumbers
<1>4. /\ MaxFailures \in Nat /\ MaxFailures > 0 /\ n \in Nat /\ f \in Nat /\ e \in Nat /\ MaxEvents \in Nat
      /\ e \in 0 .. MaxEvents /\ last \in Nat /\ 0 \in 0 .. MaxFailures - 1
  BY EventsAssumption DEF Ids
<1>5. PICK g \in 1 .. MaxFailures : g = Min({f + 1, MaxFailures}) /\ f <= g /\ (g = f + 1 \/ g = MaxFailures)
  <2>1. \E i \in {f + 1, MaxFailures} : \A j \in {f + 1, MaxFailures} : i <= j BY <1>4
  <2>2. Min({f + 1, MaxFailures}) \in {f + 1, MaxFailures}
        /\ \A j \in {f + 1, MaxFailures} : Min({f + 1, MaxFailures}) <= j
    BY <2>1 DEF Min
  <2> QED BY <1>3, <1>4, <2>2
<1>6. failed' = [failed EXCEPT ![s] = [failed[s] EXCEPT ![e] = g]] BY <1>1, <1>2, <1>3, <1>5
<1>7. failed[s] \in [Ids -> 0 .. MaxFailures] /\ g \in 0 .. MaxFailures BY <1>0, <1>4 DEF Tries
<1>8. /\ Tries' /\ failed'[s][e] = g
      /\ \A r \in Subscribers, d \in Ids : failed[r][d] <= failed'[r][d]
  <2>1. [failed[s] EXCEPT ![e] = g] \in [Ids -> 0 .. MaxFailures] BY <1>7
  <2>2. Tries' BY <1>0, <1>6, <2>1 DEF Tries
  <2>3. failed'[s][e] = g BY <1>0, <1>6, <1>7 DEF Tries
  <2>4. ASSUME NEW r \in Subscribers, NEW d \in Ids PROVE failed[r][d] <= failed'[r][d]
    <3>1. CASE r = s /\ d = e BY <1>3, <1>4, <1>5, <2>3, <3>1
    <3>2. CASE r # s \/ d # e
      <4>1. failed'[r][d] = failed[r][d] BY <1>0, <1>6, <1>7, <3>2 DEF Tries
      <4> QED BY <1>0, <4>1, TriesAreNumbers
    <3> QED BY <3>1, <3>2
  <2> QED BY <2>2, <2>3, <2>4
<1>9. Kept BY <1>0, <1>1, <1>8, HandlerWrote DEF Kept
<1>10. /\ e \in 1 .. committed /\ Wants(s, e) /\ e \in Rows /\ NoneBefore(s, last, e)
       /\ f >= n \/ PurgedBefore(s, e)
  BY <1>1, <1>2, <1>3, NextIsTried
<1>11. last < e /\ e \in Recorded /\ e \notin swept
  BY <1>0, <1>1, <1>2, <1>4, CursorsAreNumbers DEF IsNext, NextFor, Rows
<1>12. PurgedBefore(s, e) => PurgedBefore(s, e)'
  <2> SUFFICES ASSUME PurgedBefore(s, e) PROVE PurgedBefore(s, e)' OBVIOUS
  <2>1. PICK d \in 1 .. e - 1 : Wants(s, d) /\ failed[s][d] > 0 /\ log[d].owner \in gone BY DEF PurgedBefore
  <2>2. committed \in Nat /\ d \in 1 .. committed /\ d \in Ids
    BY <1>0, <1>4, <1>10, <2>1, CursorsAreNumbers DEF Ids
  <2>3. d \in Recorded' /\ log'[d] = log[d] BY <1>9, <2>2 DEF Recorded, Kept
  <2>4. failed'[s][d] > 0
    <3>1. failed[s][d] \in Nat /\ failed'[s][d] \in Nat /\ failed[s][d] <= failed'[s][d]
      BY <1>0, <1>4, <1>8, <2>2 DEF Tries
    <3> QED BY <2>1, <3>1
  <2> QED BY <1>1, <2>1, <2>3, <2>4 DEF PurgedBefore, Wants
<1>13. CASE TriesAgain(n + 1)
  <2>1. n + 1 \in 0 .. MaxFailures - 1 BY <1>4, <1>13 DEF TriesAgain
  <2>2. Leave(last, n + 1) /\ skipped' = skipped BY <1>2, <1>13 DEF Throw, Leave
  <2>3. Earned(s, last, n + 1)'
    <3>1. e \in 1 .. committed' /\ Wants(s, e)' /\ e \in Recorded'
      BY <1>0, <1>9, <1>10, CursorsAreNumbers DEF Kept, Wants, Recorded
    <3>2. NoneBefore(s, last, e)'
      <4> SUFFICES ASSUME NEW x \in Rows', Wants(s, x)', x > last PROVE e <= x BY DEF NoneBefore
      <4>1. x \in 1 .. Len(log') /\ x \notin swept /\ log'[x].owner \notin gone
        BY <1>1 DEF Rows, Recorded
      <4>2. CASE x \in 1 .. committed
        <5>1. x \in Rows /\ Wants(s, x)
          BY <1>0, <1>9, <4>1, <4>2, CursorsAreNumbers DEF Kept, Rows, Recorded, Wants
        <5> QED BY <1>10, <5>1 DEF NoneBefore
      <4>3. CASE x \notin 1 .. committed
        BY <1>0, <1>9, <1>10, <4>1, <4>3, CursorsAreNumbers DEF Kept
      <4> QED BY <4>2, <4>3
    <3>3. CASE f >= n
      <4>1. g >= n + 1 BY <1>4, <1>5, <2>1, <3>3
      <4> QED BY <1>1, <1>8, <1>11, <3>1, <3>2, <4>1 DEF Earned
    <3>4. CASE PurgedBefore(s, e)
      <4>1. PICK d \in 1 .. e - 1 : Wants(s, d)' /\ failed'[s][d] > 0 /\ log'[d].owner \in gone'
        BY <1>12, <3>4 DEF PurgedBefore
      <4>2. d \in 1 .. committed' /\ d < e BY <1>4, <1>9, <3>1, <4>1 DEF Kept
      <4>3. NoneBefore(s, last, d)'
        <5> SUFFICES ASSUME NEW x \in Rows', Wants(s, x)', x > last PROVE d <= x BY DEF NoneBefore
        <5>1. e <= x /\ x \in Nat BY <3>2 DEF NoneBefore, Rows, Recorded
        <5> QED BY <1>4, <4>2, <5>1
      <4> QED BY <4>1, <4>2, <4>3 DEF Earned
    <3> QED BY <1>10, <3>3, <3>4
  <2>4. PICK k \in 0 .. MaxFailures - 1 : k = n + 1 BY <2>1
  <2>5. Earned(s, last, k)' BY <2>3, <2>4
  <2>6. Leave(last, k) /\ at.last <= last /\ skipped' = skipped BY <1>2, <1>4, <2>2, <2>4 DEF Leave
  <2> QED BY <1>1, <1>2, <1>8, <2>4, <2>5, <2>6, CountsMove
<1>14. CASE ~TriesAgain(n + 1)
  <2>1. /\ at' = [sub |-> at.sub, last |-> e, failures |-> 0] /\ moved' = moved
        /\ skipped' = [skipped EXCEPT ![s] = @ \cup {e}]
    BY <1>2, <1>14 DEF Throw
  <2>2. GivenUp(s, e)'
    <3>1. n + 1 >= MaxFailures BY <1>4, <1>14 DEF TriesAgain
    <3>2. f >= n => g >= MaxFailures BY <1>4, <1>5, <3>1
    <3> QED BY <1>8, <1>10, <1>12, <3>2 DEF GivenUp
  <2>3. ASSUME NEW r \in Subscribers, NEW d \in skipped'[r] PROVE d \in skipped[r] \/ GivenUp(r, d)'
    <3>1. d \in skipped[r] \/ (r = s /\ d = e) BY <1>0, <2>1, <2>3 DEF Types
    <3> QED BY <2>2, <3>1
  <2>4. Earned(s, e, 0)' BY DEF Earned
  <2>5. at.last <= e BY <1>2, <1>4, <1>11
  <2> QED BY <1>1, <1>2, <1>4, <1>8, <2>1, <2>3, <2>4, <2>5, CountsMove
<1> QED BY <1>13, <1>14

LEMMA CountsReached == ASSUME Safe, Counts, Reached PROVE Counts'
<1>0. Types /\ Rounds /\ Tries BY DEF Safe, Counts
<1>1. /\ mode = "dispatch" /\ at # None /\ NextFor(at.sub, at.last) = {} /\ Leave(upTo, at.failures)
      /\ UNCHANGED <<log, committed, swept, gone, cursors, again, failed, skipped>>
  BY DEF Reached, store, history
<1>2. PICK s \in Subscribers, last \in 0 .. MaxEvents, n \in 0 .. MaxFailures - 1, u \in 0 .. MaxEvents :
        s = at.sub /\ last = at.last /\ n = at.failures /\ u = upTo
  <2>1. upTo \in Nat /\ upTo <= committed /\ committed <= Len(log) /\ committed \in Nat /\ Len(log) \in Nat
    BY <1>0, CursorsAreNumbers
  <2>2. upTo \in 0 .. MaxEvents BY <1>0, <2>1, EventsAssumption DEF Types
  <2>3. at.sub \in Subscribers /\ at.last \in 0 .. MaxEvents /\ at.failures \in 0 .. MaxFailures - 1
    BY <1>0, <1>1 DEF Types, Turn
  <2> QED BY <2>2, <2>3
<1>3. last \in Nat /\ u \in Nat /\ last <= u /\ n \in Nat BY <1>0, <1>1, <1>2, CursorsAreNumbers
<1>4. HandlerWrites /\ Tries' BY <1>0, <1>1 DEF HandlerWrites, Tries
<1>5. Earned(s, u, n)'
  <2> SUFFICES ASSUME n > 0 PROVE Earned(s, u, n) BY <1>1 DEF Earned, NoneBefore, Wants, Rows, Recorded
  <2>1. Beside(s, last, n) BY <1>1, <1>2 DEF Beside
  <2>2. Earned(s, last, n) BY <2>1 DEF Counts, Places
  <2>3. PICK d \in 1 .. committed :
          /\ Wants(s, d) /\ failed[s][d] > 0 /\ NoneBefore(s, last, d)
          /\ log[d].owner \in gone \/ (d > last /\ d \notin swept /\ failed[s][d] >= n)
    BY <2>2 DEF Earned
  <2>4. \A x \in Rows : x \in Nat BY <1>0, CursorsAreNumbers DEF Rows, Recorded
  <2>5. NoneBefore(s, u, d) BY <1>3, <2>3, <2>4 DEF NoneBefore
  <2>6. log[d].owner \notin gone => d > u
    <3> SUFFICES ASSUME log[d].owner \notin gone, ~(d > u) PROVE FALSE OBVIOUS
    <3>1. d \in Nat /\ d \in Recorded BY <1>0, <2>3, CursorsAreNumbers DEF Wants, Recorded
    <3>2. d \in Rows /\ d \in last + 1 .. u BY <1>3, <2>3, <3>1 DEF Rows
    <3>3. d \in NextFor(s, last) BY <1>2, <2>3, <3>2 DEF NextFor
    <3> QED BY <1>1, <1>2, <3>3
  <2> QED BY <2>3, <2>5, <2>6 DEF Earned
<1>6. Leave(u, n) BY <1>1, <1>2 DEF Leave
<1> QED BY <1>0, <1>1, <1>2, <1>3, <1>4, <1>5, <1>6, TriesAreNumbers, CountsMove

\* The counts that are saved are those of the dispatch.
LEMMA CountsSave ==
  ASSUME Safe, Counts, NEW m \in [Subscribers -> Cursor \cup {None}],
         \A s \in Subscribers : m[s] # None =>
           cursors[s] # None /\ cursors[s].last <= m[s].last /\ Beside(s, m[s].last, m[s].failures),
         cursors' \in {cursors, Saved(m)}, at' = None, moved' = [s \in Subscribers |-> None],
         UNCHANGED <<log, committed, swept, gone, failed, skipped>>
  PROVE  Counts'
<1>0. Types /\ Rounds /\ Tries BY DEF Safe, Counts
<1>1. Kept BY <1>0, CursorsAreNumbers, TriesAreNumbers DEF Kept
<1>2. Tries' /\ Forward' BY <1>0 DEF Tries, Forward
<1>3. ASSUME NEW s \in Subscribers, NEW last \in 0 .. MaxEvents, NEW n \in 0 .. MaxFailures - 1,
             Beside(s, last, n)'
      PROVE  Beside(s, last, n)
  <2>1. cursors'[s] # None /\ cursors'[s].last = last /\ cursors'[s].failures = n BY <1>3 DEF Beside
  <2>2. CASE cursors'[s] = cursors[s] BY <2>1, <2>2 DEF Beside
  <2>3. CASE cursors' = Saved(m) /\ m[s] # None
    <3>1. /\ cursors'[s].last \in {cursors[s].last, m[s].last} /\ cursors'[s].failures = m[s].failures
          /\ cursors[s].last <= cursors'[s].last /\ m[s].last <= cursors'[s].last
      BY <1>0, <2>3, SavedIs
    <3>2. s \in registry BY <1>0, <2>3 DEF Rounds
    <3>3. cursors[s].last \in Nat /\ m[s].last \in Nat /\ cursors[s].last <= m[s].last
      BY <1>0, <2>3, <3>2, CursorsAreNumbers, EventsAssumption DEF Cursor
    <3>4. cursors'[s].last = m[s].last BY <3>1, <3>3
    <3> QED BY <2>1, <2>3, <3>1, <3>4
  <2>4. CASE cursors' = Saved(m) /\ m[s] = None BY <1>0, <2>1, <2>4, SavedIs DEF Beside
  <2> QED BY <2>2, <2>3, <2>4
<1> QED BY <1>1, <1>2, <1>3, CountsStay

LEMMA CountsRoundEnds == ASSUME Safe, Counts, EndRound PROVE Counts'
<1>0. Types /\ Rounds BY DEF Safe
<1>1. /\ at = None /\ cursors' = Saved(moved) /\ at' = None /\ moved' = [s \in Subscribers |-> None]
      /\ UNCHANGED <<log, committed, swept, gone, failed, skipped>>
  BY DEF EndRound, Round, EndDispatch
<1>2. PICK m \in [Subscribers -> Cursor \cup {None}] : m = moved BY <1>0 DEF Types
<1>3. cursors' = Saved(m) BY <1>1, <1>2 DEF Saved
<1>4. \A s \in Subscribers : m[s] # None =>
        cursors[s] # None /\ cursors[s].last <= m[s].last /\ Beside(s, m[s].last, m[s].failures)
  BY <1>0, <1>2 DEF Rounds, Counts, Forward, Beside
<1> QED BY <1>1, <1>3, <1>4, CountsSave

LEMMA CountsError == ASSUME Safe, Counts, DatabaseError PROVE Counts'
<1>0. Types /\ Rounds BY DEF Safe
<1>1. /\ at' = None /\ moved' = [s \in Subscribers |-> None]
      /\ UNCHANGED <<log, committed, swept, gone, failed, skipped>>
  BY DEF DatabaseError, EndDispatch
<1>2. ASSUME NEW m, m = IF at = None THEN moved
                        ELSE [moved EXCEPT ![at.sub] = [last |-> at.last, failures |-> at.failures]],
             cursors' \in {cursors, Saved(m)}
      PROVE  Counts'
  <2>1. CASE at = None
    <3>1. m \in [Subscribers -> Cursor \cup {None}] BY <1>0, <1>2, <2>1 DEF Types
    <3>2. \A s \in Subscribers : m[s] # None =>
            cursors[s] # None /\ cursors[s].last <= m[s].last /\ Beside(s, m[s].last, m[s].failures)
      BY <1>0, <1>2, <2>1 DEF Rounds, Counts, Forward, Beside
    <3> QED BY <1>1, <1>2, <3>1, <3>2, CountsSave
  <2>2. CASE at # None
    <3>1. PICK r \in registry : r = at.sub BY <1>0, <2>2, CursorsAreNumbers
    <3>2. /\ r \in Subscribers /\ at.last \in 0 .. upTo /\ upTo <= committed /\ upTo \in Nat
          /\ at.failures \in 0 .. MaxFailures - 1 /\ committed <= Len(log) /\ Len(log) \in Nat /\ committed \in Nat
      BY <1>0, <2>2, <3>1, CursorsAreNumbers
    <3>3. [last |-> at.last, failures |-> at.failures] \in Cursor
      BY <1>0, <3>2, EventsAssumption DEF Cursor, Types
    <3>4. m = [moved EXCEPT ![r] = [last |-> at.last, failures |-> at.failures]] BY <1>2, <2>2, <3>1
    <3>5. /\ m \in [Subscribers -> Cursor \cup {None}]
          /\ m[r].last = at.last /\ m[r].failures = at.failures
          /\ \A s \in Subscribers \ {r} : m[s] = moved[s]
      BY <1>0, <3>2, <3>3, <3>4 DEF Types
    <3>6. \A s \in Subscribers : m[s] # None =>
            cursors[s] # None /\ cursors[s].last <= m[s].last /\ Beside(s, m[s].last, m[s].failures)
      <4>1. cursors[r] # None /\ cursors[r].last <= m[r].last /\ Beside(r, m[r].last, m[r].failures)
        <5>1. cursors[r] # None /\ cursors[r].last <= at.last BY <1>0, <2>2, <3>1, <3>2 DEF Rounds
        <5>2. Beside(r, at.last, at.failures) BY <2>2, <3>1 DEF Beside
        <5> QED BY <3>5, <5>1, <5>2
      <4> QED BY <1>0, <3>5, <4>1 DEF Rounds, Counts, Forward, Beside
    <3> QED BY <1>1, <1>2, <3>5, <3>6, CountsSave
  <2> QED BY <2>1, <2>2
<1> QED BY <1>2 DEF DatabaseError

LEMMA CountsStep == Safe /\ Counts /\ [Next]_vars => Counts'
<1> SUFFICES ASSUME Safe, Counts, [Next]_vars PROVE Counts' OBVIOUS
<1>1. CASE \/ (\E event \in Event : RecordEvent(event)) \/ DeferUntilCommitted \/ Commit \/ Rollback
           \/ (\E o \in Deletable : PurgeOwner(o))
  BY <1>1, CountsOutside
<1>2. CASE DispatchEvents BY <1>2, CountsStart
<1>3. CASE \E s \in Subscribers : TakeSubscriber(s) BY <1>3, CountsTake
<1>4. CASE \E e \in Ids : Handle(e) \/ Throw(e) BY <1>4, CountsHandle, CountsThrow
<1>5. CASE Reached BY <1>5, CountsReached
<1>6. CASE EndRound BY <1>6, CountsRoundEnds
<1>7. CASE DatabaseError BY <1>7, CountsError
<1>8. CASE Crash BY <1>8, CountsCrash
<1>9. CASE \E S \in SUBSET Subscribers : Boot(S) BY <1>9, CountsBoot
<1>10. CASE \E n \in Ids : SweepEvents(n) BY <1>10, CountsSwept
<1>11. CASE UNCHANGED vars
  <2>1. UNCHANGED <<log, committed, swept, gone, cursors, at, moved, failed, skipped>>
    BY <1>11 DEF vars, store, locals, history
  <2>2. Kept BY <2>1, CursorsAreNumbers, TriesAreNumbers DEF Kept, Safe, Counts
  <2> QED BY <2>1, <2>2, CountsUntouched
<1> QED BY <1>1, <1>2, <1>3, <1>4, <1>5, <1>6, <1>7, <1>8, <1>9, <1>10, <1>11 DEF Next

LEMMA AlwaysCounts == Spec => []Counts
<1>1. Init => Counts
  <2> SUFFICES ASSUME Init PROVE Counts OBVIOUS
  <2>1. Tries BY EventsAssumption DEF Init, Tries
  <2> QED BY <2>1 DEF Init, Counts, Forward, Places, Beside, SkipsAreEarned
<1> QED BY <1>1, SafeHolds, CountsStep, PTL DEF Spec

\* Whatever crashes, failed saves, sweeps and deletions happen, an event is skipped after
\* MAX_FAILURES tries of it, or with tries taken over from an event purged before it: the
\* count beside the cursor has no other way to be of another event.
THEOREM SkipsAreOfTried == Spec => []SkipsAreEarned
<1>1. Counts => SkipsAreEarned BY DEF Counts
<1> QED BY <1>1, AlwaysCounts, PTL

\* Where no account is deleted, an event is skipped only after MAX_FAILURES tries of it.
THEOREM EveryTryIsTaken == Deletable = {} /\ Spec => []SkipsAfterMaxFailures
<1> DEFINE NoneGone == Deletable = {} /\ gone = {}
<1>1. Deletable = {} /\ Init => NoneGone BY DEF Init
<1>2. NoneGone /\ [Next]_vars => NoneGone'
  BY DEF Next, vars, store, RecordEvent, DeferUntilCommitted, Commit, Rollback, DispatchEvents, TakeSubscriber,
         Handle, Throw, Reached, EndRound, DatabaseError, Crash, Boot, PurgeOwner, SweepEvents
<1>3. NoneGone /\ SkipsAreEarned => SkipsAfterMaxFailures
  BY DEF SkipsAreEarned, GivenUp, PurgedBefore, SkipsAfterMaxFailures
<1> QED BY <1>1, <1>2, <1>3, SkipsAreOfTried, PTL DEF Spec

\* Every variable of the dispatcher keeps its type: cursors and turns stay within the log
\* and below MAX_FAILURES, and the log within what was recorded, whatever rolls back.
THEOREM EventTypesHold == Spec => []TypeOK
<1> DEFINE Flags == gone \subseteq Deletable /\ {deferred, retry, again, lossy, cut} \subseteq BOOLEAN
<1>1. Init => Flags BY DEF Init
<1>2. Flags /\ [Next]_vars => Flags'
  <2> SUFFICES ASSUME Flags, [Next]_vars PROVE Flags' OBVIOUS
  <2>1. gone' \subseteq Deletable
    BY DEF Next, vars, store, RecordEvent, DeferUntilCommitted, Commit, Rollback, DispatchEvents, TakeSubscriber,
           Handle, Throw, Reached, EndRound, DatabaseError, Crash, Boot, PurgeOwner, SweepEvents
  <2>2. deferred' \in BOOLEAN /\ retry' \in BOOLEAN
    BY DEF Next, vars, timers, RecordEvent, DeferUntilCommitted, Commit, Rollback, DispatchEvents, TakeSubscriber,
           Handle, Throw, Reached, EndRound, DatabaseError, Crash, Boot, PurgeOwner, SweepEvents
  <2>3. again' \in BOOLEAN
    BY DEF Next, vars, locals, RecordEvent, DeferUntilCommitted, Commit, Rollback, DispatchEvents, TakeSubscriber,
           Handle, Throw, Reached, EndRound, DatabaseError, Crash, Boot, PurgeOwner, SweepEvents,
           StartDispatch, EndDispatch, Round, HandlerWrites
  <2>4. lossy' \in BOOLEAN /\ cut' \in BOOLEAN
    BY DEF Next, vars, history, RecordEvent, DeferUntilCommitted, Commit, Rollback, DispatchEvents, TakeSubscriber,
           Handle, Throw, Reached, EndRound, DatabaseError, Crash, Boot, PurgeOwner, SweepEvents
  <2> QED BY <2>1, <2>2, <2>3, <2>4
<1>3. Safe /\ Counts /\ Flags => TypeOK
  <2> SUFFICES ASSUME Safe, Counts, Flags PROVE TypeOK OBVIOUS
  <2>1. Len(log) \in Nat /\ Len(log) <= MaxEvents /\ committed \in 0 .. Len(log) /\ upTo \in 0 .. committed
        /\ MaxEvents \in Nat
    BY EventsAssumption DEF Safe, Types
  <2>2. upTo \in 0 .. MaxEvents BY <2>1
  <2>3. 1 .. committed \subseteq Ids BY <2>1 DEF Ids
  <2> QED BY <2>2, <2>3 DEF Safe, Types, Counts, Tries, TypeOK
<1> QED BY <1>1, <1>2, <1>3, SafeHolds, AlwaysCounts, PTL DEF Spec

(***************************************************************************)
(* The dispatcher implements EventDelivery.                                *)
(***************************************************************************)
\* What the outbox's log is past its rows: only grown by what commits.
LogGrows ==
  committed \in Nat /\ committed' \in Nat /\ committed <= committed' /\ \A e \in 1 .. committed : log'[e] = log[e]

LEMMA GrowMaps == ASSUME LogGrows PROVE Delivery!Grows
BY DEF LogGrows, Delivery!Grows

\* Where a subscriber is: in the table, behind what is committed, and further only in a
\* dispatch.
LEMMA PlacesAre ==
  ASSUME Safe, Forward, NEW s \in Subscribers
  PROVE  /\ committed \in Nat /\ Place(s) \in 0 .. committed /\ SavedPlace(s) \in 0 .. committed
         /\ s \notin registry => Place(s) = 0 /\ SavedPlace(s) = 0
         /\ moved[s] = None /\ (at = None \/ at.sub # s) => Place(s) = SavedPlace(s)
         /\ SavedPlace(s) <= Place(s)
<1>0. Types /\ Rounds BY DEF Safe
<1>1. committed \in Nat /\ upTo \in 0 .. committed BY <1>0, CursorsAreNumbers
<1>2. cursors[s] # None => s \in registry /\ cursors[s].last \in 0 .. committed BY <1>0, CursorsAreNumbers DEF Rounds
<1>3. at # None /\ at.sub = s => s \in registry /\ at.last \in 0 .. committed /\ cursors[s] # None /\ cursors[s].last <= at.last
  BY <1>0, <1>1, CursorsAreNumbers DEF Rounds
<1>4. moved[s] # None => s \in registry /\ moved[s].last \in 0 .. committed /\ cursors[s] # None /\ cursors[s].last <= moved[s].last
  BY <1>0, CursorsAreNumbers DEF Rounds, Forward
<1> QED BY <1>1, <1>2, <1>3, <1>4 DEF Place, SavedPlace

\* Nobody moves.
Still == \A s \in Subscribers : Place(s)' = Place(s) /\ SavedPlace(s)' = SavedPlace(s)

LEMMA PublishMaps ==
  ASSUME LogGrows, Still, UNCHANGED <<swept, gone, registry, handled, skipped>>
  PROVE  Delivery!Publish
<1>1. [s \in Subscribers |-> Place(s)]' = [s \in Subscribers |-> Place(s)] BY DEF Still
<1>2. [s \in Subscribers |-> SavedPlace(s)]' = [s \in Subscribers |-> SavedPlace(s)] BY DEF Still
<1> QED BY <1>1, <1>2, GrowMaps DEF Delivery!Publish

LEMMA WritesMap ==
  ASSUME Safe, (\E event \in Event : RecordEvent(event)) \/ DeferUntilCommitted \/ Commit \/ Rollback
  PROVE  Delivery!Publish
<1>0. Types /\ Rounds BY DEF Safe
<1>1. committed \in Nat /\ Len(log) \in Nat /\ committed <= Len(log) BY <1>0, CursorsAreNumbers
<1>2. UNCHANGED <<cursors, moved, at, swept, gone, registry, handled, skipped>>
  BY DEF RecordEvent, DeferUntilCommitted, Commit, Rollback, store, locals, history
<1>3. committed' \in {committed, Len(log)} /\ \A e \in 1 .. committed : log'[e] = log[e]
  <2>1. ASSUME NEW event \in Event, log' = Append(log, event) PROVE \A e \in 1 .. committed : log'[e] = log[e]
    BY <1>0, <1>1, <2>1, LogFacts
  <2>2. CASE \E event \in Event : RecordEvent(event) BY <2>1, <2>2 DEF RecordEvent
  <2>3. CASE Rollback BY <1>0, <2>3, LogFacts DEF Rollback
  <2>4. CASE DeferUntilCommitted \/ Commit BY <2>4 DEF DeferUntilCommitted, Commit, store
  <2> QED BY <2>2, <2>3, <2>4
<1>4. LogGrows BY <1>1, <1>3 DEF LogGrows
<1>5. Still BY <1>2 DEF Still, Place, SavedPlace
<1> QED BY <1>2, <1>4, <1>5, PublishMaps

LEMMA StartMaps == ASSUME Safe, DispatchEvents PROVE Delivery!Publish
<1>0. Types /\ Rounds BY DEF Safe
<1>1. /\ UNCHANGED <<log, committed, swept, gone, cursors, registry, handled, skipped>> /\ mode # "dispatch"
      /\ at' = None /\ moved' = [s \in Subscribers |-> None]
  BY DEF DispatchEvents, StartDispatch, Round, store
<1>2. at' = at /\ moved' = moved BY <1>0, <1>1 DEF Rounds, Types
<1>3. LogGrows BY <1>0, <1>1, CursorsAreNumbers DEF LogGrows
<1>4. Still BY <1>1, <1>2 DEF Still, Place, SavedPlace
<1> QED BY <1>1, <1>3, <1>4, PublishMaps

LEMMA TakeMaps == ASSUME Safe, NEW r \in Subscribers, TakeSubscriber(r) PROVE Delivery!Publish
<1>0. Types /\ Rounds BY DEF Safe
<1>1. /\ UNCHANGED <<log, committed, swept, gone, cursors, registry, moved, handled, skipped>>
      /\ at = None /\ r \in todo
      /\ \/ at' = at
         \/ at' = [sub |-> r, last |-> cursors[r].last, failures |-> cursors[r].failures]
  BY DEF TakeSubscriber, store, history
<1>2. moved[r] = None /\ cursors[r] # None BY <1>0, <1>1 DEF Rounds, Types
<1>3. LogGrows BY <1>0, <1>1, CursorsAreNumbers DEF LogGrows
<1>4. Still BY <1>1, <1>2 DEF Still, Place, SavedPlace
<1> QED BY <1>1, <1>3, <1>4, PublishMaps

\* What is ahead of the subscriber that has its turn is what its dispatch reads, and what
\* was committed since.
LEMMA AheadIs ==
  ASSUME Safe, mode = "dispatch", at # None
  PROVE  /\ at.sub \in registry /\ at.sub \in Subscribers /\ Place(at.sub) = at.last
         /\ \A e \in Delivery!Ahead(at.sub) : e \in Nat /\ (e <= upTo => e \in NextFor(at.sub, at.last))
         /\ NextFor(at.sub, at.last) \subseteq Delivery!Ahead(at.sub)
<1>0. Types /\ Rounds BY DEF Safe
<1>1. /\ committed = Len(log) /\ committed \in Nat /\ upTo \in 0 .. committed
      /\ at.sub \in registry /\ at.sub \in Subscribers /\ at.last \in 0 .. upTo
  BY <1>0, CursorsAreNumbers DEF Rounds, Types
<1>2. Place(at.sub) = at.last BY DEF Place
<1>3. PICK r \in Subscribers : r = at.sub BY <1>1
<1>4. Delivery!Ahead(r) = {e \in 1 .. committed : /\ e \notin swept /\ log[e].owner \notin gone /\ e > at.last
                                                  /\ log[e].kind \in Takes[r]}
  <2>1. [s \in Subscribers |-> Place(s)][r] = at.last BY <1>2, <1>3
  <2>2. DOMAIN [e \in 1 .. committed |-> log[e]] = 1 .. committed OBVIOUS
  <2> QED BY <2>1, <2>2 DEF Delivery!Ahead, Delivery!Kept
<1>5. NextFor(r, at.last) = {e \in at.last + 1 .. upTo : Wants(r, e) /\ e \in Rows} BY DEF NextFor
<1> QED BY <1>1, <1>2, <1>3, <1>4, <1>5 DEF Wants, Rows, Recorded

\* One subscriber moves on.
OneMoves(r, n) ==
  /\ Place(r)' = n /\ \A s \in Subscribers \ {r} : Place(s)' = Place(s)
  /\ \A s \in Subscribers : SavedPlace(s)' = SavedPlace(s)

LEMMA MovesMap ==
  ASSUME Safe, mode = "dispatch", at # None, NEW r \in registry, r = at.sub, NEW n \in 1 .. committed, n > at.last,
         OneMoves(r, n), UNCHANGED registry
  PROVE  /\ Delivery!Moves(r, n)
         /\ [s \in Subscribers |-> SavedPlace(s)]' = [s \in Subscribers |-> SavedPlace(s)]
<1>1. r \in Subscribers /\ Place(r) = at.last BY AheadIs
<1>2. [s \in Subscribers |-> Place(s)]' = [[s \in Subscribers |-> Place(s)] EXCEPT ![r] = n] BY <1>1 DEF OneMoves
<1>3. [s \in Subscribers |-> Place(s)][r] = at.last BY <1>1
<1> QED BY <1>1, <1>2, <1>3 DEF Delivery!Moves, OneMoves

LEMMA DeliverMaps ==
  ASSUME Safe, mode = "dispatch", at # None, NEW e \in Ids, IsNext(e), HandlerWrites,
         at' = [sub |-> at.sub, last |-> e, failures |-> 0], UNCHANGED <<swept, gone, cursors, registry, moved>>,
         \/ handled' = [handled EXCEPT ![at.sub] = @ \cup {e}] /\ skipped' = skipped
         \/ skipped' = [skipped EXCEPT ![at.sub] = @ \cup {e}] /\ handled' = handled
  PROVE  Delivery!Deliver(at.sub)
<1>0. Types /\ Rounds BY DEF Safe
<1>1. PICK r \in registry : r = at.sub BY AheadIs
<1>2. LogGrows BY HandlerWrote DEF LogGrows
<1>3. r \in Subscribers /\ committed \in Nat /\ upTo \in 0 .. committed /\ at.last \in 0 .. upTo
  BY <1>0, <1>1, CursorsAreNumbers
<1>4. e \in NextFor(r, at.last) /\ \A d \in NextFor(r, at.last) : e <= d BY <1>1 DEF IsNext
<1>5. e \in 1 .. committed /\ e > at.last /\ e <= upTo BY <1>3, <1>4 DEF NextFor
<1>6. OneMoves(r, e)
  <2>1. at'.sub = r /\ at'.last = e /\ at' # None
    <3>1. [sub |-> at.sub, last |-> e, failures |-> 0] \in Turn
      BY <1>1, <1>3, EventsAssumption DEF Turn, Ids
    <3> QED BY <1>1, <3>1, NoneAssumption
  <2> QED BY <1>1, <2>1 DEF OneMoves, Place, SavedPlace
<1>7. e \in Delivery!Ahead(r) /\ \A d \in Delivery!Ahead(r) : e <= d
  <2>1. \A d \in Delivery!Ahead(r) : d \in Nat /\ (d <= upTo => d \in NextFor(r, at.last)) BY <1>1, AheadIs
  <2> QED BY <1>1, <1>3, <1>4, <1>5, <2>1, AheadIs
<1>8. /\ Delivery!Moves(r, e)
      /\ [s \in Subscribers |-> SavedPlace(s)]' = [s \in Subscribers |-> SavedPlace(s)]
  BY <1>1, <1>5, <1>6, MovesMap
<1>9. DOMAIN [d \in 1 .. committed |-> log[d]] = 1 .. committed OBVIOUS
<1>10. \/ handled' = [handled EXCEPT ![r] = @ \cup {e}] /\ skipped' = skipped
       \/ skipped' = [skipped EXCEPT ![r] = @ \cup {e}] /\ handled' = handled
  BY <1>1
<1>11. Delivery!Deliver(r) BY <1>2, <1>5, <1>7, <1>8, <1>9, <1>10, GrowMaps DEF Delivery!Deliver
<1> QED BY <1>1, <1>11

LEMMA HandleMaps ==
  ASSUME Safe, NEW e \in Ids, Handle(e)
  PROVE  \E s \in Subscribers : Delivery!Deliver(s)
<1>1. /\ mode = "dispatch" /\ at # None /\ IsNext(e) /\ HandlerWrites
      /\ at' = [sub |-> at.sub, last |-> e, failures |-> 0]
      /\ handled' = [handled EXCEPT ![at.sub] = @ \cup {e}]
      /\ UNCHANGED <<swept, gone, cursors, registry, moved, skipped>>
  BY DEF Handle
<1>2. at.sub \in Subscribers BY <1>1, AheadIs
<1> QED BY <1>1, <1>2, DeliverMaps

LEMMA ThrowMaps ==
  ASSUME Safe, NEW e \in Ids, Throw(e)
  PROVE  Delivery!Publish \/ \E s \in Subscribers : Delivery!Deliver(s)
<1>0. Types /\ Rounds BY DEF Safe
<1>1. /\ mode = "dispatch" /\ at # None /\ IsNext(e) /\ HandlerWrites
      /\ UNCHANGED <<swept, gone, cursors, registry, handled>>
  BY DEF Throw
<1>2. PICK r \in registry : r = at.sub /\ r \in Subscribers /\ r \in todo BY <1>0, <1>1, AheadIs DEF Rounds
<1>3. CASE TriesAgain(at.failures + 1)
  <2>1. /\ moved' = [moved EXCEPT ![r] = [last |-> at.last, failures |-> at.failures + 1]]
        /\ at' = None /\ skipped' = skipped
    BY <1>2, <1>3 DEF Throw, Leave
  <2>2. [last |-> at.last, failures |-> at.failures + 1] \in Cursor
    <3>1. at.last \in 0 .. MaxEvents /\ at.failures \in 0 .. MaxFailures - 1 /\ at.failures + 1 < MaxFailures
      BY <1>0, <1>1, <1>3, NoneAssumption DEF Types, Turn, TriesAgain
    <3> QED BY <3>1, EventsAssumption DEF Cursor
  <2>3. [last |-> at.last, failures |-> at.failures + 1] # None BY <2>2, NoneAssumption
  <2>4. moved'[r] # None /\ moved'[r].last = at.last /\ \A s \in Subscribers \ {r} : moved'[s] = moved[s]
    BY <1>0, <1>2, <2>1, <2>3 DEF Types
  <2>5. Still BY <1>1, <1>2, <2>1, <2>4 DEF Still, Place, SavedPlace
  <2>6. LogGrows BY <1>1, HandlerWrote DEF LogGrows
  <2> QED BY <1>1, <2>1, <2>5, <2>6, PublishMaps
<1>4. CASE ~TriesAgain(at.failures + 1)
  <2>1. /\ at' = [sub |-> at.sub, last |-> e, failures |-> 0]
        /\ skipped' = [skipped EXCEPT ![at.sub] = @ \cup {e}] /\ moved' = moved
    BY <1>4 DEF Throw
  <2> QED BY <1>1, <1>2, <2>1, DeliverMaps
<1> QED BY <1>3, <1>4

LEMMA ReachedMaps ==
  ASSUME Safe, Reached
  PROVE  Delivery!Publish \/ \E s \in Subscribers : Delivery!PassOver(s)
<1>0. Types /\ Rounds BY DEF Safe
<1>1. /\ mode = "dispatch" /\ at # None /\ NextFor(at.sub, at.last) = {} /\ at' = None
      /\ UNCHANGED <<log, committed, swept, gone, cursors, registry, handled, skipped>>
  BY DEF Reached, Leave, store, history
<1>2. PICK r \in registry : r = at.sub /\ r \in Subscribers /\ r \in todo BY <1>0, <1>1, AheadIs DEF Rounds
<1>3. moved' = [moved EXCEPT ![r] = [last |-> upTo, failures |-> at.failures]] BY <1>2 DEF Reached, Leave
<1>4. committed \in Nat /\ upTo \in 0 .. committed /\ at.last \in 0 .. upTo /\ at.failures \in 0 .. MaxFailures - 1
  BY <1>0, <1>1, CursorsAreNumbers
<1>5. [last |-> upTo, failures |-> at.failures] \in Cursor BY <1>0, <1>4, EventsAssumption DEF Cursor, Types
<1>6. moved'[r] # None /\ moved'[r].last = upTo /\ \A s \in Subscribers \ {r} : moved'[s] = moved[s]
  BY <1>0, <1>2, <1>3, <1>5, NoneAssumption DEF Types
<1>7. OneMoves(r, upTo) BY <1>1, <1>2, <1>6 DEF OneMoves, Place, SavedPlace
<1>8. CASE upTo = at.last
  <2>1. Still BY <1>1, <1>2, <1>7, <1>8 DEF Still, OneMoves, Place
  <2>2. LogGrows BY <1>1, <1>4 DEF LogGrows
  <2> QED BY <1>1, <2>1, <2>2, PublishMaps
<1>9. CASE upTo # at.last
  <2>1. upTo \in 1 .. committed /\ upTo > at.last BY <1>4, <1>9
  <2>2. \A e \in Delivery!Ahead(r) : e > upTo
    <3>1. \A e \in Delivery!Ahead(r) : e \in Nat /\ (e <= upTo => e \in NextFor(r, at.last)) BY <1>1, <1>2, AheadIs
    <3> QED BY <1>1, <1>2, <1>4, <3>1
  <2>3. /\ Delivery!Moves(r, upTo)
        /\ [s \in Subscribers |-> SavedPlace(s)]' = [s \in Subscribers |-> SavedPlace(s)]
    BY <1>1, <1>2, <1>7, <2>1, MovesMap
  <2>4. DOMAIN [d \in 1 .. committed |-> log[d]] = 1 .. committed OBVIOUS
  <2>5. Delivery!PassOver(r) BY <1>1, <2>1, <2>2, <2>3, <2>4 DEF Delivery!PassOver
  <2> QED BY <1>2, <2>5
<1> QED BY <1>8, <1>9

\* The dispatch saves where its subscribers got to.
LEMMA SaveMaps ==
  ASSUME Safe, NEW m \in [Subscribers -> Cursor \cup {None}],
         \A s \in Subscribers : m[s] # None => cursors[s] # None /\ cursors[s].last <= m[s].last /\ m[s].last = Place(s),
         \A s \in Subscribers : m[s] = None => SavedPlace(s) = Place(s),
         cursors' = Saved(m), at' = None, moved' = [s \in Subscribers |-> None],
         UNCHANGED <<log, committed, swept, gone, registry, handled, skipped>>
  PROVE  Delivery!Save
<1>0. Types /\ Rounds BY DEF Safe
<1>1. \A s \in Subscribers :
        /\ m[s] = None => cursors'[s] = cursors[s]
        /\ m[s] # None => /\ cursors'[s] # None
                          /\ cursors'[s].last \in {cursors[s].last, m[s].last}
                          /\ cursors[s].last <= cursors'[s].last /\ m[s].last <= cursors'[s].last
  BY <1>0, SavedIs
<1>2. ASSUME NEW s \in Subscribers PROVE SavedPlace(s)' = Place(s) /\ Place(s)' = Place(s)
  <2>1. Place(s)' = SavedPlace(s)' BY DEF Place, SavedPlace
  <2>2. CASE m[s] = None BY <1>1, <2>1, <2>2 DEF SavedPlace
  <2>3. CASE m[s] # None
    <3>1. cursors[s].last \in Nat /\ m[s].last \in Nat BY <1>0, <2>3, EventsAssumption DEF Types, Cursor
    <3>2. PICK a, b \in Nat : a = cursors[s].last /\ b = m[s].last BY <3>1
    <3>3. a <= b BY <2>3, <3>2
    <3>4. cursors'[s].last \in {a, b} /\ b <= cursors'[s].last BY <1>1, <2>3, <3>2
    <3>5. cursors'[s].last = m[s].last BY <3>2, <3>3, <3>4
    <3> QED BY <1>1, <2>1, <2>3, <3>5 DEF SavedPlace
  <2> QED BY <2>2, <2>3
<1>3. [s \in Subscribers |-> SavedPlace(s)]' = [s \in Subscribers |-> Place(s)] BY <1>2
<1>4. [s \in Subscribers |-> Place(s)]' = [s \in Subscribers |-> Place(s)] BY <1>2
<1> QED BY <1>3, <1>4 DEF Delivery!Save

LEMMA EndMaps == ASSUME Safe, Forward, EndRound PROVE Delivery!Save
<1>0. Types /\ Rounds BY DEF Safe
<1>1. /\ at = None /\ cursors' = Saved(moved) /\ at' = None /\ moved' = [s \in Subscribers |-> None]
      /\ UNCHANGED <<log, committed, swept, gone, registry, handled, skipped>>
  BY DEF EndRound, Round, EndDispatch
<1>2. PICK m \in [Subscribers -> Cursor \cup {None}] : m = moved BY <1>0 DEF Types
<1>3. \A s \in Subscribers : m[s] # None => cursors[s] # None /\ cursors[s].last <= m[s].last /\ m[s].last = Place(s)
  BY <1>0, <1>1, <1>2 DEF Rounds, Forward, Place
<1>4. \A s \in Subscribers : m[s] = None => SavedPlace(s) = Place(s) BY <1>1, <1>2 DEF Place, SavedPlace
<1>5. cursors' = Saved(m) BY <1>1, <1>2
<1> QED BY <1>1, <1>3, <1>4, <1>5, SaveMaps

\* What is not saved is lost: everybody is where the table says.
LEMMA LoseMaps ==
  ASSUME at' = None, moved' = [s \in Subscribers |-> None], \A e \in 1 .. committed : log'[e] = log[e],
         UNCHANGED <<committed, swept, gone, cursors, registry, handled, skipped>>
  PROVE  Delivery!Lose
<1>1. [s \in Subscribers |-> Place(s)]' = [s \in Subscribers |-> SavedPlace(s)] BY DEF Place, SavedPlace
<1>2. [s \in Subscribers |-> SavedPlace(s)]' = [s \in Subscribers |-> SavedPlace(s)] BY DEF SavedPlace
<1>3. [e \in 1 .. committed |-> log[e]]' = [e \in 1 .. committed |-> log[e]] OBVIOUS
<1> QED BY <1>1, <1>2, <1>3 DEF Delivery!Lose

LEMMA ErrorMaps == ASSUME Safe, Forward, DatabaseError PROVE Delivery!Save \/ Delivery!Lose
<1>0. Types /\ Rounds BY DEF Safe
<1>1. /\ mode = "dispatch" /\ at' = None /\ moved' = [s \in Subscribers |-> None]
      /\ UNCHANGED <<log, committed, swept, gone, registry, handled, skipped>>
  BY DEF DatabaseError, EndDispatch
<1>2. CASE cursors' = cursors BY <1>1, <1>2, LoseMaps
<1>3. ASSUME NEW m, m = IF at = None THEN moved
                        ELSE [moved EXCEPT ![at.sub] = [last |-> at.last, failures |-> at.failures]],
             cursors' = Saved(m)
      PROVE  Delivery!Save
  <2>1. CASE at = None
    <3>1. m = moved /\ m \in [Subscribers -> Cursor \cup {None}] BY <1>0, <1>3, <2>1 DEF Types
    <3>2. \A s \in Subscribers : m[s] # None => cursors[s] # None /\ cursors[s].last <= m[s].last /\ m[s].last = Place(s)
      BY <1>0, <2>1, <3>1 DEF Rounds, Forward, Place
    <3>3. \A s \in Subscribers : m[s] = None => SavedPlace(s) = Place(s) BY <2>1, <3>1 DEF Place, SavedPlace
    <3> QED BY <1>1, <1>3, <3>1, <3>2, <3>3, SaveMaps
  <2>2. CASE at # None
    <3>1. PICK r \in registry : r = at.sub /\ r \in Subscribers BY <1>0, <1>1, <2>2, AheadIs
    <3>2. /\ at.last \in 0 .. upTo /\ upTo <= committed /\ upTo \in Nat /\ committed \in Nat
          /\ at.failures \in 0 .. MaxFailures - 1 /\ cursors[r] # None /\ cursors[r].last <= at.last
      BY <1>0, <2>2, <3>1, CursorsAreNumbers DEF Rounds
    <3>3. [last |-> at.last, failures |-> at.failures] \in Cursor
      BY <1>0, <3>2, EventsAssumption, CursorsAreNumbers DEF Cursor, Types
    <3>4. m = [moved EXCEPT ![r] = [last |-> at.last, failures |-> at.failures]] BY <1>3, <2>2, <3>1
    <3>5. /\ m \in [Subscribers -> Cursor \cup {None}]
          /\ m[r].last = at.last /\ m[r] # None /\ \A s \in Subscribers \ {r} : m[s] = moved[s]
      BY <1>0, <3>1, <3>3, <3>4, NoneAssumption DEF Types
    <3>6. \A s \in Subscribers : m[s] # None => cursors[s] # None /\ cursors[s].last <= m[s].last /\ m[s].last = Place(s)
      <4>1. ASSUME NEW s \in Subscribers, s # r, m[s] # None
            PROVE  cursors[s] # None /\ cursors[s].last <= m[s].last /\ m[s].last = Place(s)
        BY <1>0, <3>1, <3>5, <4>1 DEF Rounds, Forward, Place
      <4>2. m[r].last = Place(r) BY <2>2, <3>1, <3>5 DEF Place
      <4> QED BY <3>2, <3>5, <4>1, <4>2
    <3>7. \A s \in Subscribers : m[s] = None => SavedPlace(s) = Place(s)
      BY <3>1, <3>5 DEF Place, SavedPlace
    <3> QED BY <1>1, <1>3, <3>5, <3>6, <3>7, SaveMaps
  <2> QED BY <2>1, <2>2
<1> QED BY <1>2, <1>3 DEF DatabaseError

LEMMA CrashMaps == ASSUME Safe, Crash PROVE Delivery!Lose
<1>1. /\ at' = None /\ moved' = [s \in Subscribers |-> None] /\ log' = SubSeq(log, 1, committed)
      /\ UNCHANGED <<committed, swept, gone, cursors, registry, handled, skipped>>
  BY DEF Crash
<1>2. \A e \in 1 .. committed : log'[e] = log[e] BY <1>1, LogFacts DEF Safe
<1> QED BY <1>1, <1>2, LoseMaps

LEMMA BootMaps ==
  ASSUME Safe, NEW S \in SUBSET Subscribers, Boot(S)
  PROVE  Delivery!Join \/ Delivery!Publish
<1>0. Types /\ Rounds BY DEF Safe
<1>1. /\ mode = "down" /\ registry' = S /\ registry \subseteq S
      /\ cursors' = [s \in Subscribers |->
           IF s \in S /\ cursors[s] = None THEN [last |-> NewestEventId, failures |-> 0] ELSE cursors[s]]
      /\ UNCHANGED <<log, committed, swept, gone, moved, at, handled, skipped>>
  BY DEF Boot
<1>2. at = None /\ committed = Len(log) /\ committed \in Nat /\ \A s \in Subscribers : moved[s] = None
  BY <1>0, <1>1, CursorsAreNumbers DEF Rounds
<1>3. NewestEventId \in 0 .. committed /\ \A e \in Rows : e <= NewestEventId BY <1>0, <1>2, NewestIsNewest
<1>4. \A s \in Subscribers : cursors[s] = None <=> s \notin registry BY <1>0 DEF Rounds
<1>5. [last |-> NewestEventId, failures |-> 0] # None
  BY <1>0, <1>2, <1>3, NoneAssumption, EventsAssumption DEF Cursor, Types
<1>6. ASSUME NEW s \in Subscribers
      PROVE  /\ Place(s) = SavedPlace(s) /\ Place(s)' = SavedPlace(s)'
             /\ SavedPlace(s)' = IF s \in registry' \ registry THEN NewestEventId ELSE SavedPlace(s)
  BY <1>1, <1>2, <1>4, <1>5 DEF Place, SavedPlace
<1>7. CASE registry' = registry
  <2>1. Still BY <1>6, <1>7 DEF Still
  <2>2. LogGrows BY <1>1, <1>2 DEF LogGrows
  <2> QED BY <1>1, <1>7, <2>1, <2>2, PublishMaps
<1>8. CASE registry' # registry
  <2>1. \A e \in Delivery!Kept : e <= NewestEventId
    BY <1>2, <1>3 DEF Delivery!Kept, Rows, Recorded
  <2>2. [s \in Subscribers |-> Place(s)]' =
          [s \in Subscribers |-> IF s \in registry' \ registry THEN NewestEventId ELSE [t \in Subscribers |-> Place(t)][s]]
    BY <1>6
  <2>3. [s \in Subscribers |-> SavedPlace(s)]' =
          [s \in Subscribers |-> IF s \in registry' \ registry THEN NewestEventId ELSE [t \in Subscribers |-> SavedPlace(t)][s]]
    BY <1>6
  <2>4. NewestEventId \in {0} \cup DOMAIN [e \in 1 .. committed |-> log[e]] BY <1>2, <1>3
  <2>5. [e \in 1 .. committed |-> log[e]]' = [e \in 1 .. committed |-> log[e]] BY <1>1
  <2> QED BY <1>1, <1>8, <2>1, <2>2, <2>3, <2>4, <2>5 DEF Delivery!Join
<1> QED BY <1>7, <1>8

LEMMA RemovalsMap ==
  ASSUME Safe, (\E o \in Deletable : PurgeOwner(o)) \/ (\E n \in Ids : SweepEvents(n))
  PROVE  Delivery!Delete \/ Delivery!Expire
<1>0. Types /\ Rounds BY DEF Safe
<1>1. /\ mode = "idle" /\ UNCHANGED <<log, committed, cursors, registry, at, moved, handled, skipped>>
  BY DEF PurgeOwner, SweepEvents, locals, history
<1>2. at = None /\ committed = Len(log) /\ committed \in Nat BY <1>0, <1>1, CursorsAreNumbers DEF Rounds
<1>3. Still BY <1>1 DEF Still, Place, SavedPlace
<1>4. /\ [s \in Subscribers |-> Place(s)]' = [s \in Subscribers |-> Place(s)]
      /\ [s \in Subscribers |-> SavedPlace(s)]' = [s \in Subscribers |-> SavedPlace(s)]
      /\ [e \in 1 .. committed |-> log[e]]' = [e \in 1 .. committed |-> log[e]]
  BY <1>1, <1>3 DEF Still
<1>5. CASE \E o \in Deletable : PurgeOwner(o)
  <2>1. gone \subseteq gone' /\ swept' = swept BY <1>5 DEF PurgeOwner
  <2> QED BY <1>1, <1>4, <2>1 DEF Delivery!Delete
<1>6. ASSUME NEW n \in Ids, SweepEvents(n) PROVE Delivery!Expire
  <2>1. n \in 1 .. committed /\ swept' = swept \cup 1 .. n /\ gone' = gone BY <1>2, <1>6 DEF SweepEvents, Recorded
  <2>2. \A s \in registry : s \in Subscribers /\ n <= SavedPlace(s)
    BY <1>0, <1>6 DEF SweepEvents, Passed, SavedPlace, Rounds, Types
  <2>3. \A s \in registry : n <= [t \in Subscribers |-> SavedPlace(t)][s] BY <2>2
  <2>4. n \in DOMAIN [e \in 1 .. committed |-> log[e]] BY <2>1
  <2> QED BY <1>1, <1>4, <2>1, <2>3, <2>4 DEF Delivery!Expire
<1> QED BY <1>5, <1>6

LEMMA DeliveryStep == Safe /\ Forward /\ [Next]_vars => [Delivery!Next]_Delivery!vars
<1> SUFFICES ASSUME Safe, Forward, [Next]_vars PROVE Delivery!Next OBVIOUS
<1> USE DEF Delivery!Next
<1>1. CASE (\E event \in Event : RecordEvent(event)) \/ DeferUntilCommitted \/ Commit \/ Rollback BY <1>1, WritesMap
<1>2. CASE DispatchEvents BY <1>2, StartMaps
<1>3. CASE \E s \in Subscribers : TakeSubscriber(s) BY <1>3, TakeMaps
<1>4. CASE \E e \in Ids : Handle(e) \/ Throw(e) BY <1>4, HandleMaps, ThrowMaps
<1>5. CASE Reached BY <1>5, ReachedMaps
<1>6. CASE EndRound BY <1>6, EndMaps
<1>7. CASE DatabaseError BY <1>7, ErrorMaps
<1>8. CASE Crash BY <1>8, CrashMaps
<1>9. CASE \E S \in SUBSET Subscribers : Boot(S) BY <1>9, BootMaps
<1>10. CASE (\E o \in Deletable : PurgeOwner(o)) \/ (\E n \in Ids : SweepEvents(n)) BY <1>10, RemovalsMap
<1>11. CASE UNCHANGED vars
  <2>1. UNCHANGED <<log, committed, swept, gone, cursors, registry, at, moved, handled, skipped>>
    BY <1>11 DEF vars, store, locals, history
  <2>2. LogGrows BY <2>1, CursorsAreNumbers DEF LogGrows, Safe
  <2>3. Still BY <2>1 DEF Still, Place, SavedPlace
  <2> QED BY <2>1, <2>2, <2>3, PublishMaps
<1> QED BY <1>1, <1>2, <1>3, <1>4, <1>5, <1>6, <1>7, <1>8, <1>9, <1>10, <1>11 DEF Next

\* Every behaviour of the dispatcher is one of EventDelivery, for any subscribers, events
\* and releases and whatever crashes, errors, rollbacks and deletions there are.
THEOREM DispatcherIsDelivery == Spec => ImplementsDelivery
<1>1. Init => Delivery!Init
  <2> SUFFICES ASSUME Init PROVE Delivery!Init OBVIOUS
  <2>1. \A s \in Subscribers : Place(s) = 0 /\ SavedPlace(s) = 0 BY DEF Init, Place, SavedPlace
  <2>2. DOMAIN [e \in 1 .. committed |-> log[e]] = {} BY DEF Init
  <2> QED BY <2>1, <2>2 DEF Init, Delivery!Init
<1>2. Counts => Forward BY DEF Counts
<1> QED BY <1>1, <1>2, DeliveryStep, AlwaysCounts, SafeHolds, PTL DEF Spec, ImplementsDelivery, Delivery!Spec
=============================================================================
