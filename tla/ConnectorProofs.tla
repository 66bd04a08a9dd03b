-------------------------- MODULE ConnectorProofs --------------------------
(***************************************************************************)
(* Theorems about ConnectorSync, for every set of owners and of connectors *)
(* and every number of syncs under way, and about ConnectorIngest.         *)
(***************************************************************************)
EXTENDS ConnectorSync, ConnectorIngest, FiniteSetTheorems, FunctionTheorems, SequenceTheorems, TLAPS

Row == [status : Status, cursor : Cursor]
Edit == [conn : Connectors, status : Status, due : BOOLEAN]

Types ==
  /\ connector \in [Connectors -> Row]
  /\ dueList \in Seq(Connectors)
  /\ remote \in [Connectors -> Cursor]
  /\ sync \in [Threads -> SyncRun \cup {NoRun}]
  /\ activeRuns \subseteq Connectors
  /\ activeOwners \in [Owners -> Nat]

Busy(o) == {c \in activeRuns : OwnerOf[c] = o}

\* SlotsAreRight, with an owner's syncs counted by their connectors, which are finitely many.
Slots ==
  /\ activeRuns = {sync[t].conn : t \in Holding}
  /\ \A t, u \in Holding : sync[t].conn = sync[u].conn => t = u
  /\ \A o \in Owners : activeOwners[o] = Cardinality(Busy(o))

Inductive == Types /\ Slots

\* What the waiting edit read.
EditIsRead == edit # NoRun => edit \in Edit

(***************************************************************************)
(* Sets.                                                                   *)
(***************************************************************************)
LEMMA FewAreBusy ==
  ASSUME NEW S \in SUBSET Connectors
  PROVE  IsFiniteSet(S) /\ Cardinality(S) \in Nat
BY SyncAssumption, FS_Subset, FS_CardinalityType

LEMMA BusyIsFinite ==
  ASSUME Types, NEW o
  PROVE  Busy(o) \subseteq Connectors /\ IsFiniteSet(Busy(o)) /\ Cardinality(Busy(o)) \in Nat
<1>1. Busy(o) \subseteq Connectors BY DEF Busy, Types
<1> QED BY <1>1, FewAreBusy

LEMMA HoldingRuns ==
  ASSUME Types, NEW t \in Holding
  PROVE  t \in Threads /\ sync[t] \in SyncRun /\ sync[t].conn \in Connectors
         /\ sync[t] # NoRun /\ sync[t].clock # "freed"
BY DEF Types, Holding, Syncing, SyncRun

(***************************************************************************)
(* The list of due connectors.                                             *)
(***************************************************************************)
LEMMA DueListStays ==
  ASSUME Types, NEW c \in Connectors
  PROVE  /\ NotDue(c) \in Seq(Connectors) /\ DueNow(c) \in Seq(Connectors)
         /\ Append(dueList, c) \in Seq(Connectors)
<1>1. Append(dueList, c) \in Seq(Connectors) BY DEF Types
<1>2. DueNow(c) \in Seq(Connectors) BY <1>1 DEF DueNow, Types
<1>3. CASE ~IsDue(c) BY <1>1, <1>2, <1>3 DEF NotDue, Types
<1>4. CASE IsDue(c)
  <2> DEFINE i == Place(c)
             before == SubSeq(dueList, 1, i - 1)
             after == SubSeq(dueList, i + 1, Len(dueList))
  <2>1. i \in 1..Len(dueList) /\ Len(dueList) \in Nat BY <1>4 DEF IsDue, Place, Types
  <2>2. before \in Seq(Connectors)
    <3>1. \A k \in 1..(i - 1) : dueList[k] \in Connectors BY <2>1 DEF Types
    <3> QED BY <2>1, <3>1 DEF Types
  <2>3. after \in Seq(Connectors)
    <3>1. \A k \in (i + 1)..Len(dueList) : dueList[k] \in Connectors BY <2>1 DEF Types
    <3> QED BY <2>1, <3>1 DEF Types
  <2>4. NotDue(c) = before \o after BY <1>4 DEF NotDue
  <2> HIDE DEF before, after
  <2>5. NotDue(c) \in Seq(Connectors) BY <2>2, <2>3, <2>4
  <2> QED BY <1>1, <1>2, <2>5
<1> QED BY <1>3, <1>4

(***************************************************************************)
(* What the steps do to the slots.                                         *)
(***************************************************************************)
\* The syncs that hold a slot are the same.
LEMMA SlotsStay ==
  ASSUME Slots, UNCHANGED <<activeRuns, activeOwners>>, Holding' = Holding,
         \A t \in Holding : sync'[t].conn = sync[t].conn
  PROVE  Slots'
<1>1. \A o : Busy(o)' = Busy(o) BY DEF Busy
<1>2. {sync[t].conn : t \in Holding}' = {sync[t].conn : t \in Holding} OBVIOUS
<1> QED BY <1>1, <1>2 DEF Slots

\* A sync ends, or outlives its deadline.
LEMMA SlotsReleased ==
  ASSUME Inductive, NEW t \in Syncing, Freed(t),
         NEW x, x = NoRun \/ (x \in SyncRun /\ x.clock = "freed"),
         sync' = [sync EXCEPT ![t] = x]
  PROVE  /\ Slots' /\ sync' \in [Threads -> SyncRun \cup {NoRun}]
         /\ activeRuns' \subseteq Connectors /\ activeOwners' \in [Owners -> Nat]
<1> USE DEF Inductive
<1>1. t \in Threads /\ sync[t] \in SyncRun /\ sync[t].conn \in Connectors
  BY DEF Syncing, Types, SyncRun
<1>2. /\ sync' \in [Threads -> SyncRun \cup {NoRun}] /\ sync'[t] = x
      /\ \A u \in Threads \ {t} : sync'[u] = sync[u]
  BY <1>1 DEF Types
<1>3. Holding' = Holding \ {t} BY <1>1, <1>2 DEF Holding, Syncing
<1>4. CASE sync[t].clock = "freed"
  <2>1. UNCHANGED <<activeRuns, activeOwners>> BY <1>4 DEF Freed
  <2>2. t \notin Holding BY <1>4 DEF Holding
  <2>3. Holding' = Holding BY <1>3, <2>2
  <2>4. \A u \in Holding : sync'[u].conn = sync[u].conn BY <1>2, <2>2, HoldingRuns
  <2> QED BY <1>2, <2>1, <2>3, <2>4, SlotsStay DEF Types
<1>5. CASE sync[t].clock # "freed"
  <2>0. PICK c \in Connectors, o \in Owners : c = sync[t].conn /\ o = OwnerOf[c]
    BY <1>1, SyncAssumption
  <2>1. activeRuns' = activeRuns \ {c} /\ activeOwners' = [activeOwners EXCEPT ![o] = @ - 1]
    BY <1>5, <2>0 DEF Freed
  <2>2. t \in Holding /\ c \in activeRuns /\ o \in Owners
    BY <1>5, <2>0 DEF Holding, Slots
  <2>3. \A u \in Holding \ {t} : sync'[u] = sync[u] /\ sync[u].conn # c
    BY <1>2, <2>0, <2>2, HoldingRuns DEF Slots
  <2>4. activeRuns' = {sync'[u].conn : u \in Holding'}
    BY <1>3, <2>0, <2>1, <2>2, <2>3 DEF Slots
  <2>5. \A u, v \in Holding' : sync'[u].conn = sync'[v].conn => u = v
    BY <1>3, <2>3 DEF Slots
  <2>6. c \in Busy(o) /\ Busy(o)' = Busy(o) \ {c} /\ \A p \in Owners \ {o} : Busy(p)' = Busy(p)
    <3>1. c \in Busy(o) BY <2>0, <2>2 DEF Busy
    <3>2. Busy(o)' = Busy(o) \ {c} BY <2>1 DEF Busy
    <3>3. ASSUME NEW p \in Owners \ {o} PROVE Busy(p)' = Busy(p) BY <2>0, <2>1 DEF Busy
    <3> QED BY <3>1, <3>2, <3>3
  <2>7. Cardinality(Busy(o)') = Cardinality(Busy(o)) - 1
    <3>1. IsFiniteSet(Busy(o)) BY BusyIsFinite
    <3>2. Cardinality(Busy(o) \ {c}) = Cardinality(Busy(o)) - 1 BY <2>6, <3>1, FS_RemoveElement
    <3> QED BY <2>6, <3>2
  <2>8. Cardinality(Busy(o)') \in Nat
    <3>1. Busy(o)' \subseteq Connectors BY <2>6, BusyIsFinite
    <3> QED BY <3>1, FewAreBusy
  <2>9. \A p \in Owners : activeOwners'[p] = Cardinality(Busy(p)')
    <3>1. activeOwners'[o] = activeOwners[o] - 1 BY <2>1, <2>2 DEF Types
    <3>2. \A p \in Owners \ {o} : activeOwners'[p] = activeOwners[p] BY <2>1 DEF Types
    <3>3. ASSUME NEW p \in Owners PROVE activeOwners'[p] = Cardinality(Busy(p)')
      <4>1. activeOwners[p] = Cardinality(Busy(p)) /\ activeOwners[o] = Cardinality(Busy(o))
        BY <2>2 DEF Slots
      <4>2. CASE p = o
        <5>1. activeOwners'[p] = activeOwners[o] - 1 BY <3>1, <4>2
        <5>2. Cardinality(Busy(p)') = Cardinality(Busy(o)) - 1 BY <2>7, <4>2
        <5> QED BY <4>1, <5>1, <5>2
      <4>3. CASE p # o
        <5>1. activeOwners'[p] = activeOwners[p] /\ Busy(p)' = Busy(p) BY <2>6, <3>2, <4>3
        <5> QED BY <4>1, <5>1
      <4> QED BY <4>2, <4>3
    <3> QED BY <3>3
  <2>10. activeOwners' \in [Owners -> Nat] BY <2>1, <2>2, <2>7, <2>8 DEF Slots, Types
  <2>11. activeRuns' \subseteq Connectors BY <2>1 DEF Types
  <2> QED BY <1>2, <2>4, <2>5, <2>9, <2>10, <2>11 DEF Slots
<1> QED BY <1>4, <1>5

LEMMA SlotsEnded ==
  ASSUME Inductive, NEW t \in Syncing, Freed(t), sync' = [sync EXCEPT ![t] = NoRun]
  PROVE  /\ Slots' /\ sync' \in [Threads -> SyncRun \cup {NoRun}]
         /\ activeRuns' \subseteq Connectors /\ activeOwners' \in [Owners -> Nat]
<1> DEFINE x == NoRun
<1>1. x = NoRun \/ (x \in SyncRun /\ x.clock = "freed") OBVIOUS
<1>2. sync' = [sync EXCEPT ![t] = x] OBVIOUS
<1> HIDE DEF x
<1> QED BY <1>1, <1>2, SlotsReleased

\* A tick, or a request, starts syncs of connectors that have none.
LEMMA SlotsTaken ==
  ASSUME Inductive, NEW cs \in SUBSET Connectors, cs \cap activeRuns = {}, StartSync(cs)
  PROVE  /\ Slots' /\ sync' \in [Threads -> SyncRun \cup {NoRun}]
         /\ activeRuns' \subseteq Connectors /\ activeOwners' \in [Owners -> Nat]
<1> USE DEF Inductive
<1>1. PICK thread \in Assignments(cs) :
        sync' = [t \in Threads |-> IF \E c \in cs : thread[c] = t
                                   THEN NewRun(CHOOSE c \in cs : thread[c] = t) ELSE sync[t]]
  BY DEF StartSync
<1>2. /\ thread \in [cs -> Threads]
      /\ \A c, d \in cs : thread[c] = thread[d] => c = d
      /\ \A c \in cs : thread[c] \in Threads /\ sync[thread[c]] = NoRun
  BY <1>1 DEF Assignments, Injection, IsInjective, Idle, Syncing
<1>3. \A c \in Connectors : NewRun(c) \in SyncRun /\ NewRun(c).conn = c /\ NewRun(c).clock = "runs"
  BY DEF NewRun, SyncRun, Types, Phase
<1>4. \A c \in cs : sync'[thread[c]] = NewRun(c)
  BY <1>1, <1>2
<1>5. \A t \in Threads : (\A c \in cs : thread[c] # t) => sync'[t] = sync[t]
  BY <1>1
<1>6. sync' \in [Threads -> SyncRun \cup {NoRun}]
  <2>1. \A t \in Threads : sync'[t] \in SyncRun \cup {NoRun} BY <1>3, <1>4, <1>5 DEF Types
  <2> QED BY <1>1, <2>1
<1>7. \A c \in cs : thread[c] \in Holding' /\ thread[c] \notin Holding /\ sync'[thread[c]].conn = c
  BY <1>2, <1>3, <1>4, RunAssumption DEF Holding, Syncing
<1>8. \A t \in Holding : t \in Holding' /\ sync'[t] = sync[t]
  BY <1>2, <1>5, HoldingRuns DEF Holding, Syncing
<1>9. \A t \in Holding' : t \in Holding \/ \E c \in cs : thread[c] = t
  BY <1>5 DEF Holding, Syncing
<1>10. activeRuns' = activeRuns \cup cs BY DEF StartSync
<1>11. activeRuns' = {sync'[t].conn : t \in Holding'}
  <2>1. \A c \in activeRuns' : \E t \in Holding' : sync'[t].conn = c
    BY <1>7, <1>8, <1>10 DEF Slots
  <2>2. \A t \in Holding' : sync'[t].conn \in activeRuns'
    BY <1>7, <1>8, <1>9, <1>10 DEF Slots
  <2> QED BY <2>1, <2>2
<1>12. ASSUME NEW t \in Holding', NEW u \in Holding', sync'[t].conn = sync'[u].conn PROVE t = u
  <2>1. CASE t \in Holding /\ u \in Holding BY <1>8, <1>12, <2>1 DEF Slots
  <2>2. CASE t \notin Holding /\ u \notin Holding BY <1>7, <1>9, <1>12, <2>2
  <2>3. \A v \in Holding : \A c \in cs : sync'[v].conn # sync'[thread[c]].conn
    BY <1>7, <1>8 DEF Slots
  <2> QED BY <1>9, <1>12, <2>1, <2>2, <2>3
<1>13. ASSUME NEW o \in Owners
       PROVE  /\ activeOwners'[o] = Cardinality(Busy(o)') /\ activeOwners'[o] \in Nat
  <2> DEFINE new == {c \in cs : OwnerOf[c] = o}
  <2>1. IsFiniteSet(new) /\ Cardinality(new) \in Nat BY FewAreBusy
  <2>2. Busy(o)' = Busy(o) \cup new /\ Busy(o) \cap new = {} BY <1>10 DEF Busy
  <2>3. Cardinality(Busy(o)') = Cardinality(Busy(o)) + Cardinality(new)
    <3>1. IsFiniteSet(Busy(o)) /\ Cardinality(Busy(o)) \in Nat BY BusyIsFinite
    <3>2. Cardinality(Busy(o) \cup new) = Cardinality(Busy(o)) + Cardinality(new) - Cardinality({})
      BY <2>1, <2>2, <3>1, FS_Union
    <3> QED BY <2>1, <2>2, <3>1, <3>2, FS_EmptySet
  <2>4. activeOwners'[o] = activeOwners[o] + Cardinality(new) BY DEF StartSync
  <2> QED BY <2>1, <2>3, <2>4, BusyIsFinite DEF Slots
<1>14. activeOwners' \in [Owners -> Nat]
  <2>1. activeOwners' = [o \in Owners |-> activeOwners[o] + Cardinality({c \in cs : OwnerOf[c] = o})]
    BY DEF StartSync
  <2> QED BY <1>13, <2>1
<1>15. activeRuns' \subseteq Connectors BY <1>10 DEF Types
<1> QED BY <1>6, <1>11, <1>12, <1>13, <1>14, <1>15 DEF Slots

(***************************************************************************)
(* The steps.                                                              *)
(***************************************************************************)
LEMMA InductiveInit == SyncInit => Inductive
<1> SUFFICES ASSUME SyncInit PROVE Inductive OBVIOUS
<1> USE DEF SyncInit
<1>1. Types
  <2>1. <<>> \in Seq(Connectors) OBVIOUS
  <2>2. 0 \in Cursor BY SyncAssumption DEF Cursor
  <2> QED BY <2>1, <2>2 DEF Types, Row, Status
<1>2. Holding = {} BY DEF Holding, Syncing
<1>3. \A o : Busy(o) = {} BY DEF Busy
<1>4. Slots BY <1>2, <1>3, FS_EmptySet DEF Slots
<1> QED BY <1>1, <1>4 DEF Inductive

\* What an action writes to a row.
LEMMA WrittenKeeps ==
  ASSUME Types, NEW c \in Connectors, NEW row \in Row PROVE Written(c, row) \in [Connectors -> Row]
BY DEF Written, Types

LEMMA StatusReplaced ==
  ASSUME Types, NEW c, NEW s \in Status
  PROVE  [connector EXCEPT ![c].status = s] \in [Connectors -> Row]
BY DEF Types, Row

LEMMA RowReplaced ==
  ASSUME Types, NEW c \in Connectors, NEW s \in Status, NEW k \in Cursor
  PROVE  /\ [connector[c] EXCEPT !.status = s] \in Row
         /\ [connector[c] EXCEPT !.cursor = k] \in Row
         /\ [status |-> s, cursor |-> k] \in Row
         /\ Kept(c, s) \in Status
         /\ connector[c].status \in Status
BY DEF Types, Row, Kept, Status

LEMMA SucceedKeeps ==
  ASSUME Inductive, NEW t \in Syncing, Succeed(t), remote' = remote PROVE Inductive'
<1>1. sync[t] \in SyncRun /\ sync[t].conn \in Connectors /\ sync[t].listed \in Cursor
  BY DEF Inductive, Types, Syncing, SyncRun
<1>2. Kept(sync[t].conn, "active") \in Status BY <1>1, RowReplaced DEF Inductive, Status
<1>3. [status |-> Kept(sync[t].conn, "active"), cursor |-> sync[t].listed] \in Row
  BY <1>1, <1>2 DEF Row
<1>4. connector' \in [Connectors -> Row]
  BY <1>1, <1>3, WrittenKeeps DEF Succeed, Inductive
<1>5. dueList' \in Seq(Connectors) BY <1>1, DueListStays DEF Succeed, Inductive
<1>6. Freed(t) /\ sync' = [sync EXCEPT ![t] = NoRun] BY DEF Succeed
<1>7. /\ Slots' /\ sync' \in [Threads -> SyncRun \cup {NoRun}]
      /\ activeRuns' \subseteq Connectors /\ activeOwners' \in [Owners -> Nat]
  BY <1>6, SlotsEnded
<1> QED BY <1>4, <1>5, <1>7 DEF Inductive, Types

LEMMA PulledKeeps == ASSUME Inductive, NEW t \in Threads, Pulled(t) PROVE Inductive'
<1>1. t \in Syncing /\ sync[t].phase = "pulling" /\ UNCHANGED remote BY DEF Pulled
<1>2. sync[t] \in SyncRun /\ sync[t].conn \in Connectors /\ sync[t].listed \in Cursor
  BY <1>1 DEF Inductive, Types, Syncing, SyncRun
<1>3. CASE sync[t].conn \in Pushes
  <2>1. /\ connector' = Written(sync[t].conn, [connector[sync[t].conn] EXCEPT !.cursor = sync[t].listed])
        /\ sync' = [sync EXCEPT ![t].phase = "pushing"]
        /\ UNCHANGED <<dueList, activeRuns, activeOwners>>
    BY <1>3 DEF Pulled
  <2>2. [connector[sync[t].conn] EXCEPT !.cursor = sync[t].listed] \in Row
    BY <1>2 DEF Inductive, Types, Row
  <2>3. connector' \in [Connectors -> Row] BY <1>2, <2>1, <2>2, WrittenKeeps DEF Inductive
  <2>4. [sync[t] EXCEPT !.phase = "pushing"] \in SyncRun BY <1>2 DEF SyncRun, Phase
  <2>5. sync' = [sync EXCEPT ![t] = [sync[t] EXCEPT !.phase = "pushing"]] BY <2>1
  <2>6. /\ sync' \in [Threads -> SyncRun \cup {NoRun}]
        /\ sync'[t].conn = sync[t].conn /\ sync'[t].clock = sync[t].clock /\ sync'[t] # NoRun
        /\ \A u \in Threads \ {t} : sync'[u] = sync[u]
    BY <1>2, <2>4, <2>5, RunAssumption DEF Inductive, Types, SyncRun
  <2>7. Holding' = Holding BY <1>1, <2>6 DEF Holding, Syncing
  <2>8. \A u \in Holding : sync'[u].conn = sync[u].conn BY <2>6, HoldingRuns DEF Inductive
  <2>9. Slots' BY <2>1, <2>7, <2>8, SlotsStay DEF Inductive
  <2> QED BY <1>1, <2>1, <2>3, <2>6, <2>9 DEF Inductive, Types
<1>4. CASE sync[t].conn \notin Pushes
  BY <1>1, <1>4, SucceedKeeps DEF Pulled
<1> QED BY <1>3, <1>4

LEMMA FailKeeps == ASSUME Inductive, NEW t \in Threads, Fail(t) \/ Deny(t) PROVE Inductive'
<1>1. t \in Syncing /\ Freed(t) /\ sync' = [sync EXCEPT ![t] = NoRun] /\ remote' = remote
  BY DEF Fail, Deny
<1>2. sync[t] \in SyncRun /\ sync[t].conn \in Connectors
  BY <1>1 DEF Inductive, Types, Syncing, SyncRun
<1>3. PICK s \in Status : connector' = Written(sync[t].conn, [connector[sync[t].conn] EXCEPT !.status = s])
  <2>1. Kept(sync[t].conn, "error") \in Status BY DEF Kept, Status
  <2>2. "needs_reauth" \in Status BY DEF Status
  <2> QED BY <2>1, <2>2 DEF Fail, Deny
<1>4. [connector[sync[t].conn] EXCEPT !.status = s] \in Row BY <1>2 DEF Inductive, Types, Row
<1>5. connector' \in [Connectors -> Row] BY <1>2, <1>3, <1>4, WrittenKeeps DEF Inductive
<1>6. dueList' \in Seq(Connectors) BY <1>2, DueListStays DEF Fail, Deny, Inductive, Types
<1>7. /\ Slots' /\ sync' \in [Threads -> SyncRun \cup {NoRun}]
      /\ activeRuns' \subseteq Connectors /\ activeOwners' \in [Owners -> Nat]
  BY <1>1, SlotsEnded
<1> QED BY <1>1, <1>5, <1>6, <1>7 DEF Inductive, Types

\* Deadlines and the shutdown only stop clocks.
LEMMA ClocksKeep ==
  ASSUME Inductive, UNCHANGED <<connector, dueList, remote, activeRuns, activeOwners>>,
         NEW ts \in SUBSET {t \in Syncing : sync[t].clock = "runs"},
         sync' = [t \in Threads |-> IF t \in ts THEN [sync[t] EXCEPT !.clock = "aborted"] ELSE sync[t]]
  PROVE  Inductive'
<1>1. ASSUME NEW t \in ts
      PROVE  /\ t \in Threads /\ t \in Holding
             /\ sync'[t] \in SyncRun /\ sync'[t].conn = sync[t].conn /\ sync'[t].clock = "aborted"
             /\ sync'[t] # NoRun
  <2>1. t \in Threads /\ t \in Holding /\ sync[t] \in SyncRun
    BY DEF Syncing, Holding, Inductive, Types
  <2>2. sync'[t] = [sync[t] EXCEPT !.clock = "aborted"] BY <2>1
  <2>3. sync'[t] \in SyncRun /\ sync'[t].conn = sync[t].conn /\ sync'[t].clock = "aborted"
    BY <2>1, <2>2 DEF SyncRun
  <2> QED BY <2>1, <2>3, RunAssumption
<1>2. \A t \in Threads \ ts : sync'[t] = sync[t] OBVIOUS
<1>3. sync' \in [Threads -> SyncRun \cup {NoRun}]
  <2>1. \A t \in Threads : sync'[t] \in SyncRun \cup {NoRun} BY <1>1, <1>2 DEF Inductive, Types
  <2> QED BY <2>1
<1>4. \A t \in Threads : t \in Holding' <=> t \in Holding
  BY <1>1, <1>2 DEF Holding, Syncing
<1>5. Holding' = Holding BY <1>4 DEF Holding, Syncing
<1>6. \A t \in Holding : sync'[t].conn = sync[t].conn BY <1>1, <1>2, HoldingRuns DEF Inductive
<1>7. Slots' BY <1>5, <1>6, SlotsStay DEF Inductive
<1> QED BY <1>3, <1>7 DEF Inductive, Types

LEMMA ExitKeeps == ASSUME Inductive, Exit PROVE Inductive'
<1>1. Holding' = {} BY DEF Exit, Holding, Syncing
<1>2. \A o : Busy(o)' = {} BY DEF Exit, Busy
<1>3. Slots' BY <1>1, <1>2, FS_EmptySet DEF Exit, Slots
<1>4. Types' BY DEF Exit, Inductive, Types
<1> QED BY <1>3, <1>4 DEF Inductive

\* The owner's steps touch rows and the list, not the slots.
LEMMA RowsKeep ==
  ASSUME Inductive, UNCHANGED <<sync, activeRuns, activeOwners>>,
         connector' \in [Connectors -> Row], dueList' \in Seq(Connectors),
         remote' \in [Connectors -> Cursor]
  PROVE  Inductive'
<1>1. Holding' = Holding BY DEF Holding, Syncing
<1>2. Slots' BY <1>1, SlotsStay DEF Inductive
<1> QED BY <1>2 DEF Inductive, Types

LEMMA SchedulerStep ==
  ASSUME Inductive, Tick \/ Stop \/ Exit \/ StartConnectorScheduler
  PROVE  Inductive'
<1>1. CASE Tick
  <2>1. Candidates \subseteq Connectors
    <3>1. \A i \in DOMAIN dueList : dueList[i] \in Connectors BY DEF Inductive, Types
    <3> QED BY <3>1 DEF Candidates
  <2>2. Candidates \cap activeRuns = {} BY DEF Candidates, Eligible
  <2>3. StartSync(Candidates) /\ UNCHANGED <<connector, dueList, remote>> BY <1>1 DEF Tick
  <2>4. PICK cs \in SUBSET Connectors : cs = Candidates BY <2>1
  <2>5. StartSync(cs)
    <3>1. StartSync(Candidates) <=> StartSync(cs) BY <2>4 DEF StartSync, Assignments
    <3> QED BY <2>3, <3>1
  <2>6. /\ Slots' /\ sync' \in [Threads -> SyncRun \cup {NoRun}]
        /\ activeRuns' \subseteq Connectors /\ activeOwners' \in [Owners -> Nat]
    BY <2>2, <2>4, <2>5, SlotsTaken
  <2> QED BY <2>3, <2>6 DEF Inductive, Types
<1>2. CASE Stop
  <2> DEFINE ts == {t \in Syncing : sync[t].clock = "runs"}
  <2>1. PICK running \in SUBSET Threads : running = ts BY DEF Syncing
  <2>2. sync' = [t \in Threads |-> IF t \in running THEN [sync[t] EXCEPT !.clock = "aborted"] ELSE sync[t]]
    BY <1>2, <2>1 DEF Stop
  <2> QED BY <1>2, <2>1, <2>2, ClocksKeep DEF Stop
<1>3. CASE Exit BY <1>3, ExitKeeps
<1>4. CASE StartConnectorScheduler
  BY <1>4, RowsKeep DEF StartConnectorScheduler, Inductive, Types
<1> QED BY <1>1, <1>2, <1>3, <1>4

LEMMA ThreadStep ==
  ASSUME Inductive, NEW t \in Threads, Deadline(t) \/ Grace(t) \/ EndOf(t)
  PROVE  Inductive'
<1>1. CASE Deadline(t)
  <2>1. {t} \subseteq {u \in Syncing : sync[u].clock = "runs"} BY <1>1 DEF Deadline
  <2>2. sync' = [u \in Threads |-> IF u \in {t} THEN [sync[u] EXCEPT !.clock = "aborted"] ELSE sync[u]]
    BY <1>1 DEF Deadline, Inductive, Types
  <2> QED BY <1>1, <2>1, <2>2, ClocksKeep DEF Deadline
<1>2. CASE Grace(t)
  <2>1. t \in Syncing /\ Freed(t) /\ UNCHANGED <<connector, dueList, remote>> BY <1>2 DEF Grace
  <2>2. sync[t] \in SyncRun BY <2>1 DEF Inductive, Types, Syncing
  <2>3. PICK x \in SyncRun : x.clock = "freed" /\ sync' = [sync EXCEPT ![t] = x]
    <3>1. [sync[t] EXCEPT !.clock = "freed"] \in SyncRun
          /\ [sync[t] EXCEPT !.clock = "freed"].clock = "freed"
      BY <2>2 DEF SyncRun
    <3>2. sync' = [sync EXCEPT ![t] = [sync[t] EXCEPT !.clock = "freed"]] BY <1>2 DEF Grace
    <3> QED BY <3>1, <3>2
  <2>4. /\ Slots' /\ sync' \in [Threads -> SyncRun \cup {NoRun}]
        /\ activeRuns' \subseteq Connectors /\ activeOwners' \in [Owners -> Nat]
    BY <2>1, <2>3, SlotsReleased
  <2> QED BY <2>1, <2>4 DEF Inductive, Types
<1>3. CASE Pulled(t) BY <1>3, PulledKeeps
<1>4. CASE Pushed(t)
  <2>1. t \in Syncing /\ Succeed(t) /\ remote' = remote BY <1>4 DEF Pushed
  <2> QED BY <2>1, SucceedKeeps
<1>5. CASE Fail(t) \/ Deny(t) BY <1>5, FailKeeps
<1> QED BY <1>1, <1>2, <1>3, <1>4, <1>5 DEF EndOf

LEMMA OwnerStep ==
  ASSUME Inductive, NEW c \in Connectors,
         Elapse(c) \/ Change(c) \/ SyncNow(c) \/ Pause(c) \/ Resume(c) \/ OpenEdit(c) \/ RemoveConnector(c)
  PROVE  Inductive'
<1> USE DEF Inductive
<1>1. \A s \in Status : [connector EXCEPT ![c].status = s] \in [Connectors -> Row] BY StatusReplaced
<1>2. NotDue(c) \in Seq(Connectors) /\ DueNow(c) \in Seq(Connectors) /\ Append(dueList, c) \in Seq(Connectors)
  BY DueListStays
<1>3. CASE Elapse(c) BY <1>2, <1>3, RowsKeep DEF Elapse, Types
<1>4. CASE Change(c)
  <2>1. remote[c] \in Cursor /\ remote[c] < MaxRemote /\ remote' = [remote EXCEPT ![c] = remote[c] + 1]
    BY <1>4 DEF Change, Types
  <2>2. remote[c] + 1 \in Cursor BY <2>1, SyncAssumption DEF Cursor
  <2>3. remote' \in [Connectors -> Cursor] BY <2>1, <2>2 DEF Types
  <2> QED BY <1>4, <2>3, RowsKeep DEF Change, Types
<1>5. CASE SyncNow(c)
  <2>1. {c} \in SUBSET Connectors /\ {c} \cap activeRuns = {} /\ StartSync({c})
        /\ UNCHANGED <<connector, dueList, remote>>
    BY <1>5 DEF SyncNow
  <2>2. /\ Slots' /\ sync' \in [Threads -> SyncRun \cup {NoRun}]
        /\ activeRuns' \subseteq Connectors /\ activeOwners' \in [Owners -> Nat]
    BY <2>1, SlotsTaken
  <2> QED BY <2>1, <2>2 DEF Types
<1>6. CASE Pause(c) BY <1>1, <1>6, RowsKeep DEF Pause, Types, Status
<1>7. CASE Resume(c) BY <1>1, <1>2, <1>7, RowsKeep DEF Resume, Activated, Types, Status
<1>8. CASE OpenEdit(c) BY <1>8, RowsKeep DEF OpenEdit, Types
<1>9. CASE RemoveConnector(c) BY <1>1, <1>2, <1>9, RowsKeep DEF RemoveConnector, Types, Status
<1> QED BY <1>3, <1>4, <1>5, <1>6, <1>7, <1>8, <1>9

LEMMA EditStep ==
  ASSUME Inductive, EditIsRead, DropEdit \/ Reconnect \/ SaveEdit
  PROVE  Inductive'
<1> USE DEF Inductive
<1>1. edit \in Edit BY DEF EditIsRead, DropEdit, Reconnect, SaveEdit, EditEnds
<1>2. PICK c \in Connectors : c = edit.conn BY <1>1 DEF Edit
<1>3. edit.status \in Status BY <1>1 DEF Edit
<1>4. \A s \in Status : [connector EXCEPT ![c].status = s] \in [Connectors -> Row] BY StatusReplaced
<1>5. NotDue(c) \in Seq(Connectors) /\ DueNow(c) \in Seq(Connectors) BY DueListStays
<1>6. UNCHANGED <<sync, activeRuns, activeOwners, remote>>
  BY DEF DropEdit, Reconnect, SaveEdit, EditEnds
<1>7. Activated(edit.conn) => connector' = [connector EXCEPT ![c].status = "active"] /\ dueList' = DueNow(c)
  BY <1>2 DEF Activated
<1>8. connector' \in [Connectors -> Row] /\ dueList' \in Seq(Connectors)
  <2>1. CASE DropEdit BY <2>1 DEF DropEdit, Types
  <2>2. CASE Activated(edit.conn) BY <1>4, <1>5, <1>7, <2>2 DEF Status
  <2>3. CASE SaveEdit /\ ~Activated(edit.conn)
    <3>1. \/ connector' = [connector EXCEPT ![c].status = "error"] /\ dueList' = NotDue(c)
          \/ /\ connector' = [connector EXCEPT ![c].status = edit.status]
             /\ dueList' \in {DueNow(c), NotDue(c)}
      BY <1>2, <2>3 DEF SaveEdit
    <3> QED BY <1>3, <1>4, <1>5, <3>1 DEF Status
  <2> QED BY <2>1, <2>2, <2>3 DEF Reconnect
<1> QED BY <1>6, <1>8, RowsKeep DEF Types

LEMMA InductiveStep == Inductive /\ EditIsRead /\ [SyncNext]_syncVars => Inductive' /\ EditIsRead'
<1> SUFFICES ASSUME Inductive, EditIsRead, [SyncNext]_syncVars PROVE Inductive' /\ EditIsRead'
  OBVIOUS
<1>1. CASE Tick \/ Stop \/ Exit \/ StartConnectorScheduler
  BY <1>1, SchedulerStep DEF EditIsRead, Tick, Stop, Exit, StartConnectorScheduler
<1>2. CASE DropEdit \/ Reconnect \/ SaveEdit
  BY <1>2, EditStep DEF EditIsRead, DropEdit, Reconnect, SaveEdit, EditEnds
<1>3. ASSUME NEW c \in Connectors, Elapse(c) \/ Change(c) PROVE Inductive' /\ EditIsRead'
  BY <1>3, OwnerStep DEF EditIsRead, Elapse, Change
<1>4. ASSUME NEW c \in Edited, SyncNow(c) \/ Pause(c) \/ Resume(c) \/ OpenEdit(c) \/ RemoveConnector(c)
      PROVE Inductive' /\ EditIsRead'
  <2>1. c \in Connectors BY SyncAssumption
  <2>2. Inductive' BY <1>4, <2>1, OwnerStep
  <2>3. CASE OpenEdit(c)
    <3>1. connector[c].status \in Status /\ IsDue(c) \in BOOLEAN
      BY <2>1 DEF Inductive, Types, Row, IsDue
    <3>2. edit' \in Edit BY <2>1, <2>3, <3>1 DEF OpenEdit, Edit
    <3> QED BY <2>2, <3>2 DEF EditIsRead
  <2>4. CASE ~OpenEdit(c)
    BY <1>4, <2>2, <2>4 DEF EditIsRead, SyncNow, Pause, Resume, RemoveConnector
  <2> QED BY <2>3, <2>4
<1>5. ASSUME NEW t \in Threads, Deadline(t) \/ Grace(t) \/ EndOf(t) PROVE Inductive' /\ EditIsRead'
  <2>1. edit' = edit BY <1>5 DEF Deadline, Grace, EndOf, Pulled, Pushed, Fail, Deny
  <2> QED BY <1>5, <2>1, ThreadStep DEF EditIsRead
<1>6. CASE UNCHANGED syncVars
  BY <1>6, RowsKeep DEF syncVars, Inductive, Types, EditIsRead
<1> QED BY <1>1, <1>2, <1>3, <1>4, <1>5, <1>6 DEF SyncNext

\* An owner's syncs are as many as the connectors they lock.
LEMMA InductiveImplies == Inductive => SlotsAreRight
<1> SUFFICES ASSUME Inductive, NEW o \in Owners
             PROVE activeOwners[o] = Cardinality({t \in Holding : OwnerOf[sync[t].conn] = o})
  BY DEF Inductive, Slots, SlotsAreRight
<1> DEFINE own == {t \in Holding : OwnerOf[sync[t].conn] = o}
           f == [t \in own |-> sync[t].conn]
<1>1. f \in [own -> Busy(o)] BY DEF Inductive, Slots, Busy
<1>2. \A t, u \in own : f[t] = f[u] => t = u BY DEF Inductive, Slots
<1>3. \A c \in Busy(o) : \E t \in own : f[t] = c BY DEF Inductive, Slots, Busy
<1>4. f \in Bijection(own, Busy(o)) BY <1>1, <1>2, <1>3, Fun_IsBij
<1>5. ExistsBijection(Busy(o), own) BY <1>4, Fun_ExistsBijSymmetric DEF ExistsBijection
<1>6. IsFiniteSet(Busy(o)) BY BusyIsFinite DEF Inductive
<1>7. Cardinality(own) = Cardinality(Busy(o)) BY <1>5, <1>6, FS_Bijection
<1> QED BY <1>7 DEF Inductive, Slots

LEMMA InvariantHolds == SyncSpec => [](Inductive /\ EditIsRead)
<1>1. SyncInit => Inductive /\ EditIsRead BY InductiveInit DEF SyncInit, EditIsRead
<1> QED BY <1>1, InductiveStep, PTL DEF SyncSpec

\* However ticks, requests, deadlines, late ends and crashes interleave, a connector is
\* locked by one sync and an owner's count is the number of syncs that hold a slot.
THEOREM SlotsAreExclusive == SyncSpec => []SlotsAreRight
BY InvariantHolds, InductiveImplies, PTL

(***************************************************************************)
(* Types: the list of due connectors names each once.                      *)
(***************************************************************************)
Once(list) == \A i, j \in DOMAIN list : list[i] = list[j] => i = j

LEMMA ListedOnce ==
  ASSUME Types, Once(dueList), NEW c \in Connectors
  PROVE  Once(NotDue(c)) /\ Once(DueNow(c)) /\ (~IsDue(c) => Once(Append(dueList, c)))
<1> DEFINE n == Len(dueList)
<1>1. dueList \in Seq(Connectors) /\ n \in Nat /\ DOMAIN dueList = 1..n BY DEF Types
<1>2. ASSUME ~IsDue(c) PROVE Once(Append(dueList, c))
  <2>1. DOMAIN Append(dueList, c) = 1..(n + 1)
        /\ \A i \in 1..(n + 1) : Append(dueList, c)[i] = IF i = n + 1 THEN c ELSE dueList[i]
    BY <1>1
  <2>2. \A i \in 1..n : dueList[i] # c BY <1>1, <1>2 DEF IsDue
  <2> QED BY <1>1, <2>1, <2>2 DEF Once
<1>3. Once(DueNow(c)) BY <1>2 DEF DueNow
<1>4. ASSUME IsDue(c) PROVE Once(NotDue(c))
  <2>1. PICK p \in 1..n : p = Place(c) BY <1>1, <1>4 DEF IsDue, Place
  <2>2. NotDue(c) = SubSeq(dueList, 1, p - 1) \o SubSeq(dueList, p + 1, n) BY <1>4, <2>1 DEF NotDue
  <2> DEFINE before == SubSeq(dueList, 1, p - 1)
             after == SubSeq(dueList, p + 1, n)
  <2>3. before \in Seq(Connectors) /\ Len(before) = p - 1 /\ \A i \in 1..(p - 1) : before[i] = dueList[i]
    <3>1. \A k \in 1..(p - 1) : dueList[k] \in Connectors BY <1>1
    <3>2. /\ before \in Seq(Connectors) /\ Len(before) = IF 1 <= p - 1 THEN (p - 1) - 1 + 1 ELSE 0
          /\ \A i \in 1..((p - 1) - 1 + 1) : before[i] = dueList[1 + i - 1]
      BY <1>1, <3>1, SubSeqProperties
    <3>3. (p - 1) - 1 + 1 = p - 1 /\ \A i \in 1..(p - 1) : 1 + i - 1 = i BY <1>1
    <3> HIDE DEF before
    <3>4. Len(before) = p - 1 BY <1>1, <3>2, <3>3
    <3> QED BY <3>2, <3>3, <3>4
  <2>4. after \in Seq(Connectors) /\ Len(after) = n - p /\ \A i \in 1..(n - p) : after[i] = dueList[p + i]
    <3>1. \A k \in (p + 1)..n : dueList[k] \in Connectors BY <1>1
    <3>2. /\ after \in Seq(Connectors) /\ Len(after) = IF p + 1 <= n THEN n - (p + 1) + 1 ELSE 0
          /\ \A i \in 1..(n - (p + 1) + 1) : after[i] = dueList[(p + 1) + i - 1]
      BY <1>1, <3>1, SubSeqProperties
    <3>3. n - (p + 1) + 1 = n - p /\ \A i \in 1..(n - p) : (p + 1) + i - 1 = p + i BY <1>1
    <3> HIDE DEF after
    <3>4. Len(after) = n - p
      <4>1. CASE p + 1 <= n BY <3>2, <3>3, <4>1
      <4>2. CASE ~(p + 1 <= n)
        <5>1. n \in Nat /\ p \in 1..n BY <1>1
        <5> HIDE DEF n
        <5>2. n - p = 0 BY <4>2, <5>1
        <5> QED BY <3>2, <4>2, <5>2
      <4> QED BY <4>1, <4>2
    <3> QED BY <3>2, <3>3, <3>4
  <2> HIDE DEF before, after
  <2>5. DOMAIN NotDue(c) = 1..(n - 1)
        /\ \A i \in 1..(n - 1) : NotDue(c)[i] = IF i < p THEN dueList[i] ELSE dueList[i + 1]
    <3>1. NotDue(c) = before \o after BY <2>2 DEF before, after
    <3>5. p - 1 \in Nat /\ n - p \in Nat BY <1>1
    <3>6. /\ before \o after \in Seq(Connectors) /\ Len(before \o after) = (p - 1) + (n - p)
          /\ \A i \in 1..((p - 1) + (n - p)) :
               (before \o after)[i] = IF i <= p - 1 THEN before[i] ELSE after[i - (p - 1)]
      <4>1. /\ before \o after \in Seq(Connectors) /\ Len(before \o after) = Len(before) + Len(after)
            /\ \A i \in 1..Len(before) + Len(after) :
                 (before \o after)[i] = IF i <= Len(before) THEN before[i] ELSE after[i - Len(before)]
        BY <2>3, <2>4, ConcatProperties
      <4> QED BY <2>3, <2>4, <4>1
    <3>2. DOMAIN (before \o after) = 1..((p - 1) + (n - p))
          /\ \A i \in 1..((p - 1) + (n - p)) :
               (before \o after)[i] = IF i <= p - 1 THEN before[i] ELSE after[i - (p - 1)]
      BY <3>6
    <3>3. (p - 1) + (n - p) = n - 1 BY <1>1
    <3>4. ASSUME NEW i \in 1..(n - 1) PROVE NotDue(c)[i] = IF i < p THEN dueList[i] ELSE dueList[i + 1]
      <4>1. CASE i < p BY <1>1, <2>3, <3>1, <3>2, <3>3, <4>1
      <4>2. CASE i >= p
        <5>1. i - (p - 1) \in 1..(n - p) /\ p + (i - (p - 1)) = i + 1 BY <1>1, <4>2
        <5>2. (before \o after)[i] = after[i - (p - 1)] BY <1>1, <3>2, <3>3, <4>2
        <5> QED BY <1>1, <2>4, <3>1, <4>2, <5>1, <5>2
      <4> QED BY <1>1, <4>1, <4>2
    <3> QED BY <3>1, <3>2, <3>3, <3>4
  <2>6. ASSUME NEW i \in 1..(n - 1), NEW j \in 1..(n - 1), NotDue(c)[i] = NotDue(c)[j] PROVE i = j
    <3> DEFINE x == IF i < p THEN i ELSE i + 1
               y == IF j < p THEN j ELSE j + 1
    <3>1. x \in 1..n /\ y \in 1..n /\ (x = y => i = j) BY <1>1
    <3>2. dueList[x] = dueList[y] BY <2>5, <2>6
    <3>3. x = y
      <4> HIDE DEF x, y
      <4> QED BY <1>1, <3>1, <3>2 DEF Once
    <3> QED BY <3>1, <3>3
  <2> QED BY <2>5, <2>6 DEF Once
<1>5. ~IsDue(c) => Once(NotDue(c)) BY DEF NotDue
<1> QED BY <1>2, <1>3, <1>4, <1>5

\* What a step makes of the list.
LEMMA DueListMoves ==
  ASSUME Inductive, EditIsRead, SyncNext
  PROVE  \/ dueList' = dueList
         \/ \E c \in Connectors : \/ dueList' \in {NotDue(c), DueNow(c)}
                                  \/ ~IsDue(c) /\ dueList' = Append(dueList, c)
<1>1. CASE Tick \/ Stop \/ Exit \/ StartConnectorScheduler
  BY <1>1 DEF Tick, Stop, Exit, StartConnectorScheduler
<1>2. CASE DropEdit \/ Reconnect \/ SaveEdit
  <2>1. edit \in Edit BY <1>2 DEF EditIsRead, DropEdit, Reconnect, SaveEdit, EditEnds
  <2>2. edit.conn \in Connectors BY <2>1 DEF Edit
  <2> QED BY <1>2, <2>2 DEF DropEdit, Reconnect, SaveEdit, Activated
<1>3. ASSUME NEW c \in Connectors, Elapse(c) \/ Change(c) \/ SyncNow(c) \/ Pause(c) \/ Resume(c)
                                     \/ OpenEdit(c) \/ RemoveConnector(c)
      PROVE  \/ dueList' = dueList
             \/ dueList' \in {NotDue(c), DueNow(c)}
             \/ ~IsDue(c) /\ dueList' = Append(dueList, c)
  BY <1>3 DEF Elapse, Change, SyncNow, Pause, Resume, Activated, OpenEdit, RemoveConnector
<1>4. ASSUME NEW t \in Threads, Deadline(t) \/ Grace(t) \/ EndOf(t)
      PROVE  dueList' = dueList \/ \E c \in Connectors : dueList' = NotDue(c)
  <2>1. t \in Syncing => sync[t].conn \in Connectors BY DEF Inductive, Types, Syncing, SyncRun
  <2> QED BY <1>4, <2>1 DEF Deadline, Grace, EndOf, Pulled, Pushed, Fail, Deny, Succeed
<1> QED BY <1>1, <1>2, <1>3, <1>4, SyncAssumption DEF SyncNext

LEMMA OnceStep == Inductive /\ EditIsRead /\ Once(dueList) /\ [SyncNext]_syncVars => Once(dueList')
<1> SUFFICES ASSUME Inductive, EditIsRead, Once(dueList), [SyncNext]_syncVars PROVE Once(dueList') OBVIOUS
<1>1. CASE dueList' = dueList BY <1>1
<1>2. ASSUME NEW c \in Connectors, \/ dueList' \in {NotDue(c), DueNow(c)}
                                   \/ ~IsDue(c) /\ dueList' = Append(dueList, c)
      PROVE  Once(dueList')
  <2>1. Once(NotDue(c)) /\ Once(DueNow(c)) /\ (~IsDue(c) => Once(Append(dueList, c))) BY ListedOnce DEF Inductive
  <2> QED BY <1>2, <2>1
<1> QED BY <1>1, <1>2, DueListMoves DEF syncVars

SchedulerIs == scheduler \in {"up", "stopping", "down"}

LEMMA SchedulerStays == SchedulerIs /\ [SyncNext]_syncVars => SchedulerIs'
<1> SUFFICES ASSUME SchedulerIs, [SyncNext]_syncVars PROVE SchedulerIs' OBVIOUS
<1>1. CASE \/ Tick \/ DropEdit \/ Reconnect \/ SaveEdit \/ UNCHANGED syncVars
           \/ \E c \in Connectors : Elapse(c) \/ Change(c)
           \/ \E c \in Edited : SyncNow(c) \/ Pause(c) \/ Resume(c) \/ OpenEdit(c) \/ RemoveConnector(c)
           \/ \E t \in Threads : Deadline(t) \/ Grace(t) \/ EndOf(t)
  <2>1. scheduler' = scheduler
    BY <1>1 DEF Tick, DropEdit, Reconnect, SaveEdit, EditEnds, syncVars, Elapse, Change, SyncNow, Pause, Resume,
                OpenEdit, RemoveConnector, Deadline, Grace, EndOf, Pulled, Pushed, Fail, Deny
  <2> QED BY <2>1 DEF SchedulerIs
<1>2. CASE Stop \/ Exit \/ StartConnectorScheduler BY <1>2 DEF Stop, Exit, StartConnectorScheduler, SchedulerIs
<1> QED BY <1>1, <1>2 DEF SyncNext

\* The types of a connector's row, its runs, its edit and the books of the scheduler; a
\* connector is due once, however its runs, resumes and edits meet.
THEOREM SyncTypesHold == SyncSpec => []SyncTypeOK
<1>1. SyncInit => Once(dueList) /\ SchedulerIs BY DEF SyncInit, Once, SchedulerIs
<1>2. Inductive /\ EditIsRead /\ Once(dueList) /\ SchedulerIs => SyncTypeOK
  BY DEF Inductive, Types, Row, Edit, EditIsRead, Once, SchedulerIs, SyncTypeOK
<1>3. SyncSpec => [](Once(dueList) /\ SchedulerIs)
  <2>1. Inductive /\ EditIsRead /\ Once(dueList) /\ SchedulerIs /\ [SyncNext]_syncVars
          => Once(dueList)' /\ SchedulerIs'
    BY OnceStep, SchedulerStays
  <2> QED BY <1>1, <2>1, InvariantHolds, PTL DEF SyncSpec
<1> QED BY <1>2, <1>3, InvariantHolds, PTL

(***************************************************************************)
(* Cursors.  A sync that holds its connector is the last that began, so it *)
(* listed the server after whatever a late one did.                        *)
(***************************************************************************)
CursorsAreBehind ==
  /\ \A c \in Connectors : connector[c].cursor <= remote[c]
  /\ \A t \in Syncing : sync[t].listed <= remote[sync[t].conn]
  /\ \A u \in Holding : connector[sync[u].conn].cursor <= sync[u].listed
  /\ \A u \in Holding, t \in Syncing \ Holding : sync[t].conn = sync[u].conn => sync[t].listed <= sync[u].listed

\* The runs there are go on or end, and whoever moves a cursor moves it to where it listed.
Onward ==
  /\ \A c \in Connectors :
       \/ connector'[c].cursor = connector[c].cursor
       \/ \E t \in Syncing : sync[t].conn = c /\ connector'[c].cursor = sync[t].listed /\ sync'[t] # sync[t]
  /\ \A c \in Connectors : remote[c] <= remote'[c] /\ remote'[c] \in Nat
  /\ \A t \in Threads :
       \/ sync'[t] = NoRun
       \/ /\ sync[t] # NoRun /\ sync'[t].conn = sync[t].conn /\ sync'[t].listed = sync[t].listed
          /\ sync[t].clock = "freed" => sync'[t].clock = "freed"

\* Connectors that nobody holds are given to new runs.
Starts ==
  /\ UNCHANGED <<connector, remote>>
  /\ \A t \in Threads : sync'[t] = sync[t] \/ \E c \in Connectors \ activeRuns : sync'[t] = NewRun(c)

LEMMA CursorTypes ==
  ASSUME Types
  PROVE  /\ \A c \in Connectors : connector[c].cursor \in Nat /\ remote[c] \in Nat
         /\ \A t \in Syncing : t \in Threads /\ sync[t] \in SyncRun /\ sync[t].conn \in Connectors /\ sync[t].listed \in Nat
<1>1. Cursor \subseteq Nat BY SyncAssumption DEF Cursor
<1>2. \A c \in Connectors : connector[c] \in Row /\ remote[c] \in Cursor BY DEF Types
<1>3. \A t \in Syncing : t \in Threads /\ sync[t] \in SyncRun BY DEF Types, Syncing
<1> QED BY <1>1, <1>2, <1>3 DEF Row, SyncRun

LEMMA OnwardKeeps ==
  ASSUME Inductive, CursorsAreBehind, Onward
  PROVE  CursorsAreBehind'
<1>1. /\ \A c \in Connectors : connector[c].cursor \in Nat /\ remote[c] \in Nat
      /\ \A t \in Syncing : t \in Threads /\ sync[t].conn \in Connectors /\ sync[t].listed \in Nat
  BY CursorTypes DEF Inductive
<1>2. \A t \in Syncing' : t \in Syncing /\ sync'[t].conn = sync[t].conn /\ sync'[t].listed = sync[t].listed
  BY DEF Onward, Syncing
<1>3. \A t \in Holding' : t \in Holding BY DEF Onward, Holding, Syncing
<1>4. \A t, u \in Holding : sync[t].conn = sync[u].conn => t = u BY DEF Inductive, Slots
<1>5. \A c \in Connectors : connector'[c].cursor <= remote'[c]
  <2> SUFFICES ASSUME NEW c \in Connectors PROVE connector'[c].cursor <= remote'[c] OBVIOUS
  <2>1. remote[c] <= remote'[c] /\ remote'[c] \in Nat BY DEF Onward
  <2>2. CASE connector'[c].cursor = connector[c].cursor BY <1>1, <2>1, <2>2 DEF CursorsAreBehind
  <2>3. ASSUME NEW t \in Syncing, sync[t].conn = c, connector'[c].cursor = sync[t].listed
        PROVE  connector'[c].cursor <= remote'[c]
    BY <1>1, <2>1, <2>3 DEF CursorsAreBehind
  <2> QED BY <2>2, <2>3 DEF Onward
<1>6. \A t \in Syncing' : sync'[t].listed <= remote'[sync'[t].conn]
  <2> SUFFICES ASSUME NEW t \in Syncing' PROVE sync'[t].listed <= remote'[sync'[t].conn] OBVIOUS
  <2>1. PICK c \in Connectors : c = sync[t].conn BY <1>1, <1>2
  <2>2. remote[c] <= remote'[c] /\ remote'[c] \in Nat BY DEF Onward
  <2> QED BY <1>1, <1>2, <2>1, <2>2 DEF CursorsAreBehind
<1>7. \A u \in Holding' : connector'[sync'[u].conn].cursor <= sync'[u].listed
  <2> SUFFICES ASSUME NEW u \in Holding' PROVE connector'[sync'[u].conn].cursor <= sync'[u].listed OBVIOUS
  <2>1. u \in Holding /\ u \in Syncing /\ sync'[u].conn = sync[u].conn /\ sync'[u].listed = sync[u].listed
    BY <1>2, <1>3 DEF Holding
  <2>2. PICK c \in Connectors : c = sync[u].conn BY <1>1, <2>1
  <2>3. CASE connector'[c].cursor = connector[c].cursor BY <2>1, <2>2, <2>3 DEF CursorsAreBehind
  <2>4. ASSUME NEW t \in Syncing, sync[t].conn = c, connector'[c].cursor = sync[t].listed
        PROVE  sync[t].listed <= sync[u].listed
    <3>1. CASE t \in Holding BY <1>1, <1>4, <2>1, <2>2, <2>4, <3>1
    <3>2. CASE t \notin Holding BY <2>1, <2>2, <2>4, <3>2 DEF CursorsAreBehind
    <3> QED BY <3>1, <3>2
  <2> QED BY <2>1, <2>2, <2>3, <2>4 DEF Onward
<1>8. ASSUME NEW u \in Holding', NEW t \in Syncing' \ Holding', sync'[t].conn = sync'[u].conn
      PROVE  sync'[t].listed <= sync'[u].listed
  <2>1. u \in Holding /\ t \in Syncing BY <1>2, <1>3
  <2>2. u \in Syncing' BY DEF Holding
  <2>3. sync[t].conn = sync[u].conn BY <1>2, <1>8, <2>2
  <2>4. t \notin Holding BY <1>4, <1>8, <2>1, <2>3
  <2>5. sync[t].listed <= sync[u].listed BY <2>1, <2>3, <2>4 DEF CursorsAreBehind
  <2> QED BY <1>2, <2>2, <2>5
<1> QED BY <1>5, <1>6, <1>7, <1>8 DEF CursorsAreBehind

LEMMA StartsKeep ==
  ASSUME Inductive, CursorsAreBehind, Starts
  PROVE  CursorsAreBehind'
<1>1. /\ \A c \in Connectors : connector[c].cursor \in Nat /\ remote[c] \in Nat
      /\ \A t \in Syncing : t \in Threads /\ sync[t].conn \in Connectors /\ sync[t].listed \in Nat
  BY CursorTypes DEF Inductive
<1>2. \A c \in Connectors : NewRun(c).conn = c /\ NewRun(c).listed = remote[c] /\ NewRun(c).clock = "runs"
  BY DEF NewRun
<1>3. ASSUME NEW t \in Syncing'
      PROVE  \/ t \in Syncing /\ sync'[t] = sync[t] /\ (t \in Holding' <=> t \in Holding)
             \/ /\ sync'[t].conn \in Connectors \ activeRuns /\ sync'[t].listed = remote[sync'[t].conn]
                /\ t \in Holding'
  BY <1>2, <1>3 DEF Starts, Syncing, Holding
<1>4. connector' = connector /\ remote' = remote BY DEF Starts
<1>5. \A t \in Syncing' : sync'[t].listed <= remote'[sync'[t].conn]
  BY <1>1, <1>3, <1>4 DEF CursorsAreBehind
<1>6. \A u \in Holding' : connector'[sync'[u].conn].cursor <= sync'[u].listed
  <2> SUFFICES ASSUME NEW u \in Holding' PROVE connector'[sync'[u].conn].cursor <= sync'[u].listed OBVIOUS
  <2>1. u \in Syncing' BY DEF Holding
  <2>2. CASE u \in Syncing /\ sync'[u] = sync[u] /\ u \in Holding BY <1>4, <2>2 DEF CursorsAreBehind
  <2>3. CASE sync'[u].conn \in Connectors /\ sync'[u].listed = remote[sync'[u].conn]
    BY <1>4, <2>3 DEF CursorsAreBehind
  <2> QED BY <1>3, <2>1, <2>2, <2>3
<1>7. ASSUME NEW u \in Holding', NEW t \in Syncing' \ Holding', sync'[t].conn = sync'[u].conn
      PROVE  sync'[t].listed <= sync'[u].listed
  <2>1. u \in Syncing' BY DEF Holding
  <2>2. t \in Syncing /\ sync'[t] = sync[t] /\ t \notin Holding BY <1>3
  <2>3. CASE u \in Syncing /\ sync'[u] = sync[u] /\ u \in Holding BY <1>7, <2>2, <2>3 DEF CursorsAreBehind
  <2>4. CASE sync'[u].listed = remote[sync'[u].conn] BY <1>7, <2>2, <2>4 DEF CursorsAreBehind
  <2> QED BY <1>3, <2>1, <2>3, <2>4
<1>8. \A c \in Connectors : connector'[c].cursor <= remote'[c] BY <1>4 DEF CursorsAreBehind
<1> QED BY <1>5, <1>6, <1>7, <1>8 DEF CursorsAreBehind

\* A status is written and the cursor stays.
LEMMA CursorStays ==
  ASSUME Inductive, NEW d \in Connectors, NEW s \in Status,
         \/ connector' = [connector EXCEPT ![d].status = s]
         \/ connector' = Written(d, [connector[d] EXCEPT !.status = s])
  PROVE  \A c \in Connectors : connector'[c].cursor = connector[c].cursor
<1>1. connector \in [Connectors -> Row] BY DEF Inductive, Types
<1>2. [connector[d] EXCEPT !.status = s].cursor = connector[d].cursor BY <1>1 DEF Row
<1> QED BY <1>1, <1>2 DEF Written

\* Nothing but a run that is pulled, pushed or freed touches cursors and runs.
LEMMA OthersStay ==
  ASSUME Inductive, UNCHANGED <<sync, remote>>,
         \A c \in Connectors : connector'[c].cursor = connector[c].cursor
  PROVE  Onward
<1>1. \A c \in Connectors : remote[c] \in Nat BY CursorTypes DEF Inductive
<1> QED BY <1>1 DEF Onward

LEMMA RunsGoOn ==
  ASSUME Inductive, NEW t \in Threads, Deadline(t) \/ Grace(t) \/ EndOf(t)
  PROVE  Onward
<1>1. /\ t \in Syncing /\ sync[t] \in SyncRun /\ sync[t].conn \in Connectors /\ sync[t].listed \in Nat
      /\ remote' = remote
  <2>1. t \in Syncing BY DEF Deadline, Grace, EndOf, Pulled, Pushed, Fail, Deny
  <2>2. remote' = remote BY DEF Deadline, Grace, EndOf, Pulled, Pushed, Fail, Deny
  <2> QED BY <2>1, <2>2, CursorTypes DEF Inductive
<1>2. PICK d \in Connectors : d = sync[t].conn BY <1>1
<1>3. \A c \in Connectors : remote[c] <= remote'[c] /\ remote'[c] \in Nat BY <1>1, CursorTypes DEF Inductive
<1>4. connector \in [Connectors -> Row] /\ sync \in [Threads -> SyncRun \cup {NoRun}] BY DEF Inductive, Types
<1>5. \A u \in Threads \ {t} : sync'[u] = sync[u]
  BY <1>4 DEF Deadline, Grace, EndOf, Pulled, Pushed, Fail, Deny, Succeed
<1>6. CASE Deadline(t) \/ Grace(t)
  <2>1. PICK k \in {"aborted", "freed"} : sync' = [sync EXCEPT ![t].clock = k] /\ (Deadline(t) => sync[t].clock = "runs")
                                         /\ (k = "aborted" => Deadline(t))
    BY <1>6 DEF Deadline, Grace
  <2>2. /\ sync'[t].conn = sync[t].conn /\ sync'[t].listed = sync[t].listed /\ sync'[t].clock = k
    BY <1>1, <1>4, <2>1 DEF SyncRun
  <2>3. connector' = connector BY <1>6 DEF Deadline, Grace
  <2>4. sync[t] # NoRun BY <1>1 DEF Syncing
  <2> QED BY <1>3, <1>5, <2>1, <2>2, <2>3, <2>4 DEF Onward
<1>7. CASE Fail(t) \/ Deny(t)
  <2>1. sync'[t] = NoRun BY <1>4, <1>7 DEF Fail, Deny
  <2>2. PICK s \in Status : connector' = Written(d, [connector[d] EXCEPT !.status = s])
    <3>1. Kept(d, "error") \in Status /\ "needs_reauth" \in Status BY DEF Kept, Status
    <3> QED BY <1>2, <1>7, <3>1 DEF Fail, Deny
  <2>3. \A c \in Connectors : connector'[c].cursor = connector[c].cursor BY <2>2, CursorStays
  <2> QED BY <1>3, <1>5, <2>1, <2>3 DEF Onward
<1>8. CASE Pulled(t) \/ Pushed(t)
  <2>1. /\ sync'[t] = NoRun \/ (sync'[t].conn = sync[t].conn /\ sync'[t].listed = sync[t].listed
                                /\ sync'[t].clock = sync[t].clock)
        /\ sync'[t] # sync[t]
    <3>1. CASE Succeed(t) BY <1>1, <1>4, <3>1 DEF Succeed, Syncing
    <3>2. CASE ~Succeed(t)
      <4>1. sync' = [sync EXCEPT ![t].phase = "pushing"] /\ sync[t].phase = "pulling"
        BY <1>8, <3>2 DEF Pulled, Pushed
      <4>2. /\ sync'[t].conn = sync[t].conn /\ sync'[t].listed = sync[t].listed
            /\ sync'[t].clock = sync[t].clock /\ sync'[t].phase = "pushing"
        BY <1>1, <1>4, <4>1 DEF SyncRun
      <4> QED BY <4>1, <4>2
    <3> QED BY <3>1, <3>2
  <2>2. PICK row : connector' = Written(d, row) /\ row.cursor = sync[t].listed
    <3>1. [connector[d] EXCEPT !.cursor = sync[t].listed].cursor = sync[t].listed BY <1>4 DEF Row
    <3>2. CASE Succeed(t) BY <1>2, <3>2 DEF Succeed
    <3>3. CASE ~Succeed(t)
      <4>1. connector' = Written(d, [connector[d] EXCEPT !.cursor = sync[t].listed])
        BY <1>2, <1>8, <3>3 DEF Pulled, Pushed
      <4> QED BY <3>1, <4>1
    <3> QED BY <3>2, <3>3
  <2>3. \A c \in Connectors : connector'[c].cursor = connector[c].cursor
                              \/ (c = d /\ connector'[c].cursor = sync[t].listed)
    BY <1>4, <2>2 DEF Written
  <2>4. \A c \in Connectors :
          \/ connector'[c].cursor = connector[c].cursor
          \/ \E u \in Syncing : sync[u].conn = c /\ connector'[c].cursor = sync[u].listed /\ sync'[u] # sync[u]
    BY <1>1, <1>2, <2>1, <2>3
  <2>5. sync[t] # NoRun BY <1>1 DEF Syncing
  <2> QED BY <1>3, <1>5, <2>1, <2>4, <2>5 DEF Onward
<1> QED BY <1>6, <1>7, <1>8 DEF EndOf

LEMMA SyncsGoOn ==
  ASSUME Inductive, EditIsRead, SyncNext
  PROVE  Onward \/ Starts
<1>1. \A c \in Connectors : remote[c] \in Nat BY CursorTypes DEF Inductive
<1>2. CASE Tick
  <2>1. Candidates \subseteq Connectors /\ Candidates \cap activeRuns = {}
    <3>1. \A i \in DOMAIN dueList : dueList[i] \in Connectors BY DEF Inductive, Types
    <3> QED BY <3>1 DEF Candidates, Eligible
  <2> DEFINE cs == Candidates
  <2>2. PICK thread \in Assignments(cs) :
          sync' = [t \in Threads |-> IF \E c \in cs : thread[c] = t
                                     THEN NewRun(CHOOSE c \in cs : thread[c] = t) ELSE sync[t]]
    BY <1>2 DEF Tick, StartSync
  <2> HIDE DEF cs
  <2>3. \A t \in Threads : sync'[t] = sync[t] \/ \E c \in cs : sync'[t] = NewRun(c) BY <2>2
  <2>4. UNCHANGED <<connector, remote>> BY <1>2 DEF Tick
  <2> QED BY <2>1, <2>3, <2>4 DEF Starts, cs
<1>3. ASSUME NEW c \in Connectors, SyncNow(c) PROVE Starts
  <2>1. c \notin activeRuns /\ UNCHANGED <<connector, remote>> /\ StartSync({c}) BY <1>3 DEF SyncNow
  <2>2. PICK thread \in Assignments({c}) :
          sync' = [t \in Threads |-> IF \E d \in {c} : thread[d] = t
                                     THEN NewRun(CHOOSE d \in {c} : thread[d] = t) ELSE sync[t]]
    BY <2>1 DEF StartSync
  <2>3. \A t \in Threads : sync'[t] = sync[t] \/ sync'[t] = NewRun(c) BY <2>2
  <2> QED BY <2>1, <2>3 DEF Starts
<1>4. CASE Stop
  <2>1. connector' = connector /\ remote' = remote BY <1>4 DEF Stop
  <2>2. ASSUME NEW t \in Threads
        PROVE  \/ sync'[t] = NoRun
               \/ /\ sync[t] # NoRun /\ sync'[t].conn = sync[t].conn /\ sync'[t].listed = sync[t].listed
                  /\ sync[t].clock = "freed" => sync'[t].clock = "freed"
    <3>1. CASE t \in Syncing /\ sync[t].clock = "runs"
      <4>1. sync'[t] = [sync[t] EXCEPT !.clock = "aborted"] /\ sync[t] \in SyncRun /\ sync[t] # NoRun
        BY <1>4, <3>1, CursorTypes DEF Stop, Inductive, Syncing
      <4> QED BY <3>1, <4>1 DEF SyncRun
    <3>2. CASE ~(t \in Syncing /\ sync[t].clock = "runs")
      BY <1>4, <3>2 DEF Stop
    <3> QED BY <3>1, <3>2
  <2> QED BY <1>1, <2>1, <2>2 DEF Onward
<1>5. CASE Exit BY <1>1, <1>5 DEF Exit, Onward
<1>6. ASSUME NEW c \in Connectors, Elapse(c) \/ OpenEdit(c) PROVE Onward
  BY <1>6, OthersStay DEF Elapse, OpenEdit
<1>7. ASSUME NEW c \in Connectors, Pause(c) \/ Resume(c) \/ RemoveConnector(c) PROVE Onward
  <2>1. PICK s \in Status : connector' = [connector EXCEPT ![c].status = s]
    BY <1>7 DEF Pause, Resume, RemoveConnector, Activated, Status
  <2>2. UNCHANGED <<sync, remote>> BY <1>7 DEF Pause, Resume, RemoveConnector
  <2> QED BY <2>1, <2>2, CursorStays, OthersStay
<1>8. ASSUME NEW c \in Connectors, Change(c) PROVE Onward
  <2>1. remote' = [remote EXCEPT ![c] = remote[c] + 1] /\ UNCHANGED <<connector, sync>> BY <1>8 DEF Change
  <2>2. \A d \in Connectors : remote[d] <= remote'[d] /\ remote'[d] \in Nat BY <1>1, <2>1 DEF Inductive, Types
  <2> QED BY <2>1, <2>2 DEF Onward
<1>9. CASE StartConnectorScheduler \/ DropEdit
  BY <1>9, OthersStay DEF StartConnectorScheduler, DropEdit, EditEnds
<1>10. CASE Reconnect \/ SaveEdit
  <2>1. edit \in Edit BY <1>10 DEF EditIsRead, Reconnect, SaveEdit, EditEnds
  <2>2. PICK c \in Connectors : c = edit.conn BY <2>1 DEF Edit
  <2>3. PICK s \in Status : connector' = [connector EXCEPT ![c].status = s]
    BY <1>10, <2>1, <2>2 DEF Reconnect, SaveEdit, Activated, Edit, Status
  <2>4. UNCHANGED <<sync, remote>> BY <1>10 DEF Reconnect, SaveEdit, EditEnds
  <2> QED BY <2>3, <2>4, CursorStays, OthersStay
<1>11. ASSUME NEW t \in Threads, Deadline(t) \/ Grace(t) \/ EndOf(t) PROVE Onward BY <1>11, RunsGoOn
<1> QED BY <1>2, <1>3, <1>4, <1>5, <1>6, <1>7, <1>8, <1>9, <1>10, <1>11, SyncAssumption DEF SyncNext

LEMMA CursorsAreBehindStep == Inductive /\ EditIsRead /\ CursorsAreBehind /\ [SyncNext]_syncVars => CursorsAreBehind'
<1> SUFFICES ASSUME Inductive, EditIsRead, CursorsAreBehind, [SyncNext]_syncVars PROVE CursorsAreBehind' OBVIOUS
<1>1. CASE SyncNext BY <1>1, SyncsGoOn, OnwardKeeps, StartsKeep
<1>2. CASE UNCHANGED syncVars BY <1>2 DEF syncVars, CursorsAreBehind, Syncing, Holding
<1> QED BY <1>1, <1>2

\* However syncs hang, are freed, start again and end late: a cursor goes back only when a
\* sync that outlived its deadline ends after a later one of its connector.
THEOREM CursorsGoBackOnlyLate == SyncSpec => CursorsGoForward
<1> DEFINE BackOnlyLate ==
      \A c \in Connectors : connector'[c].cursor < connector[c].cursor =>
        \E t \in Syncing \ Holding : sync[t].conn = c /\ sync'[t] # sync[t]
<1>1. ASSUME Inductive, EditIsRead, CursorsAreBehind, SyncNext PROVE BackOnlyLate
  <2> SUFFICES ASSUME NEW c \in Connectors, connector'[c].cursor < connector[c].cursor
               PROVE  \E t \in Syncing \ Holding : sync[t].conn = c /\ sync'[t] # sync[t]
    OBVIOUS
  <2>1. connector[c].cursor \in Nat /\ \A t \in Syncing : sync[t].listed \in Nat BY <1>1, CursorTypes DEF Inductive
  <2>2. connector'[c].cursor # connector[c].cursor BY <2>1
  <2>3. Onward BY <1>1, <2>2, SyncsGoOn DEF Starts
  <2>4. PICK t \in Syncing : sync[t].conn = c /\ connector'[c].cursor = sync[t].listed /\ sync'[t] # sync[t]
    BY <2>2, <2>3 DEF Onward
  <2>5. t \notin Holding
    <3> SUFFICES ASSUME t \in Holding PROVE FALSE OBVIOUS
    <3>1. connector[c].cursor <= sync[t].listed BY <1>1, <2>4 DEF CursorsAreBehind
    <3> QED BY <2>1, <2>4, <3>1
  <2> QED BY <2>4, <2>5
<1>2. Inductive /\ EditIsRead /\ CursorsAreBehind /\ [SyncNext]_syncVars => [BackOnlyLate]_syncVars BY <1>1
<1>3. SyncInit => CursorsAreBehind BY DEF SyncInit, CursorsAreBehind, Syncing, Holding
<1> QED BY <1>2, <1>3, CursorsAreBehindStep, InvariantHolds, PTL DEF SyncSpec, CursorsGoForward

(***************************************************************************)
(* Pauses.                                                                 *)
(***************************************************************************)
PauseEnds(c) ==
  \/ Resume(c) \/ RemoveConnector(c) \/ Reconnect
  \/ \E t \in Threads : Deny(t)
  \/ SaveEdit /\ edit.status # "paused"

\* No other step takes a connector out of its pause.
LEMMA PauseStep ==
  ASSUME Inductive, EditIsRead, [SyncNext]_syncVars, NEW c \in Connectors,
         connector[c].status = "paused", ~PauseEnds(c)
  PROVE  connector'[c].status = "paused"
<1>1. connector \in [Connectors -> Row] /\ connector[c] \in Row BY DEF Inductive, Types
<1>2. CASE connector' = connector BY <1>2
<1>3. ASSUME NEW d \in Connectors, Pause(d) \/ Resume(d) \/ RemoveConnector(d)
      PROVE connector'[c].status = "paused"
  <2>1. Pause(d) \/ c # d BY <1>3 DEF PauseEnds
  <2>2. PICK s \in Status : connector' = [connector EXCEPT ![d].status = s] /\ (Pause(d) => s = "paused")
    BY <1>3 DEF Pause, Resume, Activated, RemoveConnector, Status
  <2> QED BY <1>1, <2>1, <2>2 DEF Row
<1>4. ASSUME NEW t \in Threads, Pulled(t) \/ Pushed(t) \/ Fail(t)
      PROVE connector'[c].status = "paused"
  <2>1. PICK d \in Connectors : d = sync[t].conn
    BY <1>4 DEF Pulled, Pushed, Fail, Inductive, Types, Syncing, SyncRun
  <2>2. PICK row : connector' = Written(d, row) /\ (connector[d].status = "paused" => row.status = "paused")
    <3>1. connector[d] \in Row BY <1>1
    <3>2. [connector[d] EXCEPT !.cursor = sync[t].listed].status = connector[d].status
          /\ [connector[d] EXCEPT !.status = Kept(d, "error")].status = Kept(d, "error")
      BY <3>1 DEF Row
    <3>3. CASE Fail(t)
      BY <2>1, <3>2, <3>3 DEF Fail, Kept
    <3>4. CASE Succeed(t)
      <4>1. connector' = Written(d, [status |-> Kept(d, "active"), cursor |-> sync[t].listed])
        BY <2>1, <3>4 DEF Succeed
      <4> QED BY <4>1 DEF Kept
    <3>5. CASE Pulled(t) /\ ~Succeed(t)
      <4>1. connector' = Written(d, [connector[d] EXCEPT !.cursor = sync[t].listed])
        BY <2>1, <3>5 DEF Pulled
      <4> QED BY <3>2, <4>1
    <3> QED BY <1>4, <3>3, <3>4, <3>5 DEF Pushed
  <2> QED BY <1>1, <2>2 DEF Written
<1>5. CASE SaveEdit
  <2>1. edit.status = "paused" /\ edit \in Edit
    BY <1>5 DEF PauseEnds, SaveEdit, EditEnds, EditIsRead
  <2>2. PICK d \in Connectors : d = edit.conn BY <2>1 DEF Edit
  <2>3. connector' = [connector EXCEPT ![d].status = "paused"] BY <1>5, <2>1, <2>2 DEF SaveEdit
  <2> QED BY <1>1, <2>3 DEF Row
<1>6. CASE \/ Tick \/ Stop \/ Exit \/ StartConnectorScheduler \/ DropEdit \/ UNCHANGED syncVars
           \/ \E d \in Connectors : Elapse(d) \/ Change(d) \/ SyncNow(d) \/ OpenEdit(d)
           \/ \E t \in Threads : Deadline(t) \/ Grace(t)
  BY <1>2, <1>6 DEF Tick, Stop, Exit, StartConnectorScheduler, DropEdit, syncVars, Elapse, Change,
                    SyncNow, OpenEdit, Deadline, Grace
<1>7. ASSUME NEW t \in Threads, Deny(t) PROVE FALSE BY <1>7 DEF PauseEnds
<1>8. CASE Reconnect BY <1>8 DEF PauseEnds
<1> QED BY <1>3, <1>4, <1>5, <1>6, <1>7, <1>8, SyncAssumption DEF SyncNext, EndOf

\* A pause is ended by the owner, by refused credentials, or by an edit from before it:
\* never by a sync that was under way.
THEOREM PausesAreKept == SyncSpec => PauseHolds
<1>1. Inductive /\ EditIsRead /\ [SyncNext]_syncVars =>
        [\A c \in Connectors : connector[c].status = "paused" /\ connector'[c].status # "paused" =>
           \/ Resume(c) \/ RemoveConnector(c) \/ Reconnect
           \/ \E t \in Threads : Deny(t)
           \/ SaveEdit /\ edit.status # "paused"]_syncVars
  BY PauseStep DEF PauseEnds
<1> QED BY <1>1, InvariantHolds, PTL DEF SyncSpec, PauseHolds

-----------------------------------------------------------------------------
(***************************************************************************)
(* What a sync makes of its mail, for every set of mailboxes and any       *)
(* number of mails.                                                        *)
(***************************************************************************)
Run == [read : Nat, listed : Nat, siblings : SUBSET Mailboxes, knows : SUBSET People]
Line == [seen : Nat, ghost : BOOLEAN, ignored : BOOLEAN]

IngestTypes ==
  /\ box \in [Mailboxes -> Seq(Mail)] /\ sent \in 0..Mails /\ present \subseteq Mailboxes
  /\ saved \in [Mailboxes -> Nat]
  /\ DOMAIN ingest = Mailboxes /\ \A k \in Mailboxes : ingest[k] # NoIngest => ingest[k] \in Run
  /\ link \in [Mailboxes -> [Mail -> Entries \cup {Unread, NoContact}]]
  /\ rollup \in [Mailboxes -> [People -> Entries \cup {Unread}]]
  /\ correspondent \in [Mailboxes -> [People -> Line]]
  /\ \A e \in DOMAIN timeline : timeline[e] \in Seq(Mail)
  /\ contacts \subseteq People

BoxesAreSent == \A k \in Mailboxes : \A i \in 1..Len(box[k]) : box[k][i] \in 1..sent

\* The mails before a cursor, and those a run is past, were read.
WasRead(k, n) == n <= Len(box[k]) /\ \A i \in 1..n : link[k][box[k][i]] # Unread
CursorsAreRead == \A k \in Mailboxes : WasRead(k, saved[k])
RunsAreRead ==
  \A k \in Mailboxes : ingest[k] # NoIngest =>
    k \in present /\ ingest[k].read <= ingest[k].listed /\ ingest[k].listed <= Len(box[k]) /\ WasRead(k, ingest[k].read)

\* A connector has counted no more of a sender's mails than it has read.
MailsRead(k, p) == {m \in 1..sent : From[m] = p /\ link[k][m] # Unread}
CountsAreRight ==
  \A k \in Mailboxes : \A p \in People :
    /\ correspondent[k][p].seen <= Cardinality(MailsRead(k, p))
    /\ correspondent[k][p].ghost => GhostThreshold <= MailsOf(p)

\* A connector that exists knows of every mail in an entry, and of the entry it is in.
EntriesAreLinked ==
  \A e \in DOMAIN timeline : \A i \in 1..Len(timeline[e]) :
    e \in Entries /\ \E k \in present : link[k][timeline[e][i]] = e

IngestIsRight ==
  IngestTypes /\ BoxesAreSent /\ CursorsAreRead /\ RunsAreRead /\ CountsAreRight /\ EntriesAreLinked

LEMMA LinkFacts == Unread \notin Entries /\ NoContact \notin Entries /\ NoContact # Unread
<1>1. \A e \in Entries : DOMAIN e = 1..2 BY DEF Entries
<1>2. DOMAIN Unread = {} BY DEF Unread
<1>3. DOMAIN NoContact = 1..1 BY DEF NoContact
<1>4. 1 \in 1..1 /\ 2 \in 1..2 /\ 2 \notin 1..1 OBVIOUS
<1> QED BY <1>1, <1>2, <1>3, <1>4

LEMMA MailsAreFinite ==
  ASSUME IngestTypes, NEW k \in Mailboxes, NEW p \in People
  PROVE  /\ IsFiniteSet(MailsRead(k, p)) /\ Cardinality(MailsRead(k, p)) \in Nat
         /\ MailsOf(p) \in Nat /\ Cardinality(MailsRead(k, p)) <= MailsOf(p)
<1> DEFINE All == {m \in 1..sent : From[m] = p}
<1>1. IsFiniteSet(1..sent) BY FS_Interval DEF IngestTypes
<1>2. IsFiniteSet(All) /\ MailsOf(p) = Cardinality(All) BY <1>1, FS_Subset DEF MailsOf
<1>3. MailsRead(k, p) \subseteq All BY DEF MailsRead
<1> QED BY <1>2, <1>3, FS_Subset, FS_CardinalityType

LEMMA IngestStarts == IngestInit => IngestIsRight
<1> SUFFICES ASSUME IngestInit PROVE IngestIsRight OBVIOUS
<1>1. IngestTypes BY IngestAssumption DEF IngestInit, IngestTypes, Line
<1>2. BoxesAreSent /\ CursorsAreRead /\ RunsAreRead
  BY DEF IngestInit, BoxesAreSent, CursorsAreRead, RunsAreRead, WasRead
<1>3. CountsAreRight
  <2> SUFFICES ASSUME NEW k \in Mailboxes, NEW p \in People
               PROVE  correspondent[k][p].seen <= Cardinality(MailsRead(k, p)) /\ ~correspondent[k][p].ghost
    BY DEF CountsAreRight
  <2> QED BY <1>1, MailsAreFinite DEF IngestInit
<1>4. EntriesAreLinked BY DEF IngestInit, EntriesAreLinked
<1> QED BY <1>1, <1>2, <1>3, <1>4 DEF IngestIsRight

\* A run reads its next mail.
Taken(k, m, entry, learnt) ==
  /\ IsNext(k, m) /\ Process(k, m, entry) /\ Reads(k, learnt)
  /\ entry \in Entries \cup {NoContact} /\ (link[k][m] \in Entries => entry = link[k][m])

LEMMA TakenKeeps ==
  ASSUME IngestIsRight, NEW k \in Mailboxes, NEW m \in Mail, NEW entry, NEW learnt \in SUBSET People,
         Taken(k, m, entry, learnt)
  PROVE  /\ link' \in [Mailboxes -> [Mail -> Entries \cup {Unread, NoContact}]]
         /\ \A j \in Mailboxes, n \in Mail : link'[j][n] = IF j = k /\ n = m THEN entry ELSE link[j][n]
         /\ DOMAIN ingest' = Mailboxes /\ \A j \in Mailboxes : ingest'[j] # NoIngest => ingest'[j] \in Run
         /\ k \in present /\ m \in 1..sent
         /\ BoxesAreSent' /\ CursorsAreRead' /\ RunsAreRead'
<1>1. ingest[k] # NoIngest /\ ingest[k] \in Run /\ ingest[k].read < ingest[k].listed /\ m = box[k][ingest[k].read + 1]
      /\ k \in present
  BY DEF Taken, IsNext, IngestIsRight, IngestTypes, RunsAreRead
<1>2. link' \in [Mailboxes -> [Mail -> Entries \cup {Unread, NoContact}]]
      /\ \A j \in Mailboxes, n \in Mail : link'[j][n] = IF j = k /\ n = m THEN entry ELSE link[j][n]
  BY DEF Taken, Process, IngestIsRight, IngestTypes
<1>3. UNCHANGED <<box, sent, present, saved>> BY DEF Taken, Process
<1>4. /\ DOMAIN ingest' = Mailboxes /\ \A j \in Mailboxes : j # k => ingest'[j] = ingest[j]
      /\ ingest'[k] \in Run /\ ingest'[k].read = ingest[k].read + 1 /\ ingest'[k].listed = ingest[k].listed
  <2>1. /\ DOMAIN ingest' = Mailboxes /\ \A j \in Mailboxes : j # k => ingest'[j] = ingest[j]
        /\ ingest'[k] = [ingest[k] EXCEPT !.read = @ + 1, !.knows = @ \cup learnt]
    BY DEF Taken, Reads, IngestIsRight, IngestTypes
  <2>2. ASSUME NEW r \in Run
        PROVE  LET n == [r EXCEPT !.read = @ + 1, !.knows = @ \cup learnt]
               IN n \in Run /\ n.read = r.read + 1 /\ n.listed = r.listed
    <3>1. r.knows \cup learnt \in SUBSET People BY DEF Run
    <3>2. r.read + 1 \in Nat BY DEF Run
    <3>3. \A K \in SUBSET People, n \in Nat : LET t == [r EXCEPT !.read = n, !.knows = K]
            IN t \in Run /\ t.read = n /\ t.listed = r.listed
      BY DEF Run
    <3> QED BY <3>1, <3>2, <3>3
  <2> QED BY <1>1, <2>1, <2>2
<1>5. ingest[k].listed <= Len(box[k]) /\ Len(box[k]) \in Nat /\ box[k] \in Seq(Mail)
  BY <1>1 DEF IngestIsRight, RunsAreRead, IngestTypes
<1>6. m \in 1..sent BY <1>1, <1>5 DEF IngestIsRight, BoxesAreSent, Run
<1>7. \A j \in Mailboxes, n \in Mail : link[j][n] # Unread => link'[j][n] # Unread
  BY <1>2, LinkFacts DEF Taken
<1>8. ASSUME NEW j \in Mailboxes, NEW n \in Nat, WasRead(j, n) PROVE WasRead(j, n)'
  BY <1>3, <1>7, <1>8 DEF WasRead, IngestIsRight, IngestTypes
<1>9. PICK past \in Nat : past = ingest[k].read + 1 BY <1>1 DEF Run
<1>10. WasRead(k, past)'
  <2>1. \A i \in 1..ingest[k].read : link'[k][box[k][i]] # Unread
    BY <1>1, <1>3, <1>8 DEF IngestIsRight, RunsAreRead, WasRead, Run
  <2>2. link'[k][box[k][past]] # Unread BY <1>1, <1>2, <1>9, LinkFacts DEF Taken
  <2>3. ingest[k].read \in Nat /\ ingest[k].listed \in Nat /\ past <= Len(box[k]) BY <1>1, <1>5, <1>9 DEF Run
  <2>4. \A i \in 1..past : i \in 1..ingest[k].read \/ i = past BY <1>9, <2>3
  <2>5. \A i \in 1..past : link'[k][box[k][i]] # Unread BY <2>1, <2>2, <2>4
  <2> QED BY <1>3, <2>3, <2>5 DEF WasRead
<1>11. BoxesAreSent' BY <1>3 DEF BoxesAreSent, IngestIsRight
<1>12. CursorsAreRead' BY <1>3, <1>8 DEF CursorsAreRead, IngestIsRight, IngestTypes
<1>13. RunsAreRead'
  <2> SUFFICES ASSUME NEW j \in Mailboxes, ingest'[j] # NoIngest
               PROVE  /\ j \in present' /\ ingest'[j].read <= ingest'[j].listed /\ ingest'[j].listed <= Len(box'[j])
                      /\ WasRead(j, ingest[j].read)'
    BY DEF RunsAreRead
  <2>1. CASE j = k 
    <3>1. ingest[k].read \in Nat /\ ingest[k].listed \in Nat /\ ingest[k].read + 1 <= ingest[k].listed BY <1>1 DEF Run
    <3>2. WasRead(k, ingest[k].read)' BY <1>4, <1>9, <1>10 DEF WasRead
    <3> QED BY <1>1, <1>3, <1>4, <1>5, <2>1, <3>1, <3>2
  <2>2. CASE j # k BY <1>3, <1>4, <1>8, <2>2 DEF IngestIsRight, IngestTypes, RunsAreRead, Run
  <2> QED BY <2>1, <2>2
<1> QED BY <1>1, <1>2, <1>4, <1>6, <1>11, <1>12, <1>13 DEF IngestIsRight, IngestTypes

\* Reading one more mail leaves every count right.
LEMMA ReadMore ==
  ASSUME IngestTypes, NEW k \in Mailboxes, NEW p \in People, sent' \in 0..Mails, sent <= sent',
         \A n \in Mail : link[k][n] # Unread => link'[k][n] # Unread, IngestTypes'
  PROVE  /\ Cardinality(MailsRead(k, p)) <= Cardinality(MailsRead(k, p)') /\ MailsOf(p) <= MailsOf(p)'
         /\ Cardinality(MailsRead(k, p)') \in Nat /\ MailsOf(p)' \in Nat
<1>1. 1..sent \subseteq 1..sent' /\ 1..sent \subseteq Mail BY IngestAssumption DEF IngestTypes, Mail
<1>2. MailsRead(k, p) \subseteq MailsRead(k, p)' BY <1>1 DEF MailsRead
<1>3. IsFiniteSet(1..sent') BY FS_Interval
<1>4. IsFiniteSet(MailsRead(k, p)') BY <1>3, FS_Subset DEF MailsRead
<1>5. {m \in 1..sent : From[m] = p} \subseteq {m \in 1..sent' : From[m] = p} BY <1>1
<1>6. IsFiniteSet({m \in 1..sent' : From[m] = p}) BY <1>3, FS_Subset
<1>7. Cardinality(MailsRead(k, p)) <= Cardinality(MailsRead(k, p)') BY <1>2, <1>4, FS_Subset
<1>8. MailsOf(p) <= MailsOf(p)' BY <1>5, <1>6, FS_Subset DEF MailsOf
<1>9. Cardinality(MailsRead(k, p)') \in Nat /\ MailsOf(p)' \in Nat BY <1>4, <1>6, FS_CardinalityType DEF MailsOf
<1> QED BY <1>7, <1>8, <1>9

LEMMA CountsKept ==
  ASSUME IngestIsRight, IngestTypes', UNCHANGED correspondent, sent <= sent',
         \A k \in Mailboxes, n \in Mail : link[k][n] # Unread => link'[k][n] # Unread
  PROVE  CountsAreRight'
<1> SUFFICES ASSUME NEW k \in Mailboxes, NEW p \in People
             PROVE  /\ correspondent[k][p].seen <= Cardinality(MailsRead(k, p)')
                    /\ correspondent[k][p].ghost => GhostThreshold <= MailsOf(p)'
  BY DEF CountsAreRight
<1>1. Cardinality(MailsRead(k, p)) <= Cardinality(MailsRead(k, p)') /\ MailsOf(p) <= MailsOf(p)'
      /\ Cardinality(MailsRead(k, p)') \in Nat /\ MailsOf(p)' \in Nat
  BY ReadMore DEF IngestIsRight, IngestTypes
<1>2. Cardinality(MailsRead(k, p)) \in Nat /\ MailsOf(p) \in Nat BY MailsAreFinite DEF IngestIsRight
<1>3. correspondent[k][p].seen <= Cardinality(MailsRead(k, p)) /\ correspondent[k][p].seen \in Nat
      /\ (correspondent[k][p].ghost => GhostThreshold <= MailsOf(p))
  BY DEF IngestIsRight, CountsAreRight, IngestTypes, Line
<1> QED BY <1>1, <1>2, <1>3, IngestAssumption

LEMMA LinkedKept ==
  ASSUME IngestIsRight, present \subseteq present',
         \A k \in Mailboxes, n \in Mail : link[k][n] \in Entries => link'[k][n] = link[k][n],
         \A e \in DOMAIN timeline' : e \in DOMAIN timeline /\ timeline'[e] = timeline[e]
  PROVE  EntriesAreLinked'
<1> SUFFICES ASSUME NEW e \in DOMAIN timeline', NEW i \in 1..Len(timeline'[e])
             PROVE  e \in Entries /\ \E k \in present' : link'[k][timeline'[e][i]] = e
  BY DEF EntriesAreLinked
<1>1. e \in DOMAIN timeline /\ timeline'[e] = timeline[e] /\ timeline[e] \in Seq(Mail) /\ timeline[e][i] \in Mail
  BY DEF IngestIsRight, IngestTypes
<1>2. e \in Entries BY <1>1 DEF IngestIsRight, EntriesAreLinked
<1>3. PICK k \in present : link[k][timeline[e][i]] = e BY <1>1 DEF IngestIsRight, EntriesAreLinked
<1>4. k \in Mailboxes BY DEF IngestIsRight, IngestTypes
<1>5. link'[k][timeline[e][i]] = e BY <1>1, <1>2, <1>3, <1>4
<1> QED BY <1>1, <1>2, <1>5

LEMMA QuietlyTaken ==
  ASSUME IngestIsRight, NEW k \in Mailboxes, NEW m \in Mail, NEW entry, Taken(k, m, entry, {}),
         UNCHANGED <<rollup, correspondent, timeline, contacts>>
  PROVE  IngestIsRight'
<1>1. /\ link' \in [Mailboxes -> [Mail -> Entries \cup {Unread, NoContact}]]
      /\ \A j \in Mailboxes, n \in Mail : link'[j][n] = IF j = k /\ n = m THEN entry ELSE link[j][n]
      /\ DOMAIN ingest' = Mailboxes /\ \A j \in Mailboxes : ingest'[j] # NoIngest => ingest'[j] \in Run
      /\ BoxesAreSent' /\ CursorsAreRead' /\ RunsAreRead'
  BY TakenKeeps
<1>2. UNCHANGED <<box, sent, present, saved>> BY DEF Taken, Process
<1>3. IngestTypes' BY <1>1, <1>2 DEF IngestIsRight, IngestTypes
<1>4. \A j \in Mailboxes, n \in Mail : link[j][n] # Unread => link'[j][n] # Unread
  BY <1>1, LinkFacts DEF Taken
<1>5. sent <= sent' BY <1>2 DEF IngestIsRight, IngestTypes
<1>6. CountsAreRight' BY <1>3, <1>4, <1>5, CountsKept
<1>7. \A j \in Mailboxes, n \in Mail : link[j][n] \in Entries => link'[j][n] = link[j][n] BY <1>1 DEF Taken
<1>8. EntriesAreLinked' BY <1>2, <1>7, LinkedKept
<1> QED BY <1>1, <1>3, <1>6, <1>8 DEF IngestIsRight

LEMMA SkipOrShareKeeps ==
  ASSUME IngestIsRight, NEW k \in Mailboxes, NEW m \in Mail, Skip(k, m) \/ Share(k, m)
  PROVE  IngestIsRight'
<1>1. CASE Skip(k, m)
  <2>1. Taken(k, m, link[k][m], {}) BY <1>1 DEF Skip, Taken
  <2> QED BY <1>1, <2>1, QuietlyTaken DEF Skip
<1>2. CASE Share(k, m)
  <2>1. PICK e \in Entries : Taken(k, m, e, {}) BY <1>2 DEF Share, Taken, Shared
  <2> QED BY <1>2, <2>1, QuietlyTaken DEF Share
<1> QED BY <1>1, <1>2

\* A step puts a mail at one place of the timeline, and the other mails at no new one.
AddsOne(m, e, at) ==
  \A x \in DOMAIN timeline' :
    /\ timeline'[x] \in Seq(Mail)
    /\ \A i \in 1..Len(timeline'[x]) :
         \/ x = e /\ timeline'[x][i] = m /\ i = at
         \/ x \in DOMAIN timeline /\ i \in 1..Len(timeline[x]) /\ timeline'[x][i] = timeline[x][i]

\* Where the mail that a run matches goes.
LEMMA MatchKeeps ==
  ASSUME IngestIsRight, NEW k \in Mailboxes, NEW m \in Mail, NEW e \in Entries, NEW at, Taken(k, m, e, {}),
         link[k][m] \notin Entries, AddsOne(m, e, at),
         rollup' \in [Mailboxes -> [People -> Entries \cup {Unread}]], UNCHANGED <<correspondent, contacts>>
  PROVE  IngestIsRight'
<1>1. /\ link' \in [Mailboxes -> [Mail -> Entries \cup {Unread, NoContact}]]
      /\ \A j \in Mailboxes, n \in Mail : link'[j][n] = IF j = k /\ n = m THEN e ELSE link[j][n]
      /\ DOMAIN ingest' = Mailboxes /\ \A j \in Mailboxes : ingest'[j] # NoIngest => ingest'[j] \in Run
      /\ k \in present /\ BoxesAreSent' /\ CursorsAreRead' /\ RunsAreRead'
  BY TakenKeeps
<1>2. UNCHANGED <<box, sent, present, saved>> BY DEF Taken, Process
<1>3. IngestTypes' BY <1>1, <1>2 DEF IngestIsRight, IngestTypes, AddsOne
<1>4. \A j \in Mailboxes, n \in Mail : link[j][n] # Unread => link'[j][n] # Unread
  BY <1>1, LinkFacts
<1>5. sent <= sent' BY <1>2 DEF IngestIsRight, IngestTypes
<1>6. CountsAreRight' BY <1>3, <1>4, <1>5, CountsKept
<1>7. ASSUME NEW x \in DOMAIN timeline', NEW i \in 1..Len(timeline'[x])
      PROVE  x \in Entries /\ \E j \in present : link'[j][timeline'[x][i]] = x
  <2>1. CASE x = e /\ timeline'[x][i] = m BY <1>1, <2>1
  <2>2. CASE x \in DOMAIN timeline /\ i \in 1..Len(timeline[x]) /\ timeline'[x][i] = timeline[x][i]
    <3>1. timeline[x][i] \in Mail BY <2>2 DEF IngestIsRight, IngestTypes
    <3>2. x \in Entries /\ \E j \in present : link[j][timeline[x][i]] = x
      BY <2>2 DEF IngestIsRight, EntriesAreLinked
    <3> QED BY <1>1, <2>2, <3>1, <3>2 DEF IngestIsRight, IngestTypes
  <2> QED BY <2>1, <2>2 DEF AddsOne
<1>8. EntriesAreLinked' BY <1>2, <1>7 DEF EntriesAreLinked
<1> QED BY <1>1, <1>3, <1>6, <1>8 DEF IngestIsRight

LEMMA LogFacts ==
  ASSUME IngestIsRight, NEW k \in Mailboxes, NEW m \in Mail, Log(k, m)
  PROVE  Taken(k, m, <<k, m>>, {}) /\ <<k, m>> \in Entries /\ AddsOne(m, <<k, m>>, 1)
<1>1. <<k, m>> \in Entries BY DEF Entries
<1>2. Taken(k, m, <<k, m>>, {}) BY <1>1 DEF Log, Matches, Taken
<1>3. DOMAIN timeline' = DOMAIN timeline \cup {<<k, m>>}
      /\ \A x \in DOMAIN timeline' : timeline'[x] = IF x = <<k, m>> THEN <<m>> ELSE timeline[x]
  BY DEF Log
<1>4. <<m>> \in Seq(Mail) /\ Len(<<m>>) = 1 /\ <<m>>[1] = m OBVIOUS
<1>5. \A x \in DOMAIN timeline' : timeline'[x] \in Seq(Mail) BY <1>3, <1>4 DEF IngestIsRight, IngestTypes
<1>6. ASSUME NEW x \in DOMAIN timeline', NEW i \in 1..Len(timeline'[x])
      PROVE  \/ x = <<k, m>> /\ timeline'[x][i] = m /\ i = 1
             \/ x \in DOMAIN timeline /\ i \in 1..Len(timeline[x]) /\ timeline'[x][i] = timeline[x][i]
  <2>1. CASE x = <<k, m>>
    <3>1. timeline'[x] = <<m>> BY <1>3, <2>1
    <3>2. i = 1 BY <1>4, <3>1
    <3> QED BY <1>4, <2>1, <3>1, <3>2
  <2>2. CASE x # <<k, m>> BY <1>3, <2>2
  <2> QED BY <2>1, <2>2
<1>7. AddsOne(m, <<k, m>>, 1) BY <1>5, <1>6 DEF AddsOne
<1> QED BY <1>1, <1>2, <1>7

LEMMA RollUpFacts ==
  ASSUME IngestIsRight, NEW k \in Mailboxes, NEW m \in Mail, RollUp(k, m)
  PROVE  \E day \in Entries, at \in Nat : Taken(k, m, day, {}) /\ AddsOne(m, day, at)
<1> DEFINE day == rollup[k][From[m]]
<1>1. day \in Entries
  BY IngestAssumption DEF RollUp, Matches, IngestIsRight, IngestTypes, Mail
<1>2. Taken(k, m, day, {}) BY <1>1 DEF RollUp, Matches, Taken
<1>3. DOMAIN timeline' = DOMAIN timeline
      /\ \A x \in DOMAIN timeline : timeline'[x] = IF x = day THEN Append(timeline[x], m) ELSE timeline[x]
  BY DEF RollUp
<1> HIDE DEF day
<1>4. \A x \in DOMAIN timeline : timeline[x] \in Seq(Mail) BY DEF IngestIsRight, IngestTypes
<1>5. \A x \in DOMAIN timeline' : timeline'[x] \in Seq(Mail) BY <1>3, <1>4
<1>6. ASSUME NEW x \in DOMAIN timeline', NEW i \in 1..Len(timeline'[x])
      PROVE  \/ x = day /\ timeline'[x][i] = m /\ i = Len(timeline[day]) + 1
             \/ x \in DOMAIN timeline /\ i \in 1..Len(timeline[x]) /\ timeline'[x][i] = timeline[x][i]
  <2>1. CASE x = day
    <3>1. timeline'[x] = Append(timeline[x], m) /\ timeline[x] \in Seq(Mail) BY <1>3, <1>4, <2>1
    <3>2. CASE i = Len(timeline[x]) + 1 BY <2>1, <3>1, <3>2
    <3>3. CASE i # Len(timeline[x]) + 1 BY <1>3, <3>1, <3>3
    <3> QED BY <3>2, <3>3
  <2>2. CASE x # day BY <1>3, <2>2
  <2> QED BY <2>1, <2>2
<1>7. CASE day \in DOMAIN timeline
  <2>1. AddsOne(m, day, Len(timeline[day]) + 1) BY <1>5, <1>6 DEF AddsOne
  <2>2. Len(timeline[day]) + 1 \in Nat BY <1>4, <1>7
  <2> QED BY <1>1, <1>2, <2>1, <2>2
<1>8. CASE day \notin DOMAIN timeline
  <2>1. AddsOne(m, day, 0) BY <1>3, <1>5, <1>6, <1>8 DEF AddsOne
  <2> QED BY <1>1, <1>2, <2>1
<1> QED BY <1>7, <1>8

LEMMA LogKeeps ==
  ASSUME IngestIsRight, NEW k \in Mailboxes, NEW m \in Mail, Log(k, m)
  PROVE  IngestIsRight'
<1>1. rollup' \in [Mailboxes -> [People -> Entries \cup {Unread}]]
  <2>1. <<k, m>> \in Entries /\ From[m] \in People BY IngestAssumption DEF Entries, Mail
  <2> QED BY <2>1 DEF Log, IngestIsRight, IngestTypes
<1>2. link[k][m] \notin Entries /\ UNCHANGED <<correspondent, contacts>> BY DEF Log, Matches
<1>3. Taken(k, m, <<k, m>>, {}) /\ <<k, m>> \in Entries /\ AddsOne(m, <<k, m>>, 1) BY LogFacts
<1> QED BY <1>1, <1>2, <1>3, MatchKeeps

LEMMA RollUpKeeps ==
  ASSUME IngestIsRight, NEW k \in Mailboxes, NEW m \in Mail, RollUp(k, m)
  PROVE  IngestIsRight'
<1>1. rollup' \in [Mailboxes -> [People -> Entries \cup {Unread}]] BY DEF RollUp, IngestIsRight, IngestTypes
<1>2. link[k][m] \notin Entries /\ UNCHANGED <<correspondent, contacts>> BY DEF RollUp, Matches
<1>3. PICK day \in Entries, at \in Nat : Taken(k, m, day, {}) /\ AddsOne(m, day, at) BY RollUpFacts
<1> QED BY <1>1, <1>2, <1>3, MatchKeeps

LEMMA CountKeeps ==
  ASSUME IngestIsRight, NEW k \in Mailboxes, NEW m \in Mail, Count(k, m)
  PROVE  IngestIsRight'
<1> DEFINE p == From[m]
           line == correspondent[k][p]
           suggested == ~line.ignored /\ ~line.ghost /\ line.seen + 1 >= GhostThreshold
           ghost == IF suggested THEN {p} ELSE {}
<1>1. p \in People /\ line \in Line
  BY IngestAssumption DEF IngestIsRight, IngestTypes, Mail
<1>2. CASE Counted(k, m)
  <2>1. Taken(k, m, NoContact, {}) /\ UNCHANGED <<rollup, correspondent, timeline, contacts>>
    BY <1>2 DEF Count, Taken
  <2> QED BY <2>1, QuietlyTaken
<1>3. CASE ~Counted(k, m)
  <2>1. /\ Taken(k, m, NoContact, ghost) /\ link[k][m] \notin Entries
        /\ correspondent' = [correspondent EXCEPT ![k][p] = [line EXCEPT !.seen = @ + 1, !.ghost = @ \/ suggested]]
        /\ contacts' = contacts \cup ghost /\ UNCHANGED <<rollup, timeline>>
    BY <1>3 DEF Count, Taken
  <2>2. link[k][m] = Unread
    BY <1>3, <2>1 DEF Counted, IngestIsRight, IngestTypes
  <2>3. ghost \in SUBSET People BY <1>1
  <2>4. /\ link' \in [Mailboxes -> [Mail -> Entries \cup {Unread, NoContact}]]
        /\ \A j \in Mailboxes, n \in Mail : link'[j][n] = IF j = k /\ n = m THEN NoContact ELSE link[j][n]
        /\ DOMAIN ingest' = Mailboxes /\ \A j \in Mailboxes : ingest'[j] # NoIngest => ingest'[j] \in Run
        /\ m \in 1..sent /\ BoxesAreSent' /\ CursorsAreRead' /\ RunsAreRead'
    BY <2>1, <2>3, TakenKeeps
  <2>5. UNCHANGED <<box, sent, present, saved>> BY <2>1 DEF Taken, Process
  <2>6. PICK l \in Line, more \in Nat, g \in BOOLEAN : l = line /\ more = line.seen + 1 /\ g = (line.ghost \/ suggested)
    <3>1. line.seen + 1 \in Nat /\ (line.ghost \/ suggested) \in BOOLEAN BY <1>1 DEF Line
    <3> QED BY <1>1, <3>1
  <2>7. PICK next \in Line : next.seen = more /\ next.ghost = g /\ correspondent' = [correspondent EXCEPT ![k][p] = next]
    <3> DEFINE now == [l EXCEPT !.seen = more, !.ghost = g]
    <3>1. now \in Line /\ now.seen = more /\ now.ghost = g BY DEF Line
    <3>2. [line EXCEPT !.seen = @ + 1, !.ghost = @ \/ suggested] = now BY <2>6
    <3>3. correspondent' = [correspondent EXCEPT ![k][p] = now] BY <2>1, <3>2
    <3> HIDE DEF now
    <3> QED BY <3>1, <3>3
  <2>8. /\ correspondent' \in [Mailboxes -> [People -> Line]]
        /\ \A j \in Mailboxes, q \in People : correspondent'[j][q] = IF j = k /\ q = p THEN next ELSE correspondent[j][q]
    BY <1>1, <2>7 DEF IngestIsRight, IngestTypes
  <2>9. IngestTypes' BY <2>1, <2>3, <2>4, <2>5, <2>8 DEF IngestIsRight, IngestTypes
  <2>10. \A j \in Mailboxes, n \in Mail : link[j][n] # Unread => link'[j][n] # Unread BY <2>2, <2>4
  <2>11. EntriesAreLinked' BY <2>1, <2>4, <2>5, LinkedKept
  <2>12. ASSUME NEW j \in Mailboxes, NEW q \in People
         PROVE  /\ Cardinality(MailsRead(j, q)) <= Cardinality(MailsRead(j, q)') /\ MailsOf(q)' = MailsOf(q)
                /\ Cardinality(MailsRead(j, q)') \in Nat /\ Cardinality(MailsRead(j, q)') <= MailsOf(q)
    <3>1. sent <= sent' /\ sent' \in 0..Mails BY <2>5 DEF IngestIsRight, IngestTypes
    <3>2. Cardinality(MailsRead(j, q)) <= Cardinality(MailsRead(j, q)') /\ Cardinality(MailsRead(j, q)') \in Nat
      BY <2>9, <2>10, <3>1, ReadMore DEF IngestIsRight
    <3>3. MailsOf(q)' = MailsOf(q) BY <2>5 DEF MailsOf
    <3>4. MailsRead(j, q)' \subseteq {n \in 1..sent : From[n] = q} BY <2>5 DEF MailsRead
    <3>5. IsFiniteSet({n \in 1..sent : From[n] = q})
      <4>1. IsFiniteSet(1..sent) BY FS_Interval DEF IngestIsRight, IngestTypes
      <4> QED BY <4>1, FS_Subset
    <3>6. Cardinality(MailsRead(j, q)') <= MailsOf(q) BY <3>4, <3>5, FS_Subset DEF MailsOf
    <3> QED BY <3>2, <3>3, <3>6
  <2>13. line.seen + 1 <= Cardinality(MailsRead(k, p)')
    <3>1. MailsRead(k, p)' = MailsRead(k, p) \cup {m} /\ m \notin MailsRead(k, p)
      <4>1. 1..sent \subseteq Mail BY IngestAssumption DEF Mail, IngestIsRight, IngestTypes
      <4>2. \A n \in 1..sent : link'[k][n] # Unread <=> n = m \/ link[k][n] # Unread BY <2>4, <4>1, LinkFacts
      <4> QED BY <2>2, <2>4, <2>5, <4>2 DEF MailsRead
    <3>2. IsFiniteSet(MailsRead(k, p)) /\ Cardinality(MailsRead(k, p)) \in Nat
      BY <1>1, MailsAreFinite DEF IngestIsRight
    <3>3. Cardinality(MailsRead(k, p)') = Cardinality(MailsRead(k, p)) + 1 BY <3>1, <3>2, FS_AddElement
    <3>4. line.seen <= Cardinality(MailsRead(k, p)) /\ line.seen \in Nat
      BY <1>1 DEF IngestIsRight, CountsAreRight, Line
    <3> QED BY <3>2, <3>3, <3>4
  <2>14. CountsAreRight'
    <3> SUFFICES ASSUME NEW j \in Mailboxes, NEW q \in People
                 PROVE  /\ correspondent'[j][q].seen <= Cardinality(MailsRead(j, q)')
                        /\ correspondent'[j][q].ghost => GhostThreshold <= MailsOf(q)'
      BY DEF CountsAreRight
    <3>1. /\ correspondent[j][q].seen <= Cardinality(MailsRead(j, q)) /\ correspondent[j][q].seen \in Nat
          /\ (correspondent[j][q].ghost => GhostThreshold <= MailsOf(q))
      BY DEF IngestIsRight, CountsAreRight, IngestTypes, Line
    <3>2. Cardinality(MailsRead(j, q)) \in Nat /\ MailsOf(q) \in Nat BY MailsAreFinite DEF IngestIsRight
    <3>3. CASE j = k /\ q = p
      <4>1. correspondent'[j][q] = next BY <2>8, <3>3
      <4>2. Cardinality(MailsRead(k, p)') <= MailsOf(p) /\ Cardinality(MailsRead(k, p)') \in Nat /\ MailsOf(p)' = MailsOf(p)
        BY <2>12, <3>3
      <4>3. suggested => GhostThreshold <= MailsOf(p)
        <5>1. suggested => GhostThreshold <= line.seen + 1 /\ line.seen \in Nat BY <1>1, IngestAssumption DEF Line
        <5> HIDE DEF suggested, line, p
        <5> QED BY <2>13, <3>2, <3>3, <4>2, <5>1, IngestAssumption
      <4>4. next.ghost => GhostThreshold <= MailsOf(p) BY <2>6, <2>7, <3>1, <3>3, <4>3
      <4>5. next.seen <= Cardinality(MailsRead(k, p)') BY <2>6, <2>7, <2>13
      <4> HIDE DEF p, line, suggested
      <4> QED BY <3>3, <4>1, <4>2, <4>4, <4>5
    <3>4. CASE ~(j = k /\ q = p)
      <4>1. correspondent'[j][q] = correspondent[j][q] BY <2>8, <3>4
      <4> QED BY <2>12, <3>1, <3>2, <4>1
    <3> QED BY <3>3, <3>4
  <2> QED BY <2>4, <2>9, <2>11, <2>14 DEF IngestIsRight
<1> QED BY <1>2, <1>3

\* The other steps of a run, and of the world around it.
LEMMA RunKeeps ==
  ASSUME IngestIsRight, NEW k \in Mailboxes, StartIngest(k) \/ EndIngest(k) \/ LoseIngest(k)
  PROVE  IngestIsRight'
<1>1. UNCHANGED <<box, sent, present, link, rollup, correspondent, timeline, contacts>>
  BY DEF StartIngest, EndIngest, LoseIngest
<1>2. box[k] \in Seq(Mail) /\ Len(box[k]) \in Nat /\ saved[k] \in Nat /\ WasRead(k, saved[k])
  BY DEF IngestIsRight, IngestTypes, CursorsAreRead
<1>3. WasRead(k, 0) BY <1>2 DEF WasRead
<1>4. \A n \in Nat : WasRead(k, n) => n <= Len(box[k]) BY DEF WasRead
<1>5. \A j \in Mailboxes, n \in Nat : WasRead(j, n) => WasRead(j, n)' BY <1>1 DEF WasRead
<1>6. /\ saved' \in [Mailboxes -> Nat] /\ DOMAIN ingest' = Mailboxes
      /\ \A j \in Mailboxes : ingest'[j] # NoIngest => ingest'[j] \in Run
      /\ CursorsAreRead' /\ RunsAreRead'
  <2>1. CASE StartIngest(k)
    <3>1. PICK from \in {saved[k], 0} :
            ingest' = [ingest EXCEPT ![k] = [read |-> from, listed |-> Len(box[k]),
                                             siblings |-> present \ {k}, knows |-> contacts]]
      BY <2>1 DEF StartIngest
    <3>2. from \in Nat /\ WasRead(k, from) /\ from <= Len(box[k]) BY <1>2, <1>3, <1>4
    <3>3. /\ DOMAIN ingest' = Mailboxes /\ \A j \in Mailboxes : j # k => ingest'[j] = ingest[j]
          /\ ingest'[k] \in Run /\ ingest'[k].read = from /\ ingest'[k].listed = Len(box[k])
      BY <1>2, <3>1, <3>2 DEF IngestIsRight, IngestTypes, Run
    <3>4. saved' = saved /\ k \in present BY <2>1 DEF StartIngest
    <3>5. RunsAreRead'
      BY <1>1, <1>2, <1>5, <3>2, <3>3, <3>4 DEF RunsAreRead, WasRead, IngestIsRight, IngestTypes, Run
    <3>6. CursorsAreRead' BY <1>1, <3>4 DEF CursorsAreRead, WasRead, IngestIsRight
    <3> QED BY <3>3, <3>4, <3>5, <3>6 DEF IngestIsRight, IngestTypes
  <2>2. CASE EndIngest(k)
    <3>1. /\ ingest[k] # NoIngest /\ ingest[k].read = ingest[k].listed /\ ingest' = [ingest EXCEPT ![k] = NoIngest]
          /\ saved' = [saved EXCEPT ![k] = ingest[k].listed]
      BY <2>2 DEF EndIngest
    <3>2. ingest[k].listed \in Nat /\ WasRead(k, ingest[k].listed)
      BY <3>1 DEF IngestIsRight, IngestTypes, RunsAreRead, Run
    <3>3. /\ saved' \in [Mailboxes -> Nat] /\ \A j \in Mailboxes : WasRead(j, saved'[j])
      BY <3>1, <3>2 DEF IngestIsRight, IngestTypes, CursorsAreRead
    <3>4. CursorsAreRead' BY <1>1, <3>3 DEF CursorsAreRead, WasRead
    <3>5. DOMAIN ingest' = Mailboxes /\ \A j \in Mailboxes : ingest'[j] # NoIngest => ingest'[j] = ingest[j]
      BY <3>1 DEF IngestIsRight, IngestTypes
    <3>6. RunsAreRead' BY <1>1, <3>5 DEF RunsAreRead, WasRead, IngestIsRight
    <3> QED BY <3>3, <3>4, <3>5, <3>6 DEF IngestIsRight, IngestTypes
  <2>3. CASE LoseIngest(k)
    <3>1. ingest' = [ingest EXCEPT ![k] = NoIngest] /\ saved' = saved BY <2>3 DEF LoseIngest
    <3>2. DOMAIN ingest' = Mailboxes /\ \A j \in Mailboxes : ingest'[j] # NoIngest => ingest'[j] = ingest[j]
      BY <3>1 DEF IngestIsRight, IngestTypes
    <3>3. RunsAreRead' BY <1>1, <3>2 DEF RunsAreRead, WasRead, IngestIsRight
    <3>4. CursorsAreRead' BY <1>1, <3>1 DEF CursorsAreRead, WasRead, IngestIsRight
    <3> QED BY <3>1, <3>2, <3>3, <3>4 DEF IngestIsRight, IngestTypes
  <2> QED BY <2>1, <2>2, <2>3
<1>7. IngestTypes' BY <1>1, <1>6 DEF IngestIsRight, IngestTypes
<1>8. BoxesAreSent' BY <1>1 DEF BoxesAreSent, IngestIsRight
<1>9. CountsAreRight'
  BY <1>1 DEF CountsAreRight, MailsRead, MailsOf, IngestIsRight
<1>10. EntriesAreLinked' BY <1>1 DEF EntriesAreLinked, IngestIsRight
<1> QED BY <1>6, <1>7, <1>8, <1>9, <1>10 DEF IngestIsRight

LEMMA DeliverKeeps ==
  ASSUME IngestIsRight, NEW ks \in Reached, Deliver(ks)
  PROVE  IngestIsRight'
<1>1. /\ sent < Mails /\ sent' = sent + 1
      /\ box' = [k \in Mailboxes |-> IF k \in ks THEN Append(box[k], sent + 1) ELSE box[k]]
      /\ UNCHANGED <<present, saved, ingest, link, rollup, correspondent, timeline, contacts>>
  BY DEF Deliver
<1>2. sent \in Nat /\ Mails \in Nat /\ sent + 1 \in Mail BY <1>1, IngestAssumption DEF IngestIsRight, IngestTypes, Mail
<1>3. ASSUME NEW k \in Mailboxes
      PROVE  /\ box[k] \in Seq(Mail) /\ box'[k] \in Seq(Mail) /\ Len(box[k]) <= Len(box'[k])
             /\ \A i \in 1..Len(box[k]) : box'[k][i] = box[k][i]
             /\ \A i \in 1..Len(box'[k]) : i \in 1..Len(box[k]) \/ box'[k][i] = sent + 1
  <2>1. box[k] \in Seq(Mail) BY DEF IngestIsRight, IngestTypes
  <2>2. CASE k \in ks
    <3>1. box'[k] = Append(box[k], sent + 1) BY <1>1, <2>2
    <3>2. Len(box'[k]) = Len(box[k]) + 1 /\ box'[k] \in Seq(Mail) BY <1>2, <2>1, <3>1
    <3> QED BY <1>2, <2>1, <3>1, <3>2
  <2>3. CASE k \notin ks BY <1>1, <2>1, <2>3
  <2> QED BY <2>2, <2>3
<1>4. IngestTypes'
  <2>1. box' \in [Mailboxes -> Seq(Mail)] BY <1>1, <1>3
  <2> QED BY <1>1, <1>2, <2>1 DEF IngestIsRight, IngestTypes
<1>5. BoxesAreSent'
  <2> SUFFICES ASSUME NEW k \in Mailboxes, NEW i \in 1..Len(box'[k]) PROVE box'[k][i] \in 1..sent'
    BY DEF BoxesAreSent
  <2>1. CASE i \in 1..Len(box[k])
    <3>1. box[k][i] \in 1..sent BY <2>1 DEF IngestIsRight, BoxesAreSent
    <3> QED BY <1>1, <1>2, <1>3, <2>1, <3>1
  <2>2. CASE box'[k][i] = sent + 1 BY <1>1, <1>2, <2>2
  <2> QED BY <1>3, <2>1, <2>2
<1>6. ASSUME NEW k \in Mailboxes, NEW n \in Nat, WasRead(k, n) PROVE WasRead(k, n)'
  <2>1. n <= Len(box[k]) /\ \A i \in 1..n : link[k][box[k][i]] # Unread BY <1>6 DEF WasRead
  <2>2. Len(box[k]) \in Nat /\ Len(box'[k]) \in Nat /\ n <= Len(box'[k]) BY <1>3, <2>1
  <2>3. \A i \in 1..n : box'[k][i] = box[k][i] BY <1>3, <2>1, <2>2
  <2> QED BY <1>1, <2>1, <2>2, <2>3 DEF WasRead
<1>7. CursorsAreRead' BY <1>1, <1>6 DEF CursorsAreRead, IngestIsRight, IngestTypes
<1>8. RunsAreRead'
  <2> SUFFICES ASSUME NEW k \in Mailboxes, ingest[k] # NoIngest
               PROVE  /\ k \in present /\ ingest[k].read <= ingest[k].listed /\ ingest[k].listed <= Len(box'[k])
                      /\ WasRead(k, ingest[k].read)'
    BY <1>1 DEF RunsAreRead
  <2>1. /\ k \in present /\ ingest[k].read <= ingest[k].listed /\ ingest[k].listed <= Len(box[k])
        /\ WasRead(k, ingest[k].read) /\ ingest[k].read \in Nat /\ ingest[k].listed \in Nat
    BY DEF IngestIsRight, RunsAreRead, IngestTypes, Run
  <2>2. ingest[k].listed <= Len(box'[k])
    <3>1. Len(box[k]) \in Nat /\ Len(box'[k]) \in Nat BY <1>3
    <3> QED BY <1>3, <2>1, <3>1
  <2>3. PICK n \in Nat : n = ingest[k].read BY <2>1
  <2>4. WasRead(k, n)' BY <1>6, <2>1, <2>3
  <2>5. WasRead(k, ingest[k].read)' BY <1>1, <2>3, <2>4 DEF WasRead
  <2> QED BY <2>1, <2>2, <2>5
<1>9. CountsAreRight'
  <2>1. sent <= sent' BY <1>1, <1>2
  <2> QED BY <1>1, <1>4, <2>1, CountsKept
<1>10. EntriesAreLinked' BY <1>1 DEF IngestIsRight, EntriesAreLinked
<1> QED BY <1>4, <1>5, <1>7, <1>8, <1>9, <1>10 DEF IngestIsRight

LEMMA OwnerKeeps ==
  ASSUME IngestIsRight, (\E k \in Mailboxes : Add(k)) \/ (\E p \in People : SaveContact(p)) \/ \E e \in Deleted : DeleteEntry(e)
  PROVE  IngestIsRight'
<1>1. UNCHANGED <<box, sent, saved, ingest, link, rollup, correspondent>> BY DEF Add, SaveContact, DeleteEntry
<1>2. /\ present \subseteq present' /\ present' \subseteq Mailboxes /\ contacts' \subseteq People
      /\ \A e \in DOMAIN timeline' : e \in DOMAIN timeline /\ timeline'[e] = timeline[e]
  BY DEF Add, SaveContact, DeleteEntry, IngestIsRight, IngestTypes
<1>3. IngestTypes' BY <1>1, <1>2 DEF IngestIsRight, IngestTypes
<1>4. BoxesAreSent' /\ CursorsAreRead' BY <1>1 DEF BoxesAreSent, CursorsAreRead, WasRead, IngestIsRight
<1>5. RunsAreRead' BY <1>1, <1>2 DEF RunsAreRead, WasRead, IngestIsRight
<1>6. CountsAreRight' BY <1>1 DEF CountsAreRight, MailsRead, MailsOf, IngestIsRight
<1>7. EntriesAreLinked' BY <1>1, <1>2, LinkedKept
<1> QED BY <1>3, <1>4, <1>5, <1>6, <1>7 DEF IngestIsRight

LEMMA IgnoreKeeps ==
  ASSUME IngestIsRight, NEW k \in Mailboxes, NEW p \in People, Ignore(k, p)
  PROVE  IngestIsRight'
<1>1. /\ correspondent' = [correspondent EXCEPT ![k][p].ignored = TRUE]
      /\ UNCHANGED <<box, sent, present, saved, ingest, link, rollup, timeline, contacts>>
  BY DEF Ignore
<1>2. /\ correspondent' \in [Mailboxes -> [People -> Line]]
      /\ \A j \in Mailboxes, q \in People :
           correspondent'[j][q].seen = correspondent[j][q].seen /\ correspondent'[j][q].ghost = correspondent[j][q].ghost
  <2> DEFINE line == [correspondent[k][p] EXCEPT !.ignored = TRUE]
  <2>1. correspondent[k][p] \in Line BY DEF IngestIsRight, IngestTypes
  <2>2. line \in Line /\ line.seen = correspondent[k][p].seen /\ line.ghost = correspondent[k][p].ghost BY <2>1 DEF Line
  <2>3. correspondent' = [correspondent EXCEPT ![k][p] = line] BY <1>1
  <2> HIDE DEF line
  <2> QED BY <2>2, <2>3 DEF IngestIsRight, IngestTypes
<1>3. IngestTypes' BY <1>1, <1>2 DEF IngestIsRight, IngestTypes
<1>4. BoxesAreSent' /\ CursorsAreRead' /\ RunsAreRead' /\ EntriesAreLinked'
  BY <1>1 DEF BoxesAreSent, CursorsAreRead, RunsAreRead, EntriesAreLinked, WasRead, IngestIsRight
<1>5. CountsAreRight'
  <2>1. \A j \in Mailboxes, q \in People : MailsRead(j, q)' = MailsRead(j, q) /\ MailsOf(q)' = MailsOf(q)
    BY <1>1 DEF MailsRead, MailsOf
  <2> QED BY <1>2, <2>1 DEF CountsAreRight, IngestIsRight
<1> QED BY <1>3, <1>4, <1>5 DEF IngestIsRight

LEMMA IngestGoesOn == IngestIsRight /\ [IngestNext]_ingestVars => IngestIsRight'
<1> SUFFICES ASSUME IngestIsRight, [IngestNext]_ingestVars PROVE IngestIsRight' OBVIOUS
<1>1. CASE \E ks \in Reached : Deliver(ks) BY <1>1, DeliverKeeps
<1>2. ASSUME NEW k \in Mailboxes, StartIngest(k) \/ EndIngest(k) \/ LoseIngest(k) PROVE IngestIsRight'
  BY <1>2, RunKeeps
<1>3. ASSUME NEW k \in Mailboxes, NEW m \in Mail, Skip(k, m) \/ Share(k, m) \/ Log(k, m) \/ RollUp(k, m) \/ Count(k, m)
      PROVE  IngestIsRight'
  BY <1>3, SkipOrShareKeeps, LogKeeps, RollUpKeeps, CountKeeps
<1>4. CASE (\E k \in Mailboxes : Add(k)) \/ (\E p \in People : SaveContact(p)) \/ \E e \in Deleted : DeleteEntry(e)
  BY <1>4, OwnerKeeps
<1>5. ASSUME NEW k \in Mailboxes, NEW p \in People, Ignore(k, p) PROVE IngestIsRight' BY <1>5, IgnoreKeeps
<1>6. CASE UNCHANGED ingestVars
  <2>1. UNCHANGED <<box, sent, present, saved, ingest, link, rollup, correspondent, timeline, contacts>>
    BY <1>6 DEF ingestVars
  <2>2. IngestTypes' BY <2>1 DEF IngestIsRight, IngestTypes
  <2>3. BoxesAreSent' /\ CursorsAreRead' /\ RunsAreRead' /\ EntriesAreLinked'
    BY <2>1 DEF IngestIsRight, BoxesAreSent, CursorsAreRead, RunsAreRead, WasRead, EntriesAreLinked
  <2>4. CountsAreRight' BY <2>1 DEF IngestIsRight, CountsAreRight, MailsRead, MailsOf
  <2> QED BY <2>2, <2>3, <2>4 DEF IngestIsRight
<1> QED BY <1>1, <1>2, <1>3, <1>4, <1>5, <1>6 DEF IngestNext

LEMMA IngestAlwaysRight == IngestSpec => []IngestIsRight
BY IngestStarts, IngestGoesOn, PTL DEF IngestSpec

\* No mail before a saved cursor was left unread, whatever runs were lost, and no connector
\* counted a mail twice: who is suggested wrote as many mails as the threshold asks for.
THEOREM MailsAreCountedOnce == IngestSpec => []EachMailCountsOnce
<1>1. IngestIsRight => EachMailCountsOnce
  <2> SUFFICES ASSUME IngestIsRight PROVE EachMailCountsOnce OBVIOUS
  <2>1. \A k \in Mailboxes : \A i \in 1..saved[k] : link[k][box[k][i]] # Unread
    BY DEF IngestIsRight, CursorsAreRead, WasRead
  <2>2. ASSUME NEW k \in Mailboxes, NEW p \in People
        PROVE  correspondent[k][p].seen <= MailsOf(p) /\ (correspondent[k][p].ghost => MailsOf(p) >= GhostThreshold)
    <3>1. /\ correspondent[k][p].seen <= Cardinality(MailsRead(k, p)) /\ correspondent[k][p].seen \in Nat
          /\ correspondent[k][p].ghost => GhostThreshold <= MailsOf(p)
      BY DEF IngestIsRight, CountsAreRight, IngestTypes, Line
    <3>2. Cardinality(MailsRead(k, p)) \in Nat /\ MailsOf(p) \in Nat /\ Cardinality(MailsRead(k, p)) <= MailsOf(p)
      BY MailsAreFinite DEF IngestIsRight
    <3> QED BY <3>1, <3>2, IngestAssumption
  <2> QED BY <2>1, <2>2 DEF EachMailCountsOnce
<1> QED BY <1>1, IngestAlwaysRight, PTL

\* A place that a step adds for a mail stands alone, when the run knows all connectors.
LEMMA PlacesAreOne ==
  ASSUME IngestIsRight, NEW k \in Mailboxes, NEW m \in Mail, NEW e, NEW at,
         Matches(k, m), ~Stale(k), AddsOne(m, e, at)
  PROVE  \A n \in Mail : Cardinality(Places(n)') > 1 => Places(n)' \subseteq Places(n)
<1>1. \A x \in DOMAIN timeline : DOMAIN timeline[x] = 1..Len(timeline[x]) BY DEF IngestIsRight, IngestTypes
<1>2. \A x \in DOMAIN timeline' : DOMAIN timeline'[x] = 1..Len(timeline'[x]) BY DEF AddsOne
<1>3. ASSUME NEW n \in Mail, n # m PROVE Places(n)' \subseteq Places(n)
  BY <1>1, <1>2, <1>3 DEF Places, AddsOne
<1>4. \A j \in present : link[j][m] \notin Entries
  <2>1. /\ ingest[k] # NoIngest /\ link[k][m] \notin Entries
        /\ \A j \in ingest[k].siblings : link[j][m] \notin Entries
    BY DEF Matches, IsNext, Shared
  <2> QED BY <2>1 DEF Stale
<1>5. \A x \in DOMAIN timeline : \A i \in 1..Len(timeline[x]) : timeline[x][i] # m
  BY <1>4 DEF IngestIsRight, EntriesAreLinked
<1>6. Places(m)' \subseteq {<<e, at>>}
  <2> SUFFICES ASSUME NEW w \in Places(m)' PROVE w = <<e, at>> OBVIOUS
  <2>1. w \in Entries \X Mail /\ w[1] \in DOMAIN timeline' /\ w[2] \in 1..Len(timeline'[w[1]]) /\ timeline'[w[1]][w[2]] = m
    BY <1>2 DEF Places
  <2>2. w[1] = e /\ w[2] = at BY <1>5, <2>1 DEF AddsOne
  <2> QED BY <2>1, <2>2
<1>7. Cardinality(Places(m)') <= 1
  <2>1. IsFiniteSet({<<e, at>>}) /\ Cardinality({<<e, at>>}) = 1 BY FS_Singleton
  <2>2. Cardinality(Places(m)') <= Cardinality({<<e, at>>}) BY <1>6, <2>1, FS_Subset
  <2> QED BY <2>1, <2>2
<1>8. ~(Cardinality(Places(m)') > 1)
  <2>1. IsFiniteSet(Places(m)') BY <1>6, FS_Singleton, FS_Subset
  <2>2. Cardinality(Places(m)') \in Nat BY <2>1, FS_CardinalityType
  <2> QED BY <1>7, <2>2
<1> QED BY <1>3, <1>8

\* Whatever mailboxes a mail reached, and however often a run read it again, no step that
\* knows all connectors puts it on the timeline a second time.
THEOREM MailsAreLoggedOnce == IngestSpec => LoggedOnce
<1>1. IngestIsRight /\ [IngestNext]_ingestVars =>
        [timeline' = timeline \/ \A m \in Mail :
           Cardinality(Places(m)') > 1 => Places(m)' \subseteq Places(m) \/ \E k \in Mailboxes : Stale(k)]_ingestVars
  <2> SUFFICES ASSUME IngestIsRight, IngestNext, timeline' # timeline, \A k \in Mailboxes : ~Stale(k), NEW n \in Mail,
                      Cardinality(Places(n)') > 1
               PROVE  Places(n)' \subseteq Places(n)
    OBVIOUS
  <2>1. ASSUME NEW k \in Mailboxes, NEW m \in Mail, Log(k, m) PROVE Places(n)' \subseteq Places(n)
    <3>1. Matches(k, m) /\ ~Stale(k) BY <2>1 DEF Log
    <3>2. AddsOne(m, <<k, m>>, 1) BY <2>1, LogFacts
    <3> QED BY <3>1, <3>2, PlacesAreOne
  <2>2. ASSUME NEW k \in Mailboxes, NEW m \in Mail, RollUp(k, m) PROVE Places(n)' \subseteq Places(n)
    <3>1. Matches(k, m) /\ ~Stale(k) BY <2>2 DEF RollUp
    <3>2. PICK day \in Entries, at \in Nat : AddsOne(m, day, at) BY <2>2, RollUpFacts
    <3> QED BY <3>1, <3>2, PlacesAreOne
  <2>3. ASSUME NEW e \in Deleted, DeleteEntry(e) PROVE Places(n)' \subseteq Places(n)
    BY <2>3 DEF DeleteEntry, Places
  <2>4. CASE \/ \E ks \in Reached : Deliver(ks)
             \/ \E k \in Mailboxes : StartIngest(k) \/ EndIngest(k) \/ LoseIngest(k) \/ Add(k)
             \/ \E k \in Mailboxes, m \in Mail : Skip(k, m) \/ Share(k, m) \/ Count(k, m)
             \/ \E p \in People : SaveContact(p) \/ \E k \in Mailboxes : Ignore(k, p)
    <3>1. timeline' = timeline
      BY <2>4 DEF Deliver, StartIngest, EndIngest, LoseIngest, Add, Skip, Share, Count, SaveContact, Ignore
    <3> QED BY <3>1
  <2> QED BY <2>1, <2>2, <2>3, <2>4 DEF IngestNext
<1> QED BY <1>1, IngestAlwaysRight, PTL DEF IngestSpec, LoggedOnce

\* A box holds no mail twice, so no more than were sent; every entry is named by a link.
BoxesAreShort == \A k \in Mailboxes : Len(box[k]) <= sent
EntriesAreNamed == DOMAIN timeline \subseteq Entries
RunsAreNamed == ingest = [k \in Mailboxes |-> ingest[k]]
Bounds == BoxesAreShort /\ EntriesAreNamed /\ RunsAreNamed

LEMMA BoxesStep == ASSUME IngestIsRight, BoxesAreShort, IngestNext PROVE BoxesAreShort'
<1>1. ASSUME NEW ks \in Reached, Deliver(ks) PROVE BoxesAreShort'
  <2>1. sent \in Nat /\ sent' = sent + 1 BY <1>1 DEF Deliver, IngestIsRight, IngestTypes
  <2>2. ASSUME NEW k \in Mailboxes PROVE Len(box'[k]) <= sent'
    <3>1. box[k] \in Seq(Mail) /\ Len(box[k]) <= sent BY DEF BoxesAreShort, IngestIsRight, IngestTypes
    <3>2. box'[k] \in {box[k], Append(box[k], sent + 1)} BY <1>1 DEF Deliver
    <3>3. Len(Append(box[k], sent + 1)) = Len(box[k]) + 1 /\ Len(box[k]) \in Nat BY <3>1
    <3> QED BY <2>1, <3>1, <3>2, <3>3
  <2> QED BY <2>2 DEF BoxesAreShort
<1>2. CASE box' = box /\ sent' = sent BY <1>2 DEF BoxesAreShort
<1>3. ASSUME NEW k \in Mailboxes, StartIngest(k) \/ EndIngest(k) \/ LoseIngest(k) \/ Add(k)
      PROVE  box' = box /\ sent' = sent
  BY <1>3 DEF StartIngest, EndIngest, LoseIngest, Add
<1>4. ASSUME NEW k \in Mailboxes, NEW m \in Mail, Skip(k, m) \/ Share(k, m) \/ Log(k, m) \/ RollUp(k, m) \/ Count(k, m)
      PROVE  box' = box /\ sent' = sent
  BY <1>4 DEF Skip, Share, Log, RollUp, Count, Process
<1>5. ASSUME NEW p \in People, SaveContact(p) \/ \E k \in Mailboxes : Ignore(k, p) PROVE box' = box /\ sent' = sent
  BY <1>5 DEF SaveContact, Ignore
<1>6. ASSUME NEW e \in Deleted, DeleteEntry(e) PROVE box' = box /\ sent' = sent BY <1>6 DEF DeleteEntry
<1> QED BY <1>1, <1>2, <1>3, <1>4, <1>5, <1>6 DEF IngestNext

LEMMA EntriesStep == ASSUME EntriesAreNamed, IngestNext PROVE EntriesAreNamed'
<1>1. ASSUME NEW k \in Mailboxes, NEW m \in Mail, Log(k, m) PROVE EntriesAreNamed'
  BY <1>1 DEF Log, EntriesAreNamed, Entries
<1>2. ASSUME NEW k \in Mailboxes, NEW m \in Mail, RollUp(k, m) PROVE EntriesAreNamed'
  BY <1>2 DEF RollUp, EntriesAreNamed
<1>3. ASSUME NEW e \in Deleted, DeleteEntry(e) PROVE EntriesAreNamed'
  BY <1>3 DEF DeleteEntry, EntriesAreNamed
<1>4. CASE \/ \E ks \in Reached : Deliver(ks)
           \/ \E k \in Mailboxes : StartIngest(k) \/ EndIngest(k) \/ LoseIngest(k) \/ Add(k)
           \/ \E k \in Mailboxes, m \in Mail : Skip(k, m) \/ Share(k, m) \/ Count(k, m)
           \/ \E p \in People : SaveContact(p) \/ \E k \in Mailboxes : Ignore(k, p)
  <2>1. timeline' = timeline
    BY <1>4 DEF Deliver, StartIngest, EndIngest, LoseIngest, Add, Skip, Share, Count, SaveContact, Ignore
  <2> QED BY <2>1 DEF EntriesAreNamed
<1> QED BY <1>1, <1>2, <1>3, <1>4 DEF IngestNext

LEMMA RunsStep == ASSUME IngestTypes, RunsAreNamed, IngestNext PROVE RunsAreNamed'
<1>1. DOMAIN ingest = Mailboxes BY DEF IngestTypes
<1>2. CASE ingest' = ingest BY <1>2 DEF RunsAreNamed
<1>3. ASSUME NEW k, NEW r, ingest' = [ingest EXCEPT ![k] = r] PROVE RunsAreNamed'
  BY <1>1, <1>3 DEF RunsAreNamed
<1>4. ASSUME NEW k \in Mailboxes, StartIngest(k) PROVE \E r : ingest' = [ingest EXCEPT ![k] = r]
  BY <1>4 DEF StartIngest
<1>5. ASSUME NEW k \in Mailboxes, EndIngest(k) \/ LoseIngest(k) PROVE \E r : ingest' = [ingest EXCEPT ![k] = r]
  BY <1>5 DEF EndIngest, LoseIngest
<1>6. ASSUME NEW k, NEW learnt, Reads(k, learnt) PROVE \E r : ingest' = [ingest EXCEPT ![k] = r]
  BY <1>6 DEF Reads
<1>7. ASSUME NEW k \in Mailboxes, NEW m \in Mail, Skip(k, m) \/ Share(k, m) \/ Log(k, m) \/ RollUp(k, m) \/ Count(k, m)
      PROVE  \E learnt : Reads(k, learnt)
  BY <1>7 DEF Skip, Share, Log, RollUp, Count
<1>8. CASE \/ \E ks \in Reached : Deliver(ks)
           \/ \E k \in Mailboxes : Add(k)
           \/ \E p \in People : SaveContact(p) \/ \E k \in Mailboxes : Ignore(k, p)
           \/ \E e \in Deleted : DeleteEntry(e)
  BY <1>2, <1>8 DEF Deliver, Add, SaveContact, Ignore, DeleteEntry
<1> QED BY <1>3, <1>4, <1>5, <1>6, <1>7, <1>8 DEF IngestNext

LEMMA BoundsStep == IngestIsRight /\ Bounds /\ [IngestNext]_ingestVars => Bounds'
<1> SUFFICES ASSUME IngestIsRight, Bounds, [IngestNext]_ingestVars PROVE Bounds' OBVIOUS
<1>1. CASE IngestNext BY <1>1, BoxesStep, EntriesStep, RunsStep DEF Bounds, IngestIsRight
<1>2. CASE UNCHANGED ingestVars
  BY <1>2 DEF ingestVars, Bounds, BoxesAreShort, EntriesAreNamed, RunsAreNamed
<1> QED BY <1>1, <1>2

\* The types of a mailbox's cursor and run, its links and its counts: no cursor, no run and
\* no count goes past the mails there are.
THEOREM IngestTypesHold == IngestSpec => []IngestTypeOK
<1>1. IngestInit => Bounds BY IngestAssumption DEF IngestInit, Bounds, BoxesAreShort, EntriesAreNamed, RunsAreNamed
<1>2. ASSUME IngestIsRight, Bounds PROVE IngestTypeOK
  <2>1. IngestTypes BY <1>2 DEF IngestIsRight
  <2>2. sent \in Nat /\ sent <= Mails BY <2>1, IngestAssumption DEF IngestTypes
  <2>3. \A k \in Mailboxes : box[k] \in Seq(Mail) /\ Len(box[k]) \in Nat /\ Len(box[k]) <= Mails
    BY <1>2, <2>1, <2>2, IngestAssumption DEF IngestTypes, Bounds, BoxesAreShort
  <2>4. saved \in [Mailboxes -> 0..Mails]
    <3>1. ASSUME NEW k \in Mailboxes PROVE saved[k] \in 0..Mails
      <4>1. saved[k] \in Nat /\ saved[k] <= Len(box[k]) BY <1>2, <2>1 DEF IngestIsRight, IngestTypes, CursorsAreRead, WasRead
      <4> QED BY <2>3, <4>1, IngestAssumption
    <3> QED BY <2>1, <3>1 DEF IngestTypes
  <2>5. ingest \in [Mailboxes -> [read : 0..Mails, listed : 0..Mails, siblings : SUBSET Mailboxes, knows : SUBSET People]
                                   \cup {NoIngest}]
    <3>1. ASSUME NEW k \in Mailboxes, ingest[k] # NoIngest
          PROVE  ingest[k] \in [read : 0..Mails, listed : 0..Mails, siblings : SUBSET Mailboxes, knows : SUBSET People]
      <4>1. ingest[k] \in Run BY <2>1, <3>1 DEF IngestTypes
      <4>2. ingest[k].read \in Nat /\ ingest[k].listed \in Nat BY <4>1 DEF Run
      <4>3. ingest[k].read <= ingest[k].listed /\ ingest[k].listed <= Len(box[k])
        BY <1>2, <3>1 DEF IngestIsRight, RunsAreRead
      <4>4. ingest[k].read \in 0..Mails /\ ingest[k].listed \in 0..Mails BY <2>3, <4>2, <4>3, IngestAssumption
      <4> QED BY <4>1, <4>4 DEF Run
    <3>2. ingest = [k \in Mailboxes |-> ingest[k]] BY <1>2 DEF Bounds, RunsAreNamed
    <3> QED BY <3>1, <3>2
  <2>6. correspondent \in [Mailboxes -> [People -> [seen : 0..Mails, ghost : BOOLEAN, ignored : BOOLEAN]]]
    <3>1. ASSUME NEW k \in Mailboxes, NEW p \in People
          PROVE  correspondent[k][p] \in [seen : 0..Mails, ghost : BOOLEAN, ignored : BOOLEAN]
      <4>1. correspondent[k][p] \in Line BY <2>1 DEF IngestTypes
      <4>2. correspondent[k][p].seen <= Cardinality(MailsRead(k, p)) BY <1>2 DEF IngestIsRight, CountsAreRight
      <4>3. Cardinality(MailsRead(k, p)) \in Nat /\ Cardinality(MailsRead(k, p)) <= sent
        <5>1. IsFiniteSet(1..sent) /\ Cardinality(1..sent) = sent BY <2>2, FS_Interval
        <5>2. MailsRead(k, p) \subseteq 1..sent BY DEF MailsRead
        <5> QED BY <2>2, <5>1, <5>2, FS_Subset, FS_CardinalityType
      <4>4. correspondent[k][p].seen \in 0..Mails BY <2>2, <4>1, <4>2, <4>3, IngestAssumption DEF Line
      <4> QED BY <4>1, <4>4 DEF Line
    <3>2. correspondent \in [Mailboxes -> [People -> Line]] BY <2>1 DEF IngestTypes
    <3> QED BY <3>1, <3>2
  <2>7. \A e \in DOMAIN timeline : e \in Entries /\ timeline[e] \in Seq(Mail)
    BY <1>2, <2>1 DEF IngestTypes, Bounds, EntriesAreNamed
  <2> QED BY <2>1, <2>4, <2>5, <2>6, <2>7 DEF IngestTypes, IngestTypeOK
<1>3. IngestSpec => []Bounds
  <2> QED BY <1>1, BoundsStep, IngestAlwaysRight, PTL DEF IngestSpec
<1>4. IngestIsRight /\ Bounds => IngestTypeOK BY <1>2
<1> QED BY <1>3, <1>4, IngestAlwaysRight, PTL

\* A mailbox that was told to ignore a sender goes on ignoring them, and suggests nobody new.
IgnoredHereForGood(k, p) ==
  correspondent[k][p].ignored =>
    correspondent'[k][p].ignored /\ correspondent'[k][p].ghost = correspondent[k][p].ghost

LEMMA IgnoredStays ==
  ASSUME IngestTypes, IngestNext, NEW k \in Mailboxes, NEW p \in People
  PROVE  IgnoredHereForGood(k, p)
<1>1. correspondent \in [Mailboxes -> [People -> Line]] BY DEF IngestTypes
<1>2. ASSUME NEW j \in Mailboxes, NEW m \in Mail, Count(j, m) PROVE IgnoredHereForGood(k, p)
  <2> DEFINE row == correspondent[j][From[m]]
             suggested == ~row.ignored /\ ~row.ghost /\ row.seen + 1 >= GhostThreshold
  <2>1. \/ correspondent' = correspondent
        \/ correspondent' = [correspondent EXCEPT ![j][From[m]] = [row EXCEPT !.seen = @ + 1, !.ghost = @ \/ suggested]]
    BY <1>2 DEF Count
  <2>2. From[m] \in People BY IngestAssumption DEF Mail
  <2>3. row \in Line BY <1>1, <2>2
  <2>4. [row EXCEPT !.seen = @ + 1, !.ghost = @ \/ suggested].ignored = row.ignored
        /\ (row.ignored => [row EXCEPT !.seen = @ + 1, !.ghost = @ \/ suggested].ghost = row.ghost)
    BY <2>3 DEF Line
  <2> HIDE DEF suggested
  <2> DEFINE new == [row EXCEPT !.seen = @ + 1, !.ghost = @ \/ suggested]
  <2>5. new.ignored = row.ignored /\ (row.ignored => new.ghost = row.ghost) BY <2>4
  <2>6. correspondent' = correspondent \/ correspondent' = [correspondent EXCEPT ![j][From[m]] = new] BY <2>1 DEF suggested
  <2> HIDE DEF new
  <2>7. CASE correspondent' = correspondent BY <2>7 DEF IgnoredHereForGood
  <2>8. CASE correspondent' = [correspondent EXCEPT ![j][From[m]] = new] /\ j = k /\ From[m] = p
    <3>1. correspondent'[k][p] = new BY <1>1, <2>8
    <3> QED BY <2>5, <2>8, <3>1 DEF IgnoredHereForGood
  <2>9. CASE correspondent' = [correspondent EXCEPT ![j][From[m]] = new] /\ ~(j = k /\ From[m] = p)
    <3>1. correspondent'[k][p] = correspondent[k][p] BY <1>1, <2>9
    <3> QED BY <3>1 DEF IgnoredHereForGood
  <2> QED BY <2>6, <2>7, <2>8, <2>9
<1>3. ASSUME NEW q \in People, NEW j \in Mailboxes, Ignore(j, q) PROVE IgnoredHereForGood(k, p)
  <2>1. correspondent' = [correspondent EXCEPT ![j][q].ignored = TRUE] BY <1>3 DEF Ignore
  <2>2. /\ correspondent[j][q] \in Line
        /\ [correspondent[j][q] EXCEPT !.ignored = TRUE].ignored = TRUE
        /\ [correspondent[j][q] EXCEPT !.ignored = TRUE].ghost = correspondent[j][q].ghost
    BY <1>1 DEF Line
  <2> QED BY <1>1, <2>1, <2>2 DEF IgnoredHereForGood
<1>4. CASE correspondent' = correspondent BY <1>4 DEF IgnoredHereForGood
<1>5. CASE \/ \E ks \in Reached : Deliver(ks)
           \/ \E j \in Mailboxes : StartIngest(j) \/ EndIngest(j) \/ LoseIngest(j) \/ Add(j)
           \/ \E j \in Mailboxes, m \in Mail : Skip(j, m) \/ Share(j, m) \/ Log(j, m) \/ RollUp(j, m)
           \/ \E q \in People : SaveContact(q)
           \/ \E e \in Deleted : DeleteEntry(e)
  BY <1>4, <1>5 DEF Deliver, StartIngest, EndIngest, LoseIngest, Add, Skip, Share, Log, RollUp, SaveContact, DeleteEntry
<1> QED BY <1>2, <1>3, <1>5 DEF IngestNext

\* What does hold of an ignored sender: the mailbox that was told ignores them for good, and
\* never suggests them; another mailbox does not know.
THEOREM IgnoredWhereTold ==
  IngestSpec => [][\A k \in Mailboxes, p \in People : IgnoredHereForGood(k, p)]_ingestVars
<1>1. IngestIsRight /\ [IngestNext]_ingestVars => [\A k \in Mailboxes, p \in People : IgnoredHereForGood(k, p)]_ingestVars
  BY IgnoredStays DEF IngestIsRight
<1> QED BY <1>1, IngestAlwaysRight, PTL DEF IngestSpec

\* With one mailbox the docs are right: an ignored sender never becomes a ghost.
THEOREM OneMailboxIgnoresForGood ==
  (\A j, k \in Mailboxes : j = k) /\ IngestSpec => IgnoredForGood
<1>1. (\A j, k \in Mailboxes : j = k) /\ (\A k \in Mailboxes, p \in People : IgnoredHereForGood(k, p)) =>
        \A p \in People : (\E k \in Mailboxes : correspondent[k][p].ignored) =>
          \A k \in Mailboxes : correspondent[k][p].ghost = correspondent'[k][p].ghost
  BY DEF IgnoredHereForGood
<1> DEFINE Alone == \A j, k \in Mailboxes : j = k
           Told == \A k \in Mailboxes, p \in People : IgnoredHereForGood(k, p)
           Good == \A p \in People : (\E k \in Mailboxes : correspondent[k][p].ignored) =>
                     \A k \in Mailboxes : correspondent[k][p].ghost = correspondent'[k][p].ghost
<1>2. Alone /\ [Told]_ingestVars => [Good]_ingestVars BY <1>1
<1>3. IngestSpec => [][Told]_ingestVars BY IgnoredWhereTold
<1>4. Alone => []Alone
  <2>1. Alone => Alone' OBVIOUS
  <2> QED BY <2>1, PTL
<1> QED BY <1>2, <1>3, <1>4, PTL DEF IgnoredForGood
=============================================================================
