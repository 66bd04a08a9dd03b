-------------------------- MODULE JobRunnerProofs --------------------------
(***************************************************************************)
(* Theorems about JobRunner, for every set of keys, owners and payloads,   *)
(* every number of tries and every concurrency.  The safety invariants     *)
(* follow from IInv; that the runner implements KeyedWork and that owners  *)
(* take turns, from IInv and TurnsInv: ranks tell rows and owners apart.   *)
(***************************************************************************)
EXTENDS JobRunner, FiniteSetTheorems, TLAPS
(***************************************************************************)
(* Types.                                                                  *)
(***************************************************************************)
\* Ranks are natural numbers, whatever is ranked.
LEMMA RankedType ==
  ASSUME NEW f, IsFiniteSet(DOMAIN f)
  PROVE  Ranked(f) \in [DOMAIN f -> Nat]
<1>1. ASSUME NEW x \in DOMAIN f
      PROVE  Cardinality({y \in DOMAIN f : 0 < f[y] /\ f[y] <= f[x]}) \in Nat
  BY FS_Subset, FS_CardinalityType
<1> QED BY <1>1 DEF Ranked

\* The due column keeps its type however rows are written.
LEMMA DueTypes ==
  /\ \A S : Later(S) \in [Keys -> Nat]
  /\ \A S, waiting : DueNow(S, waiting) \subseteq [Keys -> Nat]
<1>1. ASSUME NEW S PROVE Later(S) \in [Keys -> Nat]
  <2> DEFINE g == [k \in Keys |-> IF k \in S THEN 0 ELSE due[k]]
  <2>1. DOMAIN g = Keys OBVIOUS
  <2>2. Ranked(g) \in [Keys -> Nat] BY <2>1, RankedType, KeysAssumption
  <2> QED BY <2>2 DEF Later
<1>2. ASSUME NEW S, NEW waiting PROVE DueNow(S, waiting) \subseteq [Keys -> Nat]
  <2> DEFINE B == Bijection(S, 1 .. Cardinality(S))
             R(f) == Ranked([k \in Keys |-> IF k \in S THEN Cardinality(Keys) + f[k]
                                           ELSE IF k \in waiting THEN 0 ELSE due[k]])
  <2>1. DueNow(S, waiting) = {R(f) : f \in B} BY DEF DueNow
  <2>2. ASSUME NEW f \in B PROVE R(f) \in [Keys -> Nat]
    <3> DEFINE g == [k \in Keys |-> IF k \in S THEN Cardinality(Keys) + f[k]
                                    ELSE IF k \in waiting THEN 0 ELSE due[k]]
    <3>1. DOMAIN g = Keys OBVIOUS
    <3> QED BY <3>1, RankedType, KeysAssumption
  <2> HIDE DEF B, R
  <2> QED BY <2>1, <2>2
<1> QED BY <1>1, <1>2

\* So does lastTurn.
LEMMA TurnsType == \A picked : TurnsAfter(picked) \in [Owners -> Nat]
<1> SUFFICES ASSUME NEW picked PROVE TurnsAfter(picked) \in [Owners -> Nat] OBVIOUS
<1> DEFINE g == [o \in Owners |->
      IF \E k \in picked : OwnerOf[k] = o
      THEN Cardinality(Owners) + 1
             + Turn(CHOOSE k \in picked : OwnerOf[k] = o /\ \A j \in picked :
                                            OwnerOf[j] = o => Place(j) <= Place(k))
      ELSE lastTurn[o]]
<1>1. DOMAIN g = Owners OBVIOUS
<1>2. Ranked(g) \in [Owners -> Nat] BY <1>1, RankedType, KeysAssumption
<1> QED BY <1>2 DEF TurnsAfter

LEMMA Assumptions ==
  /\ MaxTries \in [Keys -> Nat] /\ \A k \in Keys : MaxTries[k] > 0
  /\ Recurring \subseteq Keys /\ AtStart \subseteq Keys /\ Switchable \subseteq Keys
  /\ Switchable \subseteq Declared /\ Recurring \subseteq Declared
  /\ Declared \subseteq Keys /\ Keyed \subseteq Keys
  /\ Empty \in Payloads /\ None \notin Payloads
  /\ OwnerOf \in [Keys -> Owners] /\ \A k \in Declared : OwnerOf[k] = Instance
BY KeysAssumption, PayloadsAssumption DEF Declared, Keyed

(***************************************************************************)
(* Type correctness.                                                       *)
(***************************************************************************)
LEMMA TypeInit == Init => TypeOK
BY Assumptions DEF Init, TypeOK, RowType, NoRow, Modes

LEMMA UpsertType ==
  ASSUME TypeOK, NEW k \in Keys, NEW p \in Payloads, Upsert(k, p)
  PROVE  /\ row' \in [Keys -> RowType]
         /\ due' \in [Keys -> Nat]
         /\ pending' \in [Keys -> Payloads \cup {None}]
<1>1. due' \in [Keys -> Nat] BY DueTypes DEF Upsert, TypeOK
<1>2. row' \in [Keys -> RowType] BY DEF Upsert, TypeOK, RowType, Queued
<1>3. pending' \in [Keys -> Payloads \cup {None}] BY DEF Upsert, TypeOK
<1> QED BY <1>1, <1>2, <1>3

LEMMA ScheduleNextType ==
  ASSUME TypeOK, NEW k \in Keys, ScheduleNext(k)
  PROVE  /\ row' \in [Keys -> RowType]
         /\ due' \in [Keys -> Nat]
         /\ pending' \in [Keys -> Payloads \cup {None}]
<1>1. due' \in [Keys -> Nat] BY DueTypes DEF TypeOK, ScheduleNext
<1>2. pending' \in [Keys -> Payloads \cup {None}] BY DEF TypeOK, ScheduleNext
<1>3. row' \in [Keys -> RowType]
  BY Assumptions DEF TypeOK, ScheduleNext, NextRun, RowType, Queued, NoRow
<1> QED BY <1>1, <1>2, <1>3

LEMMA TypeNext == TypeOK /\ [Next]_vars => TypeOK'
<1> SUFFICES ASSUME TypeOK, [Next]_vars PROVE TypeOK' OBVIOUS
<1> USE Assumptions
<1>1. ASSUME NEW k \in Keyed, NEW p \in Payloads, Enqueue(k, p) PROVE TypeOK'
  BY <1>1, UpsertType DEF Enqueue, TypeOK
<1>2. ASSUME NEW k \in Switchable, SwitchOn(k) PROVE TypeOK'
  <2>1. CASE mode = "idle" BY <1>2, <2>1 DEF SwitchOn, TypeOK
  <2>2. CASE mode # "idle"
    <3>1. Upsert(k, Empty) BY <1>2, <2>2 DEF SwitchOn
    <3>2. /\ row' \in [Keys -> RowType]
          /\ due' \in [Keys -> Nat]
          /\ pending' \in [Keys -> Payloads \cup {None}]
      BY <3>1, UpsertType
    <3>3. owed' = [owed EXCEPT ![k] = TRUE] /\ latest' = [latest EXCEPT ![k] = Empty]
      BY <1>2, <2>2 DEF SwitchOn
    <3>5. owed' \in [Keys -> BOOLEAN] BY <3>3 DEF TypeOK
    <3>6. latest' \in [Keys -> Payloads] BY <3>3 DEF TypeOK
    <3>4. on' \in [Keys -> BOOLEAN] /\ UNCHANGED <<gone, mode, active, lastTurn>>
      BY <1>2 DEF SwitchOn, TypeOK
    <3> QED BY <3>2, <3>5, <3>6, <3>4 DEF TypeOK
  <2> QED BY <2>1, <2>2
<1>3. ASSUME NEW k \in Switchable, SwitchOff(k) PROVE TypeOK'
  <2>1. due' \in [Keys -> Nat] BY <1>3, DueTypes DEF SwitchOff, TypeOK
  <2>2. row' \in [Keys -> RowType] BY <1>3 DEF SwitchOff, TypeOK, RowType, NoRow
  <2> QED BY <1>3, <2>1, <2>2 DEF SwitchOff, TypeOK
<1>4. ASSUME NEW k \in Keys, FallDue(k) PROVE TypeOK'
  BY <1>4, DueTypes DEF FallDue, TypeOK, memory, history
<1>5. CASE PollJobs
  <2>1. row' \in [Keys -> RowType] BY <1>5 DEF PollJobs, TypeOK, Running, RowType
  <2>2. due' \in [Keys -> Nat] BY <1>5, DueTypes DEF PollJobs
  <2>3. lastTurn' \in [Owners -> Nat] BY <1>5, TurnsType DEF PollJobs
  <2>4. active' \subseteq Keys BY <1>5 DEF PollJobs, TypeOK, TakeTurns, Due
  <2>5. owed' \in [Keys -> BOOLEAN] BY <1>5 DEF PollJobs, TypeOK
  <2> QED BY <1>5, <2>1, <2>2, <2>3, <2>4, <2>5 DEF PollJobs, TypeOK
<1>6. ASSUME NEW k \in Keys, Succeed(k) PROVE TypeOK'
  BY <1>6, ScheduleNextType DEF Succeed, Ends, TypeOK
<1>7. ASSUME NEW k \in Keys, Retry(k) PROVE TypeOK'
  <2>1. row' \in [Keys -> RowType]
    BY <1>7 DEF Retry, RetryPayload, Queued, TypeOK, RowType
  <2> QED BY <1>7, <2>1 DEF Retry, Ends, TypeOK
<1>8. ASSUME NEW k \in Keys, FailForGood(k) PROVE TypeOK'
  BY <1>8, ScheduleNextType DEF FailForGood, Ends, TypeOK
<1>14. ASSUME NEW k \in Keys, EndWithoutRow(k) PROVE TypeOK'
  BY <1>14 DEF EndWithoutRow, Ends, TypeOK
<1>15. ASSUME NEW o \in Owners \ {Instance}, PurgeOwner(o) PROVE TypeOK'
  <2>1. row' \in [Keys -> RowType] BY <1>15 DEF PurgeOwner, TypeOK, RowType, NoRow
  <2>2. due' \in [Keys -> Nat] BY <1>15, DueTypes DEF PurgeOwner
  <2>3. owed' \in [Keys -> BOOLEAN] BY <1>15 DEF PurgeOwner, TypeOK
  <2> QED BY <1>15, <2>1, <2>2, <2>3 DEF PurgeOwner, TypeOK, memory
<1>9. ASSUME NEW k \in Keys, Unrecorded(k) PROVE TypeOK'
  BY <1>9 DEF Unrecorded, Ends, TypeOK
<1>10. CASE Stop BY <1>10 DEF Stop, TypeOK, Modes, durable, history
<1>11. CASE Exit BY <1>11 DEF Exit, TypeOK, Modes, durable, RowType
<1>12. ASSUME NEW background \in BOOLEAN, Boot(background) PROVE TypeOK'
  <2>1. \A k \in Keys : Requeued(k) \in RowType /\ Scheduled(k) \in RowType
    BY DEF TypeOK, Requeued, Scheduled, Queued, RowType, NoRow
  <2>2. row' \in [Keys -> RowType] BY <1>12, <2>1 DEF Boot
  <2>3. due' \in [Keys -> Nat] BY <1>12, DueTypes DEF Boot
  <2>4. owed' \in [Keys -> BOOLEAN] BY <1>12 DEF Boot, TypeOK
  <2>5. latest' \in [Keys -> Payloads] BY <1>12 DEF Boot, TypeOK
  <2> QED BY <1>12, <2>2, <2>3, <2>4, <2>5 DEF Boot, TypeOK, Modes
<1>13. CASE UNCHANGED vars BY <1>13 DEF vars, durable, memory, history, TypeOK
<1> QED BY <1>1, <1>2, <1>3, <1>4, <1>5, <1>6, <1>7, <1>8, <1>9, <1>10, <1>11, <1>12, <1>13, <1>14, <1>15
        DEF Next, Settle

\* Every variable keeps its type in every reachable state.
THEOREM TypeCorrect == Spec => []TypeOK
BY TypeInit, TypeNext, PTL DEF Spec

(***************************************************************************)
(* The inductive invariant.                                                *)
(***************************************************************************)
LEMMA InvInit == Init => IInv
<1> SUFFICES ASSUME Init PROVE IInv OBVIOUS
<1>1. TypeOK BY TypeInit
<1> QED BY <1>1, Assumptions
        DEF Init, IInv, RunsAlone, PendingHasRun, NoLostEnqueue, NewestPayload, TriesBounded,
            RecurringAlive, OffQueuesNothingNew, DownHasNoMemory, RunHasNewest,
            TriesMatchStatus, DeclaredRows, GoneLeaveNothing, Kept, NoRow

\* The conjuncts that only relate the rows, the map of waiting enqueues and the
\* history of each key.
RowInv ==
  /\ RunsAlone /\ PendingHasRun /\ NoLostEnqueue /\ NewestPayload
  /\ TriesBounded /\ RunHasNewest /\ TriesMatchStatus

\* An upsert for a key that nobody lost track of: the enqueue is in the row or
\* waits for the run in progress.
LEMMA UpsertInv ==
  ASSUME IInv, NEW k \in Keys, NEW p \in Payloads, Upsert(k, p),
         active' = active, latest' = [latest EXCEPT ![k] = p],
         owed' = [owed EXCEPT ![k] = TRUE], Kept(k), gone' = gone
  PROVE  RowInv' /\ GoneLeaveNothing'
<1> USE Assumptions DEF Kept, GoneLeaveNothing, IInv, TypeOK, Upsert, Queued, RowType
<1>1. RunsAlone' BY DEF RunsAlone
<1>2. PendingHasRun' BY DEF PendingHasRun
<1>3. NoLostEnqueue' BY DEF NoLostEnqueue, RunsAlone
<1>4. NewestPayload' BY DEF NewestPayload, PendingHasRun
<1>5. TriesBounded' BY DEF TriesBounded, TriesMatchStatus
<1>6. RunHasNewest' BY DEF RunHasNewest, RunsAlone
<1>7. TriesMatchStatus' BY DEF TriesMatchStatus
<1>8. GoneLeaveNothing' OBVIOUS
<1> QED BY <1>1, <1>2, <1>3, <1>4, <1>5, <1>6, <1>7, <1>8 DEF RowInv

LEMMA EnqueueInv ==
  ASSUME IInv, NEW k \in Keyed, NEW p \in Payloads, Enqueue(k, p)
  PROVE  IInv'
<1>1. TypeOK' BY TypeNext DEF IInv, Next
<1>2. RowInv' /\ GoneLeaveNothing' BY UpsertInv, Assumptions DEF Enqueue
<1> USE <1>1, Assumptions DEF IInv, TypeOK, Enqueue, Upsert, Queued, RowType
<1>3. RecurringAlive' BY DEF RecurringAlive
<1>4. OffQueuesNothingNew' BY DEF OffQueuesNothingNew, Keyed, Declared
<1>5. DownHasNoMemory' BY DEF DownHasNoMemory
<1>6. DeclaredRows' BY DEF DeclaredRows, Keyed, Declared
<1> QED BY <1>2, <1>3, <1>4, <1>5, <1>6 DEF RowInv

LEMMA FallDueInv ==
  ASSUME IInv, NEW k \in Keys, FallDue(k)
  PROVE  IInv'
<1>1. TypeOK' BY TypeNext DEF IInv, Next
<1> USE <1>1, Assumptions DEF IInv, TypeOK, RowType, Kept, GoneLeaveNothing, FallDue, memory, history
<1>2. RunsAlone' BY DEF RunsAlone
<1>3. PendingHasRun' BY DEF PendingHasRun
<1>4. NoLostEnqueue' BY DEF NoLostEnqueue, RunsAlone, PendingHasRun
<1>5. NewestPayload' BY DEF NewestPayload, PendingHasRun, RunHasNewest, DeclaredRows, RunsAlone
<1>6. TriesBounded' BY DEF TriesBounded, TriesMatchStatus, RunsAlone
<1>7. RecurringAlive' BY DEF RecurringAlive
<1>8. OffQueuesNothingNew' BY DEF OffQueuesNothingNew, TriesMatchStatus, DeclaredRows, RunsAlone
<1>9. DownHasNoMemory' BY DEF DownHasNoMemory
<1>10. RunHasNewest' BY DEF RunHasNewest, NewestPayload, RunsAlone
<1>11. TriesMatchStatus' BY DEF TriesMatchStatus, RunsAlone
<1>12. DeclaredRows' BY DEF DeclaredRows
<1>13. GoneLeaveNothing' BY DEF RunsAlone
<1> QED BY <1>2, <1>3, <1>4, <1>5, <1>6, <1>7, <1>8, <1>9, <1>10, <1>11, <1>12, <1>13

\* Ending a row touches no other key.
LEMMA ScheduleNextFrame ==
  ASSUME TypeOK, NEW k \in Keys, ScheduleNext(k)
  PROVE  \A j \in Keys \ {k} : row'[j] = row[j]
BY DEF ScheduleNext, TypeOK

LEMMA SucceedInv ==
  ASSUME IInv, NEW k \in Keys, Succeed(k)
  PROVE  IInv'
<1>0. GoneLeaveNothing'
  BY ScheduleNextFrame DEF IInv, GoneLeaveNothing, Kept, Succeed, Ends
<1>1. TypeOK' BY TypeNext DEF IInv, Next, Settle
<1> USE <1>1, Assumptions DEF IInv, TypeOK, RowType, Kept, GoneLeaveNothing, Succeed, Ends, ScheduleNext, NextRun, Queued, NoRow
<1>2. RunsAlone' BY DEF RunsAlone
<1>3. PendingHasRun' BY DEF PendingHasRun
<1>4. NoLostEnqueue' BY DEF NoLostEnqueue, RunsAlone, PendingHasRun
<1>5. NewestPayload' BY DEF NewestPayload, PendingHasRun, RunHasNewest, DeclaredRows, RunsAlone
<1>6. TriesBounded' BY DEF TriesBounded, TriesMatchStatus, RunsAlone
<1>7. RecurringAlive' BY SMTT(30) DEF RecurringAlive
<1>8. OffQueuesNothingNew' BY DEF OffQueuesNothingNew, TriesMatchStatus, DeclaredRows, RunsAlone
<1>9. DownHasNoMemory' BY DEF DownHasNoMemory
<1>10. RunHasNewest' BY DEF RunHasNewest, NewestPayload, RunsAlone
<1>11. TriesMatchStatus' BY SMTT(30) DEF TriesMatchStatus, RunsAlone
<1>12. DeclaredRows' BY DEF DeclaredRows
<1> QED BY <1>2, <1>3, <1>4, <1>5, <1>6, <1>7, <1>8, <1>9, <1>10, <1>11, <1>12, <1>0

LEMMA FailForGoodInv ==
  ASSUME IInv, NEW k \in Keys, FailForGood(k)
  PROVE  IInv'
<1>0. GoneLeaveNothing'
  BY ScheduleNextFrame DEF IInv, GoneLeaveNothing, Kept, FailForGood, Ends
<1>1. TypeOK' BY TypeNext DEF IInv, Next, Settle
<1> USE <1>1, Assumptions DEF IInv, TypeOK, RowType, Kept, GoneLeaveNothing, FailForGood, Ends, ScheduleNext, NextRun, Queued, NoRow
<1>2. RunsAlone' BY DEF RunsAlone
<1>3. PendingHasRun' BY DEF PendingHasRun
<1>4. NoLostEnqueue' BY DEF NoLostEnqueue, RunsAlone, PendingHasRun
<1>5. NewestPayload' BY DEF NewestPayload, PendingHasRun, RunHasNewest, DeclaredRows, RunsAlone
<1>6. TriesBounded' BY DEF TriesBounded, TriesMatchStatus, RunsAlone
<1>7. RecurringAlive' BY SMTT(30) DEF RecurringAlive
<1>8. OffQueuesNothingNew' BY DEF OffQueuesNothingNew, TriesMatchStatus, DeclaredRows, RunsAlone
<1>9. DownHasNoMemory' BY DEF DownHasNoMemory
<1>10. RunHasNewest' BY DEF RunHasNewest, NewestPayload, RunsAlone
<1>11. TriesMatchStatus' BY SMTT(30) DEF TriesMatchStatus, RunsAlone
<1>12. DeclaredRows' BY DEF DeclaredRows
<1> QED BY <1>2, <1>3, <1>4, <1>5, <1>6, <1>7, <1>8, <1>9, <1>10, <1>11, <1>12, <1>0

LEMMA RetryInv ==
  ASSUME IInv, NEW k \in Keys, Retry(k)
  PROVE  IInv'
<1>1. TypeOK' BY TypeNext DEF IInv, Next, Settle
<1> USE <1>1, Assumptions DEF IInv, TypeOK, RowType, Kept, GoneLeaveNothing, Retry, MayRetry, Ends, RetryPayload, Queued
<1>2. RunsAlone' BY DEF RunsAlone
<1>3. PendingHasRun' BY DEF PendingHasRun
<1>4. NoLostEnqueue' BY DEF NoLostEnqueue, RunsAlone, PendingHasRun
<1>5. NewestPayload' BY DEF NewestPayload, PendingHasRun, RunHasNewest, DeclaredRows, RunsAlone
<1>6. TriesBounded' BY DEF TriesBounded, TriesMatchStatus, RunsAlone
<1>7. RecurringAlive' BY DEF RecurringAlive
<1>8. OffQueuesNothingNew' BY DEF OffQueuesNothingNew, TriesMatchStatus, DeclaredRows, RunsAlone
<1>9. DownHasNoMemory' BY DEF DownHasNoMemory
<1>10. RunHasNewest' BY DEF RunHasNewest, NewestPayload, RunsAlone
<1>11. TriesMatchStatus' BY DEF TriesMatchStatus, RunsAlone
<1>12. DeclaredRows' BY DEF DeclaredRows
<1>13. GoneLeaveNothing' BY DEF RunsAlone
<1> QED BY <1>2, <1>3, <1>4, <1>5, <1>6, <1>7, <1>8, <1>9, <1>10, <1>11, <1>12, <1>13

LEMMA UnrecordedInv ==
  ASSUME IInv, NEW k \in Keys, Unrecorded(k)
  PROVE  IInv'
<1>1. TypeOK' BY TypeNext DEF IInv, Next
<1> USE <1>1, Assumptions DEF IInv, TypeOK, RowType, Kept, GoneLeaveNothing, Unrecorded, Ends
<1>2. RunsAlone' BY DEF RunsAlone
<1>3. PendingHasRun' BY DEF PendingHasRun
<1>4. NoLostEnqueue' BY DEF NoLostEnqueue, RunsAlone, PendingHasRun
<1>5. NewestPayload' BY DEF NewestPayload, PendingHasRun, RunHasNewest, DeclaredRows, RunsAlone
<1>6. TriesBounded' BY DEF TriesBounded, TriesMatchStatus, RunsAlone
<1>7. RecurringAlive' BY DEF RecurringAlive
<1>8. OffQueuesNothingNew' BY DEF OffQueuesNothingNew, TriesMatchStatus, DeclaredRows, RunsAlone
<1>9. DownHasNoMemory' BY DEF DownHasNoMemory
<1>10. RunHasNewest' BY DEF RunHasNewest, NewestPayload, RunsAlone
<1>11. TriesMatchStatus' BY DEF TriesMatchStatus, RunsAlone
<1>12. DeclaredRows' BY DEF DeclaredRows
<1>13. GoneLeaveNothing' BY DEF RunsAlone
<1> QED BY <1>2, <1>3, <1>4, <1>5, <1>6, <1>7, <1>8, <1>9, <1>10, <1>11, <1>12, <1>13

LEMMA EndWithoutRowInv ==
  ASSUME IInv, NEW k \in Keys, EndWithoutRow(k)
  PROVE  IInv'
<1>1. TypeOK' BY TypeNext DEF IInv, Next, Settle
<1> USE <1>1, Assumptions DEF IInv, TypeOK, RowType, Kept, GoneLeaveNothing, EndWithoutRow, Ends
<1>2. RunsAlone' BY DEF RunsAlone
<1>3. PendingHasRun' BY DEF PendingHasRun
<1>4. NoLostEnqueue' BY DEF NoLostEnqueue, RunsAlone, PendingHasRun
<1>5. NewestPayload' BY DEF NewestPayload, PendingHasRun, RunHasNewest, DeclaredRows, RunsAlone
<1>6. TriesBounded' BY DEF TriesBounded, TriesMatchStatus, RunsAlone
<1>7. RecurringAlive' BY DEF RecurringAlive
<1>8. OffQueuesNothingNew' BY DEF OffQueuesNothingNew, TriesMatchStatus, DeclaredRows, RunsAlone
<1>9. DownHasNoMemory' BY DEF DownHasNoMemory
<1>10. RunHasNewest' BY DEF RunHasNewest, NewestPayload, RunsAlone
<1>11. TriesMatchStatus' BY DEF TriesMatchStatus, RunsAlone
<1>12. DeclaredRows' BY DEF DeclaredRows
<1>13. GoneLeaveNothing' BY DEF RunsAlone
<1> QED BY <1>2, <1>3, <1>4, <1>5, <1>6, <1>7, <1>8, <1>9, <1>10, <1>11, <1>12, <1>13

LEMMA PurgeOwnerInv ==
  ASSUME IInv, NEW o \in Owners \ {Instance}, PurgeOwner(o)
  PROVE  IInv'
<1>1. TypeOK' BY TypeNext DEF IInv, Next
<1> USE <1>1, Assumptions DEF IInv, TypeOK, RowType, Kept, GoneLeaveNothing, PurgeOwner, memory, NoRow
<1>2. RunsAlone' BY DEF RunsAlone
<1>3. PendingHasRun' BY DEF PendingHasRun
<1>4. NoLostEnqueue' BY DEF NoLostEnqueue, RunsAlone, PendingHasRun
<1>5. NewestPayload' BY DEF NewestPayload, PendingHasRun, RunHasNewest, DeclaredRows, RunsAlone
<1>6. TriesBounded' BY DEF TriesBounded, TriesMatchStatus, RunsAlone
<1>7. RecurringAlive' BY DEF RecurringAlive
<1>8. OffQueuesNothingNew' BY DEF OffQueuesNothingNew, TriesMatchStatus, DeclaredRows, RunsAlone
<1>9. DownHasNoMemory' BY DEF DownHasNoMemory
<1>10. RunHasNewest' BY DEF RunHasNewest, NewestPayload, RunsAlone
<1>11. TriesMatchStatus' BY DEF TriesMatchStatus, RunsAlone
<1>12. DeclaredRows' BY DEF DeclaredRows
<1>13. GoneLeaveNothing' BY DEF RunsAlone
<1> QED BY <1>2, <1>3, <1>4, <1>5, <1>6, <1>7, <1>8, <1>9, <1>10, <1>11, <1>12, <1>13

LEMMA StopInv ==
  ASSUME IInv, Stop
  PROVE  IInv'
<1>1. TypeOK' BY TypeNext DEF IInv, Next
<1> USE <1>1, Assumptions DEF IInv, TypeOK, RowType, Kept, GoneLeaveNothing, Stop, durable, history
<1>2. RunsAlone' BY DEF RunsAlone
<1>3. PendingHasRun' BY DEF PendingHasRun
<1>4. NoLostEnqueue' BY DEF NoLostEnqueue, RunsAlone, PendingHasRun
<1>5. NewestPayload' BY DEF NewestPayload, PendingHasRun, RunHasNewest, DeclaredRows, RunsAlone
<1>6. TriesBounded' BY DEF TriesBounded, TriesMatchStatus, RunsAlone
<1>7. RecurringAlive' BY DEF RecurringAlive
<1>8. OffQueuesNothingNew' BY DEF OffQueuesNothingNew, TriesMatchStatus, DeclaredRows, RunsAlone
<1>9. DownHasNoMemory' BY DEF DownHasNoMemory
<1>10. RunHasNewest' BY DEF RunHasNewest, NewestPayload, RunsAlone
<1>11. TriesMatchStatus' BY DEF TriesMatchStatus, RunsAlone
<1>12. DeclaredRows' BY DEF DeclaredRows
<1>13. GoneLeaveNothing' BY DEF RunsAlone
<1> QED BY <1>2, <1>3, <1>4, <1>5, <1>6, <1>7, <1>8, <1>9, <1>10, <1>11, <1>12, <1>13

LEMMA ExitInv ==
  ASSUME IInv, Exit
  PROVE  IInv'
<1>1. TypeOK' BY TypeNext DEF IInv, Next
<1> USE <1>1, Assumptions DEF IInv, TypeOK, RowType, Kept, GoneLeaveNothing, Exit, durable
<1>2. RunsAlone' BY DEF RunsAlone
<1>3. PendingHasRun' BY DEF PendingHasRun
<1>4. NoLostEnqueue' BY DEF NoLostEnqueue, RunsAlone, PendingHasRun
<1>5. NewestPayload' BY DEF NewestPayload, PendingHasRun, RunHasNewest, DeclaredRows, RunsAlone
<1>6. TriesBounded' BY DEF TriesBounded, TriesMatchStatus, RunsAlone
<1>7. RecurringAlive' BY DEF RecurringAlive
<1>8. OffQueuesNothingNew' BY DEF OffQueuesNothingNew, TriesMatchStatus, DeclaredRows, RunsAlone
<1>9. DownHasNoMemory' BY DEF DownHasNoMemory
<1>10. RunHasNewest' BY DEF RunHasNewest, NewestPayload, RunsAlone
<1>11. TriesMatchStatus' BY DEF TriesMatchStatus, RunsAlone
<1>12. DeclaredRows' BY DEF DeclaredRows
<1>13. GoneLeaveNothing' BY DEF RunsAlone
<1> QED BY <1>2, <1>3, <1>4, <1>5, <1>6, <1>7, <1>8, <1>9, <1>10, <1>11, <1>12, <1>13

LEMMA SwitchOffInv ==
  ASSUME IInv, NEW k \in Switchable, SwitchOff(k)
  PROVE  IInv'
<1>1. TypeOK' BY TypeNext DEF IInv, Next
<1> USE <1>1, Assumptions DEF IInv, TypeOK, RowType, Kept, GoneLeaveNothing, SwitchOff, NoRow
<1>2. RunsAlone' BY DEF RunsAlone
<1>3. PendingHasRun' BY DEF PendingHasRun
<1>4. NoLostEnqueue' BY DEF NoLostEnqueue, RunsAlone, PendingHasRun
<1>5. NewestPayload' BY DEF NewestPayload, PendingHasRun, RunHasNewest, DeclaredRows, RunsAlone
<1>6. TriesBounded' BY DEF TriesBounded, TriesMatchStatus, RunsAlone
<1>7. RecurringAlive' BY DEF RecurringAlive
<1>8. OffQueuesNothingNew' BY DEF OffQueuesNothingNew, TriesMatchStatus, DeclaredRows, RunsAlone
<1>9. DownHasNoMemory' BY DEF DownHasNoMemory
<1>10. RunHasNewest' BY DEF RunHasNewest, DeclaredRows
<1>11. TriesMatchStatus' BY DEF TriesMatchStatus, RunsAlone
<1>12. DeclaredRows'
  <2>1. CASE mode = "idle" BY <2>1 DEF DeclaredRows
  <2>2. CASE mode # "idle"
    <3>0. row' = row \/ row' = [row EXCEPT ![k] = NoRow] BY <2>2
    <3>1. \A j \in Declared : row'[j].payload = Empty /\ latest'[j] = Empty
      <4> SUFFICES ASSUME NEW j \in Declared PROVE row'[j].payload = Empty /\ latest'[j] = Empty
        OBVIOUS
      <4>1. row[j].payload = Empty /\ latest[j] = Empty /\ latest' = latest BY DEF DeclaredRows
      <4>2. row'[j] = row[j] \/ row'[j] = NoRow BY <3>0
      <4> QED BY <4>1, <4>2
    <3>2. pending' = [pending EXCEPT ![k] = None] BY <2>2
    <3>3. \A j \in Declared : pending'[j] \in {None, Empty} BY <3>2 DEF DeclaredRows
    <3>4. mode' = "polling" => \A j \in Recurring : ~on'[j] => pending'[j] = None
      BY <3>2 DEF DeclaredRows
    <3> QED BY <3>1, <3>3, <3>4 DEF DeclaredRows
  <2> QED BY <2>1, <2>2
<1>13. GoneLeaveNothing' BY DEF RunsAlone
<1> QED BY <1>2, <1>3, <1>4, <1>5, <1>6, <1>7, <1>8, <1>9, <1>10, <1>11, <1>12, <1>13

LEMMA PollInv ==
  ASSUME IInv, PollJobs
  PROVE  IInv'
<1>1. TypeOK' BY TypeNext DEF IInv, Next
<1> USE <1>1, Assumptions DEF IInv, TypeOK, RowType, Kept, GoneLeaveNothing, PollJobs, TakeTurns, Due, Running
<1>2. RunsAlone' BY DEF RunsAlone
<1>3. PendingHasRun' BY DEF PendingHasRun
<1>4. NoLostEnqueue'
  <2> SUFFICES ASSUME NEW k \in Keys, owed'[k]
               PROVE  \/ row'[k].status = "queued"
                      \/ row'[k].status = "running" /\ (k \in active' => pending'[k] # None)
    BY DEF NoLostEnqueue
  <2>1. owed[k] /\ k \notin TakeTurns(Free) OBVIOUS
  <2>2. row'[k] = row[k] /\ (k \in active' <=> k \in active) /\ pending' = pending BY <2>1
  <2> QED BY <2>1, <2>2 DEF NoLostEnqueue
<1>5. NewestPayload' BY DEF NewestPayload, PendingHasRun, RunHasNewest, DeclaredRows, RunsAlone
<1>6. TriesBounded' BY DEF TriesBounded, TriesMatchStatus, RunsAlone
<1>7. RecurringAlive' BY DEF RecurringAlive
<1>8. OffQueuesNothingNew' BY DEF OffQueuesNothingNew, TriesMatchStatus, DeclaredRows, RunsAlone
<1>9. DownHasNoMemory' BY DEF DownHasNoMemory
<1>10. RunHasNewest' BY DEF RunHasNewest, NewestPayload, RunsAlone
<1>11. TriesMatchStatus' BY DEF TriesMatchStatus, RunsAlone
<1>12. DeclaredRows' BY DEF DeclaredRows
<1>13. GoneLeaveNothing'
  <2> SUFFICES ASSUME NEW k \in Keys, OwnerOf[k] \in gone
               PROVE  row'[k] = NoRow /\ ~owed'[k]
    OBVIOUS
  <2>1. row[k] = NoRow /\ ~owed[k] OBVIOUS
  <2>2. k \notin TakeTurns(Free) BY <2>1 DEF NoRow
  <2> QED BY <2>1, <2>2
<1> QED BY <1>2, <1>3, <1>4, <1>5, <1>6, <1>7, <1>8, <1>9, <1>10, <1>11, <1>12, <1>13

LEMMA SwitchOnInv ==
  ASSUME IInv, NEW k \in Switchable, SwitchOn(k)
  PROVE  IInv'
<1>1. TypeOK' BY TypeNext DEF IInv, Next
<1>2. CASE mode = "idle"
  BY <1>1, <1>2, Assumptions
     DEF SwitchOn, IInv, TypeOK, RunsAlone, PendingHasRun, NoLostEnqueue, NewestPayload,
         TriesBounded, RecurringAlive, OffQueuesNothingNew, DownHasNoMemory, RunHasNewest,
         TriesMatchStatus, DeclaredRows, GoneLeaveNothing, Kept
<1>3. CASE mode # "idle"
  <2>0. Kept(k) BY Assumptions DEF IInv, TypeOK, Kept
  <2>1. RowInv' /\ GoneLeaveNothing' BY <1>3, <2>0, UpsertInv, Assumptions DEF SwitchOn
  <2> USE <1>1, <1>3, Assumptions DEF IInv, TypeOK, SwitchOn, Upsert, Queued, RowType
  <2>2. RecurringAlive' BY DEF RecurringAlive
  <2>3. OffQueuesNothingNew' BY DEF OffQueuesNothingNew
  <2>4. DownHasNoMemory' BY DEF DownHasNoMemory
  <2>5. DeclaredRows' BY DEF DeclaredRows
  <2> QED BY <2>1, <2>2, <2>3, <2>4, <2>5 DEF RowInv
<1> QED BY <1>2, <1>3

\* At a boot every live row becomes a queued one, with a try left.
LEMMA BootInv ==
  ASSUME IInv, NEW background \in BOOLEAN, Boot(background)
  PROVE  IInv'
<1>1. TypeOK' BY TypeNext DEF IInv, Next
<1> USE Assumptions DEF IInv, TypeOK, RowType
<1>2. \A k \in Keys :
        /\ Requeued(k).status \in {"none", "queued"}
        /\ Requeued(k).status = "queued" => Requeued(k).tries < MaxTries[k]
        /\ Requeued(k).status = "none" => Requeued(k).tries = 0
        /\ Requeued(k).tries <= MaxTries[k]
        /\ Requeued(k).tries \in Nat
        /\ Requeued(k).status = "queued" => Requeued(k).payload = latest[k]
        /\ k \in Declared => Requeued(k).payload = Empty
        /\ owed[k] /\ ~Spent(k) => Requeued(k).status = "queued"
  BY DEF Boot, Requeued, Spent, NoRow, Queued, TriesBounded, TriesMatchStatus, DownHasNoMemory,
         NewestPayload, DeclaredRows, NoLostEnqueue
<1>3. \A k \in Keys :
        /\ Scheduled(k).status \in {"none", "queued"}
        /\ Scheduled(k).status = "queued" => Scheduled(k).tries < MaxTries[k]
        /\ Scheduled(k).status = "none" => Scheduled(k).tries = 0
        /\ Scheduled(k).tries <= MaxTries[k]
        /\ Scheduled(k).status = "queued" =>
             Scheduled(k).payload = IF k \in Declared THEN Empty ELSE latest[k]
        /\ k \in Declared => Scheduled(k).payload = Empty
        /\ k \in Recurring => (Scheduled(k).status = "queued" <=> on[k])
        /\ owed[k] /\ ~Spent(k) /\ ~(k \in Recurring /\ ~on[k]) => Scheduled(k).status = "queued"
  BY <1>2 DEF Scheduled, NoRow, Queued
<1>4. /\ mode = "down" /\ mode' \in {"polling", "idle"}
      /\ active = {} /\ active' = {}
      /\ \A k \in Keys : pending'[k] = None
  BY DEF Boot, DownHasNoMemory
<1>5. \A k \in Keys :
        /\ row'[k] = IF background THEN Scheduled(k) ELSE Requeued(k)
        /\ latest'[k] = IF k \in Declared THEN Empty ELSE latest[k]
        /\ owed'[k] => owed[k] /\ ~Spent(k) /\ (background => ~(k \in Recurring /\ ~on[k]))
        /\ on' = on /\ (mode' = "polling" <=> background)
  BY DEF Boot
<1> HIDE DEF IInv, TypeOK, RowType
<1>6. RunsAlone' BY <1>4 DEF RunsAlone
<1>7. PendingHasRun' BY <1>4 DEF PendingHasRun
<1>8. NoLostEnqueue' BY <1>2, <1>3, <1>5 DEF NoLostEnqueue
<1>9. NewestPayload' BY <1>2, <1>3, <1>4, <1>5 DEF NewestPayload
<1>10. TriesBounded' BY <1>2, <1>3, <1>5 DEF TriesBounded
<1>11. RecurringAlive' BY <1>3, <1>4, <1>5 DEF RecurringAlive
<1>12. OffQueuesNothingNew' BY <1>3, <1>5 DEF OffQueuesNothingNew
<1>13. DownHasNoMemory' BY <1>4 DEF DownHasNoMemory
<1>14. RunHasNewest' BY <1>4 DEF RunHasNewest
<1>15. TriesMatchStatus' BY <1>2, <1>3, <1>5 DEF TriesMatchStatus
<1>16. DeclaredRows' BY <1>2, <1>3, <1>4, <1>5 DEF DeclaredRows
<1>17. GoneLeaveNothing'
  <2> SUFFICES ASSUME NEW k \in Keys, OwnerOf[k] \in gone
               PROVE  row'[k] = NoRow /\ ~owed'[k]
    BY DEF GoneLeaveNothing, Kept, Boot
  <2>1. k \notin Declared BY Assumptions DEF IInv, TypeOK
  <2>2. row[k] = NoRow /\ ~owed[k] BY DEF IInv, GoneLeaveNothing, Kept
  <2>3. Requeued(k) = NoRow /\ Scheduled(k) = NoRow
    BY <2>1, <2>2 DEF Requeued, Scheduled, Spent, NoRow
  <2> QED BY <1>5, <2>2, <2>3
<1> QED BY <1>1, <1>6, <1>7, <1>8, <1>9, <1>10, <1>11, <1>12, <1>13, <1>14, <1>15, <1>16, <1>17 DEF IInv

LEMMA StutterInv == IInv /\ UNCHANGED vars => IInv'
BY DEF vars, durable, memory, history, IInv, TypeOK, RunsAlone, PendingHasRun, NoLostEnqueue,
       NewestPayload, TriesBounded, RecurringAlive, OffQueuesNothingNew, DownHasNoMemory,
       RunHasNewest, TriesMatchStatus, DeclaredRows, GoneLeaveNothing, Kept

LEMMA InvNext == IInv /\ [Next]_vars => IInv'
BY EnqueueInv, SwitchOnInv, SwitchOffInv, FallDueInv, PollInv, SucceedInv, RetryInv,
   FailForGoodInv, UnrecordedInv, EndWithoutRowInv, PurgeOwnerInv, StopInv, ExitInv, BootInv, StutterInv DEF Next, Settle

THEOREM Inductive == Spec => []IInv
BY InvInit, InvNext, PTL DEF Spec

\* No key's job runs twice at once, and the enqueues that wait belong to a run.
THEOREM RunsAreExclusive == Spec => [](RunsAlone /\ PendingHasRun)
<1>1. IInv => RunsAlone /\ PendingHasRun BY DEF IInv
<1> QED BY <1>1, Inductive, PTL

\* A change enqueued while its job runs is queued again when the run ends,
\* however it ends, and with the newest payload.
THEOREM EnqueuesSurvive == Spec => [](NoLostEnqueue /\ NewestPayload)
<1>1. IInv => NoLostEnqueue /\ NewestPayload BY DEF IInv
<1> QED BY <1>1, Inductive, PTL

\* No row is tried more often than its kind allows.
THEOREM TriesAreBounded == Spec => []TriesBounded
<1>1. IInv => TriesBounded BY DEF IInv
<1> QED BY <1>1, Inductive, PTL

\* The schedule of a recurring kind never ends while it is on, and queues
\* nothing new while it is off.
THEOREM SchedulesHold == Spec => [](RecurringAlive /\ OffQueuesNothingNew)
<1>1. IInv => RecurringAlive /\ OffQueuesNothingNew BY DEF IInv
<1> QED BY <1>1, Inductive, PTL

-----------------------------------------------------------------------------
(***************************************************************************)
(* Ranks.                                                                  *)
(***************************************************************************)
\* What the due rows' places and the owners' turns are: small numbers, and no two
\* positive ones alike.
IsRank(f, S) ==
  /\ f \in [S -> Nat]
  /\ \A x \in S : f[x] <= Cardinality(S)
  /\ \A x, y \in S : f[x] = f[y] /\ f[x] > 0 => x = y

RanksAreRight == IsRank(due, Keys) /\ IsRank(lastTurn, Owners)

\* A set that is part of another and misses one of its elements is smaller.
LEMMA SmallerPart ==
  ASSUME NEW T, IsFiniteSet(T), NEW S \in SUBSET T, NEW x \in T, x \notin S
  PROVE  Cardinality(S) \in Nat /\ Cardinality(T) \in Nat /\ Cardinality(S) < Cardinality(T)
<1>1. IsFiniteSet(S) /\ Cardinality(S) <= Cardinality(T) /\ (Cardinality(S) = Cardinality(T) => S = T)
  BY FS_Subset
<1> QED BY <1>1, FS_CardinalityType

\* A set of natural numbers that is not empty has a least one.
LEMMA LeastOne ==
  ASSUME NEW S, S \subseteq Nat, S # {}
  PROVE  \E x \in S : \A y \in S : x <= y
<1>1. PICK x \in S : \A y \in S : ~(<<y, x>> \in OpToRel(<, Nat)) BY WFMin, NatLessThanWellFounded
<1>2. \A i, j \in Nat : j < i => <<j, i>> \in OpToRel(<, Nat) BY DEF OpToRel
<1>3. \A y \in S : x \in Nat /\ y \in Nat /\ ~(y < x) BY <1>1, <1>2
<1>4. \A y \in S : x <= y BY <1>3
<1> QED BY <1>4

\* Ranking keeps what was zero, and tells apart what was apart.
LEMMA RankedIsRank ==
  ASSUME NEW S, IsFiniteSet(S), NEW f \in [S -> Nat],
         \A x, y \in S : f[x] = f[y] /\ f[x] > 0 => x = y
  PROVE  IsRank(Ranked(f), S)
<1> DEFINE B(x) == {y \in S : 0 < f[y] /\ f[y] <= f[x]}
           r == [x \in S |-> IF f[x] = 0 THEN 0 ELSE Cardinality(B(x))]
<1>1. Ranked(f) = r BY DEF Ranked
<1>2. ASSUME NEW x \in S
      PROVE  IsFiniteSet(B(x)) /\ Cardinality(B(x)) \in Nat /\ Cardinality(B(x)) <= Cardinality(S)
  BY FS_Subset, FS_CardinalityType
<1>3. ASSUME NEW x \in S, NEW y \in S, 0 < f[x], f[x] < f[y]
      PROVE  Cardinality(B(x)) < Cardinality(B(y))
  <2>1. B(x) \in SUBSET B(y) /\ y \in B(y) /\ y \notin B(x) BY <1>3
  <2> HIDE DEF B
  <2> QED BY <1>2, <2>1, SmallerPart
<1>4. Cardinality(S) \in Nat BY FS_CardinalityType
<1> HIDE DEF B
<1>5. r \in [S -> Nat] BY <1>2
<1>6. \A x \in S : r[x] <= Cardinality(S) BY <1>2, <1>4
<1>7. ASSUME NEW x \in S, NEW y \in S, r[x] = r[y], r[x] > 0 PROVE x = y
  <2>1. f[x] > 0 /\ f[y] > 0 /\ Cardinality(B(x)) = Cardinality(B(y)) BY <1>7
  <2>2. ~(f[x] < f[y]) /\ ~(f[y] < f[x]) BY <1>2, <1>3, <2>1
  <2> QED BY <2>1, <2>2
<1> HIDE DEF r
<1> QED BY <1>1, <1>5, <1>6, <1>7 DEF IsRank

LEMMA LaterIsRank ==
  ASSUME RanksAreRight, NEW S PROVE IsRank(Later(S), Keys)
<1> DEFINE g == [k \in Keys |-> IF k \in S THEN 0 ELSE due[k]]
<1>1. g \in [Keys -> Nat] /\ \A x, y \in Keys : g[x] = g[y] /\ g[x] > 0 => x = y
  BY DEF RanksAreRight, IsRank
<1> HIDE DEF g
<1>2. IsRank(Ranked(g), Keys) BY <1>1, KeysAssumption, RankedIsRank
<1> QED BY <1>2 DEF Later, g

LEMMA DueNowIsRank ==
  ASSUME RanksAreRight, NEW S \in SUBSET Keys, NEW waiting, NEW d \in DueNow(S, waiting)
  PROVE  IsRank(d, Keys)
<1> DEFINE g(f) == [k \in Keys |-> IF k \in S THEN Cardinality(Keys) + f[k]
                                   ELSE IF k \in waiting THEN 0 ELSE due[k]]
<1>1. PICK f \in Bijection(S, 1 .. Cardinality(S)) : d = Ranked(g(f)) BY DEF DueNow
<1>2. Cardinality(Keys) \in Nat /\ IsFiniteSet(S) /\ Cardinality(S) \in Nat
  BY KeysAssumption, FS_Subset, FS_CardinalityType
<1>3. /\ f \in [S -> 1 .. Cardinality(S)]
      /\ \A x, y \in S : f[x] = f[y] => x = y
  BY DEF Bijection, Injection, IsInjective
<1>4. /\ \A k \in S : f[k] \in Nat /\ f[k] > 0
      /\ \A k \in Keys : due[k] \in Nat /\ due[k] <= Cardinality(Keys)
  BY <1>2, <1>3 DEF RanksAreRight, IsRank
<1>5. g(f) \in [Keys -> Nat] BY <1>2, <1>4
<1>6. ASSUME NEW x \in Keys, NEW y \in Keys, g(f)[x] = g(f)[y], g(f)[x] > 0 PROVE x = y
  <2>1. CASE x \in S /\ y \in S
    <3>1. f[x] = f[y] BY <1>2, <1>4, <1>6, <2>1
    <3> QED BY <1>3, <2>1, <3>1
  <2>2. CASE x \notin S /\ y \notin S BY <1>6, <2>2 DEF RanksAreRight, IsRank
  <2>3. CASE x \in S /\ y \notin S BY <1>2, <1>4, <1>6, <2>3
  <2>4. CASE x \notin S /\ y \in S BY <1>2, <1>4, <1>6, <2>4
  <2> QED BY <2>1, <2>2, <2>3, <2>4
<1> HIDE DEF g
<1> QED BY <1>1, <1>5, <1>6, KeysAssumption, RankedIsRank

(***************************************************************************)
(* The order of the picks.                                                 *)
(***************************************************************************)
LEMMA DueFacts ==
  ASSUME TypeOK, RanksAreRight
  PROVE  /\ IsFiniteSet(Due) /\ Due \subseteq Keys
         /\ \A k \in Due : due[k] \in Nat /\ OwnerOf[k] \in Owners /\ lastTurn[OwnerOf[k]] \in Nat
         /\ \A j, k \in Due : due[j] = due[k] => j = k
         /\ \A S : S \subseteq Due => IsFiniteSet(S) /\ Cardinality(S) \in Nat
         /\ \A k \in Due : Place(k) \in Nat /\ Turn(k) \in Nat
<1>1. IsFiniteSet(Due) /\ Due \subseteq Keys BY KeysAssumption, FS_Subset DEF Due
<1>2. \A S : S \subseteq Due => IsFiniteSet(S) /\ Cardinality(S) \in Nat
  BY <1>1, FS_Subset, FS_CardinalityType
<1>3. \A k \in Due : Place(k) \in Nat BY <1>2 DEF Place
<1>4. \A k \in Due : Turn(k) \in Nat BY <1>2 DEF Turn
<1>5. \A j, k \in Due : due[j] = due[k] => j = k BY <1>1 DEF RanksAreRight, IsRank, Due
<1>6. \A k \in Due : due[k] \in Nat /\ OwnerOf[k] \in Owners /\ lastTurn[OwnerOf[k]] \in Nat
  BY <1>1, KeysAssumption DEF TypeOK
<1> QED BY <1>1, <1>2, <1>3, <1>4, <1>5, <1>6

\* An owner's rows have places in the order they fell due.
LEMMA PlacesInOrder ==
  ASSUME TypeOK, RanksAreRight, NEW j \in Due, NEW k \in Due,
         OwnerOf[j] = OwnerOf[k], due[j] < due[k]
  PROVE  Place(j) < Place(k)
<1> DEFINE P(i) == {h \in Due : OwnerOf[h] = OwnerOf[i] /\ due[h] <= due[i]}
<1>1. P(j) \in SUBSET P(k) /\ k \in P(k) /\ k \notin P(j) BY DueFacts
<1>2. IsFiniteSet(P(k)) BY DueFacts
<1> HIDE DEF P
<1>3. Cardinality(P(j)) < Cardinality(P(k)) BY <1>1, <1>2, SmallerPart
<1> QED BY <1>3 DEF P, Place

\* Each owner with due rows has a first one.
LEMMA FirstDue ==
  ASSUME TypeOK, RanksAreRight, NEW a \in DueOwners
  PROVE  \E j \in Due : OwnerOf[j] = a /\ \A k \in Due : OwnerOf[k] = a => due[j] <= due[k]
<1> DEFINE D == {due[k] : k \in {h \in Due : OwnerOf[h] = a}}
<1>1. D \subseteq Nat /\ D # {} BY DueFacts DEF DueOwners
<1>2. \E x \in D : \A y \in D : x <= y BY <1>1, LeastOne
<1> QED BY <1>2

LEMMA OwnersInOrder ==
  ASSUME TypeOK, RanksAreRight
  PROVE  /\ \A a, b \in DueOwners : a = b \/ OwnerBefore(a, b) \/ OwnerBefore(b, a)
         /\ \A a, b, c \in DueOwners : OwnerBefore(a, b) /\ OwnerBefore(b, c) => OwnerBefore(a, c)
         /\ \A a \in DueOwners : ~OwnerBefore(a, a)
<1>0. \A a \in DueOwners : lastTurn[a] \in Nat BY DueFacts DEF DueOwners
<1>1. ASSUME NEW a \in DueOwners, NEW b \in DueOwners, a # b, lastTurn[a] = lastTurn[b]
      PROVE  OwnerBefore(a, b) \/ OwnerBefore(b, a)
  <2>1. PICK j \in Due : OwnerOf[j] = a /\ \A k \in Due : OwnerOf[k] = a => due[j] <= due[k] BY FirstDue
  <2>2. PICK i \in Due : OwnerOf[i] = b /\ \A k \in Due : OwnerOf[k] = b => due[i] <= due[k] BY FirstDue
  <2>3. due[j] # due[i] BY <1>1, <2>1, <2>2, DueFacts
  <2>4. CASE due[j] < due[i]
    <3>1. \A k \in Due : OwnerOf[k] = b => due[j] < due[k] BY <2>2, <2>4, DueFacts
    <3> QED BY <1>1, <2>1, <3>1 DEF OwnerBefore
  <2>5. CASE due[i] < due[j]
    <3>1. \A k \in Due : OwnerOf[k] = a => due[i] < due[k] BY <2>1, <2>5, DueFacts
    <3> QED BY <1>1, <2>2, <3>1 DEF OwnerBefore
  <2> QED BY <2>3, <2>4, <2>5, DueFacts
<1>2. \A a, b \in DueOwners : a = b \/ OwnerBefore(a, b) \/ OwnerBefore(b, a)
  BY <1>0, <1>1 DEF OwnerBefore
<1>3. ASSUME NEW a \in DueOwners, NEW b \in DueOwners, NEW c \in DueOwners,
             OwnerBefore(a, b), OwnerBefore(b, c)
      PROVE  OwnerBefore(a, c)
  <2>1. CASE lastTurn[a] = lastTurn[b] /\ lastTurn[b] = lastTurn[c]
    <3>1. PICK j \in Due : OwnerOf[j] = a /\ \A k \in Due : OwnerOf[k] = b => due[j] < due[k]
      BY <1>0, <1>3, <2>1 DEF OwnerBefore
    <3>2. PICK i \in Due : OwnerOf[i] = b /\ \A k \in Due : OwnerOf[k] = c => due[i] < due[k]
      BY <1>0, <1>3, <2>1 DEF OwnerBefore
    <3>3. \A k \in Due : OwnerOf[k] = c => due[j] < due[k] BY <3>1, <3>2, DueFacts
    <3> QED BY <2>1, <3>1, <3>3 DEF OwnerBefore
  <2>2. CASE ~(lastTurn[a] = lastTurn[b] /\ lastTurn[b] = lastTurn[c])
    <3>1. lastTurn[a] <= lastTurn[b] /\ lastTurn[b] <= lastTurn[c] BY <1>0, <1>3 DEF OwnerBefore
    <3>2. lastTurn[a] < lastTurn[c] BY <1>0, <2>2, <3>1
    <3> QED BY <3>2 DEF OwnerBefore
  <2> QED BY <2>1, <2>2
<1>4. \A a \in DueOwners : ~OwnerBefore(a, a) BY <1>0, DueFacts DEF OwnerBefore
<1> QED BY <1>2, <1>3, <1>4

\* The picks are a strict and total order of the due rows.
LEMMA PicksInOrder ==
  ASSUME TypeOK, RanksAreRight
  PROVE  /\ \A j, k \in Due : j = k \/ PickedBefore(j, k) \/ PickedBefore(k, j)
         /\ \A i, j, k \in Due : PickedBefore(i, j) /\ PickedBefore(j, k) => PickedBefore(i, k)
         /\ \A j \in Due : ~PickedBefore(j, j)
<1>0. \A k \in Due : Place(k) \in Nat /\ OwnerOf[k] \in DueOwners BY DueFacts DEF DueOwners
<1>1. ASSUME NEW j \in Due, NEW k \in Due, j # k, Place(j) = Place(k)
      PROVE  OwnerOf[j] # OwnerOf[k]
  <2>1. due[j] # due[k] /\ due[j] \in Nat /\ due[k] \in Nat BY <1>1, DueFacts
  <2>2. due[j] < due[k] \/ due[k] < due[j] BY <2>1
  <2> QED BY <1>0, <1>1, <2>2, PlacesInOrder
<1>2. \A j, k \in Due : j = k \/ PickedBefore(j, k) \/ PickedBefore(k, j)
  BY <1>0, <1>1, OwnersInOrder DEF PickedBefore
<1>3. \A i, j, k \in Due : PickedBefore(i, j) /\ PickedBefore(j, k) => PickedBefore(i, k)
  BY <1>0, OwnersInOrder DEF PickedBefore
<1>4. \A j \in Due : ~PickedBefore(j, j) BY <1>0, OwnersInOrder DEF PickedBefore
<1> QED BY <1>2, <1>3, <1>4

LEMMA TurnsInOrder ==
  ASSUME TypeOK, RanksAreRight, NEW j \in Due, NEW k \in Due
  PROVE  /\ PickedBefore(j, k) <=> Turn(j) < Turn(k)
         /\ Turn(j) = Turn(k) => j = k
<1> DEFINE T(i) == {h \in Due : PickedBefore(h, i)}
<1>1. ASSUME NEW x \in Due, NEW y \in Due, PickedBefore(x, y) PROVE Turn(x) < Turn(y)
  <2>1. T(x) \in SUBSET T(y) /\ x \in T(y) /\ x \notin T(x) BY <1>1, PicksInOrder
  <2>2. IsFiniteSet(T(y)) BY DueFacts
  <2> HIDE DEF T
  <2>3. Cardinality(T(x)) < Cardinality(T(y)) BY <2>1, <2>2, SmallerPart
  <2> QED BY <2>3 DEF T, Turn
<1>2. Turn(j) \in Nat /\ Turn(k) \in Nat BY DueFacts
<1> QED BY <1>1, <1>2, PicksInOrder

\* A poll takes no more rows than there are free slots.
LEMMA PicksFit ==
  ASSUME TypeOK, RanksAreRight, NEW free \in Nat
  PROVE  /\ TakeTurns(free) \subseteq Due /\ IsFiniteSet(TakeTurns(free))
         /\ Cardinality(TakeTurns(free)) <= free
<1> DEFINE T == TakeTurns(free)
<1>1. T \subseteq Due /\ IsFiniteSet(T) /\ Cardinality(T) \in Nat BY DueFacts DEF TakeTurns
<1>2. CASE T = {} BY <1>1, <1>2, FS_EmptySet
<1>3. CASE T # {}
  <2> DEFINE D == {free - Turn(k) : k \in T}
  <2>1. D \subseteq Nat /\ D # {} BY <1>1, <1>3, DueFacts DEF TakeTurns
  <2>2. PICK x \in D : \A y \in D : x <= y BY <2>1, LeastOne
  <2>3. PICK m \in T : x = free - Turn(m) BY <2>2
  <2>4. \A k \in T : x <= free - Turn(k) BY <2>2
  <2>5. \A k \in T : Turn(k) <= Turn(m) BY <1>1, <2>3, <2>4, DueFacts
  <2>6. \A k \in T : k = m \/ PickedBefore(k, m) BY <1>1, <2>5, TurnsInOrder, PicksInOrder, DueFacts
  <2> DEFINE B == {k \in Due : PickedBefore(k, m)}
  <2>7. T \ {m} \subseteq B /\ IsFiniteSet(B) /\ Cardinality(B) = Turn(m) /\ Turn(m) < free /\ Turn(m) \in Nat
    BY <1>1, <2>6, DueFacts DEF Turn, TakeTurns
  <2> HIDE DEF T, B
  <2>8. Cardinality(T \ {m}) = Cardinality(T) - 1 BY <1>1, FS_RemoveElement
  <2>9. Cardinality(T \ {m}) <= Cardinality(B) BY <2>7, FS_Subset
  <2>10. Cardinality(T) <= free BY <1>1, <2>7, <2>8, <2>9
  <2> QED BY <1>1, <2>10 DEF T
<1> QED BY <1>2, <1>3

-----------------------------------------------------------------------------
(***************************************************************************)
(* The ranks are right in every state, the slots are kept, and only        *)
(* switchable kinds are switched.                                          *)
(***************************************************************************)
SlotsAreKept == Cardinality(active) <= Concurrency
OthersStayOn == \A k \in Keys \ Switchable : on[k] = (k \in Recurring)
TurnsInv == IInv /\ RanksAreRight /\ SlotsAreKept /\ OthersStayOn

LEMMA LastPick ==
  ASSUME TypeOK, RanksAreRight, NEW P \in SUBSET Due, NEW o, \E k \in P : OwnerOf[k] = o
  PROVE  \E k \in P : OwnerOf[k] = o /\ \A j \in P : OwnerOf[j] = o => Place(j) <= Place(k)
<1> DEFINE n == Cardinality(Due)
           D == {n - Place(k) : k \in {h \in P : OwnerOf[h] = o}}
<1>1. n \in Nat /\ \A k \in Due : Place(k) \in Nat BY DueFacts
<1>2. ASSUME NEW k \in Due PROVE Place(k) <= n BY DueFacts, FS_Subset DEF Place
<1>3. D \subseteq Nat /\ D # {} BY <1>1, <1>2
<1> HIDE DEF n
<1>4. PICK x \in D : \A y \in D : x <= y BY <1>3, LeastOne
<1>5. PICK k \in P : OwnerOf[k] = o /\ x = n - Place(k) BY <1>4
<1>6. ASSUME NEW j \in P, OwnerOf[j] = o PROVE Place(j) <= Place(k)
  <2>1. x <= n - Place(j) BY <1>4, <1>6
  <2> QED BY <1>1, <1>5, <2>1
<1> QED BY <1>5, <1>6

LEMMA TurnsAfterIsRank ==
  ASSUME TypeOK, RanksAreRight, NEW P \in SUBSET Due
  PROVE  IsRank(TurnsAfter(P), Owners)
<1> DEFINE served(o) == \E k \in P : OwnerOf[k] = o
           pick(o) == CHOOSE k \in P : OwnerOf[k] = o /\ \A j \in P : OwnerOf[j] = o => Place(j) <= Place(k)
           g == [o \in Owners |-> IF served(o) THEN Cardinality(Owners) + 1 + Turn(pick(o)) ELSE lastTurn[o]]
<1>1. ASSUME NEW o, served(o) PROVE pick(o) \in P /\ OwnerOf[pick(o)] = o /\ Turn(pick(o)) \in Nat
  <2>1. \E k \in P : OwnerOf[k] = o /\ \A j \in P : OwnerOf[j] = o => Place(j) <= Place(k)
    BY <1>1, LastPick
  <2>2. pick(o) \in P /\ OwnerOf[pick(o)] = o BY <2>1
  <2> QED BY <2>2, DueFacts
<1>2. Cardinality(Owners) \in Nat BY KeysAssumption, FS_CardinalityType
<1>3. \A o \in Owners : lastTurn[o] \in Nat /\ lastTurn[o] <= Cardinality(Owners)
  BY DEF RanksAreRight, IsRank
<1> HIDE DEF served, pick
<1>4. g \in [Owners -> Nat] BY <1>1, <1>2, <1>3
<1>5. ASSUME NEW a \in Owners, NEW b \in Owners, g[a] = g[b], g[a] > 0 PROVE a = b
  <2>1. CASE served(a) /\ served(b)
    <3>1. Turn(pick(a)) = Turn(pick(b)) BY <1>1, <1>2, <1>5, <2>1
    <3>2. pick(a) \in Due /\ pick(b) \in Due BY <1>1, <2>1
    <3>3. pick(a) = pick(b) BY <3>1, <3>2, TurnsInOrder
    <3> QED BY <1>1, <2>1, <3>3
  <2>2. CASE ~served(a) /\ ~served(b) BY <1>5, <2>2 DEF RanksAreRight, IsRank
  <2>3. CASE served(a) /\ ~served(b) BY <1>1, <1>2, <1>3, <1>5, <2>3
  <2>4. CASE ~served(a) /\ served(b) BY <1>1, <1>2, <1>3, <1>5, <2>4
  <2> QED BY <2>1, <2>2, <2>3, <2>4
<1>6. TurnsAfter(P) = Ranked(g) BY DEF TurnsAfter, served, pick
<1> HIDE DEF g
<1> QED BY <1>4, <1>5, <1>6, KeysAssumption, RankedIsRank

\* Every step writes ranks.
LEMMA RanksNext == IInv /\ RanksAreRight /\ [Next]_vars => RanksAreRight'
<1> SUFFICES ASSUME IInv, TypeOK, RanksAreRight, [Next]_vars PROVE RanksAreRight' BY DEF IInv
<1>1. ASSUME \/ due' = due
             \/ \E S : due' = Later(S)
             \/ \E S \in SUBSET Keys : \E waiting : due' \in DueNow(S, waiting)
      PROVE  IsRank(due', Keys)
  BY <1>1, LaterIsRank, DueNowIsRank DEF RanksAreRight
<1>2. ASSUME IsRank(due', Keys), lastTurn' = lastTurn PROVE RanksAreRight'
  BY <1>2 DEF RanksAreRight
<1>3. ASSUME NEW k \in Keyed, NEW p \in Payloads, Enqueue(k, p) PROVE RanksAreRight'
  BY <1>1, <1>2, <1>3 DEF Enqueue, Upsert
<1>4. ASSUME NEW k \in Switchable, SwitchOn(k) PROVE RanksAreRight'
  BY <1>1, <1>2, <1>4 DEF SwitchOn, Upsert
<1>5. ASSUME NEW k \in Switchable, SwitchOff(k) PROVE RanksAreRight'
  BY <1>1, <1>2, <1>5 DEF SwitchOff
<1>6. ASSUME NEW k \in Keys, FallDue(k) PROVE RanksAreRight'
  BY <1>1, <1>2, <1>6 DEF FallDue, memory
<1>7. CASE PollJobs
  <2>1. IsRank(due', Keys) BY <1>1, <1>7 DEF PollJobs
  <2>2. lastTurn' = TurnsAfter(TakeTurns(Free)) /\ TakeTurns(Free) \subseteq Due
    BY <1>7 DEF PollJobs, TakeTurns
  <2>3. IsRank(lastTurn', Owners) BY <2>2, TurnsAfterIsRank
  <2> QED BY <2>1, <2>3 DEF RanksAreRight
<1>8. ASSUME NEW k \in Keys, Settle(k) \/ Unrecorded(k) PROVE RanksAreRight'
  <2>1. due' = due \/ due' = Later({k}) \/ due' \in DueNow({k}, {})
    BY <1>8 DEF Settle, Succeed, Retry, FailForGood, EndWithoutRow, Unrecorded, ScheduleNext
  <2>2. lastTurn' = lastTurn
    BY <1>8 DEF Settle, Succeed, Retry, FailForGood, EndWithoutRow, Unrecorded, Ends
  <2> QED BY <1>1, <1>2, <2>1, <2>2
<1>9. ASSUME NEW o \in Owners \ {Instance}, PurgeOwner(o) PROVE RanksAreRight'
  BY <1>1, <1>2, <1>9 DEF PurgeOwner, memory
<1>10. CASE Stop \/ UNCHANGED vars BY <1>1, <1>2, <1>10 DEF Stop, vars, durable, memory
<1>11. CASE Exit
  <2>1. IsRank(due', Keys) BY <1>1, <1>11 DEF Exit, durable
  <2>2. lastTurn' = [o \in Owners |-> 0] BY <1>11 DEF Exit
  <2>3. IsRank(lastTurn', Owners)
    BY <2>2, KeysAssumption, FS_CardinalityType DEF IsRank
  <2> QED BY <2>1, <2>3 DEF RanksAreRight
<1>12. ASSUME NEW background \in BOOLEAN, Boot(background) PROVE RanksAreRight'
  <2> DEFINE interrupted == {k \in Keys : row[k].status = "running" /\ ~Spent(k)}
             off == {k \in Recurring : ~on[k]}
             now == IF background THEN (interrupted \ (off \cup AtStart)) \cup (StartNow \ off) ELSE interrupted
             waiting == IF background THEN off \cup (AtStart \ StartNow) ELSE {}
  <2>1. due' \in DueNow(now, waiting) /\ lastTurn' = lastTurn BY <1>12 DEF Boot
  <2>2. now \in SUBSET Keys BY KeysAssumption
  <2> HIDE DEF now, waiting
  <2> QED BY <1>1, <1>2, <2>1, <2>2
<1> QED BY <1>3, <1>4, <1>5, <1>6, <1>7, <1>8, <1>9, <1>10, <1>11, <1>12 DEF Next

\* What a poll adds fits in the slots; every other step gives slots back.
LEMMA SlotsNext == TurnsInv /\ [Next]_vars => SlotsAreKept'
<1> SUFFICES ASSUME TurnsInv, IInv, TypeOK, [Next]_vars PROVE SlotsAreKept' BY DEF TurnsInv, IInv
<1>1. IsFiniteSet(active) /\ Cardinality(active) \in Nat /\ Cardinality(active) <= Concurrency
  BY KeysAssumption, FS_Subset, FS_CardinalityType DEF TypeOK, TurnsInv, SlotsAreKept
<1>2. ASSUME active' \subseteq active PROVE SlotsAreKept'
  <2>1. Cardinality(active') <= Cardinality(active) /\ Cardinality(active') \in Nat
    BY <1>1, <1>2, FS_Subset, FS_CardinalityType
  <2> QED BY <1>1, <2>1, ConcurrencyAssumption DEF SlotsAreKept
<1>3. CASE PollJobs
  <2>1. active' = active \cup TakeTurns(Free) BY <1>3 DEF PollJobs
  <2>2. Free \in Nat /\ Free = Concurrency - Cardinality(active)
    BY <1>1, ConcurrencyAssumption DEF Free
  <2>3. IsFiniteSet(TakeTurns(Free)) /\ Cardinality(TakeTurns(Free)) <= Free
    BY <2>2, PicksFit DEF TurnsInv
  <2>4. /\ Cardinality(active') = Cardinality(active) + Cardinality(TakeTurns(Free))
                                    - Cardinality(active \cap TakeTurns(Free))
        /\ Cardinality(active \cap TakeTurns(Free)) \in Nat /\ Cardinality(TakeTurns(Free)) \in Nat
    BY <1>1, <2>1, <2>3, FS_Union, FS_Intersection, FS_CardinalityType
  <2> QED BY <1>1, <2>2, <2>3, <2>4, ConcurrencyAssumption DEF SlotsAreKept
<1>4. ~PollJobs => active' \subseteq active
  BY DEF Next, vars, durable, memory, Enqueue, SwitchOn, SwitchOff, FallDue, Settle, Succeed, Retry, FailForGood,
         EndWithoutRow, Ends, Unrecorded, PurgeOwner, Stop, Exit, Boot
<1> QED BY <1>2, <1>3, <1>4

LEMMA OnNext == TurnsInv /\ [Next]_vars => OthersStayOn'
<1> SUFFICES ASSUME TypeOK, OthersStayOn, [Next]_vars PROVE OthersStayOn' BY DEF TurnsInv, IInv
<1>1. on' = on \/ \E k \in Switchable : SwitchOn(k) \/ SwitchOff(k)
  BY DEF Next, vars, durable, memory, Enqueue, FallDue, PollJobs, Settle, Succeed, Retry, FailForGood,
         EndWithoutRow, Ends, Unrecorded, PurgeOwner, Stop, Exit, Boot
<1> QED BY <1>1 DEF OthersStayOn, SwitchOn, SwitchOff, TypeOK

LEMMA TurnsInvInit == Init => TurnsInv
<1> SUFFICES ASSUME Init PROVE TurnsInv OBVIOUS
<1>1. RanksAreRight BY KeysAssumption, FS_CardinalityType DEF Init, RanksAreRight, IsRank
<1>2. SlotsAreKept BY FS_EmptySet, ConcurrencyAssumption DEF Init, SlotsAreKept
<1>3. OthersStayOn BY DEF Init, OthersStayOn
<1> QED BY <1>1, <1>2, <1>3, InvInit DEF TurnsInv

LEMMA AlwaysTurnsInv == Spec => []TurnsInv
<1>1. TurnsInv /\ [Next]_vars => TurnsInv' BY InvNext, RanksNext, SlotsNext, OnNext DEF TurnsInv
<1> QED BY <1>1, TurnsInvInit, PTL DEF Spec

-----------------------------------------------------------------------------
(***************************************************************************)
(* The runner implements KeyedWork.                                        *)
(***************************************************************************)
Busy == {k \in active : Kept(k)}

\* What the abstract state is of each key, which the mapping of a step is read from.
LEMMA Mapped ==
  ASSUME IInv, NEW k \in Keys
  PROVE  /\ k \in Busy <=> k \in active /\ Kept(k)
         /\ k \in Busy => row[k].status = "running" /\ k \notin Interrupted
         /\ k \in Interrupted <=> row[k].status = "running" /\ k \notin active
         /\ row[k].status = "running" => Kept(k)
         /\ k \in Wanted <=> row[k].status = "queued" \/ (pending[k] # None /\ Kept(k))
         /\ pending[k] # None /\ Kept(k) => row[k].status = "running"
         /\ active \subseteq Keys
BY DEF IInv, TypeOK, RunsAlone, PendingHasRun, GoneLeaveNothing, Busy, Interrupted, Wanted, NoRow

LEMMA SameCount == \A S : Work!Cardinality(S) = Cardinality(S)
BY DEF Work!Cardinality, Cardinality

LEMMA StutterMaps ==
  ASSUME UNCHANGED <<Wanted, Busy, Interrupted>> PROVE UNCHANGED Work!vars
BY DEF Work!vars, Busy

LEMMA WriteMaps ==
  ASSUME IInv, NEW k \in Declared \cup Keyed, Kept(k), NEW p \in Payloads, Upsert(k, p), UNCHANGED <<gone, active>>
  PROVE  Work!Ask(k)
<1>1. k \in Keys BY Assumptions
<1>2. \A j \in Keys : j # k => row'[j] = row[j] /\ pending'[j] = pending[j] BY DEF Upsert, IInv, TypeOK
<1>3. row'[k].status = "queued" \/ (row[k].status = "running" /\ row'[k] = row[k] /\ pending'[k] = p)
  BY <1>1 DEF Upsert, IInv, TypeOK, Queued
<1>4. row'[k].status = "running" <=> row[k].status = "running"
  BY <1>1 DEF Upsert, IInv, TypeOK, Queued
<1>5. Wanted' = Wanted \cup {k} BY <1>1, <1>2, <1>3, Assumptions DEF Wanted, Kept
<1>6. Interrupted' = Interrupted BY <1>2, <1>4 DEF Interrupted
<1>7. Busy' = Busy BY DEF Busy, Kept
<1> QED BY <1>5, <1>6, <1>7 DEF Work!Ask, Busy

LEMMA PollMaps == TurnsInv /\ PollJobs => Work!Begin
<1> SUFFICES ASSUME TurnsInv, IInv, TypeOK, PollJobs PROVE Work!Begin BY DEF TurnsInv, IInv
<1> DEFINE S == TakeTurns(Free)
<1>1. /\ \A k \in S : row'[k] = Running(row[k].tries + 1, row[k].payload)
      /\ \A k \in Keys \ S : row'[k] = row[k]
      /\ active' = active \cup S /\ UNCHANGED <<gone, pending>>
      /\ S \subseteq Due /\ S \subseteq Keys
  BY DEF PollJobs, TakeTurns, Due
<1>2. \A k \in S : row[k].status = "queued" BY <1>1 DEF Due
<1>3. \A k \in S : Kept(k) BY <1>1, <1>2 DEF IInv, GoneLeaveNothing, NoRow
<1>4. S \in SUBSET (Wanted \ (Busy \cup Interrupted)) BY <1>1, <1>2, Mapped
<1> HIDE DEF S
<1>5. Busy' = Busy \cup S BY <1>1, <1>3 DEF Busy, Kept
<1>6. Wanted' = Wanted \ S
  <2>1. ASSUME NEW k \in S PROVE row'[k].status = "running"
    <3>1. row'[k] = Running(row[k].tries + 1, row[k].payload) BY <1>1
    <3> QED BY <3>1 DEF Running
  <2>2. \A k \in S : pending[k] = None BY <1>1, <1>2, <1>3, Mapped
  <2> QED BY <1>1, <2>1, <2>2 DEF Wanted, Kept
<1>7. Interrupted' = Interrupted BY <1>1, <1>2 DEF Interrupted, Running
<1>8. Cardinality(Busy \cup S) <= Concurrency
  <2>1. SlotsAreKept' /\ TypeOK' BY SlotsNext, InvNext DEF Next, TurnsInv, IInv
  <2>2. IsFiniteSet(active') /\ Cardinality(active') \in Nat /\ Cardinality(active') <= Concurrency
    BY <2>1, KeysAssumption, FS_Subset, FS_CardinalityType DEF TypeOK, SlotsAreKept
  <2>3. Busy \cup S \in SUBSET active' BY <1>1 DEF Busy
  <2>4. Cardinality(Busy \cup S) <= Cardinality(active') /\ Cardinality(Busy \cup S) \in Nat
    BY <2>2, <2>3, FS_Subset, FS_CardinalityType
  <2> QED BY <2>2, <2>4, ConcurrencyAssumption
<1>9. \E R \in SUBSET (Wanted \ (Busy \cup Interrupted)) :
        /\ Cardinality(Busy \cup R) <= Concurrency
        /\ Busy' = Busy \cup R /\ Wanted' = Wanted \ R /\ UNCHANGED Interrupted
  BY <1>4, <1>5, <1>6, <1>7, <1>8
<1> QED BY <1>9, SameCount, Zenon DEF Work!Begin, Busy

\* What the end of a run leaves in its row decides whether the key is wanted again.
LEMMA EndMaps ==
  ASSUME IInv, NEW k \in active, Kept(k), active' = active \ {k}, gone' = gone,
         \A j \in Keys \ {k} : row'[j] = row[j] /\ pending'[j] = pending[j],
         row'[k].status # "running", pending'[k] = None, pending[k] # None => row'[k].status = "queued"
  PROVE  Work!Finish(k)
<1>1. k \in Keys BY Mapped DEF IInv, TypeOK
<1>2. Busy' = Busy \ {k} /\ k \in Busy BY DEF Busy, Kept
<1>3. \A j \in Keys : j # k => (j \in Wanted' <=> j \in Wanted) BY DEF Wanted, Kept
<1>4. k \in Wanted => k \in Wanted' BY <1>1, Mapped DEF Wanted
<1>5. Wanted' = Wanted \/ Wanted' = Wanted \cup {k}
  <2>1. Wanted \subseteq Keys /\ Wanted' \subseteq Keys BY DEF Wanted
  <2> QED BY <1>1, <1>3, <1>4, <2>1
<1>6. Interrupted' = Interrupted BY <1>1, Mapped DEF Interrupted
<1> QED BY <1>2, <1>5, <1>6 DEF Work!Finish, Busy

LEMMA SettleMaps ==
  ASSUME IInv, NEW k \in Keys, Settle(k) PROVE Work!Finish(k) \/ UNCHANGED Work!vars
<1>0. TypeOK BY DEF IInv
<1>1. CASE Succeed(k) \/ FailForGood(k)
  <2>1. Kept(k) /\ Ends(k) /\ ScheduleNext(k) BY <1>1 DEF Succeed, FailForGood
  <2>2. \A j \in Keys \ {k} : row'[j] = row[j] /\ pending'[j] = pending[j]
    BY <2>1, <1>0 DEF ScheduleNext, TypeOK
  <2>3. row'[k].status # "running" /\ pending'[k] = None /\ (pending[k] # None => row'[k].status = "queued")
    BY <2>1, <1>0 DEF ScheduleNext, TypeOK, Queued, NextRun, NoRow
  <2> QED BY <2>1, <2>2, <2>3, EndMaps DEF Ends
<1>2. CASE Retry(k)
  <2>1. Kept(k) /\ Ends(k) BY <1>2 DEF Retry
  <2>2. \A j \in Keys \ {k} : row'[j] = row[j] /\ pending'[j] = pending[j]
    BY <1>0, <1>2 DEF Retry, TypeOK
  <2>3. row'[k].status = "queued" /\ pending'[k] = None BY <1>0, <1>2 DEF Retry, TypeOK, Queued
  <2> QED BY <2>1, <2>2, <2>3, EndMaps DEF Ends
<1>3. CASE EndWithoutRow(k)
  <2>1. ~Kept(k) /\ active' = active \ {k} /\ row' = row /\ gone' = gone
    BY <1>3 DEF EndWithoutRow, Ends
  <2>2. pending' = [pending EXCEPT ![k] = None] BY <1>3 DEF EndWithoutRow
  <2>3. row[k].status = "none" BY <2>1 DEF IInv, GoneLeaveNothing, NoRow
  <2>4. Busy' = Busy BY <2>1 DEF Busy, Kept
  <2>5. Wanted' = Wanted BY <1>0, <2>1, <2>2 DEF Wanted, Kept, TypeOK
  <2>6. Interrupted' = Interrupted BY <2>1, <2>3 DEF Interrupted
  <2> QED BY <2>4, <2>5, <2>6, StutterMaps
<1> QED BY <1>1, <1>2, <1>3 DEF Settle

LEMMA UnrecordedMaps ==
  ASSUME IInv, NEW k \in Keys, Unrecorded(k) PROVE Work!Interrupt(k)
<1>0. TypeOK BY DEF IInv
<1>1. Kept(k) /\ k \in active /\ active' = active \ {k} /\ row' = row /\ gone' = gone
  BY DEF Unrecorded, Ends
<1>2. \A j \in Keys : j # k => pending'[j] = pending[j] BY <1>0 DEF Unrecorded, TypeOK
<1>3. Busy' = Busy \ {k} /\ k \in Busy BY <1>1 DEF Busy, Kept
<1>4. Interrupted' = Interrupted \cup {k} BY <1>1, Mapped DEF Interrupted
<1>5. Wanted' = Wanted \/ Wanted' = Wanted \ {k}
  <2>1. pending' = pending \/ pending'[k] = None BY <1>0 DEF Unrecorded, TypeOK
  <2>2. row[k].status = "running" BY <1>1, Mapped DEF IInv, RunsAlone
  <2> QED BY <1>1, <1>2, <2>1, <2>2 DEF Wanted, Kept
<1> QED BY <1>3, <1>4, <1>5 DEF Work!Interrupt, Busy

LEMMA SwitchMaps ==
  ASSUME IInv, NEW k \in Switchable, SwitchOn(k) \/ SwitchOff(k)
  PROVE  Work!Ask(k) \/ Work!Withdraw(k) \/ UNCHANGED Work!vars
<1>0. TypeOK /\ k \in Keys /\ k \in Declared /\ Kept(k)
  BY Assumptions DEF IInv, TypeOK, Kept
<1>1. CASE mode = "idle"
  <2>1. UNCHANGED <<row, pending, gone, active>> BY <1>1 DEF SwitchOn, SwitchOff
  <2> QED BY <2>1, StutterMaps DEF Wanted, Busy, Interrupted, Kept
<1>2. CASE SwitchOn(k) /\ mode # "idle"
  <2>1. Upsert(k, Empty) /\ UNCHANGED <<gone, active>> BY <1>2 DEF SwitchOn
  <2> QED BY <1>0, <2>1, WriteMaps, Assumptions
<1>3. CASE SwitchOff(k) /\ mode # "idle"
  <2>1. /\ pending' = [pending EXCEPT ![k] = None] /\ UNCHANGED <<gone, active>>
        /\ row' = IF row[k].status = "queued" THEN [row EXCEPT ![k] = NoRow] ELSE row
    BY <1>3 DEF SwitchOff
  <2>2. \A j \in Keys : j # k => row'[j] = row[j] /\ pending'[j] = pending[j]
    BY <1>0, <2>1 DEF TypeOK
  <2>3. row'[k].status # "queued" /\ pending'[k] = None /\ (row'[k].status = "running" <=> row[k].status = "running")
    BY <1>0, <2>1 DEF TypeOK, NoRow
  <2>4. Busy' = Busy BY <2>1 DEF Busy, Kept
  <2>5. Interrupted' = Interrupted BY <2>1, <2>2, <2>3 DEF Interrupted
  <2>6. Wanted' = Wanted \ {k} BY <2>1, <2>2, <2>3 DEF Wanted, Kept
  <2> QED BY <2>4, <2>5, <2>6 DEF Work!Withdraw, Busy
<1> QED BY <1>1, <1>2, <1>3

LEMMA PurgeMaps ==
  ASSUME IInv, NEW o \in Owners \ {Instance}, PurgeOwner(o)
  PROVE  \E G \in Accounts : Work!Drop(G)
<1> DEFINE G == {k \in Keys : OwnerOf[k] = o}
<1>1. gone' = gone \cup {o} /\ UNCHANGED <<active, pending>> BY DEF PurgeOwner, memory
<1>2. \A k \in Keys : row'[k] = IF k \in G THEN NoRow ELSE row[k] BY DEF PurgeOwner
<1>3. \A k \in Keys : Kept(k)' <=> Kept(k) /\ k \notin G BY <1>1 DEF Kept
<1>4. G \in Accounts BY DEF Accounts
<1> HIDE DEF G
<1>5. Wanted' = Wanted \ G BY <1>1, <1>2, <1>3 DEF Wanted, NoRow
<1>6. Busy' = Busy \ G BY <1>1, <1>3 DEF Busy, IInv, TypeOK
<1>7. Interrupted' = Interrupted \ G BY <1>1, <1>2 DEF Interrupted, NoRow
<1> QED BY <1>4, <1>5, <1>6, <1>7 DEF Work!Drop, Busy

LEMMA ExitMaps == IInv /\ Exit => Work!Crash
<1> SUFFICES ASSUME IInv, Exit PROVE Work!Crash OBVIOUS
<1>1. active' = {} /\ row' = row /\ gone' = gone /\ \A k \in Keys : pending'[k] = None
  BY DEF Exit, durable
<1>2. Busy' = {} BY <1>1 DEF Busy
<1>3. Interrupted' = Interrupted \cup Busy BY <1>1, Mapped DEF Interrupted, Busy, IInv, TypeOK
<1>4. Wanted' = Wanted \ (Busy \cup Interrupted) BY <1>1, Mapped DEF Wanted, Interrupted, Busy
<1> QED BY <1>2, <1>3, <1>4 DEF Work!Crash, Busy

LEMMA BootMaps ==
  ASSUME TurnsInv, NEW background \in BOOLEAN, Boot(background) PROVE Work!Restart
<1>0. IInv /\ TypeOK /\ OthersStayOn BY DEF TurnsInv, IInv
<1>1. /\ active = {} /\ active' = active /\ pending' = pending /\ gone' = gone
      /\ \A k \in Keys : pending[k] = None
      /\ \A k \in Keys : row'[k] = IF background THEN Scheduled(k) ELSE Requeued(k)
  BY <1>0 DEF Boot, IInv, DownHasNoMemory
<1>2. \A k \in Keys : row[k].status \in {"none", "queued", "running"} BY <1>0 DEF TypeOK, RowType
<1>3. \A k \in Keys : Requeued(k).status \in {"none", "queued"}
  BY <1>2 DEF Requeued, NoRow, Queued
<1>4. \A k \in Keys : row'[k].status \in {"none", "queued"}
  <2>1. \A k \in Keys : Scheduled(k).status \in {"none", "queued"}
    BY <1>3 DEF Scheduled, NoRow, Queued
  <2> QED BY <1>1, <1>3, <2>1
<1>5. Busy = {} /\ Busy' = Busy BY <1>1 DEF Busy
<1>6. Interrupted' = {} BY <1>4 DEF Interrupted
<1>7. ASSUME NEW k \in Wanted \ (Interrupted \cup Switchable) PROVE k \in Wanted'
  <2>1. k \in Keys /\ row[k].status = "queued" BY <1>1 DEF Wanted
  <2>2. Requeued(k).status = "queued" BY <2>1 DEF Requeued, Spent
  <2>3. ~(k \in Recurring /\ ~on[k]) BY <1>0, <1>7, <2>1 DEF OthersStayOn
  <2>4. Scheduled(k).status = "queued" BY <2>2, <2>3 DEF Scheduled, Queued
  <2> QED BY <1>1, <2>1, <2>2, <2>4 DEF Wanted
<1>8. ASSUME NEW k \in Wanted' PROVE k \in Wanted \cup Interrupted \cup Declared
  <2>1. k \in Keys /\ row'[k].status = "queued" BY <1>1, <1>8 DEF Wanted
  <2>2. k \in Declared \/ row'[k] = Requeued(k) BY <1>1, <2>1 DEF Scheduled
  <2>3. Requeued(k).status = "queued" => row[k].status \in {"queued", "running"}
    BY <1>2, <2>1 DEF Requeued, NoRow
  <2> QED BY <1>1, <2>1, <2>2, <2>3 DEF Wanted, Interrupted
<1> QED BY <1>5, <1>6, <1>7, <1>8 DEF Work!Restart, Busy

LEMMA StepMaps == TurnsInv /\ [Next]_vars => [Work!Next]_(Work!vars)
<1> SUFFICES ASSUME TurnsInv, IInv, [Next]_vars PROVE Work!Next \/ UNCHANGED Work!vars BY DEF TurnsInv
<1>1. ASSUME NEW k \in Keyed, NEW p \in Payloads, Enqueue(k, p) PROVE Work!Next
  <2>1. Work!Ask(k) BY <1>1, WriteMaps DEF Enqueue
  <2> QED BY <2>1, Assumptions DEF Work!Next
<1>2. ASSUME NEW k \in Switchable, SwitchOn(k) \/ SwitchOff(k) PROVE Work!Next \/ UNCHANGED Work!vars
  BY <1>2, SwitchMaps, Assumptions DEF Work!Next
<1>3. ASSUME NEW k \in Keys, FallDue(k) PROVE UNCHANGED Work!vars
  BY <1>3, StutterMaps DEF FallDue, memory, Wanted, Busy, Interrupted, Kept
<1>4. CASE PollJobs BY <1>4, PollMaps DEF Work!Next
<1>5. ASSUME NEW k \in Keys, Settle(k) PROVE Work!Next \/ UNCHANGED Work!vars
  BY <1>5, SettleMaps DEF Work!Next
<1>6. ASSUME NEW k \in Keys, Unrecorded(k) PROVE Work!Next BY <1>6, UnrecordedMaps DEF Work!Next
<1>7. ASSUME NEW o \in Owners \ {Instance}, PurgeOwner(o) PROVE Work!Next BY <1>7, PurgeMaps DEF Work!Next
<1>8. CASE Stop \/ UNCHANGED vars
  BY <1>8, StutterMaps DEF Stop, vars, durable, memory, Wanted, Busy, Interrupted, Kept
<1>9. CASE Exit BY <1>9, ExitMaps DEF Work!Next
<1>10. ASSUME NEW background \in BOOLEAN, Boot(background) PROVE Work!Next BY <1>10, BootMaps DEF Work!Next
<1> QED BY <1>1, <1>2, <1>3, <1>4, <1>5, <1>6, <1>7, <1>8, <1>9, <1>10 DEF Next

\* Every behaviour of the runner is one of KeyedWork.
THEOREM RunnerIsKeyedWork == Spec => ImplementsKeyedWork
<1>1. Init => Work!Init
  BY DEF Init, Work!Init, Wanted, Interrupted, NoRow
<1> QED BY <1>1, StepMaps, AlwaysTurnsInv, PTL DEF Spec, ImplementsKeyedWork, Work!Spec

-----------------------------------------------------------------------------
(***************************************************************************)
(* Turns.                                                                  *)
(***************************************************************************)
\* Only a poll claims a row.
LEMMA PollsClaim ==
  ASSUME IInv, [Next]_vars, NEW k \in Keys, Claimed(k) PROVE PollJobs
<1> SUFFICES ASSUME ~PollJobs PROVE row'[k].status # "running" BY DEF Claimed
<1>0. TypeOK /\ row[k].status = "queued" BY DEF IInv, Claimed
<1>1. ASSUME NEW j \in Keys, NEW p \in Payloads, Upsert(j, p) PROVE row'[k].status # "running"
  BY <1>0, <1>1 DEF Upsert, Queued, TypeOK
<1>2. ASSUME NEW j \in Keyed, NEW p \in Payloads, Enqueue(j, p) PROVE row'[k].status # "running"
  BY <1>1, <1>2, Assumptions DEF Enqueue
<1>3. ASSUME NEW j \in Switchable, SwitchOn(j) PROVE row'[k].status # "running"
  BY <1>0, <1>1, <1>3, Assumptions DEF SwitchOn
<1>4. ASSUME NEW j \in Switchable, SwitchOff(j) PROVE row'[k].status # "running"
  BY <1>0, <1>4 DEF SwitchOff, NoRow, TypeOK
<1>5. ASSUME NEW j \in Keys, Settle(j) PROVE row'[k].status # "running"
  BY <1>0, <1>5 DEF Settle, Succeed, Retry, FailForGood, EndWithoutRow, ScheduleNext, NextRun, NoRow, Queued, TypeOK
<1>6. ASSUME NEW o \in Owners \ {Instance}, PurgeOwner(o) PROVE row'[k].status # "running"
  BY <1>0, <1>6 DEF PurgeOwner, NoRow
<1>7. ASSUME NEW background \in BOOLEAN, Boot(background) PROVE row'[k].status # "running"
  <2>1. Requeued(k) = row[k] BY <1>0 DEF Requeued, Spent
  <2>2. Scheduled(k).status # "running" BY <1>0, <2>1 DEF Scheduled, NoRow, Queued
  <2> QED BY <1>0, <1>7, <2>1, <2>2 DEF Boot
<1>8. CASE row' = row BY <1>0, <1>8
<1> QED BY <1>2, <1>3, <1>4, <1>5, <1>6, <1>7, <1>8 DEF Next, FallDue, Unrecorded, Stop, Exit, vars, durable

\* The first due row of an owner has the first place, and is the only one that has.
LEMMA FirstPlace ==
  ASSUME TypeOK, RanksAreRight, NEW k \in Due, NEW j \in Due, OwnerOf[j] = OwnerOf[k], j # k,
         \A h \in Due : OwnerOf[h] = OwnerOf[k] => due[k] <= due[h]
  PROVE  Place(k) < Place(j)
<1>1. due[k] < due[j] BY DueFacts
<1> QED BY <1>1, PlacesInOrder

\* All owners' first rows have the same place.
LEMMA FirstPlacesAlike ==
  ASSUME TypeOK, RanksAreRight, NEW k \in Due,
         \A h \in Due : OwnerOf[h] = OwnerOf[k] => due[k] <= due[h]
  PROVE  Place(k) = 1
<1> DEFINE P == {h \in Due : OwnerOf[h] = OwnerOf[k] /\ due[h] <= due[k]}
<1>1. P = {k} BY DueFacts
<1> HIDE DEF P
<1>2. Cardinality(P) = 1 BY <1>1, FS_Singleton
<1> QED BY <1>2 DEF Place, P

LEMMA OneTurn ==
  ASSUME TurnsInv, PollJobs, NEW a \in DueOwners, NEW b \in Owners,
         Served(a) = {}, Served(b) # {}
  PROVE  Cardinality(Served(b)) = 1 /\ (lastTurn[b] < lastTurn[a] \/ lastTurn[b] = 0)
<1>0. TypeOK /\ RanksAreRight /\ IInv BY DEF TurnsInv, IInv
<1> DEFINE S == TakeTurns(Free)
<1>1. /\ \A k \in S : row'[k] = Running(row[k].tries + 1, row[k].payload)
      /\ \A k \in Keys \ S : row'[k] = row[k]
      /\ S \subseteq Due /\ S \subseteq Keys /\ \A k \in Due : k \in S <=> Turn(k) < Free
  BY DEF PollJobs, TakeTurns, Due
<1>2. \A k \in Due : k \in Keys /\ row[k].status = "queued" BY DEF Due
<1> HIDE DEF S
<1>3. ASSUME NEW k \in Keys PROVE Claimed(k) <=> k \in S
  <2>1. CASE k \in S
    <3>1. row'[k].status = "running"
      <4>1. row'[k] = Running(row[k].tries + 1, row[k].payload) BY <1>1, <2>1
      <4> QED BY <4>1 DEF Running
    <3> QED BY <1>1, <1>2, <2>1, <3>1 DEF Claimed
  <2>2. CASE k \notin S BY <1>1, <2>2 DEF Claimed
  <2> QED BY <2>1, <2>2
<1>4. \A o : Served(o) = {k \in S : OwnerOf[k] = o} BY <1>1, <1>3 DEF Served
<1>5. b \in DueOwners /\ a # b
  <2>1. PICK k \in S : OwnerOf[k] = b BY <1>4
  <2> QED BY <1>1, <2>1 DEF DueOwners
<1>6. PICK ka \in Due : OwnerOf[ka] = a /\ \A h \in Due : OwnerOf[h] = a => due[ka] <= due[h]
  BY <1>0, FirstDue
<1>7. PICK kb \in Due : OwnerOf[kb] = b /\ \A h \in Due : OwnerOf[h] = b => due[kb] <= due[h]
  BY <1>0, <1>5, FirstDue
<1>8. Place(ka) = 1 /\ Place(kb) = 1 BY <1>0, <1>6, <1>7, FirstPlacesAlike
<1>9. ka \notin S BY <1>4, <1>6
<1>10. Concurrency \in Nat /\ Cardinality(active) \in Nat /\ Free \in Int
  BY <1>0, KeysAssumption, ConcurrencyAssumption, FS_Subset, FS_CardinalityType DEF Free, TypeOK
<1>11. \A k \in S : ~PickedBefore(ka, k)
  BY <1>0, <1>1, <1>9, <1>10, TurnsInOrder, DueFacts
<1>12. \A k \in S : OwnerOf[k] = b => k = kb
  <2> SUFFICES ASSUME NEW k \in S, OwnerOf[k] = b, k # kb PROVE FALSE OBVIOUS
  <2>1. k \in Due /\ Place(kb) < Place(k) BY <1>0, <1>1, <1>7, FirstPlace
  <2>2. PickedBefore(ka, k) BY <1>8, <2>1 DEF PickedBefore
  <2> QED BY <1>11, <2>2
<1>13. Served(b) = {kb} BY <1>4, <1>12
<1>14. kb \in S BY <1>4, <1>13
<1>15. OwnerBefore(b, a)
  <2>1. PickedBefore(kb, ka) BY <1>0, <1>5, <1>6, <1>7, <1>11, <1>14, PicksInOrder
  <2> QED BY <1>6, <1>7, <1>8, <2>1 DEF PickedBefore
<1>16. lastTurn[b] < lastTurn[a] \/ lastTurn[b] = lastTurn[a] BY <1>15 DEF OwnerBefore
<1>17. a \in Owners /\ lastTurn[a] \in Nat /\ lastTurn[b] \in Nat BY <1>0, DueFacts DEF DueOwners, TypeOK
<1>18. lastTurn[a] = lastTurn[b] => lastTurn[b] = 0 BY <1>0, <1>5, <1>17 DEF RanksAreRight, IsRank
<1> QED BY <1>13, <1>16, <1>18, FS_Singleton

\* A poll that leaves an owner with a due job unserved gives nobody a second job, and
\* serves only owners who were served longer ago.
THEOREM OwnersTakeTurns == Spec => TurnsAreFair
<1>1. TurnsInv /\ [Next]_vars => [OneTurnEach]_vars
  <2> SUFFICES ASSUME TurnsInv, [Next]_vars PROVE OneTurnEach OBVIOUS
  <2> SUFFICES ASSUME NEW a \in DueOwners, NEW b \in Owners, Served(a) = {}, Served(b) # {}
               PROVE  Cardinality(Served(b)) = 1 /\ (lastTurn[b] < lastTurn[a] \/ lastTurn[b] = 0)
    BY DEF OneTurnEach
  <2>1. PICK k \in Keys : Claimed(k) BY DEF Served
  <2>2. PollJobs BY <2>1, PollsClaim DEF TurnsInv
  <2> QED BY <2>2, OneTurn
<1> QED BY <1>1, AlwaysTurnsInv, PTL DEF Spec, TurnsAreFair
=============================================================================
