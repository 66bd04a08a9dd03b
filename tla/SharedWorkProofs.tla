-------------------------- MODULE SharedWorkProofs --------------------------
(***************************************************************************)
(* Theorems about work that several callers wait for: SharedWork, for any  *)
(* callers and works, and SearchAnswers, for any requests, questions and   *)
(* number of edits.                                                        *)
(***************************************************************************)
EXTENDS SharedWork, SearchAnswers, FiniteSetTheorems, TLAPS

Inductive == TypeOK /\ Bookkeeping

LEMMA HoldersAreFinite == \A w : IsFiniteSet(Holders(w)) /\ Cardinality(Holders(w)) \in Nat
<1> SUFFICES ASSUME NEW w PROVE IsFiniteSet(Holders(w)) /\ Cardinality(Holders(w)) \in Nat
  OBVIOUS
<1>1. Holders(w) \subseteq Callers BY DEF Holders
<1> QED BY <1>1, FS_Subset, FS_CardinalityType, SharedAssumption

\* At the start nobody waits and nothing was created.
LEMMA InductiveInit == Init => Inductive
<1> SUFFICES ASSUME Init PROVE Inductive OBVIOUS
<1> USE DEF Init
<1>1. TypeOK BY DEF TypeOK, Out, Seen
<1>2. \A w \in Works : Holders(w) = {} BY SharedAssumption DEF Holders, Out
<1>3. Bookkeeping BY <1>2, FS_EmptySet DEF Bookkeeping, Underway, Out
<1> QED BY <1>1, <1>3 DEF Inductive

\* A caller joins a work that is not cancelled, or the only one that is not.
LEMMA RunKeeps == ASSUME Inductive, NEW c \in Callers, Run(c) PROVE Inductive'
<1> USE DEF Inductive
<1>1. PICK w \in Joined : /\ entry' = w
                          /\ op' = [op EXCEPT ![w] = IF @ = "unused" THEN "created" ELSE @]
                          /\ users' = [users EXCEPT ![w] = @ + 1]
                          /\ caller' = [caller EXCEPT ![c].work = w]
                          /\ cancelled' = cancelled
  BY DEF Run
<1>2. w \in Works /\ w # None /\ w \notin cancelled
  BY <1>1, SharedAssumption DEF Joined, TypeOK, Bookkeeping
<1>3. /\ caller[c] = Out
      /\ caller' \in [Callers -> [work : Works \cup {None}, sees : Seen]]
      /\ caller'[c] = [work |-> w, sees |-> "waits"]
      /\ \A d \in Callers : d # c => caller'[d] = caller[d]
  <2>1. caller[c] = Out BY DEF Run
  <2>2. caller' = [caller EXCEPT ![c] = [work |-> w, sees |-> "waits"]]
    <3>1. [Out EXCEPT !.work = w] = [work |-> w, sees |-> "waits"] BY DEF Out
    <3>2. caller' = [caller EXCEPT ![c] = [caller[c] EXCEPT !.work = w]] BY <1>1
    <3> QED BY <2>1, <3>1, <3>2
  <2> QED BY <1>2, <2>1, <2>2 DEF TypeOK, Seen
<1>4. TypeOK'
  <2>1. op' \in [Works -> {"unused", "created", "running", "done", "refused"}]
    BY <1>1, <1>2 DEF TypeOK
  <2>2. users' \in [Works -> Nat] BY <1>1, <1>2 DEF TypeOK
  <2> QED BY <1>1, <1>2, <1>3, <2>1, <2>2 DEF TypeOK
<1>5. c \notin Holders(w) BY <1>2, <1>3 DEF Holders, Out
<1>6. Holders(w)' = Holders(w) \cup {c}
  BY <1>3 DEF Holders
<1>7. \A v \in Works : v # w => Holders(v)' = Holders(v)
  BY <1>2, <1>3, SharedAssumption DEF Holders, Out
<1>8. Cardinality(Holders(w)') = Cardinality(Holders(w)) + 1
  BY <1>5, <1>6, HoldersAreFinite, FS_AddElement
<1>9. \A v \in Works : Underway(v) /\ v \notin cancelled => v = w
  <2>1. CASE entry # None /\ entry \notin cancelled
    BY <2>1 DEF Joined, Bookkeeping
  <2>2. CASE entry = None
    BY <2>2, SharedAssumption DEF Bookkeeping
  <2> QED BY <2>1, <2>2 DEF Bookkeeping
<1>10. Bookkeeping'
  <2>1. \A v \in Works : users'[v] = Cardinality(Holders(v)')
    BY <1>1, <1>2, <1>7, <1>8 DEF Bookkeeping, TypeOK
  <2>2. \A v \in cancelled : Holders(v)' = {}
    BY <1>2, <1>7 DEF Bookkeeping, TypeOK
  <2>3. op'[w] # "unused" /\ \A v \in Works : v # w => op'[v] = op[v]
    BY <1>1, <1>2 DEF TypeOK
  <2>4. op'[w] = "refused" => op[w] = "refused"
    BY <1>1, <1>2 DEF TypeOK
  <2>5. \A v \in Works : Underway(v)' /\ v \notin cancelled => v = w
    BY <1>9, <2>3 DEF Underway
  <2>6. \A d \in Callers : caller'[d].sees = caller[d].sees
    BY <1>3 DEF Out
  <2> QED BY <1>1, <1>2, <1>6, <1>7, <2>1, <2>2, <2>3, <2>4, <2>5, <2>6 DEF Bookkeeping
<1> QED BY <1>4, <1>10

\* The last caller of a work takes it out of the map with it.
LEMMA LeaveKeeps == ASSUME Inductive, NEW c \in Callers, Leave(c) PROVE Inductive'
<1> USE DEF Inductive
<1>w. PICK w \in Works : caller[c].work = w
  BY DEF Leave, TypeOK
<1>1. w \in Works /\ w # None /\ c \in Holders(w)
  BY <1>w, SharedAssumption DEF Holders
<1>2. /\ users' = [users EXCEPT ![w] = @ - 1]
      /\ caller' = [caller EXCEPT ![c] = Out]
      /\ op' = op
  BY <1>w DEF Leave
<1>a. /\ caller' \in [Callers -> [work : Works \cup {None}, sees : Seen]]
      /\ caller'[c] = Out
      /\ \A d \in Callers : d # c => caller'[d] = caller[d]
  BY <1>2 DEF TypeOK, Out, Seen
<1>b. Out.work = None /\ Out.sees = "waits" BY DEF Out
<1>3. Holders(w)' = Holders(w) \ {c}
  BY <1>1, <1>a, <1>b DEF Holders
<1>4. \A v \in Works : v # w => Holders(v)' = Holders(v)
  <2> SUFFICES ASSUME NEW v \in Works, v # w PROVE Holders(v)' = Holders(v) OBVIOUS
  <2>1. caller[c].work # v BY <1>w
  <2>2. caller'[c].work # v BY <1>a, <1>b, SharedAssumption
  <2>3. \A d \in Callers : caller'[d].work = v <=> caller[d].work = v
    BY <1>a, <2>1, <2>2
  <2> QED BY <2>3 DEF Holders
<1>5. Cardinality(Holders(w)') = Cardinality(Holders(w)) - 1
  BY <1>1, <1>3, HoldersAreFinite, FS_RemoveElement
<1>6. users[w] = Cardinality(Holders(w)) /\ users[w] \in Nat /\ users[w] # 0
  BY <1>1, HoldersAreFinite, FS_EmptySet DEF Bookkeeping, TypeOK
<1>7. users[w] = 1 <=> Holders(w)' = {}
  <2>1. IsFiniteSet(Holders(w)') BY <1>3, HoldersAreFinite, FS_RemoveElement
  <2> QED BY <1>5, <1>6, <2>1, FS_EmptySet
<1>8. \A v \in Works : users'[v] = Cardinality(Holders(v)')
  BY <1>1, <1>2, <1>4, <1>5, <1>6 DEF Bookkeeping, TypeOK
<1>9. \A d \in Callers : caller'[d].sees # "failed"
  BY <1>a, <1>b DEF Bookkeeping
<1>c. users' \in [Works -> Nat] BY <1>1, <1>2, <1>6 DEF TypeOK
<1>10. CASE users[w] = 1
  <2>1. cancelled' = cancelled \cup {w} /\ entry' = IF entry = w THEN None ELSE entry
    BY <1>10, <1>w DEF Leave
  <2>2. TypeOK' BY <1>1, <1>2, <1>a, <1>c, <2>1 DEF TypeOK
  <2>3. op[w] # "unused" BY <1>1 DEF Bookkeeping
  <2>4. Bookkeeping'
    BY <1>1, <1>2, <1>4, <1>7, <1>8, <1>9, <1>10, <2>1, <2>3, SharedAssumption
    DEF Bookkeeping, Underway, TypeOK
  <2> QED BY <2>2, <2>4
<1>11. CASE users[w] # 1
  <2>1. cancelled' = cancelled /\ entry' = entry BY <1>11, <1>w DEF Leave
  <2>2. TypeOK' BY <1>2, <1>a, <1>c, <2>1 DEF TypeOK
  <2>3. w \notin cancelled /\ op[w] # "unused" BY <1>1 DEF Bookkeeping
  <2>4. Bookkeeping'
    BY <1>1, <1>2, <1>4, <1>7, <1>8, <1>9, <1>11, <2>1, <2>3 DEF Bookkeeping, Underway, TypeOK
  <2> QED BY <2>2, <2>4
<1> QED BY <1>10, <1>11

\* What a caller sees changes nobody's hold.
LEMMA SeesKeeps ==
  ASSUME Inductive, NEW c \in Callers, GiveUp(c) \/ SeeAnswer(c) PROVE Inductive'
<1> USE DEF Inductive
<1>1. /\ UNCHANGED <<entry, op, cancelled, users>>
      /\ \E s \in Seen : caller' = [caller EXCEPT ![c].sees = s]
  BY DEF GiveUp, SeeAnswer, Seen
<1>2. \A v : Holders(v)' = Holders(v) BY <1>1 DEF Holders, TypeOK
<1>3. TypeOK' BY <1>1 DEF TypeOK
<1>4. caller'[c].sees # "failed"
  <2>1. CASE GiveUp(c) BY <2>1 DEF GiveUp, TypeOK
  <2>2. CASE SeeAnswer(c)
    <3>1. caller[c].work \in Works /\ c \in Holders(caller[c].work)
      BY <2>2 DEF SeeAnswer, Holders, TypeOK
    <3>2. op[caller[c].work] = "done" BY <2>2, <3>1 DEF SeeAnswer, Settled, Bookkeeping
    <3> QED BY <2>2, <3>2 DEF SeeAnswer, TypeOK
  <2> QED BY <2>1, <2>2
<1>5. \A d \in Callers : caller'[d].sees # "failed"
  BY <1>1, <1>4 DEF Bookkeeping, TypeOK
<1> QED BY <1>1, <1>2, <1>3, <1>5 DEF Bookkeeping, Underway

\* A work starts, settles, leaves the map or is forgotten: no caller moves.
LEMMA WorkKeeps ==
  ASSUME Inductive, NEW w \in Works, Start(w) \/ Settle(w) \/ Remove(w) \/ Forget(w)
  PROVE  Inductive'
<1> USE DEF Inductive
<1>1. caller' = caller /\ users' = users BY DEF Start, Settle, Remove, Forget
<1>2. \A v : Holders(v)' = Holders(v) BY <1>1 DEF Holders
<1>3. CASE Start(w) \/ Settle(w)
  BY <1>1, <1>2, <1>3 DEF Start, Settle, TypeOK, Bookkeeping, Underway
<1>4. CASE Remove(w)
  BY <1>1, <1>2, <1>4, SharedAssumption DEF Remove, Settled, TypeOK, Bookkeeping, Underway
<1>5. CASE Forget(w)
  BY <1>1, <1>2, <1>5 DEF Forget, Settled, TypeOK, Bookkeeping, Underway
<1> QED BY <1>3, <1>4, <1>5

\* The books of every work are right after every step.
THEOREM BooksAreRight == Spec => [](TypeOK /\ Bookkeeping)
<1>1. Init => Inductive BY InductiveInit
<1>2. Inductive /\ [Next]_vars => Inductive'
  <2> SUFFICES ASSUME Inductive, [Next]_vars PROVE Inductive' OBVIOUS
  <2>1. ASSUME NEW c \in Callers, Run(c) PROVE Inductive' BY <2>1, RunKeeps
  <2>2. ASSUME NEW c \in Callers, Leave(c) PROVE Inductive' BY <2>2, LeaveKeeps
  <2>3. ASSUME NEW c \in Callers, GiveUp(c) \/ SeeAnswer(c) PROVE Inductive'
    BY <2>3, SeesKeeps
  <2>4. ASSUME NEW w \in Works, Start(w) \/ Settle(w) \/ Remove(w) \/ Forget(w)
        PROVE  Inductive'
    BY <2>4, WorkKeeps
  <2>5. CASE UNCHANGED vars
    BY <2>5 DEF vars, Inductive, TypeOK, Bookkeeping, Holders, Underway
  <2> QED BY <2>1, <2>2, <2>3, <2>4, <2>5 DEF Next
<1>3. Inductive <=> TypeOK /\ Bookkeeping BY DEF Inductive
<1> QED BY <1>1, <1>2, <1>3, PTL DEF Spec

\* "One caller cannot cancel work another caller still needs", for any callers and
\* works.
THEOREM WantedWorkGoesOn == Spec => []WantedIsNotCancelled
<1>1. TypeOK /\ Bookkeeping => WantedIsNotCancelled
  BY DEF Bookkeeping, TypeOK, WantedIsNotCancelled, Holders
<1> QED BY <1>1, BooksAreRight, PTL

\* Identical work runs once.
THEOREM IdenticalWorkIsShared == Spec => []WorkIsShared
<1>1. Bookkeeping => WorkIsShared BY DEF Bookkeeping, WorkIsShared
<1> QED BY <1>1, BooksAreRight, PTL

\* Work nobody waits for is cancelled.
THEOREM UnwantedWorkStops == Spec => []UnwantedIsCancelled
<1>1. Bookkeeping => UnwantedIsCancelled BY DEF Bookkeeping, UnwantedIsCancelled
<1> QED BY <1>1, BooksAreRight, PTL

\* What the runs check of shared works holds for any callers and any works.
THEOREM SharingIsSound == Spec => []SharedIsSound
<1>1. SharedIsSound <=> WantedIsNotCancelled /\ WorkIsShared /\ UnwantedIsCancelled
  BY DEF SharedIsSound
<1> QED BY <1>1, WantedWorkGoesOn, IdenticalWorkIsShared, UnwantedWorkStops, PTL

-----------------------------------------------------------------------------
(***************************************************************************)
(* Questions answered with models, for any requests, questions and edits.  *)
(***************************************************************************)
Words == Questions \cup {AnyQuestion}
Counts == [contacts : Nat, notes : Nat, facets : Nat]
Keys == Words \X Nat \X Nat
AskRecord == [words : Words, at : Counts, phase : {"idle", "embedding", "waiting", "over"},
              on : Asks \cup {NoFlight}, got : Staleness]
FlightRecord == [phase : {"none", "planning", "ranking", "local", "aborted"},
                 key : Keys, read : Counts, semantic : BOOLEAN]
AnswerRecord == [key : Keys, made : Counts]

AnswersTypes ==
  /\ now \in Counts /\ asked \in [Asks -> AskRecord] /\ flight \in [Asks -> FlightRecord]
  /\ inFlight \subseteq Asks /\ recent \subseteq AnswerRecord /\ alike \subseteq AnswerRecord

\* Revisions that were read are no later than the present ones.
Earlier(u, v) == u.contacts <= v.contacts /\ u.notes <= v.notes /\ u.facets <= v.facets

\* What is kept is no older than its key says, and of the contacts of its key.
KeptRightly(e) == e.made.contacts = e.key[2] /\ e.key[3] <= e.made.notes

AnswersAreRight ==
  /\ \A a \in Asks : Earlier(asked[a].at, now)
  /\ \A e \in recent \cup alike : KeptRightly(e)

\* A flight read the account after its key was made.
FlightsReadLater ==
  \A f \in Asks : flight[f].phase = "ranking" =>
    /\ flight[f].key[2] <= flight[f].read.contacts /\ flight[f].key[3] <= flight[f].read.notes
    /\ Earlier(flight[f].read, now)

\* A request has one flight at most, which it starts as it begins to wait, and that can be
\* joined until it lands or is aborted.
FlightsAreOpen ==
  \A f \in Asks :
    /\ flight[f].phase # "none" => asked[f].phase \in {"waiting", "over"}
    /\ f \in inFlight <=> flight[f].phase \in {"planning", "ranking", "local"}

QuestionsAreSound ==
  AnswersTypes /\ AnswersAreRight /\ FlightsReadLater /\ FlightsAreOpen /\ AsksAreSound

LEMMA NothingAsked ==
  /\ NoEdits \in Counts /\ AnyQuestion \in Words /\ KeyAt(AnyQuestion, NoEdits) \in Keys
  /\ Unasked \in AskRecord /\ NoWork \in FlightRecord
<1>1. NoEdits \in Counts BY DEF NoEdits, Counts
<1>2. AnyQuestion \in Words BY DEF Words
<1>3. KeyAt(AnyQuestion, NoEdits) \in Keys BY <1>2 DEF KeyAt, Keys, NoEdits
<1>4. {} \in Staleness BY DEF Staleness
<1> HIDE DEF NoEdits, AnyQuestion, Staleness, Words, Counts, Keys
<1>5. Unasked \in AskRecord BY <1>1, <1>2, <1>4 DEF Unasked, AskRecord
<1>6. NoWork \in FlightRecord BY <1>1, <1>3 DEF NoWork, FlightRecord
<1> QED BY <1>1, <1>2, <1>3, <1>5, <1>6

LEMMA KeysAreKeys ==
  ASSUME NEW q \in Words, NEW v \in Counts
  PROVE  KeyAt(q, v) \in Keys /\ KeyAt(q, v)[2] = v.contacts /\ KeyAt(q, v)[3] = v.notes
BY DEF KeyAt, Keys, Counts

LEMMA KeyOfAsked ==
  ASSUME AnswersTypes, NEW a \in Asks
  PROVE  /\ KeyOf(a) \in Keys /\ KeyOf(a)[2] = asked[a].at.contacts /\ KeyOf(a)[3] = asked[a].at.notes
<1>1. asked[a].words \in Words /\ asked[a].at \in Counts BY DEF AnswersTypes, AskRecord
<1> QED BY <1>1, KeysAreKeys DEF KeyOf

\* An answer that read the account after its question is stale of facets at most.
LEMMA GotIsFresh ==
  ASSUME NEW at \in Counts, NEW made \in Counts, NEW by, now \in Counts,
         at.contacts <= made.contacts, at.notes <= made.notes,
         by \in {"model", "alike"} => now.contacts <= made.contacts
  PROVE  Got(at, made, by) \subseteq {"facets"} /\ Got(at, made, by) \in Staleness
<1>1. /\ at.contacts \in Nat /\ at.notes \in Nat /\ made.contacts \in Nat /\ made.notes \in Nat
      /\ now.contacts \in Nat
  BY DEF Counts
<1>2. ~(made.contacts < at.contacts) /\ ~(made.notes < at.notes) BY <1>1
<1>3. ~(by \in {"model", "alike"} /\ made.contacts < now.contacts) BY <1>1
<1> QED BY <1>2, <1>3 DEF Got, Staleness

LEMMA UnaskedOver ==
  ASSUME NEW got \in Staleness
  PROVE  /\ [Unasked EXCEPT !.phase = "over", !.got = got] \in AskRecord
         /\ [Unasked EXCEPT !.phase = "over", !.got = got].at = NoEdits
         /\ [Unasked EXCEPT !.phase = "over", !.got = got].phase = "over"
         /\ [Unasked EXCEPT !.phase = "over", !.got = got].got = got
<1>1. Unasked \in AskRecord /\ Unasked.at = NoEdits BY NothingAsked DEF Unasked
<1> HIDE DEF Unasked
<1> QED BY <1>1 DEF AskRecord

-----------------------------------------------------------------------------
(***************************************************************************)
(* What each step keeps.                                                   *)
(***************************************************************************)
LEMMA QuestionsSoundInit == AnswersInit => QuestionsAreSound
<1> SUFFICES ASSUME AnswersInit PROVE QuestionsAreSound OBVIOUS
<1> USE DEF AnswersInit
<1>1. AnswersTypes BY NothingAsked DEF AnswersTypes
<1>2. \A a \in Asks : asked[a] = Unasked /\ flight[a] = NoWork /\ Unasked.phase = "idle" /\ NoWork.phase = "none"
                      /\ Unasked.at = NoEdits /\ Unasked.got = {}
  BY DEF Unasked, NoWork
<1>3. Earlier(NoEdits, NoEdits) BY NothingAsked DEF Earlier, Counts
<1>4. AnswersAreRight BY <1>2, <1>3 DEF AnswersAreRight
<1>5. FlightsReadLater /\ FlightsAreOpen BY <1>2 DEF FlightsReadLater, FlightsAreOpen
<1>6. AsksAreSound BY <1>2 DEF AsksAreSound, AnswersAreFresh, FlightsAreShared
<1> QED BY <1>1, <1>4, <1>5, <1>6 DEF QuestionsAreSound

\* The request a of r is where r says, and no other one moves.
Moves(a, r) == r \in AskRecord /\ asked' = [asked EXCEPT ![a] = r]

\* A request that waits for nobody moves to where it waits for nobody either.
LEMMA MovesAside ==
  ASSUME QuestionsAreSound, NEW a \in Asks, NEW r, Moves(a, r),
         asked[a].phase # "waiting", r.phase # "waiting", r.got \subseteq {"facets"}, Earlier(r.at, now),
         asked[a].phase = "over" => r.phase = "over",
         recent' \subseteq AnswerRecord, alike' \subseteq AnswerRecord,
         \A e \in recent' \cup alike' : KeptRightly(e), UNCHANGED <<now, flight, inFlight>>
  PROVE  QuestionsAreSound'
<1> USE DEF QuestionsAreSound
<1>1. asked' \in [Asks -> AskRecord] /\ asked'[a] = r /\ \A b \in Asks \ {a} : asked'[b] = asked[b]
  BY DEF Moves, AnswersTypes
<1>2. AnswersTypes' BY <1>1 DEF AnswersTypes
<1>3. AnswersAreRight' BY <1>1 DEF AnswersAreRight
<1>4. FlightsReadLater' BY DEF FlightsReadLater
<1>5. FlightsAreOpen' BY <1>1 DEF FlightsAreOpen
<1>6. AnswersAreFresh' BY <1>1 DEF AsksAreSound, AnswersAreFresh
<1>7. \A b \in Asks : asked[b].phase = "waiting" <=> asked'[b].phase = "waiting" BY <1>1
<1>8. \A b \in Asks : asked[b].phase = "waiting" => asked'[b] = asked[b] BY <1>1
<1>9. FlightsAreShared'
  <2>1. \A f : CallersOf(f)' = CallersOf(f) BY <1>7, <1>8 DEF CallersOf
  <2>2. \A b \in Asks : asked[b].phase = "waiting" => KeyOf(b)' = KeyOf(b) BY <1>8 DEF KeyOf
  <2> QED BY <1>7, <1>8, <2>1, <2>2 DEF AsksAreSound, FlightsAreShared
<1> QED BY <1>2, <1>3, <1>4, <1>5, <1>6, <1>9 DEF AsksAreSound

LEMMA AskQuestionKeeps ==
  ASSUME QuestionsAreSound, NEW a \in Asks, NEW q \in Wording[a], AskQuestion(a, q)
  PROVE  QuestionsAreSound'
<1> DEFINE hits == {e \in recent : e.key = KeyAt(q, now)}
<1>1. /\ asked[a] \in AskRecord /\ now \in Counts /\ q \in Words
      /\ recent \subseteq AnswerRecord /\ alike \subseteq AnswerRecord
  BY AnswersAssumption DEF QuestionsAreSound, AnswersTypes, Words
<1>2. asked[a].phase = "idle" /\ UNCHANGED <<now, flight, inFlight, recent, alike>> BY DEF AskQuestion
<1>3. Earlier(now, now) /\ Earlier(asked[a].at, now)
  BY <1>1 DEF Earlier, Counts, QuestionsAreSound, AnswersAreRight
<1>4. \A e \in recent \cup alike : KeptRightly(e) BY DEF QuestionsAreSound, AnswersAreRight
<1>5. asked[a].got \subseteq {"facets"} BY DEF QuestionsAreSound, AsksAreSound, AnswersAreFresh
<1>6. CASE hits = {}
  <2> DEFINE r == [asked[a] EXCEPT !.words = q, !.at = now, !.phase = "embedding"]
  <2>1. asked' = [asked EXCEPT ![a] = r] BY <1>6 DEF AskQuestion
  <2>2. r \in AskRecord /\ r.phase = "embedding" /\ r.at = now /\ r.got = asked[a].got BY <1>1 DEF AskRecord
  <2> HIDE DEF r
  <2> QED BY <1>1, <1>2, <1>3, <1>4, <1>5, <2>1, <2>2, MovesAside DEF Moves
<1>7. CASE hits # {}
  <2>1. PICK e \in hits : asked' = [asked EXCEPT ![a].phase = "over", ![a].got = Got(now, e.made, "recent")]
    BY <1>7 DEF AskQuestion
  <2> DEFINE got == Got(now, e.made, "recent")
             r == [asked[a] EXCEPT !.phase = "over", !.got = got]
  <2>2. e.key[2] = now.contacts /\ e.key[3] = now.notes /\ e.made \in Counts /\ KeptRightly(e)
    BY <1>1, <1>4, KeysAreKeys DEF AnswerRecord
  <2>3. now.contacts <= e.made.contacts /\ now.notes <= e.made.notes
    BY <1>1, <2>2 DEF KeptRightly, Counts
  <2>4. got \subseteq {"facets"} /\ got \in Staleness BY <1>1, <2>2, <2>3, GotIsFresh
  <2> HIDE DEF got
  <2>5. asked' = [asked EXCEPT ![a] = r] BY <1>1, <2>1 DEF got
  <2>6. r \in AskRecord /\ r.phase = "over" /\ r.at = asked[a].at /\ r.got = got BY <1>1, <2>4 DEF AskRecord
  <2> HIDE DEF r
  <2> QED BY <1>1, <1>2, <1>3, <1>4, <2>4, <2>5, <2>6, MovesAside DEF Moves
<1> QED BY <1>6, <1>7

LEMMA KeptKeeps ==
  ASSUME NEW cache \in SUBSET AnswerRecord, NEW key \in Keys, NEW made \in Counts,
         made.contacts = key[2], key[3] <= made.notes, \A e \in cache : KeptRightly(e)
  PROVE  KeptAnswer(cache, key, made) \subseteq AnswerRecord /\ \A e \in KeptAnswer(cache, key, made) : KeptRightly(e)
BY DEF KeptAnswer, KeptRightly, AnswerRecord

\* An answer the request a is given while it waits for nobody.
LEMMA GivenKeeps ==
  ASSUME QuestionsAreSound, NEW a \in Asks, asked[a].phase = "embedding",
         NEW made \in Counts, NEW by, asked' = Given({a}, made, by),
         asked[a].at.contacts <= made.contacts, asked[a].at.notes <= made.notes,
         by \in {"model", "alike"} => now.contacts <= made.contacts,
         recent' \subseteq AnswerRecord, alike' \subseteq AnswerRecord,
         \A e \in recent' \cup alike' : KeptRightly(e), UNCHANGED <<now, flight, inFlight>>
  PROVE  QuestionsAreSound'
<1> DEFINE got == Got(asked[a].at, made, by)
           r == [Unasked EXCEPT !.phase = "over", !.got = got]
<1>1. asked[a].at \in Counts /\ now \in Counts /\ asked \in [Asks -> AskRecord]
  BY DEF QuestionsAreSound, AnswersTypes, AskRecord
<1>2. got \subseteq {"facets"} /\ got \in Staleness BY <1>1, GotIsFresh
<1>3. r \in AskRecord /\ r.phase = "over" /\ r.at = NoEdits /\ r.got = got BY <1>2, UnaskedOver
<1>4. asked' = [asked EXCEPT ![a] = r] BY <1>1 DEF Given
<1>5. Earlier(NoEdits, now) BY <1>1 DEF Earlier, NoEdits, Counts
<1> HIDE DEF got, r
<1> QED BY <1>2, <1>3, <1>4, <1>5, MovesAside DEF Moves

LEMMA MeansTheSameKeeps == ASSUME QuestionsAreSound, NEW a \in Asks, MeansTheSame(a) PROVE QuestionsAreSound'
<1>1. AnswersTypes BY DEF QuestionsAreSound
<1>2. PICK e \in Likes(a) : asked' = Given({a}, e.made, "alike") /\ recent' = KeptAnswer(recent, KeyOf(a), e.made)
  BY DEF MeansTheSame
<1>3. e \in alike /\ e.key[2] = KeyOf(a)[2] /\ e.key[3] = KeyOf(a)[3] BY DEF Likes
<1>4. KeptRightly(e) /\ e.made \in Counts /\ e.key \in Keys
  BY <1>1, <1>3 DEF QuestionsAreSound, AnswersAreRight, AnswersTypes, AnswerRecord
<1>5. KeyOf(a) \in Keys /\ KeyOf(a)[2] = asked[a].at.contacts /\ KeyOf(a)[3] = asked[a].at.notes
  BY <1>1, KeyOfAsked
<1>6. /\ e.made.contacts = KeyOf(a)[2] /\ KeyOf(a)[3] <= e.made.notes
  BY <1>3, <1>4, <1>5 DEF KeptRightly
<1>7. asked[a].phase = "embedding" /\ now.contacts = asked[a].at.contacts
      /\ UNCHANGED <<now, flight, inFlight, alike>>
  BY DEF MeansTheSame, MayMean
<1>8. now.contacts \in Nat /\ e.made.contacts \in Nat BY <1>1, <1>4 DEF AnswersTypes, Counts
<1>9. asked[a].at.contacts <= e.made.contacts /\ asked[a].at.notes <= e.made.notes /\ now.contacts <= e.made.contacts
  BY <1>5, <1>6, <1>7, <1>8
<1>10. recent \in SUBSET AnswerRecord /\ alike \subseteq AnswerRecord /\ \A x \in recent \cup alike : KeptRightly(x)
  BY <1>1 DEF QuestionsAreSound, AnswersTypes, AnswersAreRight
<1>11. recent' \subseteq AnswerRecord /\ \A x \in recent' : KeptRightly(x)
  <2>1. /\ KeptAnswer(recent, KeyOf(a), e.made) \subseteq AnswerRecord
        /\ \A x \in KeptAnswer(recent, KeyOf(a), e.made) : KeptRightly(x)
    BY <1>4, <1>5, <1>6, <1>10, KeptKeeps
  <2> QED BY <1>2, <2>1
<1>12. alike' \subseteq AnswerRecord /\ \A x \in recent' \cup alike' : KeptRightly(x) BY <1>7, <1>10, <1>11
<1> QED BY <1>2, <1>4, <1>7, <1>9, <1>11, <1>12, GivenKeeps

LEMMA OneMoves ==
  ASSUME asked \in [Asks -> AskRecord], NEW a \in Asks, NEW r \in AskRecord, asked' = [asked EXCEPT ![a] = r]
  PROVE  asked' \in [Asks -> AskRecord] /\ asked'[a] = r /\ \A b \in Asks \ {a} : asked'[b] = asked[b]
OBVIOUS

\* The request a begins to wait for f.
LEMMA JoinsKeeps ==
  ASSUME AnswersTypes, NEW a \in Asks, NEW f \in Asks, asked' = [asked EXCEPT ![a].phase = "waiting", ![a].on = f]
  PROVE  /\ asked' \in [Asks -> AskRecord] /\ \A b \in Asks \ {a} : asked'[b] = asked[b]
         /\ asked'[a].phase = "waiting" /\ asked'[a].on = f
         /\ asked'[a].words = asked[a].words /\ asked'[a].at = asked[a].at /\ asked'[a].got = asked[a].got
         /\ \A b \in Asks : asked'[b].words = asked[b].words /\ asked'[b].at = asked[b].at /\ asked'[b].got = asked[b].got
<1> DEFINE r == [asked[a] EXCEPT !.phase = "waiting", !.on = f]
<1>1. asked[a] \in AskRecord /\ asked \in [Asks -> AskRecord] BY DEF AnswersTypes
<1>2. /\ r \in AskRecord /\ r.phase = "waiting" /\ r.on = f
      /\ r.words = asked[a].words /\ r.at = asked[a].at /\ r.got = asked[a].got
  BY <1>1 DEF AskRecord
<1>3. asked' = [asked EXCEPT ![a] = r] BY <1>1
<1> HIDE DEF r
<1>4. asked' \in [Asks -> AskRecord] /\ asked'[a] = r /\ \A b \in Asks \ {a} : asked'[b] = asked[b]
  BY <1>1, <1>2, <1>3, OneMoves
<1>5. \A b \in Asks : asked'[b].words = asked[b].words /\ asked'[b].at = asked[b].at /\ asked'[b].got = asked[b].got
  BY <1>2, <1>4
<1> QED BY <1>2, <1>4, <1>5

LEMMA JoinFlightKeeps ==
  ASSUME QuestionsAreSound, NEW a \in Asks, NEW vector \in BOOLEAN, JoinFlight(a, vector)
  PROVE  QuestionsAreSound'
<1> USE DEF QuestionsAreSound
<1>1. PICK f \in inFlight : flight[f].key = KeyOf(a) /\ asked' = [asked EXCEPT ![a].phase = "waiting", ![a].on = f]
  BY DEF JoinFlight
<1>2. f \in Asks BY DEF AnswersTypes
<1>3. /\ asked' \in [Asks -> AskRecord] /\ \A b \in Asks \ {a} : asked'[b] = asked[b]
      /\ asked'[a].phase = "waiting" /\ asked'[a].on = f
      /\ \A b \in Asks : asked'[b].words = asked[b].words /\ asked'[b].at = asked[b].at /\ asked'[b].got = asked[b].got
  BY <1>1, <1>2, JoinsKeeps
<1>4. asked[a].phase = "embedding" /\ UNCHANGED <<now, flight, inFlight, recent, alike>> BY DEF JoinFlight
<1>5. AnswersTypes' BY <1>3, <1>4 DEF AnswersTypes
<1>6. AnswersAreRight' BY <1>3, <1>4 DEF AnswersAreRight
<1>7. FlightsReadLater' /\ FlightsAreOpen'
  BY <1>3, <1>4 DEF FlightsReadLater, FlightsAreOpen
<1>8. AnswersAreFresh' BY <1>3 DEF AsksAreSound, AnswersAreFresh
<1>9. FlightsAreShared'
  <2>1. \A g : CallersOf(g) \subseteq CallersOf(g)' BY <1>3, <1>4 DEF CallersOf
  <2>2. \A b \in Asks : KeyOf(b)' = KeyOf(b) BY <1>3 DEF KeyOf
  <2> QED BY <1>1, <1>3, <1>4, <2>1, <2>2 DEF AsksAreSound, FlightsAreShared
<1> QED BY <1>5, <1>6, <1>7, <1>8, <1>9 DEF AsksAreSound

LEMMA StartFlightKeeps ==
  ASSUME QuestionsAreSound, NEW a \in Asks, NEW vector \in BOOLEAN, StartFlight(a, vector)
  PROVE  QuestionsAreSound'
<1> USE DEF QuestionsAreSound
<1> DEFINE hits == {e \in recent : e.key = KeyOf(a)}
<1>1. /\ KeyOf(a) \in Keys /\ KeyOf(a)[2] = asked[a].at.contacts /\ KeyOf(a)[3] = asked[a].at.notes
  BY KeyOfAsked
<1>2. asked[a].phase = "embedding" /\ UNCHANGED <<now, recent, alike>> BY DEF StartFlight
<1>3. CASE hits # {}
  <2>1. PICK e \in hits : asked' = Given({a}, e.made, "recent") BY <1>3 DEF StartFlight
  <2>2. UNCHANGED <<flight, inFlight>> BY <1>3 DEF StartFlight
  <2>3. e.key = KeyOf(a) /\ KeptRightly(e) /\ e.made \in Counts BY DEF AnswersAreRight, AnswersTypes, AnswerRecord
  <2>4. asked[a].at.contacts <= e.made.contacts /\ asked[a].at.notes <= e.made.notes
    BY <1>1, <2>3 DEF KeptRightly, Counts
  <2>5. /\ recent' \subseteq AnswerRecord /\ alike' \subseteq AnswerRecord
        /\ \A x \in recent' \cup alike' : KeptRightly(x)
    BY <1>2 DEF AnswersTypes, AnswersAreRight
  <2> QED BY <1>2, <2>1, <2>2, <2>3, <2>4, <2>5, GivenKeeps
<1>4. CASE hits = {}
  <2> DEFINE w == [flight[a] EXCEPT !.phase = "planning", !.key = KeyOf(a), !.semantic = HasKey(a, vector)]
  <2>1. /\ asked' = [asked EXCEPT ![a].phase = "waiting", ![a].on = a]
        /\ flight' = [flight EXCEPT ![a] = w] /\ inFlight' = inFlight \cup {a}
        /\ ~\E f \in inFlight : flight[f].key = KeyOf(a)
    BY <1>4 DEF StartFlight
  <2>2. /\ asked' \in [Asks -> AskRecord] /\ \A b \in Asks \ {a} : asked'[b] = asked[b]
        /\ asked'[a].phase = "waiting" /\ asked'[a].on = a
        /\ \A b \in Asks : asked'[b].words = asked[b].words /\ asked'[b].at = asked[b].at /\ asked'[b].got = asked[b].got
    BY <2>1, JoinsKeeps
  <2>3. w \in FlightRecord /\ w.phase = "planning" /\ w.key = KeyOf(a)
    <3>1. flight[a] \in FlightRecord BY DEF AnswersTypes
    <3>2. HasKey(a, vector) \in BOOLEAN BY DEF HasKey, MayMean
    <3> HIDE DEF QuestionsAreSound
    <3> QED BY <1>1, <3>1, <3>2 DEF FlightRecord
  <2> HIDE DEF w
  <2>4. flight' \in [Asks -> FlightRecord] /\ flight'[a] = w /\ \A f \in Asks \ {a} : flight'[f] = flight[f]
    BY <2>1, <2>3 DEF AnswersTypes
  <2>5. flight[a].phase = "none" /\ a \notin inFlight BY <1>2 DEF FlightsAreOpen
  <2>6. AnswersTypes' BY <1>2, <2>1, <2>2, <2>4 DEF AnswersTypes
  <2>7. AnswersAreRight' BY <1>2, <2>2 DEF AnswersAreRight
  <2>8. FlightsReadLater' BY <1>2, <2>3, <2>4 DEF FlightsReadLater
  <2>9. FlightsAreOpen' BY <1>2, <2>1, <2>2, <2>3, <2>4 DEF FlightsAreOpen
  <2>10. AnswersAreFresh' BY <2>2 DEF AsksAreSound, AnswersAreFresh
  <2>11. FlightsAreShared'
    <3>1. \A g : CallersOf(g) \subseteq CallersOf(g)' BY <1>2, <2>2 DEF CallersOf
    <3>2. \A b \in Asks : KeyOf(b)' = KeyOf(b) BY <2>2 DEF KeyOf
    <3>3. a \in CallersOf(a)' BY <2>2 DEF CallersOf
    <3>4. ASSUME NEW b \in Asks, asked'[b].phase = "waiting"
          PROVE  asked'[b].on \in inFlight' /\ flight'[asked'[b].on].key = KeyOf(b)'
      <4>1. CASE b = a BY <2>1, <2>2, <2>3, <2>4, <3>2, <4>1
      <4>2. CASE b # a
        <5>1. asked[b].on \in inFlight /\ flight[asked[b].on].key = KeyOf(b) /\ asked'[b] = asked[b]
          BY <2>2, <3>4, <4>2 DEF AsksAreSound, FlightsAreShared
        <5>2. asked[b].on # a /\ asked[b].on \in Asks BY <2>5, <5>1 DEF AnswersTypes
        <5> QED BY <2>1, <2>4, <3>2, <5>1, <5>2
      <4> QED BY <4>1, <4>2
    <3>5. ASSUME NEW f \in inFlight'
          PROVE  CallersOf(f)' # {} /\ flight'[f].phase \in {"planning", "ranking", "local"}
      <4>1. CASE f = a BY <2>3, <2>4, <3>3, <4>1
      <4>2. CASE f # a
        BY <2>1, <2>4, <3>1, <4>2 DEF AsksAreSound, FlightsAreShared, AnswersTypes
      <4> QED BY <4>1, <4>2
    <3>6. \A f, g \in inFlight' : flight'[f].key = flight'[g].key => f = g
      BY <2>1, <2>3, <2>4 DEF AsksAreSound, FlightsAreShared, AnswersTypes
    <3> QED BY <3>4, <3>5, <3>6 DEF FlightsAreShared
  <2> QED BY <2>6, <2>7, <2>8, <2>9, <2>10, <2>11 DEF AsksAreSound
<1> QED BY <1>3, <1>4

-----------------------------------------------------------------------------
\* The flight f is what w says, and no other changes.
LEMMA FliesOn ==
  ASSUME QuestionsAreSound, NEW f \in Asks, NEW w \in FlightRecord, flight' = [flight EXCEPT ![f] = w],
         w.key = flight[f].key, w.phase \in {"planning", "ranking", "local"}, f \in inFlight,
         w.phase = "ranking" => /\ w.key[2] <= w.read.contacts /\ w.key[3] <= w.read.notes
                                /\ Earlier(w.read, now),
         UNCHANGED <<now, asked, inFlight, recent, alike>>
  PROVE  QuestionsAreSound'
<1> USE DEF QuestionsAreSound
<1>1. flight' \in [Asks -> FlightRecord] /\ flight'[f] = w /\ \A g \in Asks \ {f} : flight'[g] = flight[g]
  BY DEF AnswersTypes
<1>2. AnswersTypes' BY <1>1 DEF AnswersTypes
<1>3. AnswersAreRight' BY DEF AnswersAreRight
<1>4. FlightsReadLater' BY <1>1 DEF FlightsReadLater
<1>5. FlightsAreOpen'
  <2>1. flight[f].phase # "none" BY DEF FlightsAreOpen
  <2> QED BY <1>1, <2>1 DEF FlightsAreOpen
<1>6. AnswersAreFresh' BY DEF AsksAreSound, AnswersAreFresh
<1>7. FlightsAreShared'
  <2>1. \A g : CallersOf(g)' = CallersOf(g) BY DEF CallersOf
  <2>2. \A b \in Asks : KeyOf(b)' = KeyOf(b) BY DEF KeyOf
  <2>3. \A g \in Asks : flight'[g].key = flight[g].key BY <1>1
  <2>4. inFlight \subseteq Asks BY DEF AnswersTypes
  <2> QED BY <1>1, <2>1, <2>2, <2>3, <2>4 DEF AsksAreSound, FlightsAreShared
<1> QED BY <1>2, <1>3, <1>4, <1>5, <1>6, <1>7 DEF AsksAreSound

\* Keys are not later than the revisions.
LEMMA KeysAreEarlier ==
  ASSUME QuestionsAreSound, NEW f \in inFlight
  PROVE  /\ flight[f].key \in Keys /\ flight[f].key[2] <= now.contacts /\ flight[f].key[3] <= now.notes
         /\ \A a \in CallersOf(f) : flight[f].key = KeyOf(a)
<1>1. AnswersTypes /\ f \in Asks BY DEF QuestionsAreSound, AnswersTypes
<1>2. \A a \in CallersOf(f) : a \in Asks /\ flight[f].key = KeyOf(a)
  BY DEF QuestionsAreSound, AsksAreSound, FlightsAreShared, CallersOf
<1>3. PICK a \in CallersOf(f) : TRUE BY DEF QuestionsAreSound, AsksAreSound, FlightsAreShared
<1>4. a \in Asks /\ flight[f].key = KeyOf(a) BY <1>2
<1>5. KeyOf(a) \in Keys /\ KeyOf(a)[2] = asked[a].at.contacts /\ KeyOf(a)[3] = asked[a].at.notes
  BY <1>1, <1>4, KeyOfAsked
<1>6. Earlier(asked[a].at, now) BY <1>4 DEF QuestionsAreSound, AnswersAreRight
<1> QED BY <1>2, <1>4, <1>5, <1>6 DEF Earlier

LEMMA ReadEvidenceKeeps == ASSUME QuestionsAreSound, NEW f \in Asks, ReadEvidence(f) PROVE QuestionsAreSound'
<1> DEFINE w == [flight[f] EXCEPT !.phase = "ranking", !.read = now]
<1>1. AnswersTypes /\ flight[f].phase = "planning" BY DEF ReadEvidence, QuestionsAreSound
<1>2. f \in inFlight BY <1>1 DEF QuestionsAreSound, FlightsAreOpen
<1>3. now \in Counts /\ flight[f] \in FlightRecord /\ flight \in [Asks -> FlightRecord] BY <1>1 DEF AnswersTypes
<1>4. w \in FlightRecord /\ w.key = flight[f].key /\ w.phase = "ranking" /\ w.read = now BY <1>3 DEF FlightRecord
<1>5. flight' = [flight EXCEPT ![f] = w] BY <1>3 DEF ReadEvidence
<1>6. Earlier(now, now) BY <1>3 DEF Earlier, Counts
<1>7. UNCHANGED <<now, asked, inFlight, recent, alike>> BY DEF ReadEvidence
<1> HIDE DEF w
<1> QED BY <1>2, <1>4, <1>5, <1>6, <1>7, KeysAreEarlier, FliesOn

LEMMA ModelFailsKeeps == ASSUME QuestionsAreSound, NEW f \in Asks, ModelFails(f) PROVE QuestionsAreSound'
<1> DEFINE w == [flight[f] EXCEPT !.phase = "local"]
<1>1. AnswersTypes /\ flight[f].phase \in {"planning", "ranking"} BY DEF ModelFails, QuestionsAreSound
<1>2. f \in inFlight BY <1>1 DEF QuestionsAreSound, FlightsAreOpen
<1>3. flight[f] \in FlightRecord /\ flight \in [Asks -> FlightRecord] BY <1>1 DEF AnswersTypes
<1>4. w \in FlightRecord /\ w.key = flight[f].key /\ w.phase = "local" BY <1>3 DEF FlightRecord
<1>5. flight' = [flight EXCEPT ![f] = w] BY <1>3 DEF ModelFails
<1>6. UNCHANGED <<now, asked, inFlight, recent, alike>> BY DEF ModelFails
<1> HIDE DEF w
<1> QED BY <1>2, <1>4, <1>5, <1>6, FliesOn

LEMMA LandKeeps ==
  ASSUME QuestionsAreSound, NEW f \in inFlight, NEW made \in Counts, NEW by, Land(f, made, by),
         flight[f].key[2] <= made.contacts, flight[f].key[3] <= made.notes,
         by \in {"model", "alike"} => now.contacts <= made.contacts,
         recent' \subseteq AnswerRecord, alike' \subseteq AnswerRecord,
         \A e \in recent' \cup alike' : KeptRightly(e), UNCHANGED now
  PROVE  QuestionsAreSound'
<1> USE DEF QuestionsAreSound
<1> DEFINE got(a) == Got(asked[a].at, made, by)
           r(a) == [Unasked EXCEPT !.phase = "over", !.got = got(a)]
<1>1. /\ asked' = Given(CallersOf(f), made, by)
      /\ flight' = [flight EXCEPT ![f] = NoWork] /\ inFlight' = inFlight \ {f}
  BY DEF Land
<1>2. AnswersTypes /\ f \in Asks /\ CallersOf(f) \subseteq Asks /\ now \in Counts BY DEF AnswersTypes, CallersOf
<1>3. ASSUME NEW a \in CallersOf(f)
      PROVE  asked'[a] \in AskRecord /\ asked'[a].phase = "over" /\ asked'[a].at = NoEdits /\ asked'[a].got \subseteq {"facets"}
  <2>1. flight[f].key = KeyOf(a) BY KeysAreEarlier
  <2>2. KeyOf(a)[2] = asked[a].at.contacts /\ KeyOf(a)[3] = asked[a].at.notes BY <1>2, <1>3, KeyOfAsked
  <2>3. asked[a].at \in Counts BY <1>2, <1>3 DEF AnswersTypes, AskRecord
  <2>4. asked[a].at.contacts <= made.contacts /\ asked[a].at.notes <= made.notes BY <2>1, <2>2
  <2>5. got(a) \subseteq {"facets"} /\ got(a) \in Staleness BY <1>2, <2>3, <2>4, GotIsFresh
  <2> HIDE DEF got
  <2>6. r(a) \in AskRecord /\ r(a).at = NoEdits /\ r(a).phase = "over" /\ r(a).got = got(a) BY <2>5, UnaskedOver
  <2>7. asked'[a] = r(a) BY <1>1, <1>2, <1>3 DEF Given, got
  <2> HIDE DEF r
  <2> QED BY <2>5, <2>6, <2>7
<1>4. \A a \in Asks \ CallersOf(f) : asked'[a] = asked[a] BY <1>1, <1>2 DEF Given
<1>5. asked' \in [Asks -> AskRecord]
  <2>1. \A a \in Asks : asked'[a] \in AskRecord BY <1>2, <1>3, <1>4 DEF AnswersTypes
  <2>2. asked' = [a \in Asks |-> asked'[a]] BY <1>1 DEF Given
  <2> QED BY <2>1, <2>2
<1>6. /\ flight' \in [Asks -> FlightRecord] /\ flight'[f].phase = "none"
      /\ \A g \in Asks \ {f} : flight'[g] = flight[g]
  <2>1. NoWork \in FlightRecord /\ NoWork.phase = "none" BY NothingAsked DEF NoWork
  <2> QED BY <1>1, <1>2, <2>1 DEF AnswersTypes
<1>7. AnswersTypes' BY <1>1, <1>5, <1>6 DEF AnswersTypes
<1>8. AnswersAreRight'
  <2>1. Earlier(NoEdits, now) BY <1>2 DEF Earlier, NoEdits, Counts
  <2> QED BY <1>3, <1>4, <2>1 DEF AnswersAreRight
<1>9. FlightsReadLater' BY <1>6 DEF FlightsReadLater
<1>10. FlightsAreOpen' BY <1>1, <1>3, <1>4, <1>6 DEF FlightsAreOpen
<1>11. AnswersAreFresh' BY <1>3, <1>4 DEF AsksAreSound, AnswersAreFresh
<1>12. FlightsAreShared'
  <2>1. ASSUME NEW b \in Asks, asked'[b].phase = "waiting"
        PROVE  /\ asked'[b] = asked[b] /\ asked[b].on # f
               /\ asked'[b].on \in inFlight' /\ flight'[asked'[b].on].key = KeyOf(b)'
    <3>1. b \notin CallersOf(f) BY <1>3, <2>1
    <3>2. asked'[b] = asked[b] /\ asked[b].on # f BY <1>4, <2>1, <3>1 DEF CallersOf
    <3>3. KeyOf(b)' = KeyOf(b) BY <3>2 DEF KeyOf
    <3>4. asked[b].on \in inFlight /\ flight[asked[b].on].key = KeyOf(b) BY <2>1, <3>2 DEF AsksAreSound, FlightsAreShared
    <3>5. asked[b].on \in Asks \ {f} BY <1>2, <3>2, <3>4 DEF AnswersTypes
    <3> QED BY <1>1, <1>6, <3>2, <3>3, <3>4, <3>5
  <2>2. ASSUME NEW g \in inFlight' PROVE CallersOf(g)' # {} /\ flight'[g].phase \in {"planning", "ranking", "local"}
    <3>1. g \in inFlight /\ g # f /\ g \in Asks BY <1>1 DEF AnswersTypes
    <3>2. PICK a \in CallersOf(g) : TRUE BY <3>1 DEF AsksAreSound, FlightsAreShared
    <3>3. a \notin CallersOf(f) /\ a \in Asks BY <3>1, <3>2 DEF CallersOf
    <3>4. a \in CallersOf(g)' BY <1>4, <3>2, <3>3 DEF CallersOf
    <3> QED BY <1>6, <3>1, <3>4 DEF AsksAreSound, FlightsAreShared
  <2>3. \A g, h \in inFlight' : flight'[g].key = flight'[h].key => g = h
    BY <1>1, <1>6 DEF AsksAreSound, FlightsAreShared, AnswersTypes
  <2> QED BY <2>1, <2>2, <2>3 DEF FlightsAreShared
<1> QED BY <1>7, <1>8, <1>9, <1>10, <1>11, <1>12 DEF AsksAreSound

LEMMA ModelAnswersKeeps == ASSUME QuestionsAreSound, NEW f \in Asks, ModelAnswers(f) PROVE QuestionsAreSound'
<1> DEFINE made == flight[f].read
           key == flight[f].key
<1>1. AnswersTypes /\ flight[f].phase = "ranking" /\ now.contacts = key[2] BY DEF ModelAnswers, QuestionsAreSound
<1>2. f \in inFlight BY <1>1 DEF QuestionsAreSound, FlightsAreOpen
<1>3. made \in Counts /\ key \in Keys /\ now \in Counts BY <1>1 DEF AnswersTypes, FlightRecord
<1>4. key[2] <= made.contacts /\ key[3] <= made.notes /\ Earlier(made, now)
  BY <1>1 DEF QuestionsAreSound, FlightsReadLater
<1>5. made.contacts = key[2] /\ now.contacts <= made.contacts BY <1>1, <1>3, <1>4 DEF Earlier, Counts
<1>6. /\ Land(f, made, "model") /\ UNCHANGED now /\ recent' = KeptAnswer(recent, key, made)
      /\ alike' = alike \/ alike' = KeptAnswer(alike, key, made)
  BY DEF ModelAnswers
<1> HIDE DEF made, key
<1>7. /\ recent \in SUBSET AnswerRecord /\ alike \in SUBSET AnswerRecord
      /\ \A e \in recent \cup alike : KeptRightly(e)
  BY <1>1 DEF QuestionsAreSound, AnswersTypes, AnswersAreRight
<1>8. /\ KeptAnswer(recent, key, made) \subseteq AnswerRecord
      /\ \A e \in KeptAnswer(recent, key, made) : KeptRightly(e)
  BY <1>3, <1>4, <1>5, <1>7, KeptKeeps
<1>9. /\ KeptAnswer(alike, key, made) \subseteq AnswerRecord
      /\ \A e \in KeptAnswer(alike, key, made) : KeptRightly(e)
  BY <1>3, <1>4, <1>5, <1>7, KeptKeeps
<1>10. /\ recent' \subseteq AnswerRecord /\ alike' \subseteq AnswerRecord
       /\ \A e \in recent' \cup alike' : KeptRightly(e)
  BY <1>6, <1>7, <1>8, <1>9
<1> QED BY <1>2, <1>3, <1>4, <1>5, <1>6, <1>10, LandKeeps DEF key

LEMMA AnswerLocallyKeeps == ASSUME QuestionsAreSound, NEW f \in Asks, AnswerLocally(f) PROVE QuestionsAreSound'
<1>1. AnswersTypes /\ flight[f].phase = "local" BY DEF AnswerLocally, QuestionsAreSound
<1>2. f \in inFlight BY <1>1 DEF QuestionsAreSound, FlightsAreOpen
<1>3. now \in Counts BY <1>1 DEF AnswersTypes
<1>4. flight[f].key[2] <= now.contacts /\ flight[f].key[3] <= now.notes BY <1>2, KeysAreEarlier
<1>5. Land(f, now, "local") /\ UNCHANGED <<now, recent, alike>> BY DEF AnswerLocally
<1>6. /\ recent' \subseteq AnswerRecord /\ alike' \subseteq AnswerRecord
      /\ \A e \in recent' \cup alike' : KeptRightly(e)
  BY <1>1, <1>5 DEF QuestionsAreSound, AnswersTypes, AnswersAreRight
<1>7. now.contacts <= now.contacts BY <1>3 DEF Counts
<1> QED BY <1>2, <1>3, <1>4, <1>5, <1>6, <1>7, LandKeeps

\* The last caller of a flight takes it away with itself.
LEMMA LeaveFlightKeeps == ASSUME QuestionsAreSound, NEW a \in Asks, LeaveFlight(a) PROVE QuestionsAreSound'
<1> DEFINE f == asked[a].on
           r == [Unasked EXCEPT !.phase = "over"]
           last == asked[a].phase = "waiting" /\ CallersOf(f) = {a}
<1> USE DEF QuestionsAreSound
<1>1. /\ asked[a].phase \in {"embedding", "waiting"} /\ asked' = [asked EXCEPT ![a] = r]
      /\ flight' = (IF last THEN [flight EXCEPT ![f].phase = "aborted"] ELSE flight)
      /\ inFlight' = (IF last THEN inFlight \ {f} ELSE inFlight)
      /\ UNCHANGED <<now, recent, alike>>
  BY DEF LeaveFlight
<1>2. r \in AskRecord /\ r.phase = "over" /\ r.at = NoEdits /\ r.got = {}
  <2>1. Unasked \in AskRecord /\ Unasked.at = NoEdits /\ Unasked.got = {} BY NothingAsked DEF Unasked
  <2> HIDE DEF Unasked
  <2> QED BY <2>1 DEF AskRecord
<1> HIDE DEF r
<1>3. asked' \in [Asks -> AskRecord] /\ asked'[a] = r /\ \A b \in Asks \ {a} : asked'[b] = asked[b]
  BY <1>1, <1>2, OneMoves DEF AnswersTypes
<1>4. Earlier(NoEdits, now) /\ AnswersTypes BY DEF Earlier, NoEdits, Counts, AnswersTypes
<1>5. AnswersAreRight' /\ AnswersAreFresh'
  BY <1>1, <1>2, <1>3, <1>4 DEF AnswersAreRight, AsksAreSound, AnswersAreFresh
<1>6. \A b \in Asks : asked'[b].phase = "waiting" => asked'[b] = asked[b] /\ b # a /\ KeyOf(b)' = KeyOf(b)
  BY <1>2, <1>3 DEF KeyOf
<1>7. CASE ~last
  <2>1. flight' = flight /\ inFlight' = inFlight BY <1>1, <1>7
  <2>2. AnswersTypes' BY <1>1, <1>3, <2>1 DEF AnswersTypes
  <2>3. FlightsReadLater' /\ FlightsAreOpen'
    BY <1>1, <1>2, <1>3, <2>1 DEF FlightsReadLater, FlightsAreOpen
  <2>4. ASSUME NEW g \in inFlight PROVE CallersOf(g)' # {}
    <3>1. PICK b \in CallersOf(g) : b # a
      <4>1. CASE a \notin CallersOf(g) BY <4>1 DEF AsksAreSound, FlightsAreShared
      <4>2. CASE a \in CallersOf(g)
        <5>1. asked[a].phase = "waiting" /\ g = f BY <4>2 DEF CallersOf
        <5> QED BY <1>7, <4>2, <5>1
      <4> QED BY <4>1, <4>2
    <3>2. b \in CallersOf(g)' BY <1>3, <3>1 DEF CallersOf
    <3> QED BY <3>2
  <2>5. FlightsAreShared' BY <1>6, <2>1, <2>4 DEF AsksAreSound, FlightsAreShared
  <2> QED BY <1>5, <2>2, <2>3, <2>5 DEF AsksAreSound
<1>8. CASE last
  <2> DEFINE w == [flight[f] EXCEPT !.phase = "aborted"]
  <2>1. f \in inFlight /\ f \in Asks BY <1>4, <1>8 DEF AsksAreSound, FlightsAreShared, AnswersTypes
  <2>2. flight[f] \in FlightRecord /\ flight \in [Asks -> FlightRecord] BY <1>4, <2>1 DEF AnswersTypes
  <2>3. w \in FlightRecord /\ w.phase = "aborted" BY <2>2 DEF FlightRecord
  <2>4. flight' = [flight EXCEPT ![f] = w] /\ inFlight' = inFlight \ {f} BY <1>1, <1>8, <2>2
  <2> HIDE DEF w, f
  <2>5. flight' \in [Asks -> FlightRecord] /\ flight'[f] = w /\ \A g \in Asks \ {f} : flight'[g] = flight[g]
    BY <2>1, <2>2, <2>3, <2>4
  <2>6. AnswersTypes' BY <1>1, <1>3, <1>4, <2>4, <2>5 DEF AnswersTypes
  <2>7. FlightsReadLater' BY <1>1, <2>3, <2>5 DEF FlightsReadLater
  <2>8. FlightsAreOpen'
    <3>1. flight[f].phase # "none" BY <2>1 DEF FlightsAreOpen
    <3> QED BY <1>1, <1>2, <1>3, <2>1, <2>3, <2>4, <2>5, <3>1 DEF FlightsAreOpen
  <2>9. FlightsAreShared'
    <3>1. ASSUME NEW b \in Asks, asked'[b].phase = "waiting"
          PROVE  asked'[b].on \in inFlight' /\ flight'[asked'[b].on].key = KeyOf(b)'
      <4>1. asked'[b] = asked[b] /\ b # a /\ KeyOf(b)' = KeyOf(b) BY <1>6, <3>1
      <4>2. asked[b].on \in inFlight /\ flight[asked[b].on].key = KeyOf(b)
        BY <3>1, <4>1 DEF AsksAreSound, FlightsAreShared
      <4>3. asked[b].on # f BY <1>8, <3>1, <4>1 DEF CallersOf, f
      <4> QED BY <1>4, <2>4, <2>5, <4>1, <4>2, <4>3 DEF AnswersTypes
    <3>2. ASSUME NEW g \in inFlight' PROVE CallersOf(g)' # {} /\ flight'[g].phase \in {"planning", "ranking", "local"}
      <4>1. g \in inFlight /\ g # f /\ g \in Asks BY <1>4, <2>4 DEF AnswersTypes
      <4>2. PICK b \in CallersOf(g) : TRUE BY <4>1 DEF AsksAreSound, FlightsAreShared
      <4>3. b # a /\ b \in Asks BY <1>8, <4>1, <4>2 DEF CallersOf, f
      <4>4. b \in CallersOf(g)' BY <1>3, <4>2, <4>3 DEF CallersOf
      <4> QED BY <2>5, <4>1, <4>4 DEF AsksAreSound, FlightsAreShared
    <3>3. \A g, h \in inFlight' : flight'[g].key = flight'[h].key => g = h
      BY <1>4, <2>4, <2>5 DEF AsksAreSound, FlightsAreShared, AnswersTypes
    <3> QED BY <3>1, <3>2, <3>3 DEF FlightsAreShared
  <2> QED BY <1>5, <2>6, <2>7, <2>8, <2>9 DEF AsksAreSound
<1> QED BY <1>7, <1>8

LEMMA EndAbortedKeeps == ASSUME QuestionsAreSound, NEW f \in Asks, EndAborted(f) PROVE QuestionsAreSound'
<1> USE DEF QuestionsAreSound
<1>1. flight[f].phase = "aborted" /\ flight' = [flight EXCEPT ![f] = NoWork]
      /\ UNCHANGED <<now, asked, inFlight, recent, alike>>
  BY DEF EndAborted
<1>2. AnswersTypes /\ NoWork \in FlightRecord /\ NoWork.phase = "none" BY NothingAsked DEF NoWork
<1>3. flight' \in [Asks -> FlightRecord] /\ flight'[f] = NoWork /\ \A g \in Asks \ {f} : flight'[g] = flight[g]
  BY <1>1, <1>2 DEF AnswersTypes
<1>4. f \notin inFlight /\ inFlight \subseteq Asks BY <1>1, <1>2 DEF FlightsAreOpen, AnswersTypes
<1>5. AnswersTypes' BY <1>1, <1>2, <1>3 DEF AnswersTypes
<1>6. AnswersAreRight' /\ AnswersAreFresh' BY <1>1 DEF AnswersAreRight, AsksAreSound, AnswersAreFresh
<1>7. FlightsReadLater' /\ FlightsAreOpen' BY <1>1, <1>2, <1>3, <1>4 DEF FlightsReadLater, FlightsAreOpen
<1>8. FlightsAreShared'
  <2>1. \A g : CallersOf(g)' = CallersOf(g) BY <1>1 DEF CallersOf
  <2>2. \A b \in Asks : KeyOf(b)' = KeyOf(b) BY <1>1 DEF KeyOf
  <2>3. \A g \in inFlight : flight'[g] = flight[g] BY <1>3, <1>4
  <2> QED BY <1>1, <2>1, <2>2, <2>3 DEF AsksAreSound, FlightsAreShared
<1> QED BY <1>5, <1>6, <1>7, <1>8 DEF AsksAreSound

\* Edits leave the flights alone, and no answer is kept that was not.
LEMMA EditsKeep ==
  ASSUME QuestionsAreSound, now' \in Counts, Earlier(now, now'), recent' \subseteq recent, alike' \subseteq alike,
         UNCHANGED <<asked, flight, inFlight>>
  PROVE  QuestionsAreSound'
<1> USE DEF QuestionsAreSound
<1>1. AnswersTypes /\ AnswersTypes' BY DEF AnswersTypes
<1>2. \A v \in Counts : Earlier(v, now) => Earlier(v, now')
  BY <1>1 DEF AnswersTypes, Earlier, Counts
<1>3. \A a \in Asks : asked[a].at \in Counts /\ flight[a].read \in Counts
  BY <1>1 DEF AnswersTypes, AskRecord, FlightRecord
<1>4. AnswersAreRight' BY <1>2, <1>3 DEF AnswersAreRight
<1>5. FlightsReadLater' /\ FlightsAreOpen' BY <1>2, <1>3 DEF FlightsReadLater, FlightsAreOpen
<1>6. AsksAreSound'
  <2>1. \A g : CallersOf(g)' = CallersOf(g) BY DEF CallersOf
  <2>2. \A b \in Asks : KeyOf(b)' = KeyOf(b) BY DEF KeyOf
  <2> QED BY <2>1, <2>2 DEF AsksAreSound, FlightsAreShared, AnswersAreFresh
<1> QED BY <1>1, <1>4, <1>5, <1>6

LEMMA QuestionsSoundNext == QuestionsAreSound /\ [AnswersNext]_answerVars => QuestionsAreSound'
<1> SUFFICES ASSUME QuestionsAreSound, [AnswersNext]_answerVars PROVE QuestionsAreSound' OBVIOUS
<1>0. now \in Counts /\ Earlier(now, now)
  BY DEF QuestionsAreSound, AnswersTypes, Earlier, Counts
<1>1. CASE \E a \in Asks : \E q \in Wording[a] : AskQuestion(a, q) BY <1>1, AskQuestionKeeps
<1>2. CASE \E a \in Asks : MeansTheSame(a) \/ LeaveFlight(a) BY <1>2, MeansTheSameKeeps, LeaveFlightKeeps
<1>3. CASE \E a \in Asks : \E vector \in BOOLEAN : JoinFlight(a, vector) \/ StartFlight(a, vector)
  BY <1>3, JoinFlightKeeps, StartFlightKeeps
<1>4. CASE \E f \in Asks : ReadEvidence(f) \/ ModelAnswers(f) \/ ModelFails(f) \/ AnswerLocally(f) \/ EndAborted(f)
  BY <1>4, ReadEvidenceKeeps, ModelAnswersKeeps, ModelFailsKeeps, AnswerLocallyKeeps, EndAbortedKeeps
<1>5. CASE EditContact \/ EditNote \/ EditFacet
  <2>1. now' \in Counts /\ Earlier(now, now')
    BY <1>0, <1>5 DEF EditContact, EditNote, EditFacet, Counts, Earlier
  <2>2. recent' \subseteq recent /\ alike' \subseteq alike /\ UNCHANGED <<asked, flight, inFlight>>
    BY <1>5 DEF EditContact, EditNote, EditFacet
  <2> QED BY <2>1, <2>2, EditsKeep
<1>6. CASE ClearCaches \/ \E e \in recent \cup alike : Expire(e)
  <2>1. recent' \subseteq recent /\ alike' \subseteq alike /\ UNCHANGED <<now, asked, flight, inFlight>>
    BY <1>6 DEF ClearCaches, Expire
  <2> QED BY <1>0, <2>1, EditsKeep
<1>7. CASE UNCHANGED answerVars
  <2>1. recent' \subseteq recent /\ alike' \subseteq alike /\ UNCHANGED <<now, asked, flight, inFlight>>
    BY <1>7 DEF answerVars
  <2> QED BY <1>0, <2>1, EditsKeep
<1> QED BY <1>1, <1>2, <1>3, <1>4, <1>5, <1>6, <1>7 DEF AnswersNext

\* The strengthened invariant of the questions holds in every reachable state.
LEMMA AlwaysQuestionsSound == AnswersSpec => []QuestionsAreSound
<1>1. QuestionsAreSound /\ [AnswersNext]_answerVars => QuestionsAreSound' BY QuestionsSoundNext
<1> QED BY <1>1, QuestionsSoundInit, PTL DEF AnswersSpec

\* No answer's searched columns or notes are older than its question, whichever cache,
\* flight or model it came from,
\* and the same question is worked on once for all who ask it.
THEOREM QuestionsAreAnswered == AnswersSpec => []AsksAreSound
<1>1. QuestionsAreSound => AsksAreSound BY DEF QuestionsAreSound
<1> QED BY <1>1, AlwaysQuestionsSound, PTL

-----------------------------------------------------------------------------
(***************************************************************************)
(* The types, which bound every revision: whatever a flight or a cache     *)
(* holds was read at revisions that are no later than the present ones.    *)
(***************************************************************************)
FlightOfNow(r) == r.key[2] <= now.contacts /\ r.key[3] <= now.notes /\ Earlier(r.read, now)

WithinNow ==
  /\ Edits <= MaxEdits
  /\ \A f \in Asks : FlightOfNow(flight[f])
  /\ \A e \in recent \cup alike : Earlier(e.made, now)

LEMMA NoWorkOfNow == now \in Counts => FlightOfNow(NoWork)
<1>1. NoWork.key[2] = 0 /\ NoWork.key[3] = 0 /\ NoWork.read = NoEdits
  BY NothingAsked, KeysAreKeys DEF NoWork, NoEdits
<1> QED BY <1>1 DEF FlightOfNow, Earlier, NoEdits, Counts

\* The flight f of g holds what it held, or what it could have read now.
FliesWithin(g) ==
  \A f \in Asks : \/ g[f].key = flight[f].key /\ g[f].read = flight[f].read
                  \/ FlightOfNow(g[f])

\* Revisions only rise, and what is kept or flies stays within them.
LEMMA StaysWithin ==
  ASSUME QuestionsAreSound, QuestionsAreSound', WithinNow, Earlier(now, now'), Edits' <= MaxEdits,
         FliesWithin(flight'), \A e \in recent' \cup alike' : e \in recent \cup alike \/ Earlier(e.made, now)
  PROVE  WithinNow'
<1>1. AnswersTypes /\ AnswersTypes' BY DEF QuestionsAreSound
<1>2. \A v \in Counts : Earlier(v, now) => Earlier(v, now') BY <1>1 DEF AnswersTypes, Earlier, Counts
<1>3. \A e \in recent' \cup alike' : Earlier(e.made, now')
  BY <1>1, <1>2 DEF WithinNow, AnswersTypes, AnswerRecord
<1>4. ASSUME NEW f \in Asks PROVE FlightOfNow(flight[f])'
  <2>1. FlightOfNow(flight'[f]) BY DEF FliesWithin, WithinNow, FlightOfNow
  <2>2. /\ flight'[f].read \in Counts /\ flight'[f].key[2] \in Nat /\ flight'[f].key[3] \in Nat
        /\ now.contacts \in Nat /\ now'.contacts \in Nat /\ now.notes \in Nat /\ now'.notes \in Nat
    BY <1>1 DEF AnswersTypes, FlightRecord, Keys, Counts
  <2>3. now.contacts <= now'.contacts /\ now.notes <= now'.notes BY DEF Earlier
  <2> QED BY <1>2, <2>1, <2>2, <2>3 DEF FlightOfNow
<1> QED BY <1>3, <1>4 DEF WithinNow

LEMMA WithinNowNext ==
  QuestionsAreSound /\ QuestionsAreSound' /\ WithinNow /\ [AnswersNext]_answerVars => WithinNow'
<1> SUFFICES ASSUME QuestionsAreSound, QuestionsAreSound', WithinNow, [AnswersNext]_answerVars PROVE WithinNow'
  OBVIOUS
<1>1. /\ now \in Counts /\ Earlier(now, now) /\ flight \in [Asks -> FlightRecord] /\ AnswersTypes
      /\ \A a \in Asks : asked[a].at \in Counts /\ Earlier(asked[a].at, now)
  BY DEF QuestionsAreSound, AnswersAreRight, AnswersTypes, AskRecord, Earlier, Counts
<1>2. FliesWithin(flight) /\ \A f \in Asks : FliesWithin([flight EXCEPT ![f] = NoWork])
  BY <1>1, NoWorkOfNow DEF FliesWithin
<1>3. Edits <= MaxEdits BY DEF WithinNow
<1>4. CASE UNCHANGED now
  <2>1. Edits' <= MaxEdits BY <1>3, <1>4 DEF Edits
  <2>2. Earlier(now, now') BY <1>1, <1>4
  <2>3. SUFFICES FliesWithin(flight') /\ \A e \in recent' \cup alike' : e \in recent \cup alike \/ Earlier(e.made, now)
    BY <2>1, <2>2, StaysWithin
  <2>4. CASE \E a \in Asks : (\E q \in Wording[a] : AskQuestion(a, q)) \/ \E vector \in BOOLEAN : JoinFlight(a, vector)
    BY <1>2, <2>4 DEF AskQuestion, JoinFlight
  <2>5. ASSUME NEW a \in Asks, MeansTheSame(a)
        PROVE  FliesWithin(flight') /\ \A e \in recent' \cup alike' : e \in recent \cup alike \/ Earlier(e.made, now)
    BY <1>2, <2>5 DEF MeansTheSame, Likes, KeptAnswer, WithinNow
  <2>6. ASSUME NEW a \in Asks, NEW vector \in BOOLEAN, StartFlight(a, vector)
        PROVE  FliesWithin(flight') /\ \A e \in recent' \cup alike' : e \in recent \cup alike \/ Earlier(e.made, now)
    <3>1. recent' = recent /\ alike' = alike BY <2>6 DEF StartFlight
    <3>2. CASE flight' = flight BY <1>2, <3>1, <3>2
    <3>3. CASE flight' # flight
      <4> DEFINE r == [flight[a] EXCEPT !.phase = "planning", !.key = KeyOf(a), !.semantic = HasKey(a, vector)]
      <4>1. flight' = [flight EXCEPT ![a] = r] BY <2>6, <3>3 DEF StartFlight
      <4>2. r.key = KeyOf(a) /\ r.read = flight[a].read BY <1>1 DEF FlightRecord
      <4> HIDE DEF r
      <4>3. KeyOf(a)[2] = asked[a].at.contacts /\ KeyOf(a)[3] = asked[a].at.notes BY <1>1, KeyOfAsked
      <4>4. FlightOfNow(r) BY <1>1, <4>2, <4>3 DEF FlightOfNow, WithinNow, Earlier
      <4> QED BY <1>1, <3>1, <4>1, <4>4 DEF FliesWithin
    <3> QED BY <3>2, <3>3
  <2>7. ASSUME NEW f \in Asks, ReadEvidence(f) \/ ModelFails(f)
        PROVE  FliesWithin(flight') /\ \A e \in recent' \cup alike' : e \in recent \cup alike \/ Earlier(e.made, now)
    <3>1. recent' = recent /\ alike' = alike BY <2>7 DEF ReadEvidence, ModelFails
    <3>2. PICK r : flight' = [flight EXCEPT ![f] = r] /\ r.key = flight[f].key /\ (r.read = flight[f].read \/ r.read = now)
      BY <1>1, <2>7 DEF ReadEvidence, ModelFails, FlightRecord
    <3>3. FlightOfNow(r) BY <1>1, <3>2 DEF FlightOfNow, WithinNow
    <3> QED BY <1>1, <3>1, <3>2, <3>3 DEF FliesWithin
  <2>8. ASSUME NEW f \in Asks, ModelAnswers(f)
        PROVE  FliesWithin(flight') /\ \A e \in recent' \cup alike' : e \in recent \cup alike \/ Earlier(e.made, now)
    <3>1. Earlier(flight[f].read, now) BY DEF WithinNow, FlightOfNow
    <3>2. flight' = [flight EXCEPT ![f] = NoWork] BY <2>8 DEF ModelAnswers, Land
    <3>3. \A e \in recent' \cup alike' : e \in recent \cup alike \/ e.made = flight[f].read
      BY <2>8 DEF ModelAnswers, KeptAnswer
    <3> QED BY <1>2, <3>1, <3>2, <3>3
  <2>9. ASSUME NEW f \in Asks, AnswerLocally(f) \/ EndAborted(f)
        PROVE  FliesWithin(flight') /\ \A e \in recent' \cup alike' : e \in recent \cup alike \/ Earlier(e.made, now)
    BY <1>2, <2>9 DEF AnswerLocally, EndAborted, Land
  <2>10. ASSUME NEW a \in Asks, LeaveFlight(a)
         PROVE  FliesWithin(flight') /\ \A e \in recent' \cup alike' : e \in recent \cup alike \/ Earlier(e.made, now)
    <3>1. recent' = recent /\ alike' = alike BY <2>10 DEF LeaveFlight
    <3>2. flight' = flight \/ flight' = [flight EXCEPT ![asked[a].on].phase = "aborted"] BY <2>10 DEF LeaveFlight
    <3>3. \A f \in Asks : flight'[f].key = flight[f].key /\ flight'[f].read = flight[f].read
      BY <1>1, <3>2 DEF FlightRecord
    <3> QED BY <3>1, <3>3 DEF FliesWithin
  <2>11. CASE ClearCaches \/ (\E e \in recent \cup alike : Expire(e)) \/ UNCHANGED answerVars
    BY <1>2, <2>11 DEF ClearCaches, Expire, answerVars
  <2>12. CASE EditContact \/ EditNote \/ EditFacet BY <1>1, <1>4, <2>12 DEF EditContact, EditNote, EditFacet, Counts
  <2> QED BY <2>4, <2>5, <2>6, <2>7, <2>8, <2>9, <2>10, <2>11, <2>12 DEF AnswersNext
<1>5. CASE EditContact \/ EditNote \/ EditFacet
  <2>1. Edits' <= MaxEdits /\ Earlier(now, now')
    BY <1>1, <1>5, AnswersAssumption DEF EditContact, EditNote, EditFacet, Edits, Counts, Earlier
  <2>2. flight' = flight /\ recent' \subseteq recent /\ alike' \subseteq alike
    BY <1>5 DEF EditContact, EditNote, EditFacet
  <2> QED BY <1>2, <2>1, <2>2, StaysWithin
<1>6. UNCHANGED now \/ EditContact \/ EditNote \/ EditFacet
  BY DEF AnswersNext, answerVars, AskQuestion, MeansTheSame, LeaveFlight, JoinFlight, StartFlight, ReadEvidence,
         ModelAnswers, ModelFails, AnswerLocally, EndAborted, ClearCaches, Expire
<1> QED BY <1>4, <1>5, <1>6

LEMMA WithinNowInit == AnswersInit => WithinNow
<1> SUFFICES ASSUME AnswersInit PROVE WithinNow OBVIOUS
<1>1. now = NoEdits /\ now \in Counts /\ recent = {} /\ alike = {} /\ \A f \in Asks : flight[f] = NoWork
  BY NothingAsked DEF AnswersInit
<1> QED BY <1>1, NoWorkOfNow, AnswersAssumption DEF WithinNow, Edits, NoEdits

LEMMA WithinNowIsTyped == QuestionsAreSound /\ WithinNow => AnswersTypeOK
<1> SUFFICES ASSUME QuestionsAreSound, WithinNow PROVE AnswersTypeOK OBVIOUS
<1>1. AnswersTypes BY DEF QuestionsAreSound
<1>2. now \in Counts /\ now.contacts + now.notes + now.facets <= MaxEdits /\ MaxEdits \in Nat
  BY <1>1, AnswersAssumption DEF AnswersTypes, WithinNow, Edits
<1>3. \A v \in Counts : Earlier(v, now) => v \in Revisions BY <1>2 DEF Counts, Earlier, Revisions
<1>4. now \in Revisions BY <1>2, <1>3 DEF Earlier, Counts
<1>5. Words = Questions BY AnswersAssumption DEF Words, AnyQuestion
<1>6. \A k \in Keys : k[2] <= now.contacts /\ k[3] <= now.notes => k \in KeyType
  <2> SUFFICES ASSUME NEW k \in Keys, k[2] <= now.contacts, k[3] <= now.notes PROVE k \in KeyType OBVIOUS
  <2>1. PICK q \in Words, m \in Nat, n \in Nat : k = <<q, m, n>> BY DEF Keys
  <2>2. m \in 0 .. MaxEdits /\ n \in 0 .. MaxEdits BY <1>2, <2>1 DEF Counts
  <2> QED BY <1>5, <2>1, <2>2 DEF KeyType
<1>7. asked \in [Asks -> [words : Questions, at : Revisions, phase : {"idle", "embedding", "waiting", "over"},
                          on : Asks \cup {NoFlight}, got : Staleness]]
  BY <1>1, <1>3, <1>5 DEF AnswersTypes, AskRecord, QuestionsAreSound, AnswersAreRight
<1>8. flight \in [Asks -> [phase : {"none", "planning", "ranking", "local", "aborted"},
                           key : KeyType, read : Revisions, semantic : BOOLEAN]]
  BY <1>1, <1>3, <1>6 DEF AnswersTypes, FlightRecord, WithinNow, FlightOfNow
<1>9. recent \cup alike \subseteq [key : KeyType, made : Revisions]
  <2> SUFFICES ASSUME NEW e \in recent \cup alike PROVE e \in [key : KeyType, made : Revisions] OBVIOUS
  <2>1. e \in AnswerRecord /\ e.made \in Counts /\ e.key \in Keys /\ Earlier(e.made, now) /\ KeptRightly(e)
    BY <1>1 DEF AnswersTypes, AnswerRecord, WithinNow, QuestionsAreSound, AnswersAreRight
  <2>2. e.key[2] \in Nat /\ e.key[3] \in Nat BY <2>1 DEF Keys
  <2>3. e.key[2] <= now.contacts /\ e.key[3] <= now.notes
    BY <1>2, <2>1, <2>2 DEF KeptRightly, Earlier, Counts
  <2> QED BY <1>3, <1>6, <2>1, <2>3 DEF AnswerRecord
<1> QED BY <1>1, <1>4, <1>7, <1>8, <1>9 DEF AnswersTypeOK, AnswersTypes

\* The state of the questions keeps its types: no revision that a question, a flight or a
\* cache holds was never reached.
THEOREM AnswersTypesHold == AnswersSpec => []AnswersTypeOK
<1>1. QuestionsAreSound /\ WithinNow /\ QuestionsAreSound' /\ [AnswersNext]_answerVars => WithinNow'
  BY WithinNowNext
<1>2. AnswersSpec => []WithinNow BY <1>1, WithinNowInit, AlwaysQuestionsSound, PTL DEF AnswersSpec
<1> QED BY <1>2, AlwaysQuestionsSound, WithinNowIsTyped, PTL
=============================================================================
