---------------------------- MODULE SearchAnswers ----------------------------
(***************************************************************************)
(* How the questions of one account are answered with models: runSearch of *)
(* server/services/searchService.ts, with the coalescer of                 *)
(* server/utils/requestCoalescer.ts, the answers kept for the exact words  *)
(* (L1, server/utils/aiCache.ts) and those kept for the meaning (L2,       *)
(* server/services/search/semanticCache.ts).                               *)
(*                                                                         *)
(* A question waits for its vector, then for models, and others are asked  *)
(* and answered, contacts, notes and facets change, and callers leave     *)
(* while it does.  Each action is one synchronous stretch.  What an answer says  *)
(* is abstracted to the revisions its evidence was read at.  All questions *)
(* here mean the same, so that L2 may answer one with another's answer.    *)
(*                                                                         *)
(* Left out: questions that need no model, which are answered where they   *)
(* are asked, embedders other than the built-in one, and the five minutes  *)
(* an L1 key lasts.                                                        *)
(***************************************************************************)
EXTENDS Integers, FiniteSets

CONSTANTS
  Asks,          \* the requests
  Questions,
  Wording,       \* bound: the questions each may ask
  MaxEdits,      \* bound: changes of contacts, notes and facets
  NoFlight

ASSUME AnswersAssumption ==
  /\ Questions # {} /\ Wording \in [Asks -> SUBSET Questions]
  /\ MaxEdits \in Nat /\ NoFlight \notin Asks

VARIABLES
  now,      \* the revisions of the searched columns, of notes, and of facets, which the code does not count
  asked,    \* each request: its question, the revisions it read, where it is, its flight, its answer
  flight,   \* the work shared by a request and those who joined it, named by the request
  inFlight, \* the flights a new caller can join
  recent,   \* L1
  alike     \* L2

answerVars == <<now, asked, flight, inFlight, recent, alike>>

Revisions == [contacts : 0..MaxEdits, notes : 0..MaxEdits, facets : 0..MaxEdits]
\* What an answer's evidence was older of than its question, or, if it is a model's or
\* L2's, older than the contacts were when it was given.
Staleness == SUBSET {"contacts", "notes", "facets", "now"}
KeyType == Questions \X (0..MaxEdits) \X (0..MaxEdits)

AnswersTypeOK ==
  /\ now \in Revisions
  /\ asked \in [Asks -> [words : Questions, at : Revisions, phase : {"idle", "embedding", "waiting", "over"},
                         on : Asks \cup {NoFlight}, got : Staleness]]
  /\ flight \in [Asks -> [phase : {"none", "planning", "ranking", "local", "aborted"},
                          key : KeyType, read : Revisions, semantic : BOOLEAN]]
  /\ inFlight \subseteq Asks
  /\ recent \subseteq [key : KeyType, made : Revisions] /\ alike \subseteq [key : KeyType, made : Revisions]

\* cacheKey, of a question and the revisions that were read for it.
KeyAt(q, at) == <<q, at.contacts, at.notes>>
KeyOf(a) == KeyAt(asked[a].words, asked[a].at)

CallersOf(f) == {a \in Asks : asked[a].phase = "waiting" /\ asked[a].on = f}

Got(at, made, by) ==
  {r \in {"contacts", "notes", "facets"} : made[r] < at[r]}
  \cup (IF by \in {"model", "alike"} /\ made.contacts < now.contacts THEN {"now"} ELSE {})

NoEdits == [contacts |-> 0, notes |-> 0, facets |-> 0]
AnyQuestion == CHOOSE q \in Questions : TRUE
Unasked == [words |-> AnyQuestion, at |-> NoEdits, phase |-> "idle", on |-> NoFlight, got |-> {}]
NoWork == [phase |-> "none", key |-> KeyAt(AnyQuestion, NoEdits), read |-> NoEdits, semantic |-> FALSE]

\* Each of as has its answer.
Given(as, made, by) ==
  [a \in Asks |-> IF a \in as THEN [Unasked EXCEPT !.phase = "over", !.got = Got(asked[a].at, made, by)]
                  ELSE asked[a]]

\* setCachedSearch, and setSemanticAnswer.
KeptAnswer(cache, key, made) == {e \in cache : e.key # key} \cup {[key |-> key, made |-> made]}

-----------------------------------------------------------------------------
\* The request reads the revisions, and L1.
AskQuestion(a, q) ==
  /\ asked[a].phase = "idle"
  /\ LET hits == {e \in recent : e.key = KeyAt(q, now)}
     IN  IF hits = {} THEN asked' = [asked EXCEPT ![a] = [@ EXCEPT !.words = q, !.at = now, !.phase = "embedding"]]
         ELSE \E e \in hits : asked' = [asked EXCEPT ![a].phase = "over", ![a].got = Got(now, e.made, "recent")]
  /\ UNCHANGED <<now, flight, inFlight, recent, alike>>

\* L2's answers for a question of a's revisions.
Likes(a) == {e \in alike : e.key[2] = KeyOf(a)[2] /\ e.key[3] = KeyOf(a)[3]}

\* Variant: L2 is asked although the contacts changed during the embedding.
MayMeanAnyway(a) == TRUE

\* Whether the question's vector is compared at all.
MayMean(a) == now.contacts = asked[a].at.contacts

\* The vector is there, and L2 has an answer, which L1 keeps for these words.
MeansTheSame(a) ==
  /\ asked[a].phase = "embedding" /\ MayMean(a)
  /\ \E e \in Likes(a) :
       /\ asked' = Given({a}, e.made, "alike")
       /\ recent' = KeptAnswer(recent, KeyOf(a), e.made)
  /\ UNCHANGED <<now, flight, inFlight, alike>>

\* Without a vector, or after an edit, L2 is not asked, and the question has no
\* semanticKey.
HasKey(a, vector) == vector /\ MayMean(a)

\* coalesce: a flight with the same key is joined.
JoinFlight(a, vector) ==
  /\ asked[a].phase = "embedding" /\ (HasKey(a, vector) => Likes(a) = {})
  /\ \E f \in inFlight : /\ flight[f].key = KeyOf(a)
                         /\ asked' = [asked EXCEPT ![a].phase = "waiting", ![a].on = f]
  /\ UNCHANGED <<now, flight, inFlight, recent, alike>>

\* Otherwise a starts one, which looks at L1 again.
StartFlight(a, vector) ==
  /\ asked[a].phase = "embedding" /\ (HasKey(a, vector) => Likes(a) = {})
  /\ ~\E f \in inFlight : flight[f].key = KeyOf(a)
  /\ LET hits == {e \in recent : e.key = KeyOf(a)}
     IN  IF hits # {}
         THEN /\ \E e \in hits : asked' = Given({a}, e.made, "recent")
              /\ UNCHANGED <<flight, inFlight>>
         ELSE /\ asked' = [asked EXCEPT ![a].phase = "waiting", ![a].on = a]
              /\ flight' = [flight EXCEPT ![a] = [@ EXCEPT !.phase = "planning", !.key = KeyOf(a), !.semantic = HasKey(a, vector)]]
              /\ inFlight' = inFlight \cup {a}
  /\ UNCHANGED <<now, recent, alike>>

-----------------------------------------------------------------------------
\* The planner answered and the retrieval reads the account.
ReadEvidence(f) ==
  /\ flight[f].phase = "planning"
  /\ flight' = [flight EXCEPT ![f].phase = "ranking", ![f].read = now]
  /\ UNCHANGED <<now, asked, inFlight, recent, alike>>

Land(f, made, by) ==
  /\ asked' = Given(CallersOf(f), made, by)
  /\ flight' = [flight EXCEPT ![f] = NoWork]
  /\ inFlight' = inFlight \ {f}

\* The model verified an answer of the contacts as they are, which both caches keep.
ModelAnswers(f) ==
  /\ flight[f].phase = "ranking" /\ now.contacts = flight[f].key[2]
  /\ Land(f, flight[f].read, "model")
  /\ recent' = KeptAnswer(recent, flight[f].key, flight[f].read)
  /\ alike' = IF flight[f].semantic THEN KeptAnswer(alike, flight[f].key, flight[f].read) ELSE alike
  /\ UNCHANGED now

\* An error or the budget's end, or an edit since: a local list instead.
ModelFails(f) ==
  /\ flight[f].phase \in {"planning", "ranking"}
  /\ flight' = [flight EXCEPT ![f].phase = "local"]
  /\ UNCHANGED <<now, asked, inFlight, recent, alike>>

\* The local list, read afresh, which no cache keeps.
AnswerLocally(f) ==
  /\ flight[f].phase = "local"
  /\ Land(f, now, "local")
  /\ UNCHANGED <<now, recent, alike>>

\* A caller leaves.  The last one aborts the flight and takes it away.
LeaveFlight(a) ==
  LET f == asked[a].on
      last == asked[a].phase = "waiting" /\ CallersOf(f) = {a}
  IN  /\ asked[a].phase \in {"embedding", "waiting"}
      /\ asked' = [asked EXCEPT ![a] = [Unasked EXCEPT !.phase = "over"]]
      /\ flight' = IF last THEN [flight EXCEPT ![f].phase = "aborted"] ELSE flight
      /\ inFlight' = IF last THEN inFlight \ {f} ELSE inFlight
      /\ UNCHANGED <<now, recent, alike>>

\* An aborted flight ends later, and leaves alone one that has its key by then.
EndAborted(f) ==
  /\ flight[f].phase = "aborted"
  /\ flight' = [flight EXCEPT ![f] = NoWork]
  /\ UNCHANGED <<now, asked, inFlight, recent, alike>>

-----------------------------------------------------------------------------
Edits == now.contacts + now.notes + now.facets

\* A searched column, a contact or a row its text is of: the triggers bump the revision with it.
EditContact ==
  /\ Edits < MaxEdits /\ now' = [now EXCEPT !.contacts = @ + 1]
  /\ UNCHANGED <<asked, flight, inFlight, recent, alike>>

EditNote ==
  /\ Edits < MaxEdits /\ now' = [now EXCEPT !.notes = @ + 1]
  /\ UNCHANGED <<asked, flight, inFlight, recent, alike>>

\* What a facet asks for and no revision follows: tracking, a score, a place, the date of an
\* edit, a list's members.  A write of the owner's empties the caches with it (ownerCaches, listService);
\* a score or the geocoder's pin writes no event, and empties none.
EditFacet ==
  /\ Edits < MaxEdits /\ now' = [now EXCEPT !.facets = @ + 1]
  /\ \/ recent' = {} /\ alike' = {}
     \/ UNCHANGED <<recent, alike>>
  /\ UNCHANGED <<asked, flight, inFlight>>

\* contacts.ownerCaches, when it reads an edit's event, after the edit.
ClearCaches ==
  /\ recent \cup alike # {} /\ recent' = {} /\ alike' = {}
  /\ UNCHANGED <<now, asked, flight, inFlight>>

\* An answer expires, or makes room.
Expire(e) ==
  /\ \/ e \in recent /\ recent' = recent \ {e} /\ UNCHANGED alike
     \/ e \in alike /\ alike' = alike \ {e} /\ UNCHANGED recent
  /\ UNCHANGED <<now, asked, flight, inFlight>>

AnswersInit ==
  /\ now = NoEdits /\ asked = [a \in Asks |-> Unasked] /\ flight = [a \in Asks |-> NoWork]
  /\ inFlight = {} /\ recent = {} /\ alike = {}

AnswersNext ==
  \/ \E a \in Asks : \E q \in Wording[a] : AskQuestion(a, q)
  \/ \E a \in Asks : MeansTheSame(a) \/ LeaveFlight(a)
                     \/ \E vector \in BOOLEAN : JoinFlight(a, vector) \/ StartFlight(a, vector)
  \/ \E f \in Asks : ReadEvidence(f) \/ ModelAnswers(f) \/ ModelFails(f) \/ AnswerLocally(f) \/ EndAborted(f)
  \/ EditContact \/ EditNote \/ EditFacet \/ ClearCaches
  \/ \E e \in recent \cup alike : Expire(e)

AnswersSpec == AnswersInit /\ [][AnswersNext]_answerVars

-----------------------------------------------------------------------------
\* No request is given an answer whose searched columns or notes are older than its question,
\* whichever cache, flight or model it came from, and what a model or L2 answers is of those
\* columns as they are when it is given.
AnswersAreFresh ==
  \A a \in Asks : asked[a].got \subseteq {"facets"}

\* The same question of the same account is worked on once: whoever waits, waits for a
\* flight that others can join and that was not aborted, and no flight is left that
\* nobody waits for.
FlightsAreShared ==
  /\ \A a \in Asks : asked[a].phase = "waiting" =>
       asked[a].on \in inFlight /\ flight[asked[a].on].key = KeyOf(a)
  /\ \A f \in inFlight : CallersOf(f) # {} /\ flight[f].phase \in {"planning", "ranking", "local"}
  /\ \A f, g \in inFlight : flight[f].key = flight[g].key => f = g

\* Questions asked and left in any order, over edits, are answered once for all who ask, with
\* what the account's searched columns and notes say.
AsksAreSound == AnswersAreFresh /\ FlightsAreShared

\* The same for the facets, which no key holds: an answer from before a contact was tracked,
\* scored or placed is given after it, and kept.
FacetsAreFresh ==
  \A a \in Asks : "facets" \notin asked[a].got
=============================================================================
