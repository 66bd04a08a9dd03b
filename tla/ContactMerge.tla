---------------------------- MODULE ContactMerge ----------------------------
(***************************************************************************)
(* Merging duplicate contacts of one account, undoing a merge, and the     *)
(* checks that merge by themselves: server/services/dedupe/merging.ts,     *)
(* suggestions.ts, engine.ts, incremental.ts and contactPurge.ts.          *)
(*                                                                         *)
(* A merge hides the duplicate (`into`, its canonicalId), moves the        *)
(* records the primary lacks and logs what it did, so that an Undo can     *)
(* move back what nobody touched since.  Merges chain, records are edited  *)
(* and deleted in between, and contacts are purged with everything merged  *)
(* into them.  A check reads the pairs kept apart when it starts, awaits   *)
(* models, and merges at the end; an import's check yields between two of  *)
(* its contacts.  Each action is one synchronous stretch.                  *)
(*                                                                         *)
(* Left out: the contact's scalar fields, its lists, mentions and          *)
(* follow-up dates, ghosts, and edits that change a record's key.          *)
(***************************************************************************)
EXTENDS Integers, FiniteSets, Sequences

CONSTANTS
  Twins,         \* the account's contacts
  Facts, Notes,  \* keys of records, of which notes and follow-ups always move
  FirstRows,     \* the records at the start, each [on, fact, text]
  Sure, Likely,  \* the pairs that look alike, above and below the merge threshold
  Waiting,       \* the pairs that wait in the review at the start
  Arrivals,      \* the contacts an import wrote
  MaxSteps,      \* how long a chain of merges liveContactId follows, 20
  Touched,       \* bound: the records a person edits or deletes, by their place
  MaxMerges,     \* bound: merges there will be
  MaxRows,       \* bound: records there will be, copies included
  MaxChanges,    \* bound: what happens besides merges and undos
  Nobody, NoRow, NoEntry, NoCheck

Pairs == {q \in SUBSET Twins : Cardinality(q) = 2}

RowType == [on : Twins, fact : Facts, text : {"first", "edited"}]
Statuses == {"none", "pending", "dismissed", "merged"}

\* An entry of the merge log, with the places of the records it moved and what the
\* duplicate had.
RowPlaces == 1 .. MaxRows
MergeEntry == [primary : Twins, duplicate : Twins, by : {"user", "auto"}, undone : BOOLEAN,
               moved : SUBSET RowPlaces, had : UNION {[S -> RowType] : S \in SUBSET RowPlaces}]

ASSUME MergeAssumption ==
  /\ IsFiniteSet(Twins) /\ Nobody \notin Twins
  /\ Notes \subseteq Facts /\ Sure \cup Likely \subseteq Pairs /\ Sure \cap Likely = {} /\ Waiting \subseteq Pairs
  /\ {MaxMerges, MaxRows} \subseteq Nat
  /\ FirstRows \in Seq(RowType) /\ Len(FirstRows) <= MaxRows /\ Touched \subseteq DOMAIN FirstRows
  /\ NoRow \notin RowType /\ NoEntry \notin MergeEntry

VARIABLES
  tables,        \* what a transaction writes
  check,         \* what the full check that runs read when it started, or NoCheck
  corpus,        \* what the import's check read, retired and has to do, or NoCheck
  changes        \* bound: what happened besides merges and undos

mergeVars == <<tables, check, corpus, changes>>

MergeInit ==
  /\ tables = [into |-> [c \in Twins |-> Nobody], gone |-> {}, trash |-> {},
               rows |-> FirstRows, log |-> <<>>,
               review |-> [q \in Pairs |-> IF q \in Waiting THEN "pending" ELSE "none"], apart |-> {}]
  /\ check = NoCheck /\ corpus = NoCheck /\ changes = 0

MergesTypeOK ==
  /\ tables.into \in [Twins -> Twins \cup {Nobody}]
  /\ tables.gone \subseteq Twins /\ tables.trash \subseteq Twins \ tables.gone
  /\ tables.rows \in Seq(RowType \cup {NoRow}) /\ tables.log \in Seq(MergeEntry \cup {NoEntry})
  /\ Len(tables.log) <= MaxMerges /\ Len(tables.rows) <= MaxRows
  /\ tables.review \in [Pairs -> Statuses] /\ tables.apart \subseteq Pairs

-----------------------------------------------------------------------------
(* Reading the tables.                                                     *)

On(t, c) == {i \in DOMAIN t.rows : t.rows[i] # NoRow /\ t.rows[i].on = c}
FactsOf(t, c) == {t.rows[i].fact : i \in On(t, c)}

Existing(t) == Twins \ t.gone
Unmerged(t) == {c \in Existing(t) : t.into[c] = Nobody}

\* LIVE_CONTACTS.  What goes to the trash is archived with the same write (contactService.ts:682,
\* 911), no edit of a contact in the trash is let through (contactGuard.ts), and a restore takes
\* both marks back: a query that leaves out the archived leaves out the trash.
Live(t) == Unmerged(t) \ t.trash

\* Variant: a delete takes the contact alone.
NoChain(t, c) == {c} \cap Existing(t)

\* The contact and every contact merged into it, at any depth.
MergedChain(t, c) ==
  {d \in Existing(t) : \A S \in SUBSET Existing(t) :
     {c} \cap Existing(t) \subseteq S /\ (\A x \in Existing(t) : t.into[x] \in S => x \in S) => d \in S}

\* The end of the merges from c, unless one of them is gone or there are too many.
LiveContactId(t, c) ==
  LET way == {d \in Twins : c \in MergedChain(t, d)}
  IN  IF way \cap Unmerged(t) # {} /\ Cardinality(way) <= MaxSteps
      THEN CHOOSE d \in way : d \in Unmerged(t) ELSE Nobody

\* What executeMerge asks before it merges.  It does not ask for deletedAt.
Mergeable(t, p, d) == p # d /\ {p, d} \subseteq Unmerged(t)

IsOpen(t, i) == t.log[i] # NoEntry /\ ~t.log[i].undone

-----------------------------------------------------------------------------
(* What a transaction makes of the tables.                                 *)

ClearStale(t) ==
  LET live == Live(t)
  IN  [t EXCEPT !.review = [q \in Pairs |-> IF @[q] = "pending" /\ ~(q \subseteq live) THEN "none" ELSE @[q]]]

\* storeSuggestion: a pair that has a row keeps it.
Suggested(t, qs, status) ==
  [t EXCEPT !.review = [q \in Pairs |-> IF q \in qs /\ @[q] = "none" THEN status ELSE @[q]]]

\* The records that join p: every note, and of the others one for each fact p lacks.
Joiners(t, p, d) ==
  {i \in On(t, d) : \/ t.rows[i].fact \in Notes
                    \/ /\ t.rows[i].fact \notin FactsOf(t, p)
                       /\ \A j \in On(t, d) : t.rows[j].fact = t.rows[i].fact => i <= j}

Merged(t, p, d, by) ==
  LET moved == Joiners(t, p, d)
  IN  ClearStale(
        [t EXCEPT !.into[d] = p,
                  !.rows = [i \in DOMAIN @ |-> IF i \in moved THEN [@[i] EXCEPT !.on = p] ELSE @[i]],
                  !.log = Append(@, [primary |-> p, duplicate |-> d, by |-> by, undone |-> FALSE,
                                     moved |-> moved, had |-> [i \in On(t, d) |-> t.rows[i]]]),
                  !.review[{p, d}] = IF @ = "pending" THEN "merged" ELSE @])

\* Variant: an edited record moves back as it is.
AnywayUntouched(t, e) == {i \in e.moved : t.rows[i] # NoRow /\ t.rows[i].on = e.primary}

\* The moved records that are still with the primary as they came.
Untouched(t, e) == {i \in e.moved : t.rows[i] = [e.had[i] EXCEPT !.on = e.primary]}

\* The moved records of which the duplicate gets a copy with an id of its own.
ToCopy(t, e) == {i \in e.moved : t.rows[i] # NoRow} \ Untouched(t, e)

\* The n-th of a set of places.
Nth(S, n) == CHOOSE j \in S : Cardinality({i \in S : i <= j}) = n

\* The records after the undo of e: one that was deleted since comes back with its id.
RowsBack(t, e) ==
  LET copied == ToCopy(t, e)
      last == Len(t.rows)
      back(j) == IF t.rows[j] = NoRow THEN e.had[j] ELSE [t.rows[j] EXCEPT !.on = e.duplicate]
  IN  [j \in 1 .. last + Cardinality(copied) |->
         IF j > last THEN e.had[Nth(copied, j - last)]
         ELSE IF j \in e.moved \ copied THEN back(j) ELSE t.rows[j]]

\* undoSoftMerge, which keeps the two apart or puts the pair back in the review.
Undone(t, i, keep) ==
  LET e == t.log[i]
      pair == {e.primary, e.duplicate}
  IN  [t EXCEPT !.rows = RowsBack(t, e),
                !.into[e.duplicate] = Nobody,
                !.log[i].undone = TRUE,
                !.apart = IF keep THEN @ \cup {pair} ELSE @,
                !.review[pair] = IF keep THEN (IF @ = "none" THEN "none" ELSE "dismissed")
                                 ELSE IF @ = "merged" THEN "pending" ELSE @]

\* hardDeleteContact for each of cs, with the rows the deletes cascade to.
Purged(t, cs) ==
  LET dead == UNION {MergedChain(t, c) : c \in cs}
  IN  [t EXCEPT !.gone = @ \cup dead, !.trash = @ \ dead,
                !.into = [c \in Twins |-> IF c \in dead THEN Nobody ELSE @[c]],
                !.rows = [i \in DOMAIN @ |-> IF @[i] # NoRow /\ @[i].on \in dead THEN NoRow ELSE @[i]],
                !.log = [i \in DOMAIN @ |-> IF @[i] # NoEntry /\ {@[i].primary, @[i].duplicate} \cap dead # {}
                                            THEN NoEntry ELSE @[i]],
                !.review = [q \in Pairs |-> IF q \cap dead # {} THEN "none" ELSE @[q]],
                !.apart = {q \in @ : q \cap dead = {}}]

\* purgeExpiredMerges, when the oldest n entries are out of the undo window.
Expired(t, n) ==
  LET hidden == {c \in Existing(t) : /\ t.into[c] # Nobody
                                     /\ \A i \in DOMAIN t.log : i > n /\ IsOpen(t, i) => t.log[i].duplicate # c}
  IN  [Purged(t, hidden) EXCEPT !.log = [i \in DOMAIN @ |-> IF i <= n THEN NoEntry ELSE @[i]]]

-----------------------------------------------------------------------------
(* What a person does.                                                     *)

Bounded(t) == Len(t.log) <= MaxMerges /\ Len(t.rows) <= MaxRows
Another == changes < MaxChanges /\ changes' = changes + 1

\* mergeContacts, for one pair, a suggestion and each of a cluster.
MergeByHand(p, d) ==
  /\ Mergeable(tables, p, d)
  /\ tables' = Merged(tables, p, d, "user")
  /\ Bounded(tables') /\ UNCHANGED <<check, corpus, changes>>

\* A duplicate that is gone has no entry.  keep: the Undo of Merge history.
UndoMerge(i, keep) ==
  /\ IsOpen(tables, i) /\ tables.into[tables.log[i].duplicate] # Nobody
  /\ tables' = Undone(tables, i, keep)
  /\ Bounded(tables') /\ UNCHANGED <<check, corpus, changes>>

KeepSeparate(q) ==
  /\ Another
  /\ tables.review[q] = "pending"
  /\ tables' = [tables EXCEPT !.review[q] = "dismissed", !.apart = @ \cup {q}]
  /\ UNCHANGED <<check, corpus>>

RestoreSuggestion(q) ==
  /\ Another
  /\ tables.review[q] = "dismissed" /\ q \subseteq Live(tables)
  /\ tables' = [tables EXCEPT !.review[q] = "pending", !.apart = @ \ {q}]
  /\ UNCHANGED <<check, corpus>>

\* A record of a contact that shows, changed and deleted.
EditRow(i) ==
  /\ Another
  /\ tables.rows[i] # NoRow /\ tables.rows[i].on \in Live(tables) /\ tables.rows[i].text = "first"
  /\ tables' = [tables EXCEPT !.rows[i].text = "edited"]
  /\ UNCHANGED <<check, corpus>>

DeleteRow(i) ==
  /\ Another
  /\ tables.rows[i] # NoRow /\ tables.rows[i].on \in Live(tables)
  /\ tables' = [tables EXCEPT !.rows[i] = NoRow]
  /\ UNCHANGED <<check, corpus>>

DeleteContact(c) ==
  /\ Another
  /\ c \in Existing(tables) \ tables.trash
  /\ tables' = [tables EXCEPT !.trash = @ \cup {c}]
  /\ UNCHANGED <<check, corpus>>

RestoreContact(c) ==
  /\ Another
  /\ c \in tables.trash
  /\ tables' = [tables EXCEPT !.trash = @ \ {c}]
  /\ UNCHANGED <<check, corpus>>

\* purgeTrashedContact, emptyTrash and purgeExpiredTrash.
PurgeTrash(cs) ==
  /\ cs # {} /\ cs \subseteq tables.trash
  /\ tables' = Purged(tables, cs)
  /\ UNCHANGED <<check, corpus, changes>>

PurgeExpiredMerges(n) ==
  /\ Another
  /\ tables' = Expired(tables, n)
  /\ tables' # tables
  /\ UNCHANGED <<check, corpus>>

-----------------------------------------------------------------------------
(* The checks.                                                             *)

Other(q, c) == CHOOSE d \in q : d # c

\* q merged by a check: computePrimaryScore puts either of them first.
MergedBySelf(t, q) == {Suggested(Merged(t, p, Other(q, p), "auto"), {q}, "merged") : p \in q}

\* Variant: a pair is not asked about again after its ids were followed.
UnaskedNowPair(t, q, known) == {{LiveContactId(t, c) : c \in q}} \cap Pairs

\* The pair a found one is now, which `live` of persistIncrementalPairs drops if it is
\* one contact, names one that is gone, or is known to be two people.
NowPair(t, q, known) ==
  LET ends == {LiveContactId(t, c) : c \in q}
  IN  IF ends \in Pairs \ known THEN {ends} ELSE {}

\* The tables after a pair was merged, if there is one, by a check.
PairMerged(t, q, known) ==
  IF NowPair(t, q, known) = {} THEN {t} ELSE UNION {MergedBySelf(t, pair) : pair \in NowPair(t, q, known)}

Orders(S) == {order \in [1 .. Cardinality(S) -> S] : \A q \in S : \E i \in DOMAIN order : order[i] = q}

\* The tables after the pairs were merged one after the other.
InTurn(t, order, known) ==
  LET after[n \in 0 .. Len(order)] ==
        IF n = 0 THEN {t} ELSE UNION {PairMerged(u, order[n], known) : u \in after[n - 1]}
  IN  after[Len(order)]

\* runScan up to its first await.  buildPassContext leaves out the trash by leaving out the
\* archived (context.ts:22); what goes there later is still among those it read.
StartCheck ==
  /\ Another
  /\ check = NoCheck /\ Cardinality(Live(tables)) >= 2
  /\ check' = [apart |-> tables.apart, live |-> Live(tables)]
  /\ UNCHANGED <<tables, corpus>>

\* The end of runScan: the model may refuse a likely pair.  A sure pair that is a
\* group of its own is merged, the other pairs wait, and none waits if one of them
\* names a contact that was purged since.
EndCheck(refused) ==
  /\ check # NoCheck
  /\ \E found \in {{q \in (Sure \cup Likely) \ refused : q \subseteq check.live /\ q \notin check.apart}} :
       LET cleared == [ClearStale(tables) EXCEPT !.review = [q \in Pairs |-> IF @[q] = "pending" THEN "none" ELSE @[q]]]
           joined == {q \in found \cap Sure : /\ \A r \in found : r \cap q # {} => r = q
                                              /\ q \subseteq Unmerged(tables)}
           waiting == found \ joined
       IN  \E order \in Orders(joined) : \E merged \in InTurn(cleared, order, check.apart) :
             tables' = IF UNION waiting \cap tables.gone = {} THEN Suggested(merged, waiting, "pending")
                       ELSE merged
  /\ check' = NoCheck
  /\ Bounded(tables') /\ UNCHANGED <<corpus, changes>>

NewCorpus(todo) ==
  [apart |-> tables.apart, live |-> Live(tables), retired |-> {}, seen |-> {}, todo |-> todo]

\* findIncrementalPairs.
FoundFor(x, with, refused) ==
  IF x \in with.retired \/ x \notin Live(tables) THEN {}
  ELSE {q \in (Sure \cup Likely) \ refused : /\ x \in q /\ Other(q, x) \in with.live \ with.retired
                                             /\ q \notin with.seen \cup with.apart}

\* persistIncrementalPairs: the sure pairs are merged, in some order, then the rest wait.
Persist(found, known) ==
  \E order \in Orders(found \cap Sure) : \E merged \in InTurn(tables, order, known) :
    /\ \E waiting \in {UNION {NowPair(merged, q, known) : q \in found \cap Likely}} :
         tables' = Suggested(merged, waiting, "pending")
    /\ Bounded(tables')

\* One contact against a corpus, in one stretch.
CheckContact(x, with, refused) ==
  /\ \E found \in {FoundFor(x, with, refused)} :
       /\ Persist(found, with.apart)
       /\ corpus' = LET done == with.todo \ {x}
                    IN  IF done = {} THEN NoCheck
                        ELSE [with EXCEPT !.todo = done, !.seen = @ \cup found,
                                          !.retired = @ \cup {c \in Twins : tables'.into[c] # tables.into[c]}]
  /\ UNCHANGED check

\* runImportScan: its corpus and its first contact, then one contact at a time.
StartImportCheck(x, refused) ==
  /\ Another /\ corpus = NoCheck /\ x \in Arrivals
  /\ \E with \in {NewCorpus(Arrivals)} : CheckContact(x, with, refused)

ImportCheck(x, refused) ==
  /\ corpus # NoCheck /\ x \in corpus.todo
  /\ CheckContact(x, corpus, refused) /\ UNCHANGED changes

\* incrementalDedupeCheck, after a write of x: a corpus of its own.
CheckOne(x, refused) ==
  /\ Another
  /\ \E with \in {NewCorpus({x})} :
       \E found \in {FoundFor(x, with, refused)} : found # {} /\ Persist(found, with.apart)
  /\ UNCHANGED <<check, corpus>>

MergeNext ==
  \/ \E p, d \in Twins : MergeByHand(p, d)
  \/ \E i \in DOMAIN tables.log, keep \in BOOLEAN : UndoMerge(i, keep)
  \/ \E q \in Pairs : KeepSeparate(q) \/ RestoreSuggestion(q)
  \/ \E i \in Touched : EditRow(i) \/ DeleteRow(i)
  \/ \E c \in Twins : DeleteContact(c) \/ RestoreContact(c)
  \/ \E cs \in SUBSET Twins : PurgeTrash(cs)
  \/ \E n \in DOMAIN tables.log : PurgeExpiredMerges(n)
  \/ StartCheck
  \/ \E refused \in SUBSET Likely :
       \/ EndCheck(refused)
       \/ \E x \in Twins : StartImportCheck(x, refused) \/ ImportCheck(x, refused) \/ CheckOne(x, refused)

MergeSpec == MergeInit /\ [][MergeNext]_mergeVars

-----------------------------------------------------------------------------
(* Properties.                                                             *)

\* Whoever follows the merges from c comes to a contact that shows.
LeadsToLive(t, c) ==
  \A S \in SUBSET Twins : c \in S /\ (\A d \in S : t.into[d] \in S \cup {Nobody}) => S \cap Unmerged(t) # {}

\* Every hidden contact can be shown again, and by one entry only: the open entry
\* that names it is of the merge into the contact it is hidden behind, that chain ends
\* at a contact that shows, and no open entry is left of a contact that was purged or
\* shows already.  Merges, undos in any order, and purges with their chains keep this.
MergesCanBeUndone ==
  /\ \A c \in Existing(tables) : tables.into[c] # Nobody =>
       /\ Cardinality({i \in DOMAIN tables.log : IsOpen(tables, i) /\ tables.log[i].duplicate = c}) = 1
       /\ LeadsToLive(tables, c)
  /\ \A i \in DOMAIN tables.log : IsOpen(tables, i) =>
       /\ tables.log[i].duplicate \in Existing(tables)
       /\ tables.into[tables.log[i].duplicate] = tables.log[i].primary

\* docs/duplicates.md:288: the undo of a merge gives the duplicate every record that
\* left it, as it was, whatever was edited, deleted or moved on since, and takes from
\* the primary none that changed, and nothing from any other contact.
UndoGivesBack ==
  [][\A i \in DOMAIN tables.log : IsOpen(tables, i) /\ tables'.log[i] # NoEntry /\ tables'.log[i].undone =>
       LET e == tables.log[i] IN
       /\ \A j \in e.moved : \E k \in On(tables', e.duplicate) : tables'.rows[k] = e.had[j]
       /\ \A k \in DOMAIN tables.rows \ e.moved : tables'.rows[k] = tables.rows[k]
       /\ \A c \in Twins, k \in e.moved :
            k \in On(tables, c) \ On(tables', c) => c = e.primary /\ tables.rows[k].text = e.had[k].text
    ]_mergeVars

NewByCheck(i) ==
  i \in DOMAIN tables'.log \ DOMAIN tables.log /\ tables'.log[i] # NoEntry /\ tables'.log[i].by = "auto"
PairOf(t, i) == {t.log[i].primary, t.log[i].duplicate}

\* A check or an import never merges a pair that was kept apart before it began, also
\* when the contacts it found have become others by the merges it made on its way.
ApartStaysApart ==
  [][\A i \in DOMAIN tables'.log : NewByCheck(i) /\ PairOf(tables', i) \in tables.apart =>
       \/ check # NoCheck /\ PairOf(tables', i) \notin check.apart
       \/ corpus # NoCheck /\ PairOf(tables', i) \notin corpus.apart]_mergeVars

\* docs/duplicates.md:350: once two contacts are marked as different people, nothing
\* merges them by itself.  A check that began before merges them still.
KeptApart ==
  [][\A i \in DOMAIN tables'.log : NewByCheck(i) => PairOf(tables', i) \notin tables.apart]_mergeVars

\* docs/duplicates.md:88: a check skips contacts in the Trash.  One that was deleted
\* while the check ran is merged still, and may hide a contact that shows.
TrashIsSkipped ==
  [][\A i \in DOMAIN tables'.log : NewByCheck(i) => PairOf(tables', i) \cap tables.trash = {}]_mergeVars
=============================================================================
