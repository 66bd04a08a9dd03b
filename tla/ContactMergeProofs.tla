------------------------- MODULE ContactMergeProofs -------------------------
(***************************************************************************)
(* What holds of merges, undos and purges for any contacts, records, pairs *)
(* and orders: every hidden contact can be shown again, an undo gives back *)
(* what the merge took and nothing else, and a check merges no pair that   *)
(* was kept apart before it began.                                         *)
(***************************************************************************)
EXTENDS ContactMerge, FiniteSetTheorems, WellFoundedInduction, TLAPS

LEMMA LeastOf ==
  ASSUME NEW T, T \subseteq Nat, T # {}
  PROVE  \E x \in T : \A y \in T : x <= y
<1> DEFINE R == OpToRel(<, Nat)
<1>1. IsWellFoundedOn(R, Nat) BY NatLessThanWellFounded
<1> HIDE DEF R
<1>2. \E x \in T : \A y \in T : ~(<<y, x>> \in R) BY <1>1, WFMin
<1>3. PICK x \in T : \A y \in T : ~(<<y, x>> \in R) BY <1>2
<1>4. \A y \in T : y < x => <<y, x>> \in R BY DEF R, OpToRel
<1>5. \A y \in T : ~(y < x) BY <1>3, <1>4
<1> QED BY <1>5

-----------------------------------------------------------------------------
(***************************************************************************)
(* The invariant, of any state of the tables.                              *)
(***************************************************************************)
Tables == [into : [Twins -> Twins \cup {Nobody}], gone : SUBSET Twins, trash : SUBSET Twins,
           rows : Seq(RowType \cup {NoRow}), log : Seq(MergeEntry \cup {NoEntry}),
           review : [Pairs -> Statuses], apart : SUBSET Pairs]

\* Who is hidden, and whom he is hidden behind, exist.
HiddenExist(t) == \A c \in Twins : t.into[c] # Nobody => c \notin t.gone /\ t.into[c] \notin t.gone

\* Merges close no cycle.
Ranks(t, rank) == \A c \in Twins : t.into[c] # Nobody => rank[t.into[c]] < rank[c]
NoCycle(t) == \E rank \in [Twins -> Nat] : Ranks(t, rank)

\* An open entry is of a merge that holds, and a contact that is hidden has one such entry.
OpenIsRight(t) ==
  \A i \in DOMAIN t.log : IsOpen(t, i) => /\ t.log[i].duplicate \notin t.gone
                                          /\ t.into[t.log[i].duplicate] = t.log[i].primary
Opens(t, i, c) == i \in DOMAIN t.log /\ IsOpen(t, i) /\ t.log[i].duplicate = c
OneOpen(t) ==
  \A c \in Twins : t.into[c] # Nobody => \E i \in DOMAIN t.log : Opens(t, i, c) /\ \A j \in DOMAIN t.log : Opens(t, j, c) => j = i

\* What an entry moved has its place and was the duplicate's.
SavedIs(e, n) == e.moved \subseteq 1 .. n /\ \A j \in e.moved : j \in DOMAIN e.had /\ e.had[j] \in RowType /\ e.had[j].on = e.duplicate
Saved(t) == \A i \in DOMAIN t.log : t.log[i] # NoEntry => SavedIs(t.log[i], Len(t.rows))

\* Nobody in the Trash was purged.
TrashExists(t) == t.trash \cap t.gone = {}

TablesAreRight(t) ==
  /\ t \in Tables /\ Len(t.rows) <= MaxRows /\ TrashExists(t)
  /\ HiddenExist(t) /\ NoCycle(t) /\ OpenIsRight(t) /\ OneOpen(t) /\ Saved(t)

\* Changes of reviews, of the trash and of what a record says disturb nothing.
LEMMA SameMerges ==
  ASSUME NEW t, NEW u, TablesAreRight(t), u \in Tables, u.into = t.into, u.gone = t.gone, u.log = t.log,
         Len(u.rows) = Len(t.rows), u.trash = t.trash \/ TrashExists(u)
  PROVE  TablesAreRight(u)
<1>1. HiddenExist(u) /\ NoCycle(u) BY DEF TablesAreRight, HiddenExist, NoCycle, Ranks
<1>2. OpenIsRight(u) /\ OneOpen(u) BY DEF TablesAreRight, OpenIsRight, OneOpen, Opens, IsOpen
<1>3. Saved(u) BY DEF TablesAreRight, Saved
<1>4. TrashExists(u) BY DEF TablesAreRight, TrashExists
<1> QED BY <1>1, <1>2, <1>3, <1>4 DEF TablesAreRight

LEMMA Reviewed ==
  ASSUME NEW t \in Tables, NEW r \in [Pairs -> Statuses]
  PROVE  LET u == [t EXCEPT !.review = r]
         IN  u \in Tables /\ u.into = t.into /\ u.gone = t.gone /\ u.log = t.log /\ u.rows = t.rows /\ u.apart = t.apart /\ u.trash = t.trash
BY DEF Tables

LEMMA ClearStaleIs ==
  ASSUME NEW t \in Tables
  PROVE  LET u == ClearStale(t)
         IN  u \in Tables /\ u.into = t.into /\ u.gone = t.gone /\ u.log = t.log /\ u.rows = t.rows /\ u.apart = t.apart /\ u.trash = t.trash
<1>1. PICK r \in [Pairs -> Statuses] : ClearStale(t) = [t EXCEPT !.review = r]
  <2> DEFINE r == [q \in Pairs |-> IF t.review[q] = "pending" /\ ~(q \subseteq Live(t)) THEN "none" ELSE t.review[q]]
  <2>1. r \in [Pairs -> Statuses] BY DEF Tables, Statuses
  <2>2. ClearStale(t) = [t EXCEPT !.review = r] BY DEF ClearStale
  <2> QED BY <2>1, <2>2
<1> QED BY <1>1, Reviewed

LEMMA SuggestedIs ==
  ASSUME NEW t \in Tables, NEW qs, NEW status \in Statuses
  PROVE  LET u == Suggested(t, qs, status)
         IN  u \in Tables /\ u.into = t.into /\ u.gone = t.gone /\ u.log = t.log /\ u.rows = t.rows /\ u.apart = t.apart /\ u.trash = t.trash
<1>1. PICK r \in [Pairs -> Statuses] : Suggested(t, qs, status) = [t EXCEPT !.review = r]
  <2> DEFINE r == [q \in Pairs |-> IF q \in qs /\ t.review[q] = "none" THEN status ELSE t.review[q]]
  <2>1. r \in [Pairs -> Statuses] BY DEF Tables, Statuses
  <2>2. Suggested(t, qs, status) = [t EXCEPT !.review = r] BY DEF Suggested
  <2> QED BY <2>1, <2>2
<1> QED BY <1>1, Reviewed

\* A pair is of two contacts.
LEMMA PairIs ==
  ASSUME NEW q \in Pairs
  PROVE  /\ q \subseteq Twins
         /\ \A p \in q : Other(q, p) \in q /\ Other(q, p) # p /\ q = {p, Other(q, p)}
<1>1. q \subseteq Twins /\ Cardinality(q) = 2 BY DEF Pairs
<1>2. IsFiniteSet(q) BY <1>1, MergeAssumption, FS_Subset
<1>3. ASSUME NEW p \in q PROVE Other(q, p) \in q /\ Other(q, p) # p /\ q = {p, Other(q, p)}
  <2>1. Cardinality(q \ {p}) = 1 /\ IsFiniteSet(q \ {p}) BY <1>1, <1>2, FS_RemoveElement
  <2>2. PICK d : q \ {p} = {d} BY <2>1, FS_Singleton
  <2>3. Other(q, p) \in q /\ Other(q, p) # p BY <2>2 DEF Other
  <2> QED BY <2>2, <2>3
<1> QED BY <1>1, <1>3

LEMMA TwoArePair == ASSUME NEW p \in Twins, NEW d \in Twins, p # d PROVE {p, d} \in Pairs
<1>1. Cardinality({p}) = 1 /\ IsFiniteSet({p}) BY FS_Singleton
<1>2. Cardinality({p} \cup {d}) = 2 BY <1>1, FS_AddElement
<1>3. {p} \cup {d} = {p, d} OBVIOUS
<1> QED BY <1>2, <1>3 DEF Pairs

-----------------------------------------------------------------------------
(***************************************************************************)
(* A merge.                                                                *)
(***************************************************************************)
\* u is t after p took d in.
IsMerge(t, u, p, d, by) ==
  /\ u \in Tables /\ u.into = [t.into EXCEPT ![d] = p] /\ u.gone = t.gone /\ u.apart = t.apart
  /\ Len(u.rows) = Len(t.rows) /\ u.trash = t.trash
  /\ \E e \in MergeEntry : /\ u.log = Append(t.log, e) /\ e.primary = p /\ e.duplicate = d /\ e.by = by
                           /\ ~e.undone /\ SavedIs(e, Len(t.rows))

LEMMA MergedIs ==
  ASSUME NEW t \in Tables, Len(t.rows) <= MaxRows, NEW p \in Twins, NEW d \in Twins, p # d, NEW by \in {"user", "auto"}
  PROVE  IsMerge(t, Merged(t, p, d, by), p, d, by)
<1> DEFINE moved == Joiners(t, p, d)
           had == [i \in On(t, d) |-> t.rows[i]]
           e == [primary |-> p, duplicate |-> d, by |-> by, undone |-> FALSE, moved |-> moved, had |-> had]
           rows == [i \in DOMAIN t.rows |-> IF i \in moved THEN [t.rows[i] EXCEPT !.on = p] ELSE t.rows[i]]
           r == [t.review EXCEPT ![{p, d}] = IF @ = "pending" THEN "merged" ELSE @]
           into == [t.into EXCEPT ![d] = p]
           log == Append(t.log, e)
<1>1. /\ t.rows \in Seq(RowType \cup {NoRow}) /\ DOMAIN t.rows = 1 .. Len(t.rows) /\ Len(t.rows) \in Nat
      /\ \A i \in DOMAIN t.rows : t.rows[i] \in RowType \cup {NoRow}
  BY DEF Tables
<1>2. /\ On(t, d) \subseteq RowPlaces /\ On(t, d) \subseteq DOMAIN t.rows /\ moved \subseteq On(t, d)
      /\ \A i \in On(t, d) : t.rows[i] \in RowType /\ t.rows[i].on = d
  BY <1>1, MergeAssumption DEF On, Joiners, RowPlaces
<1>3. had \in [On(t, d) -> RowType] BY <1>2
<1>4. e \in MergeEntry
  <2>1. had \in UNION {[S -> RowType] : S \in SUBSET RowPlaces} BY <1>2, <1>3
  <2>2. moved \in SUBSET RowPlaces BY <1>2
  <2> HIDE DEF had, moved
  <2> QED BY <2>1, <2>2 DEF MergeEntry
<1>5. SavedIs(e, Len(t.rows))
  <2>1. e.moved = moved /\ e.had = had /\ e.duplicate = d OBVIOUS
  <2>2. \A j \in moved : j \in DOMAIN had /\ had[j] \in RowType /\ had[j].on = d BY <1>2
  <2> HIDE DEF e, had, moved
  <2> QED BY <1>1, <1>2, <2>1, <2>2 DEF SavedIs
<1>6. rows \in Seq(RowType \cup {NoRow}) /\ Len(rows) = Len(t.rows)
  <2>1. \A i \in moved : [t.rows[i] EXCEPT !.on = p] \in RowType BY <1>2 DEF RowType
  <2> HIDE DEF moved
  <2> QED BY <1>1, <2>1
<1>7. r \in [Pairs -> Statuses] BY TwoArePair DEF Tables, Statuses
<1>8. into \in [Twins -> Twins \cup {Nobody}] BY DEF Tables
<1>9. log \in Seq(MergeEntry \cup {NoEntry}) BY <1>4 DEF Tables
<1> DEFINE v == [t EXCEPT !.into = into, !.rows = rows, !.log = log, !.review = r]
<1>10. Merged(t, p, d, by) = ClearStale(v)
  <2>1. v = [t EXCEPT !.into[d] = p,
                      !.rows = [i \in DOMAIN @ |-> IF i \in moved THEN [@[i] EXCEPT !.on = p] ELSE @[i]],
                      !.log = Append(@, e),
                      !.review[{p, d}] = IF @ = "pending" THEN "merged" ELSE @]
    BY DEF Tables
  <2> QED BY <2>1 DEF Merged
<1> HIDE DEF rows, r, into, log
<1>11. v \in Tables /\ v.into = into /\ v.gone = t.gone /\ v.log = log /\ v.rows = rows /\ v.apart = t.apart /\ v.trash = t.trash
  BY <1>6, <1>7, <1>8, <1>9 DEF Tables
<1> HIDE DEF v
<1>12. e.primary = p /\ e.duplicate = d /\ e.by = by /\ ~e.undone OBVIOUS
<1> HIDE DEF e
<1> QED BY <1>4, <1>5, <1>6, <1>10, <1>11, <1>12, ClearStaleIs DEF into, log, IsMerge

\* The contacts merged into c, at any depth, and nobody else.
LEMMA ChainIs ==
  ASSUME NEW t \in Tables, NEW c \in Twins
  PROVE  /\ MergedChain(t, c) \subseteq Existing(t)
         /\ c \in Existing(t) => c \in MergedChain(t, c)
         /\ \A x \in Existing(t) : t.into[x] \in MergedChain(t, c) => x \in MergedChain(t, c)
         /\ \A x \in MergedChain(t, c) : x # c => t.into[x] \in MergedChain(t, c)
<1> DEFINE C == MergedChain(t, c)
           Closed(S) == {c} \cap Existing(t) \subseteq S /\ \A x \in Existing(t) : t.into[x] \in S => x \in S
<1>1. C = {d \in Existing(t) : \A S \in SUBSET Existing(t) : Closed(S) => d \in S} BY DEF MergedChain
<1>2. C \subseteq Existing(t) /\ Closed(C) BY <1>1
<1>3. ASSUME NEW x \in C, x # c PROVE t.into[x] \in C
  <2> SUFFICES ASSUME t.into[x] \notin C PROVE FALSE OBVIOUS
  <2> DEFINE S == C \ {x}
  <2>1. S \in SUBSET Existing(t) BY <1>2
  <2>2. Closed(S) BY <1>2, <1>3
  <2> QED BY <1>1, <2>1, <2>2
<1> QED BY <1>2, <1>3

LEMMA MergedKeeps ==
  ASSUME NEW t, TablesAreRight(t), NEW p \in Twins, NEW d \in Twins, Mergeable(t, p, d), NEW by \in {"user", "auto"}
  PROVE  TablesAreRight(Merged(t, p, d, by))
<1> DEFINE u == Merged(t, p, d, by)
<1>1. t \in Tables /\ p # d /\ Len(t.rows) <= MaxRows /\ p \notin t.gone /\ d \notin t.gone /\ t.into[p] = Nobody /\ t.into[d] = Nobody
  BY DEF TablesAreRight, Mergeable, Unmerged, Existing
<1>2. PICK e \in MergeEntry :
        /\ u \in Tables /\ u.into = [t.into EXCEPT ![d] = p] /\ u.gone = t.gone /\ u.trash = t.trash /\ Len(u.rows) = Len(t.rows)
        /\ u.log = Append(t.log, e) /\ e.primary = p /\ e.duplicate = d /\ ~e.undone /\ SavedIs(e, Len(t.rows))
  <2>1. IsMerge(t, u, p, d, by) BY <1>1, MergedIs
  <2> HIDE DEF u
  <2> QED BY <2>1 DEF IsMerge
<1> HIDE DEF u
<1>3. t.into \in [Twins -> Twins \cup {Nobody}] /\ Nobody \notin Twins BY <1>1, MergeAssumption DEF Tables
<1>4. u.into[d] = p /\ \A c \in Twins \ {d} : u.into[c] = t.into[c] BY <1>2, <1>3
<1>5. /\ Len(t.log) \in Nat /\ DOMAIN t.log = 1 .. Len(t.log) /\ DOMAIN u.log = 1 .. Len(t.log) + 1
      /\ u.log[Len(t.log) + 1] = e /\ \A i \in DOMAIN t.log : u.log[i] = t.log[i]
  BY <1>1, <1>2 DEF Tables
<1>6. e # NoEntry BY MergeAssumption
<1>7. HiddenExist(u) BY <1>1, <1>2, <1>4 DEF TablesAreRight, HiddenExist
<1>8. NoCycle(u)
  <2>1. PICK rank \in [Twins -> Nat] : Ranks(t, rank) BY DEF TablesAreRight, NoCycle
  <2> DEFINE C == MergedChain(t, d)
             above == [c \in Twins |-> IF c \in C THEN rank[c] + rank[p] + 1 ELSE rank[c]]
  <2>2. /\ C \subseteq Existing(t) /\ d \in C
        /\ \A x \in Existing(t) : t.into[x] \in C => x \in C
        /\ \A x \in C : x # d => t.into[x] \in C
    BY <1>1, ChainIs DEF Existing
  <2> HIDE DEF C
  <2>3. p \notin C BY <1>1, <1>3, <2>2 DEF Existing
  <2>4. above \in [Twins -> Nat] OBVIOUS
  <2>5. ASSUME NEW c \in Twins, u.into[c] # Nobody PROVE above[u.into[c]] < above[c]
    <3>1. CASE c = d BY <1>4, <2>2, <2>3, <3>1
    <3>2. CASE c # d
      <4>1. u.into[c] = t.into[c] /\ t.into[c] \in Twins /\ rank[t.into[c]] < rank[c] /\ c \in Existing(t)
        BY <1>3, <1>4, <2>1, <2>5, <3>2 DEF Ranks, TablesAreRight, HiddenExist, Existing
      <4>2. t.into[c] \in C <=> c \in C BY <2>2, <3>2, <4>1
      <4> QED BY <4>1, <4>2
    <3> QED BY <3>1, <3>2
  <2> HIDE DEF above
  <2> QED BY <2>4, <2>5 DEF NoCycle, Ranks
<1>9. \A i \in DOMAIN t.log : t.log[i] # NoEntry => t.log[i].duplicate \in Twins
  BY <1>1 DEF Tables, MergeEntry
<1>10. \A i \in DOMAIN t.log : IsOpen(t, i) => t.log[i].duplicate # d
  BY <1>1, <1>3, <1>9 DEF TablesAreRight, OpenIsRight, IsOpen, Tables, MergeEntry
<1>11. \A i \in DOMAIN u.log : IsOpen(u, i) <=> (i = Len(t.log) + 1 \/ (i \in DOMAIN t.log /\ IsOpen(t, i)))
  BY <1>2, <1>5, <1>6 DEF IsOpen
<1>12. OpenIsRight(u)
  <2> SUFFICES ASSUME NEW i \in DOMAIN u.log, IsOpen(u, i)
               PROVE  u.log[i].duplicate \notin u.gone /\ u.into[u.log[i].duplicate] = u.log[i].primary
    BY DEF OpenIsRight
  <2>1. CASE i = Len(t.log) + 1 BY <1>1, <1>2, <1>4, <1>5, <2>1
  <2>2. CASE i # Len(t.log) + 1
    <3>1. i \in DOMAIN t.log /\ IsOpen(t, i) /\ u.log[i] = t.log[i] BY <1>5, <1>11, <2>2
    <3>2. t.log[i].duplicate \in Twins \ {d} BY <1>9, <1>10, <3>1 DEF IsOpen
    <3> QED BY <1>2, <1>4, <3>1, <3>2 DEF TablesAreRight, OpenIsRight
  <2> QED BY <2>1, <2>2
<1>13. OneOpen(u)
  <2> SUFFICES ASSUME NEW c \in Twins, u.into[c] # Nobody
               PROVE  \E i \in DOMAIN u.log : Opens(u, i, c) /\ \A j \in DOMAIN u.log : Opens(u, j, c) => j = i
    BY DEF OneOpen
  <2>1. CASE c = d
    <3>1. Opens(u, Len(t.log) + 1, c) BY <1>2, <1>5, <1>11, <2>1 DEF Opens
    <3>2. \A j \in DOMAIN u.log : Opens(u, j, c) => j = Len(t.log) + 1 BY <1>5, <1>10, <1>11, <2>1 DEF Opens
    <3> QED BY <1>5, <3>1, <3>2
  <2>2. CASE c # d
    <3>1. PICK i \in DOMAIN t.log : Opens(t, i, c) /\ \A j \in DOMAIN t.log : Opens(t, j, c) => j = i
      BY <1>4, <2>2 DEF TablesAreRight, OneOpen
    <3>2. Opens(u, i, c) BY <1>5, <1>11, <3>1 DEF Opens
    <3>3. \A j \in DOMAIN u.log : Opens(u, j, c) => Opens(t, j, c) BY <1>2, <1>5, <1>11, <2>2 DEF Opens
    <3> QED BY <3>1, <3>2, <3>3 DEF Opens
  <2> QED BY <2>1, <2>2
<1>14. Saved(u)
  <2> SUFFICES ASSUME NEW i \in DOMAIN u.log, u.log[i] # NoEntry PROVE SavedIs(u.log[i], Len(u.rows)) BY DEF Saved
  <2>1. CASE i = Len(t.log) + 1 BY <1>2, <1>5, <2>1
  <2>2. CASE i # Len(t.log) + 1 BY <1>2, <1>5, <2>2 DEF TablesAreRight, Saved
  <2> QED BY <2>1, <2>2
<1>15. TrashExists(u) BY <1>2 DEF TablesAreRight, TrashExists
<1> QED BY <1>1, <1>2, <1>7, <1>8, <1>12, <1>13, <1>14, <1>15 DEF TablesAreRight, u

-----------------------------------------------------------------------------
(***************************************************************************)
(* An undo.                                                                *)
(***************************************************************************)
\* Places have one number each, and every number a place.
LEMMA NthIs ==
  ASSUME NEW S \in SUBSET Nat, IsFiniteSet(S)
  PROVE  /\ Cardinality(S) \in Nat
         /\ \A n \in 1 .. Cardinality(S) : Nth(S, n) \in S
         /\ \A j \in S : \E n \in 1 .. Cardinality(S) : Nth(S, n) = j
<1> DEFINE Upto(j) == {i \in S : i <= j}
           f == [j \in S |-> Cardinality(Upto(j))]
<1>1. Cardinality(S) \in Nat BY FS_CardinalityType
<1>2. ASSUME NEW j \in S PROVE IsFiniteSet(Upto(j)) /\ f[j] \in 1 .. Cardinality(S)
  <2>1. IsFiniteSet(Upto(j)) /\ Cardinality(Upto(j)) <= Cardinality(S) BY FS_Subset
  <2>2. Cardinality(Upto(j)) \in Nat BY <2>1, FS_CardinalityType
  <2>3. j \in Upto(j) OBVIOUS
  <2>4. Cardinality(Upto(j)) # 0 BY <2>1, <2>3, FS_EmptySet
  <2> QED BY <1>1, <2>1, <2>2, <2>4
<1>3. ASSUME NEW j \in S, NEW k \in S, j < k PROVE f[j] < f[k]
  <2>0. \A i \in S : i <= j => i <= k
    <3> SUFFICES ASSUME NEW i \in S, i <= j PROVE i <= k OBVIOUS
    <3>1. i \in Nat /\ j \in Nat /\ k \in Nat OBVIOUS
    <3> QED BY <1>3, <3>1
  <2>1. Upto(j) \in SUBSET Upto(k) BY <2>0
  <2>2. k \in Upto(k) /\ k \notin Upto(j) BY <1>3
  <2>3. IsFiniteSet(Upto(k)) BY <1>2
  <2> HIDE DEF Upto
  <2>4. Cardinality(Upto(j)) <= Cardinality(Upto(k)) /\ Cardinality(Upto(j)) # Cardinality(Upto(k))
    BY <2>1, <2>2, <2>3, FS_Subset
  <2> QED BY <1>2, <2>4
<1>4. \A j, k \in S : f[j] = f[k] => j = k
  <2> SUFFICES ASSUME NEW j \in S, NEW k \in S, f[j] = f[k] PROVE j = k OBVIOUS
  <2>1. f[j] \in Nat /\ f[k] \in Nat /\ j \in Nat /\ k \in Nat BY <1>1, <1>2
  <2>2. ~(j < k) /\ ~(k < j) BY <1>3, <2>1
  <2> QED BY <2>1, <2>2
<1>5. f \in Injection(S, 1 .. Cardinality(S))
  <2>1. f \in [S -> 1 .. Cardinality(S)] BY <1>2
  <2> HIDE DEF f
  <2> QED BY <1>4, <2>1 DEF Injection, IsInjective
<1>6. f \in Surjection(S, 1 .. Cardinality(S))
  <2>1. IsFiniteSet(1 .. Cardinality(S)) /\ Cardinality(1 .. Cardinality(S)) = Cardinality(S) BY <1>1, FS_Interval
  <2> HIDE DEF f
  <2> QED BY <1>5, <2>1, FS_Injection
<1>7. ASSUME NEW n \in 1 .. Cardinality(S) PROVE Nth(S, n) \in S /\ f[Nth(S, n)] = n
  <2>1. \E j \in S : f[j] = n BY <1>6 DEF Surjection
  <2>2. \E j \in S : Cardinality(Upto(j)) = n BY <2>1
  <2> QED BY <2>2 DEF Nth
<1>8. ASSUME NEW j \in S PROVE Nth(S, f[j]) = j BY <1>2, <1>4, <1>7
<1> QED BY <1>1, <1>2, <1>7, <1>8

\* What the undo of e does to the records.
GivesBack(t, r, e) ==
  /\ r \in Seq(RowType \cup {NoRow}) /\ Len(t.rows) <= Len(r)
  /\ \A j \in e.moved : \E k \in DOMAIN r : r[k] = e.had[j]
  /\ \A k \in DOMAIN t.rows \ e.moved : r[k] = t.rows[k]
  /\ \A k \in e.moved : \/ r[k] = t.rows[k]
                        \/ t.rows[k] = NoRow
                        \/ t.rows[k].on = e.primary /\ t.rows[k].text = e.had[k].text

LEMMA RowsBackIs ==
  ASSUME NEW t \in Tables, NEW e \in MergeEntry, SavedIs(e, Len(t.rows))
  PROVE  GivesBack(t, RowsBack(t, e), e)
<1> DEFINE copied == ToCopy(t, e)
           last == Len(t.rows)
           back(j) == IF t.rows[j] = NoRow THEN e.had[j] ELSE [t.rows[j] EXCEPT !.on = e.duplicate]
           r == RowsBack(t, e)
<1>1. last \in Nat /\ DOMAIN t.rows = 1 .. last /\ \A j \in DOMAIN t.rows : t.rows[j] \in RowType \cup {NoRow}
  BY DEF Tables
<1>2. e.moved \subseteq 1 .. last /\ \A j \in e.moved : e.had[j] \in RowType /\ e.had[j].on = e.duplicate BY DEF SavedIs
<1>3. e.primary \in Twins /\ e.duplicate \in Twins BY DEF MergeEntry
<1>4. copied \subseteq e.moved BY DEF ToCopy
<1>5. copied \in SUBSET Nat /\ IsFiniteSet(copied)
  <2>1. IsFiniteSet(1 .. last) BY <1>1, FS_Interval
  <2> QED BY <1>1, <1>2, <1>4, <2>1, FS_Subset
<1>6. /\ Cardinality(copied) \in Nat
      /\ \A n \in 1 .. Cardinality(copied) : Nth(copied, n) \in copied
      /\ \A j \in copied : \E n \in 1 .. Cardinality(copied) : Nth(copied, n) = j
  BY <1>5, NthIs
<1>7. r = [j \in 1 .. last + Cardinality(copied) |->
             IF j > last THEN e.had[Nth(copied, j - last)]
             ELSE IF j \in e.moved \ copied THEN back(j) ELSE t.rows[j]]
  BY DEF RowsBack
<1>8. \A j \in e.moved \ copied : \/ t.rows[j] = NoRow
                                  \/ t.rows[j] = [e.had[j] EXCEPT !.on = e.primary]
  BY DEF ToCopy, Untouched
<1>9. \A j \in e.moved \ copied : back(j) = e.had[j]
  <2> SUFFICES ASSUME NEW j \in e.moved \ copied PROVE back(j) = e.had[j] OBVIOUS
  <2>1. PICK h \in RowType : h = e.had[j] /\ h.on = e.duplicate BY <1>2
  <2>2. CASE t.rows[j] # NoRow
    <3>1. t.rows[j] = [h EXCEPT !.on = e.primary] BY <1>8, <2>1, <2>2
    <3>2. [[h EXCEPT !.on = e.primary] EXCEPT !.on = e.duplicate] = h BY <2>1 DEF RowType
    <3> QED BY <2>1, <2>2, <3>1, <3>2
  <2> QED BY <2>2
<1> HIDE DEF copied, r, back
<1>10. DOMAIN r = 1 .. last + Cardinality(copied) BY <1>7
<1>11. \A k \in 1 .. Cardinality(copied) : r[last + k] = e.had[Nth(copied, k)]
  <2> SUFFICES ASSUME NEW k \in 1 .. Cardinality(copied) PROVE r[last + k] = e.had[Nth(copied, k)] OBVIOUS
  <2>1. last + k \in 1 .. last + Cardinality(copied) /\ last + k > last /\ last + k - last = k BY <1>1, <1>6
  <2> QED BY <1>7, <2>1
<1>12. \A k \in 1 .. last : r[k] = IF k \in e.moved \ copied THEN e.had[k] ELSE t.rows[k]
  BY <1>1, <1>6, <1>7, <1>9
<1>13. \A k \in DOMAIN r : r[k] \in RowType \cup {NoRow}
  <2> SUFFICES ASSUME NEW k \in 1 .. last + Cardinality(copied) PROVE r[k] \in RowType \cup {NoRow} BY <1>10
  <2>1. CASE k \in 1 .. last BY <1>1, <1>2, <1>12, <2>1
  <2>2. CASE k \notin 1 .. last
    <3>1. k - last \in 1 .. Cardinality(copied) /\ last + (k - last) = k BY <1>1, <1>6, <2>2
    <3>2. r[k] = e.had[Nth(copied, k - last)] BY <1>11, <3>1
    <3> QED BY <1>2, <1>4, <1>6, <3>1, <3>2
  <2> QED BY <2>1, <2>2
<1>14. r \in Seq(RowType \cup {NoRow}) /\ Len(r) = last + Cardinality(copied)
  <2>1. r \in [1 .. last + Cardinality(copied) -> RowType \cup {NoRow}] BY <1>7, <1>10, <1>13
  <2> QED BY <1>1, <1>6, <2>1
<1>15. ASSUME NEW j \in e.moved PROVE \E k \in DOMAIN r : r[k] = e.had[j]
  <2>1. CASE j \in copied
    <3>1. PICK n \in 1 .. Cardinality(copied) : Nth(copied, n) = j BY <1>6, <2>1
    <3>2. last + n \in DOMAIN r BY <1>1, <1>6, <1>10
    <3> QED BY <1>11, <3>1, <3>2
  <2>2. CASE j \notin copied
    <3>1. j \in DOMAIN r BY <1>1, <1>2, <1>6, <1>10
    <3> QED BY <1>2, <1>12, <2>2, <3>1
  <2> QED BY <2>1, <2>2
<1>16. ASSUME NEW k \in e.moved
       PROVE  r[k] = t.rows[k] \/ t.rows[k] = NoRow \/ (t.rows[k].on = e.primary /\ t.rows[k].text = e.had[k].text)
  <2>1. CASE k \in copied BY <1>2, <1>12, <2>1
  <2>2. CASE k \notin copied /\ t.rows[k] # NoRow
    <3>1. PICK h \in RowType : h = e.had[k] BY <1>2
    <3>2. t.rows[k] = [h EXCEPT !.on = e.primary] BY <1>8, <2>2, <3>1
    <3>3. [h EXCEPT !.on = e.primary].on = e.primary /\ [h EXCEPT !.on = e.primary].text = h.text BY DEF RowType
    <3> QED BY <3>1, <3>2, <3>3
  <2> QED BY <2>1, <2>2
<1>17. \A k \in DOMAIN t.rows \ e.moved : r[k] = t.rows[k] BY <1>1, <1>12
<1>18. Len(t.rows) <= Len(r) BY <1>1, <1>6, <1>14
<1> QED BY <1>14, <1>15, <1>16, <1>17, <1>18 DEF GivesBack, r

\* u is t after its i-th entry was undone.
IsUndo(t, u, i) ==
  /\ u \in Tables /\ u.gone = t.gone /\ u.trash = t.trash
  /\ u.into = [t.into EXCEPT ![t.log[i].duplicate] = Nobody]
  /\ DOMAIN u.log = DOMAIN t.log /\ u.log[i] = [t.log[i] EXCEPT !.undone = TRUE]
  /\ \A j \in DOMAIN t.log \ {i} : u.log[j] = t.log[j]
  /\ GivesBack(t, u.rows, t.log[i])

LEMMA UndoneIs ==
  ASSUME NEW t, TablesAreRight(t), NEW i \in DOMAIN t.log, IsOpen(t, i), NEW keep
  PROVE  IsUndo(t, Undone(t, i, keep), i)
<1>1. t \in Tables /\ t.log[i] # NoEntry BY DEF TablesAreRight, IsOpen
<1>2. PICK e \in MergeEntry : e = t.log[i] BY <1>1 DEF Tables
<1>3. e.primary \in Twins /\ e.duplicate \in Twins BY DEF MergeEntry
<1>4. SavedIs(e, Len(t.rows)) BY <1>1, <1>2 DEF TablesAreRight, Saved
<1>5. GivesBack(t, RowsBack(t, e), e) BY <1>1, <1>4, RowsBackIs
<1>6. e.primary # e.duplicate
  <2>1. t.into[e.duplicate] = e.primary /\ e.primary # Nobody BY <1>2, <1>3, MergeAssumption DEF TablesAreRight, OpenIsRight
  <2>2. PICK rank \in [Twins -> Nat] : Ranks(t, rank) BY DEF TablesAreRight, NoCycle
  <2>3. rank[e.primary] < rank[e.duplicate] BY <1>3, <2>1, <2>2 DEF Ranks
  <2> QED BY <1>3, <2>3
<1> DEFINE pair == {e.primary, e.duplicate}
           rows == RowsBack(t, e)
           into == [t.into EXCEPT ![e.duplicate] = Nobody]
           log == [t.log EXCEPT ![i] = [e EXCEPT !.undone = TRUE]]
           apart == IF keep THEN t.apart \cup {pair} ELSE t.apart
           r == [t.review EXCEPT ![pair] = IF keep THEN (IF @ = "none" THEN "none" ELSE "dismissed")
                                           ELSE IF @ = "merged" THEN "pending" ELSE @]
<1>7. pair \in Pairs BY <1>3, <1>6, TwoArePair
<1>8. rows \in Seq(RowType \cup {NoRow}) BY <1>5 DEF GivesBack
<1>9. into \in [Twins -> Twins \cup {Nobody}] BY <1>1 DEF Tables
<1>10. log \in Seq(MergeEntry \cup {NoEntry}) /\ DOMAIN log = DOMAIN t.log
  <2>1. [e EXCEPT !.undone = TRUE] \in MergeEntry BY DEF MergeEntry
  <2>2. t.log \in Seq(MergeEntry \cup {NoEntry}) BY <1>1 DEF Tables
  <2> QED BY <2>1, <2>2
<1>11. apart \in SUBSET Pairs BY <1>1, <1>7 DEF Tables
<1>12. r \in [Pairs -> Statuses] BY <1>1, <1>7 DEF Tables, Statuses
<1> DEFINE v == [t EXCEPT !.rows = rows, !.into = into, !.log = log, !.apart = apart, !.review = r]
<1>13. Undone(t, i, keep) = v
  <2>1. [t.log EXCEPT ![i].undone = TRUE] = log BY <1>2
  <2>2. v = [t EXCEPT !.rows = rows,
                      !.into[e.duplicate] = Nobody,
                      !.log[i].undone = TRUE,
                      !.apart = IF keep THEN @ \cup {pair} ELSE @,
                      !.review[pair] = IF keep THEN (IF @ = "none" THEN "none" ELSE "dismissed")
                                       ELSE IF @ = "merged" THEN "pending" ELSE @]
    BY <1>1, <2>1 DEF Tables
  <2> QED BY <1>2, <2>2 DEF Undone
<1>14. log[i] = [t.log[i] EXCEPT !.undone = TRUE] /\ \A j \in DOMAIN t.log \ {i} : log[j] = t.log[j] BY <1>2
<1> HIDE DEF rows, into, log, apart, r
<1>15. v \in Tables /\ v.gone = t.gone /\ v.trash = t.trash /\ v.into = into /\ v.log = log /\ v.rows = rows
  BY <1>1, <1>8, <1>9, <1>10, <1>11, <1>12 DEF Tables
<1> HIDE DEF v
<1> QED BY <1>2, <1>5, <1>10, <1>13, <1>14, <1>15 DEF IsUndo, into, rows

LEMMA UndoKeeps ==
  ASSUME NEW t, TablesAreRight(t), NEW i \in DOMAIN t.log, IsOpen(t, i), NEW u, IsUndo(t, u, i), Len(u.rows) <= MaxRows
  PROVE  TablesAreRight(u)
<1>1. PICK e \in MergeEntry : e = t.log[i] BY DEF TablesAreRight, Tables, IsOpen
<1>2. e.duplicate \in Twins /\ e.primary \in Twins BY DEF MergeEntry
<1>3. /\ u \in Tables /\ u.gone = t.gone /\ u.into[e.duplicate] = Nobody
      /\ \A c \in Twins \ {e.duplicate} : u.into[c] = t.into[c]
  BY <1>1, <1>2 DEF IsUndo, TablesAreRight, Tables
<1>4. DOMAIN u.log = DOMAIN t.log /\ u.log[i] = [e EXCEPT !.undone = TRUE] /\ \A j \in DOMAIN t.log \ {i} : u.log[j] = t.log[j]
  BY <1>1 DEF IsUndo
<1>5. [e EXCEPT !.undone = TRUE].undone /\ \A f \in {"duplicate", "primary", "moved", "had"} : [e EXCEPT !.undone = TRUE][f] = e[f]
  BY DEF MergeEntry
<1>6. ~IsOpen(u, i) BY <1>4, <1>5 DEF IsOpen
<1>7. \A j \in DOMAIN u.log : IsOpen(u, j) => j # i /\ IsOpen(t, j) /\ u.log[j] = t.log[j] BY <1>4, <1>6 DEF IsOpen
<1>8. \A j \in DOMAIN t.log \ {i} : IsOpen(t, j) => IsOpen(u, j) BY <1>4 DEF IsOpen
<1>9. t.into[e.duplicate] # Nobody BY <1>1, <1>2, MergeAssumption DEF TablesAreRight, OpenIsRight
<1>10. \A j \in DOMAIN t.log : Opens(t, j, e.duplicate) => j = i
  <2>1. Opens(t, i, e.duplicate) BY <1>1 DEF Opens
  <2>2. PICK k \in DOMAIN t.log : \A j \in DOMAIN t.log : Opens(t, j, e.duplicate) => j = k
    BY <1>2, <1>9 DEF TablesAreRight, OneOpen
  <2> QED BY <2>1, <2>2
<1>11. HiddenExist(u) BY <1>3 DEF TablesAreRight, HiddenExist
<1>12. NoCycle(u)
  <2>1. PICK rank \in [Twins -> Nat] : Ranks(t, rank) BY DEF TablesAreRight, NoCycle
  <2>2. Ranks(u, rank) BY <1>3, <2>1 DEF Ranks
  <2> QED BY <2>2 DEF NoCycle
<1>13. OpenIsRight(u)
  <2> SUFFICES ASSUME NEW j \in DOMAIN u.log, IsOpen(u, j)
               PROVE  u.log[j].duplicate \notin u.gone /\ u.into[u.log[j].duplicate] = u.log[j].primary
    BY DEF OpenIsRight
  <2>1. j \in DOMAIN t.log /\ IsOpen(t, j) /\ u.log[j] = t.log[j] /\ j # i BY <1>4, <1>7
  <2>2. t.log[j].duplicate \in Twins BY <2>1 DEF IsOpen, TablesAreRight, Tables, MergeEntry
  <2>3. t.log[j].duplicate # e.duplicate BY <1>10, <2>1 DEF Opens
  <2> QED BY <1>3, <2>1, <2>2, <2>3 DEF TablesAreRight, OpenIsRight
<1>14. OneOpen(u)
  <2> SUFFICES ASSUME NEW c \in Twins, u.into[c] # Nobody
               PROVE  \E k \in DOMAIN u.log : Opens(u, k, c) /\ \A j \in DOMAIN u.log : Opens(u, j, c) => j = k
    BY DEF OneOpen
  <2>1. c # e.duplicate /\ t.into[c] # Nobody BY <1>3
  <2>2. PICK k \in DOMAIN t.log : Opens(t, k, c) /\ \A j \in DOMAIN t.log : Opens(t, j, c) => j = k
    BY <2>1 DEF TablesAreRight, OneOpen
  <2>3. k # i BY <1>1, <2>1, <2>2 DEF Opens
  <2>4. Opens(u, k, c) BY <1>4, <1>8, <2>2, <2>3 DEF Opens
  <2>5. \A j \in DOMAIN u.log : Opens(u, j, c) => Opens(t, j, c) BY <1>4, <1>7 DEF Opens
  <2> QED BY <1>4, <2>2, <2>4, <2>5
<1>15. Saved(u)
  <2>1. Len(t.rows) <= Len(u.rows) /\ Len(t.rows) \in Nat /\ Len(u.rows) \in Nat BY <1>3 DEF IsUndo, GivesBack, TablesAreRight, Tables
  <2> SUFFICES ASSUME NEW j \in DOMAIN u.log, u.log[j] # NoEntry PROVE SavedIs(u.log[j], Len(u.rows)) BY DEF Saved
  <2>2. SavedIs(t.log[j], Len(t.rows)) BY <1>1, <1>4, MergeAssumption DEF TablesAreRight, Saved
  <2>3. \A f \in {"duplicate", "moved", "had"} : u.log[j][f] = t.log[j][f] BY <1>1, <1>4, <1>5
  <2>4. u.log[j].duplicate = t.log[j].duplicate /\ u.log[j].moved = t.log[j].moved /\ u.log[j].had = t.log[j].had BY <2>3
  <2>5. 1 .. Len(t.rows) \subseteq 1 .. Len(u.rows) BY <2>1
  <2> QED BY <2>2, <2>4, <2>5 DEF SavedIs
<1>16. TrashExists(u) BY DEF IsUndo, TablesAreRight, TrashExists
<1> QED BY <1>3, <1>11, <1>12, <1>13, <1>14, <1>15, <1>16 DEF TablesAreRight

-----------------------------------------------------------------------------
(***************************************************************************)
(* A purge.                                                                *)
(***************************************************************************)
\* With the dead goes who is merged into one of them.
ClosedIn(t, dead) == dead \subseteq Existing(t) /\ \A c \in Existing(t) : t.into[c] \in dead => c \in dead

LEMMA ChainsAreClosed ==
  ASSUME NEW t \in Tables, NEW cs \in SUBSET Twins
  PROVE  ClosedIn(t, UNION {MergedChain(t, c) : c \in cs})
<1>1. \A c \in cs : /\ MergedChain(t, c) \subseteq Existing(t)
                    /\ \A x \in Existing(t) : t.into[x] \in MergedChain(t, c) => x \in MergedChain(t, c)
  BY ChainIs
<1> QED BY <1>1 DEF ClosedIn

IsPurge(t, u, dead) ==
  /\ u \in Tables /\ u.gone = t.gone \cup dead /\ u.trash = t.trash \ dead /\ Len(u.rows) = Len(t.rows)
  /\ u.into = [c \in Twins |-> IF c \in dead THEN Nobody ELSE t.into[c]]
  /\ DOMAIN u.log = DOMAIN t.log
  /\ \A i \in DOMAIN t.log : /\ u.log[i] \in {NoEntry, t.log[i]}
                             /\ u.log[i] # NoEntry => {t.log[i].primary, t.log[i].duplicate} \cap dead = {}
                             /\ IsOpen(t, i) /\ t.log[i].duplicate \notin dead => u.log[i] = t.log[i]

LEMMA PurgeKeeps ==
  ASSUME NEW t, TablesAreRight(t), NEW dead, ClosedIn(t, dead), NEW u, IsPurge(t, u, dead)
  PROVE  TablesAreRight(u)
<1>1. dead \subseteq Existing(t) /\ Nobody \notin Twins /\ Existing(t) = Twins \ t.gone
  BY MergeAssumption DEF ClosedIn, Existing
<1>2. \A c \in Twins : u.into[c] = IF c \in dead THEN Nobody ELSE t.into[c] BY DEF IsPurge
<1>3. ASSUME NEW c \in Twins, u.into[c] # Nobody
      PROVE  c \notin dead /\ u.into[c] = t.into[c] /\ c \in Existing(t) /\ t.into[c] \in Existing(t) \ dead
  <2>1. c \notin dead /\ u.into[c] = t.into[c] /\ t.into[c] # Nobody BY <1>2, <1>3
  <2>2. c \notin t.gone /\ t.into[c] \notin t.gone /\ t.into[c] \in Twins BY <2>1 DEF TablesAreRight, HiddenExist, Tables
  <2>3. t.into[c] \notin dead BY <1>1, <2>1, <2>2 DEF ClosedIn
  <2> QED BY <1>1, <2>1, <2>2, <2>3
<1>4. HiddenExist(u) BY <1>1, <1>3 DEF HiddenExist, IsPurge
<1>5. NoCycle(u)
  <2>1. PICK rank \in [Twins -> Nat] : Ranks(t, rank) BY DEF TablesAreRight, NoCycle
  <2>2. Ranks(u, rank) BY <1>1, <1>2, <1>3, <2>1 DEF Ranks
  <2> QED BY <2>2 DEF NoCycle
<1>6. \A i \in DOMAIN u.log : u.log[i] # NoEntry => u.log[i] = t.log[i] BY DEF IsPurge
<1>7. \A i \in DOMAIN u.log : IsOpen(u, i) => IsOpen(t, i) /\ u.log[i] = t.log[i] BY <1>6 DEF IsOpen
<1>8. OpenIsRight(u)
  <2> SUFFICES ASSUME NEW i \in DOMAIN u.log, IsOpen(u, i)
               PROVE  u.log[i].duplicate \notin u.gone /\ u.into[u.log[i].duplicate] = u.log[i].primary
    BY DEF OpenIsRight
  <2>1. i \in DOMAIN t.log /\ IsOpen(t, i) /\ u.log[i] = t.log[i] /\ u.log[i] # NoEntry BY <1>7 DEF IsPurge, IsOpen
  <2>2. t.log[i].duplicate \notin dead BY <2>1 DEF IsPurge
  <2>3. t.log[i].duplicate \in Twins BY <2>1 DEF IsOpen, TablesAreRight, Tables, MergeEntry
  <2> QED BY <1>2, <2>1, <2>2, <2>3 DEF TablesAreRight, OpenIsRight, IsPurge
<1>9. OneOpen(u)
  <2> SUFFICES ASSUME NEW c \in Twins, u.into[c] # Nobody
               PROVE  \E k \in DOMAIN u.log : Opens(u, k, c) /\ \A j \in DOMAIN u.log : Opens(u, j, c) => j = k
    BY DEF OneOpen
  <2>1. c \notin dead /\ t.into[c] # Nobody BY <1>3
  <2>2. PICK k \in DOMAIN t.log : Opens(t, k, c) /\ \A j \in DOMAIN t.log : Opens(t, j, c) => j = k
    BY <2>1 DEF TablesAreRight, OneOpen
  <2>3. u.log[k] = t.log[k] BY <2>1, <2>2 DEF Opens, IsPurge
  <2>4. Opens(u, k, c) BY <2>2, <2>3 DEF Opens, IsOpen, IsPurge
  <2>5. \A j \in DOMAIN u.log : Opens(u, j, c) => Opens(t, j, c) BY <1>7 DEF Opens, IsPurge
  <2> QED BY <2>2, <2>4, <2>5 DEF IsPurge
<1>10. Saved(u) BY <1>6 DEF Saved, TablesAreRight, IsPurge
<1>11. TrashExists(u) BY DEF IsPurge, TablesAreRight, TrashExists
<1> QED BY <1>4, <1>5, <1>8, <1>9, <1>10, <1>11 DEF TablesAreRight, IsPurge

LEMMA PurgedIs ==
  ASSUME NEW t, TablesAreRight(t), NEW cs \in SUBSET Twins
  PROVE  IsPurge(t, Purged(t, cs), UNION {MergedChain(t, c) : c \in cs})
<1> DEFINE dead == UNION {MergedChain(t, c) : c \in cs}
           into == [c \in Twins |-> IF c \in dead THEN Nobody ELSE t.into[c]]
           rows == [i \in DOMAIN t.rows |-> IF t.rows[i] # NoRow /\ t.rows[i].on \in dead THEN NoRow ELSE t.rows[i]]
           log == [i \in DOMAIN t.log |-> IF t.log[i] # NoEntry /\ {t.log[i].primary, t.log[i].duplicate} \cap dead # {}
                                          THEN NoEntry ELSE t.log[i]]
           r == [q \in Pairs |-> IF q \cap dead # {} THEN "none" ELSE t.review[q]]
           apart == {q \in t.apart : q \cap dead = {}}
           v == [t EXCEPT !.gone = t.gone \cup dead, !.trash = t.trash \ dead, !.into = into, !.rows = rows, !.log = log,
                          !.review = r, !.apart = apart]
<1>1. t \in Tables BY DEF TablesAreRight
<1>2. ClosedIn(t, dead) BY <1>1, ChainsAreClosed
<1>3. Purged(t, cs) = v BY <1>1 DEF Purged, Tables
<1> HIDE DEF dead
<1>4. dead \subseteq Twins BY <1>2 DEF ClosedIn, Existing
<1>5. into \in [Twins -> Twins \cup {Nobody}] BY <1>1 DEF Tables
<1>6. rows \in Seq(RowType \cup {NoRow}) /\ Len(rows) = Len(t.rows)
  <2>1. t.rows \in Seq(RowType \cup {NoRow}) BY <1>1 DEF Tables
  <2> QED BY <2>1
<1>7. log \in Seq(MergeEntry \cup {NoEntry}) /\ DOMAIN log = DOMAIN t.log
  <2>1. t.log \in Seq(MergeEntry \cup {NoEntry}) BY <1>1 DEF Tables
  <2> QED BY <2>1
<1>8. r \in [Pairs -> Statuses] BY <1>1 DEF Tables, Statuses
<1>9. apart \in SUBSET Pairs BY <1>1 DEF Tables
<1>10. \A i \in DOMAIN t.log : /\ log[i] \in {NoEntry, t.log[i]}
                               /\ log[i] # NoEntry => {t.log[i].primary, t.log[i].duplicate} \cap dead = {}
                               /\ IsOpen(t, i) /\ t.log[i].duplicate \notin dead => log[i] = t.log[i]
  <2> SUFFICES ASSUME NEW i \in DOMAIN t.log, IsOpen(t, i), t.log[i].duplicate \notin dead PROVE log[i] = t.log[i]
    OBVIOUS
  <2>1. t.log[i] \in MergeEntry BY <1>1 DEF IsOpen, Tables
  <2>2. t.log[i].duplicate \in Existing(t) /\ t.into[t.log[i].duplicate] = t.log[i].primary
    BY <2>1 DEF TablesAreRight, OpenIsRight, Existing, MergeEntry
  <2>3. t.log[i].primary \notin dead BY <1>2, <2>2 DEF ClosedIn
  <2> QED BY <2>3
<1> HIDE DEF into, rows, log, r, apart
<1>11. v \in Tables /\ v.gone = t.gone \cup dead /\ v.trash = t.trash \ dead /\ v.into = into /\ v.rows = rows /\ v.log = log
  BY <1>1, <1>4, <1>5, <1>6, <1>7, <1>8, <1>9 DEF Tables
<1> HIDE DEF v
<1> QED BY <1>3, <1>6, <1>7, <1>10, <1>11 DEF IsPurge, into, dead

LEMMA ExpiredIs ==
  ASSUME NEW t, TablesAreRight(t), NEW n \in DOMAIN t.log
  PROVE  \E dead : ClosedIn(t, dead) /\ IsPurge(t, Expired(t, n), dead)
<1> DEFINE hidden == {c \in Existing(t) : /\ t.into[c] # Nobody
                                          /\ \A i \in DOMAIN t.log : i > n /\ IsOpen(t, i) => t.log[i].duplicate # c}
           dead == UNION {MergedChain(t, c) : c \in hidden}
           p == Purged(t, hidden)
           log == [i \in DOMAIN p.log |-> IF i <= n THEN NoEntry ELSE p.log[i]]
           u == [p EXCEPT !.log = log]
<1>1. t \in Tables /\ hidden \in SUBSET Twins BY DEF TablesAreRight, Existing
<1>2. ClosedIn(t, dead) /\ IsPurge(t, p, dead) BY <1>1, PurgedIs, ChainsAreClosed
<1>3. Expired(t, n) = u BY DEF Expired
<1>4. \A c \in hidden : c \in dead
  <2> SUFFICES ASSUME NEW c \in hidden PROVE c \in MergedChain(t, c) OBVIOUS
  <2> QED BY <1>1, ChainIs
<1> HIDE DEF dead, p
<1>5. p \in Tables /\ DOMAIN p.log = DOMAIN t.log BY <1>2 DEF IsPurge
<1>6. log \in Seq(MergeEntry \cup {NoEntry}) /\ DOMAIN log = DOMAIN t.log
  <2>1. p.log \in Seq(MergeEntry \cup {NoEntry}) BY <1>5 DEF Tables
  <2> QED BY <1>5, <2>1
<1>7. ASSUME NEW i \in DOMAIN t.log
      PROVE  /\ log[i] \in {NoEntry, t.log[i]}
             /\ log[i] # NoEntry => {t.log[i].primary, t.log[i].duplicate} \cap dead = {}
             /\ IsOpen(t, i) /\ t.log[i].duplicate \notin dead => log[i] = t.log[i]
  <2>1. log[i] \in {NoEntry, p.log[i]} BY <1>5
  <2>2. /\ p.log[i] \in {NoEntry, t.log[i]}
        /\ p.log[i] # NoEntry => {t.log[i].primary, t.log[i].duplicate} \cap dead = {}
    BY <1>2 DEF IsPurge
  <2>3. ASSUME IsOpen(t, i), t.log[i].duplicate \notin dead PROVE log[i] = t.log[i]
    <3> DEFINE c == t.log[i].duplicate
    <3>1. t.log[i] \in MergeEntry BY <1>1, <2>3 DEF IsOpen, Tables
    <3>2. c \in Existing(t) /\ c \in Twins /\ t.into[c] # Nobody
      BY <2>3, <3>1, MergeAssumption DEF TablesAreRight, OpenIsRight, Existing, MergeEntry
    <3>3. c \notin hidden BY <1>4, <2>3
    <3>4. PICK j \in DOMAIN t.log : j > n /\ IsOpen(t, j) /\ t.log[j].duplicate = c BY <3>2, <3>3
    <3>5. j = i
      <4>1. Opens(t, j, c) /\ Opens(t, i, c) BY <2>3, <3>4 DEF Opens
      <4>2. PICK k \in DOMAIN t.log : \A m \in DOMAIN t.log : Opens(t, m, c) => m = k
        BY <3>2 DEF TablesAreRight, OneOpen
      <4> QED BY <4>1, <4>2
    <3>6. log[i] = p.log[i]
      <4>1. i \in Nat /\ n \in Nat BY <1>1 DEF Tables
      <4> QED BY <1>5, <3>4, <3>5, <4>1
    <3>7. p.log[i] = t.log[i] BY <1>2, <2>3 DEF IsPurge
    <3> QED BY <3>6, <3>7
  <2> HIDE DEF log
  <2> QED BY <2>1, <2>2, <2>3
<1> HIDE DEF log, hidden
<1>8. u \in Tables /\ u.log = log /\ u.gone = p.gone /\ u.trash = p.trash /\ u.into = p.into /\ u.rows = p.rows BY <1>5, <1>6 DEF Tables
<1> HIDE DEF u
<1>9. IsPurge(t, u, dead) BY <1>2, <1>6, <1>7, <1>8 DEF IsPurge
<1> QED BY <1>2, <1>3, <1>9

-----------------------------------------------------------------------------
(***************************************************************************)
(* The merges of a check.                                                  *)
(***************************************************************************)
\* The log of u is that of t and of merges of pairs not known to be apart.
Grown(t, u, known) ==
  /\ DOMAIN t.log \subseteq DOMAIN u.log /\ \A i \in DOMAIN t.log : u.log[i] = t.log[i]
  /\ \A i \in DOMAIN u.log \ DOMAIN t.log : PairOf(u, i) \notin known

LEMMA NowPairIs ==
  ASSUME NEW t \in Tables, NEW q, NEW known, NEW pair \in NowPair(t, q, known)
  PROVE  pair \in Pairs /\ pair \notin known /\ pair \subseteq Unmerged(t)
<1>1. \A c : LiveContactId(t, c) \in Unmerged(t) \cup {Nobody} BY DEF LiveContactId
<1>2. pair = {LiveContactId(t, c) : c \in q} /\ pair \in Pairs /\ pair \notin known BY DEF NowPair
<1>3. pair \subseteq Twins /\ Nobody \notin Twins BY <1>2, PairIs, MergeAssumption
<1> QED BY <1>1, <1>2, <1>3

LEMMA BySelfKeeps ==
  ASSUME NEW t, TablesAreRight(t), NEW q \in Pairs, q \subseteq Unmerged(t), NEW known, q \notin known,
         NEW u \in MergedBySelf(t, q)
  PROVE  TablesAreRight(u) /\ Grown(t, u, known)
<1>1. PICK p \in q : u = Suggested(Merged(t, p, Other(q, p), "auto"), {q}, "merged") BY DEF MergedBySelf
<1>2. PICK d \in q : d = Other(q, p) /\ d # p /\ q = {p, d} BY PairIs
<1>3. p \in Twins /\ d \in Twins BY PairIs
<1>4. Mergeable(t, p, d) /\ t \in Tables /\ Len(t.rows) <= MaxRows BY <1>2 DEF Mergeable, TablesAreRight
<1>5. PICK m : m = Merged(t, p, d, "auto") OBVIOUS
<1>6. TablesAreRight(m) BY <1>3, <1>4, <1>5, MergedKeeps
<1>7. IsMerge(t, m, p, d, "auto") BY <1>2, <1>3, <1>4, <1>5, MergedIs
<1>8. u = Suggested(m, {q}, "merged") /\ m \in Tables /\ "merged" \in Statuses BY <1>1, <1>2, <1>5, <1>6 DEF TablesAreRight, Statuses
<1>9. u \in Tables /\ u.into = m.into /\ u.gone = m.gone /\ u.log = m.log /\ u.rows = m.rows /\ u.trash = m.trash BY <1>8, SuggestedIs
<1>10. TablesAreRight(u) BY <1>6, <1>9, SameMerges
<1>11. PICK e \in MergeEntry : m.log = Append(t.log, e) /\ e.primary = p /\ e.duplicate = d BY <1>7 DEF IsMerge
<1>12. /\ DOMAIN t.log = 1 .. Len(t.log) /\ Len(t.log) \in Nat /\ DOMAIN m.log = 1 .. Len(t.log) + 1
       /\ \A i \in DOMAIN t.log : m.log[i] = t.log[i]
       /\ m.log[Len(t.log) + 1] = e
  BY <1>4, <1>11 DEF Tables
<1>13. \A i \in DOMAIN m.log \ DOMAIN t.log : i = Len(t.log) + 1 BY <1>12
<1>14. \A i \in DOMAIN u.log \ DOMAIN t.log : PairOf(u, i) = q BY <1>2, <1>9, <1>11, <1>12, <1>13 DEF PairOf
<1>15. Grown(t, u, known) BY <1>9, <1>12, <1>14 DEF Grown
<1> QED BY <1>10, <1>15

LEMMA PairMergedKeeps ==
  ASSUME NEW t, TablesAreRight(t), NEW q, NEW known, NEW u \in PairMerged(t, q, known)
  PROVE  TablesAreRight(u) /\ Grown(t, u, known)
<1>1. CASE NowPair(t, q, known) = {}
  <2>1. u = t BY <1>1 DEF PairMerged
  <2> QED BY <2>1 DEF Grown
<1>2. CASE NowPair(t, q, known) # {}
  <2>1. PICK pair \in NowPair(t, q, known) : u \in MergedBySelf(t, pair) BY <1>2 DEF PairMerged
  <2>2. pair \in Pairs /\ pair \notin known /\ pair \subseteq Unmerged(t) BY NowPairIs DEF TablesAreRight
  <2> QED BY <2>1, <2>2, BySelfKeeps
<1> QED BY <1>1, <1>2

LEMMA GrownTwice ==
  ASSUME NEW t, NEW u, NEW w, NEW known, Grown(t, u, known), Grown(u, w, known) PROVE Grown(t, w, known)
BY DEF Grown, PairOf

\* By the least number of merges after which it would be otherwise.
LEMMA InTurnKeeps ==
  ASSUME NEW t, TablesAreRight(t), NEW S, IsFiniteSet(S), NEW order \in Orders(S), NEW known, NEW u \in InTurn(t, order, known)
  PROVE  TablesAreRight(u) /\ Grown(t, u, known)
<1> DEFINE Step(f, n) == IF n = 0 THEN {t} ELSE UNION {PairMerged(w, order[n], known) : w \in f[n - 1]}
           Recurses(f, n) == f = [i \in 0 .. n |-> Step(f, i)]
<1>1. \A n \in Nat : \E f : Recurses(f, n)
  <2> DEFINE T == {n \in Nat : ~\E f : Recurses(f, n)}
  <2> SUFFICES ASSUME T # {} PROVE FALSE OBVIOUS
  <2>1. T \subseteq Nat OBVIOUS
  <2> HIDE DEF T
  <2>2. PICK n \in T : \A m \in T : n <= m BY <2>1, LeastOf
  <2>3. CASE n = 0
    <3> DEFINE f == [i \in 0 .. 0 |-> {t}]
    <3>1. Recurses(f, 0) OBVIOUS
    <3> QED BY <2>2, <2>3, <3>1 DEF T
  <2>4. CASE n # 0
    <3>1. n - 1 \in Nat /\ n - 1 \notin T BY <2>1, <2>2, <2>4
    <3>2. PICK g : Recurses(g, n - 1) BY <3>1 DEF T
    <3> DEFINE f == [i \in 0 .. n |-> IF i = n THEN Step(g, n) ELSE g[i]]
    <3>3. ASSUME NEW i \in 0 .. n PROVE f[i] = Step(f, i)
      <4>1. CASE i = n
        <5>1. f[n - 1] = g[n - 1] BY <2>1, <2>2, <2>4
        <5> QED BY <2>4, <4>1, <5>1
      <4>2. CASE i # n
        <5>1. i \in 0 .. n - 1 BY <2>1, <2>2, <4>2
        <5>2. g[i] = Step(g, i) BY <3>2, <5>1
        <5>3. i # 0 => f[i - 1] = g[i - 1] BY <2>1, <2>2, <5>1
        <5> QED BY <4>2, <5>2, <5>3
      <4> QED BY <4>1, <4>2
    <3>4. Recurses(f, n) BY <3>3
    <3> HIDE DEF f
    <3> QED BY <2>2, <3>4 DEF T
  <2> QED BY <2>3, <2>4
<1>2. Len(order) \in Nat
  <2>1. Cardinality(S) \in Nat BY FS_CardinalityType
  <2>2. order \in [1 .. Cardinality(S) -> S] BY DEF Orders
  <2>3. order \in Seq(S) BY <2>1, <2>2
  <2> QED BY <2>3
<1>3. PICK f : Recurses(f, Len(order)) /\ InTurn(t, order, known) = f[Len(order)]
  <2>1. \E f : Recurses(f, Len(order)) BY <1>1, <1>2
  <2> DEFINE F == CHOOSE f : Recurses(f, Len(order))
  <2>2. Recurses(F, Len(order)) BY <2>1
  <2>3. InTurn(t, order, known) = F[Len(order)] BY DEF InTurn
  <2> HIDE DEF F
  <2> QED BY <2>2, <2>3
<1> DEFINE Right(w) == TablesAreRight(w) /\ Grown(t, w, known)
           T == {n \in 0 .. Len(order) : ~\A w \in f[n] : Right(w)}
<1>4. T = {}
  <2> SUFFICES ASSUME T # {} PROVE FALSE OBVIOUS
  <2>1. T \subseteq Nat BY <1>2
  <2> HIDE DEF T
  <2>2. PICK n \in T : \A m \in T : n <= m BY <2>1, LeastOf
  <2>3. n \in 0 .. Len(order) /\ n \in Nat BY <1>2, <2>2 DEF T
  <2>4. PICK w \in f[n] : ~Right(w) BY <2>2 DEF T
  <2>5. f[n] = Step(f, n) BY <1>3, <2>3
  <2>6. CASE n = 0
    <3>1. w = t BY <2>4, <2>5, <2>6
    <3>2. Grown(t, t, known) BY DEF Grown
    <3> QED BY <2>4, <3>1, <3>2
  <2>7. CASE n # 0
    <3>1. n - 1 \in 0 .. Len(order) /\ n - 1 \notin T BY <1>2, <2>1, <2>2, <2>3, <2>7
    <3>2. \A v \in f[n - 1] : Right(v) BY <3>1 DEF T
    <3>3. PICK v \in f[n - 1] : w \in PairMerged(v, order[n], known) BY <2>4, <2>5, <2>7
    <3>4. Right(v) BY <3>2, <3>3
    <3>5. TablesAreRight(w) /\ Grown(v, w, known) BY <3>3, <3>4, PairMergedKeeps
    <3>6. Right(w) BY <3>4, <3>5, GrownTwice
    <3> QED BY <2>4, <3>6
  <2> QED BY <2>6, <2>7
<1>5. Len(order) \in 0 .. Len(order) BY <1>2
<1>6. \A w \in f[Len(order)] : Right(w) BY <1>4, <1>5
<1> QED BY <1>3, <1>6

-----------------------------------------------------------------------------
(***************************************************************************)
(* The steps.                                                              *)
(***************************************************************************)
MergesAreRight == TablesAreRight(tables)

\* Entries stay or go.
LogStays == DOMAIN tables'.log = DOMAIN tables.log /\ \A i \in DOMAIN tables.log : tables'.log[i] \in {NoEntry, tables.log[i]}
Undoes == \E i \in DOMAIN tables.log : IsOpen(tables, i) /\ IsUndo(tables, tables', i)
MergesByHand ==
  Grown(tables, tables', {}) /\ \A i \in DOMAIN tables'.log \ DOMAIN tables.log : tables'.log[i].by = "user"

\* A check's merges are of no pair kept apart when it began.
MergesByCheck ==
  \/ Grown(tables, tables', tables.apart)
  \/ check # NoCheck /\ Grown(tables, tables', check.apart)
  \/ corpus # NoCheck /\ Grown(tables, tables', corpus.apart)

MergeStep == LogStays \/ Undoes \/ MergesByHand \/ MergesByCheck

LEMMA MergesRightInit == MergeInit => MergesAreRight
<1> SUFFICES ASSUME MergeInit PROVE TablesAreRight(tables) BY DEF MergesAreRight
<1>1. /\ tables.into = [c \in Twins |-> Nobody] /\ tables.rows = FirstRows /\ tables.log = <<>> /\ tables.gone = {}
      /\ tables \in Tables /\ Len(FirstRows) <= MaxRows
  <2>1. FirstRows \in Seq(RowType \cup {NoRow}) /\ Len(FirstRows) <= MaxRows BY MergeAssumption
  <2> QED BY <2>1 DEF MergeInit, Tables, Statuses
<1>2. DOMAIN tables.log = {} BY <1>1
<1>3. NoCycle(tables)
  <2>1. [c \in Twins |-> 0] \in [Twins -> Nat] OBVIOUS
  <2>2. Ranks(tables, [c \in Twins |-> 0]) BY <1>1 DEF Ranks
  <2> QED BY <2>1, <2>2 DEF NoCycle
<1> QED BY <1>1, <1>2, <1>3 DEF TablesAreRight, HiddenExist, TrashExists, OpenIsRight, OneOpen, Saved

LEMMA ByHandKeeps ==
  ASSUME MergesAreRight, NEW p \in Twins, NEW d \in Twins, MergeByHand(p, d) PROVE MergesAreRight' /\ MergeStep
<1>1. Mergeable(tables, p, d) /\ tables' = Merged(tables, p, d, "user") /\ p # d BY DEF MergeByHand, Mergeable
<1>2. tables \in Tables /\ Len(tables.rows) <= MaxRows BY DEF MergesAreRight, TablesAreRight
<1>3. TablesAreRight(tables') BY <1>1, MergedKeeps DEF MergesAreRight
<1>4. IsMerge(tables, tables', p, d, "user") BY <1>1, <1>2, MergedIs
<1>5. PICK e \in MergeEntry : tables'.log = Append(tables.log, e) /\ e.by = "user" BY <1>4 DEF IsMerge
<1>6. /\ DOMAIN tables.log = 1 .. Len(tables.log) /\ Len(tables.log) \in Nat /\ DOMAIN tables'.log = 1 .. Len(tables.log) + 1
      /\ \A i \in DOMAIN tables.log : tables'.log[i] = tables.log[i]
      /\ tables'.log[Len(tables.log) + 1] = e
  BY <1>2, <1>5 DEF Tables
<1>7. \A i \in DOMAIN tables'.log \ DOMAIN tables.log : i = Len(tables.log) + 1 BY <1>6
<1>8. MergesByHand BY <1>5, <1>6, <1>7 DEF MergesByHand, Grown
<1> QED BY <1>3, <1>8 DEF MergesAreRight, MergeStep

LEMMA UndoMergeKeeps ==
  ASSUME MergesAreRight, NEW i \in DOMAIN tables.log, NEW keep \in BOOLEAN, UndoMerge(i, keep) PROVE MergesAreRight' /\ MergeStep
<1>1. IsOpen(tables, i) /\ tables' = Undone(tables, i, keep) /\ Len(tables'.rows) <= MaxRows BY DEF UndoMerge, Bounded
<1>2. IsUndo(tables, tables', i) BY <1>1, UndoneIs DEF MergesAreRight
<1>3. TablesAreRight(tables') BY <1>1, <1>2, UndoKeeps DEF MergesAreRight
<1> QED BY <1>1, <1>2, <1>3 DEF MergesAreRight, MergeStep, Undoes

\* What a person does besides merging and undoing.
LEMMA ChangesKeep ==
  ASSUME MergesAreRight, tables' \in Tables, tables'.into = tables.into, tables'.gone = tables.gone, tables'.log = tables.log,
         Len(tables'.rows) = Len(tables.rows), tables'.trash = tables.trash \/ TrashExists(tables')
  PROVE  MergesAreRight' /\ MergeStep
<1>1. TablesAreRight(tables') BY SameMerges DEF MergesAreRight
<1> QED BY <1>1 DEF MergesAreRight, MergeStep, LogStays

LEMMA ReviewKeeps ==
  ASSUME MergesAreRight, NEW q \in Pairs, KeepSeparate(q) \/ RestoreSuggestion(q) PROVE MergesAreRight' /\ MergeStep
<1>1. tables \in Tables BY DEF MergesAreRight, TablesAreRight
<1>2. PICK s \in Statuses, a \in SUBSET Pairs : tables' = [tables EXCEPT !.review[q] = s, !.apart = a]
  <2>1. "dismissed" \in Statuses /\ "pending" \in Statuses BY DEF Statuses
  <2>2. tables.apart \cup {q} \in SUBSET Pairs /\ tables.apart \ {q} \in SUBSET Pairs BY <1>1 DEF Tables
  <2> QED BY <2>1, <2>2 DEF KeepSeparate, RestoreSuggestion
<1>3. /\ tables' \in Tables /\ tables'.into = tables.into /\ tables'.gone = tables.gone /\ tables'.log = tables.log /\ tables'.rows = tables.rows
      /\ tables'.trash = tables.trash
  BY <1>1, <1>2 DEF Tables
<1> QED BY <1>3, ChangesKeep

LEMMA RowsKeep ==
  ASSUME MergesAreRight, NEW i \in Touched, EditRow(i) \/ DeleteRow(i) PROVE MergesAreRight' /\ MergeStep
<1>1. tables \in Tables BY DEF MergesAreRight, TablesAreRight
<1>2. PICK row \in RowType \cup {NoRow} : tables' = [tables EXCEPT !.rows = [tables.rows EXCEPT ![i] = row]]
  <2>1. CASE EditRow(i)
    <3>1. tables.rows[i] # NoRow /\ tables' = [tables EXCEPT !.rows[i].text = "edited"] BY <2>1 DEF EditRow
    <3>2. tables' = [tables EXCEPT !.rows = [tables.rows EXCEPT ![i] = [tables.rows[i] EXCEPT !.text = "edited"]]]
      BY <1>1, <3>1 DEF Tables
    <3>3. CASE i \in DOMAIN tables.rows
      <4>1. tables.rows[i] \in RowType BY <1>1, <3>1, <3>3 DEF Tables
      <4>2. [tables.rows[i] EXCEPT !.text = "edited"] \in RowType BY <4>1 DEF RowType
      <4> QED BY <3>2, <4>2
    <3>4. CASE i \notin DOMAIN tables.rows
      <4>1. \A row : [tables.rows EXCEPT ![i] = row] = tables.rows BY <1>1, <3>4 DEF Tables
      <4> QED BY <3>2, <4>1
    <3> QED BY <3>3, <3>4
  <2>2. CASE DeleteRow(i)
    <3>1. tables' = [tables EXCEPT !.rows[i] = NoRow] BY <2>2 DEF DeleteRow
    <3>2. tables' = [tables EXCEPT !.rows = [tables.rows EXCEPT ![i] = NoRow]] BY <1>1, <3>1 DEF Tables
    <3> QED BY <3>2
  <2> QED BY <2>1, <2>2
<1>3. [tables.rows EXCEPT ![i] = row] \in Seq(RowType \cup {NoRow}) /\ Len([tables.rows EXCEPT ![i] = row]) = Len(tables.rows)
  <2>1. PICK rs \in Seq(RowType \cup {NoRow}) : rs = tables.rows BY <1>1 DEF Tables
  <2> DEFINE s == [rs EXCEPT ![i] = row]
  <2>2. s \in Seq(RowType \cup {NoRow}) /\ Len(s) = Len(rs)
    <3>1. PICK n \in Nat : n = Len(rs) /\ DOMAIN rs = 1 .. n /\ \A k \in 1 .. n : rs[k] \in RowType \cup {NoRow} OBVIOUS
    <3>2. DOMAIN s = 1 .. n /\ \A k \in 1 .. n : s[k] \in RowType \cup {NoRow} BY <1>2, <3>1
    <3>3. s = [k \in 1 .. n |-> s[k]] BY <3>1, <3>2
    <3>4. s \in [1 .. n -> RowType \cup {NoRow}] BY <3>2, <3>3
    <3> HIDE DEF s
    <3> QED BY <3>1, <3>4
  <2> QED BY <2>1, <2>2
<1>4. /\ tables' \in Tables /\ tables'.into = tables.into /\ tables'.gone = tables.gone /\ tables'.log = tables.log
      /\ tables'.rows = [tables.rows EXCEPT ![i] = row] /\ tables'.trash = tables.trash
  BY <1>1, <1>2, <1>3 DEF Tables
<1> QED BY <1>3, <1>4, ChangesKeep

LEMMA TrashKeeps ==
  ASSUME MergesAreRight, NEW c \in Twins, DeleteContact(c) \/ RestoreContact(c) PROVE MergesAreRight' /\ MergeStep
<1>1. tables \in Tables BY DEF MergesAreRight, TablesAreRight
<1>2. PICK s \in SUBSET Twins : s \cap tables.gone = {} /\ tables' = [tables EXCEPT !.trash = s]
  <2>1. tables.trash \cup {c} \in SUBSET Twins /\ tables.trash \ {c} \in SUBSET Twins BY <1>1 DEF Tables
  <2>2. tables.trash \cap tables.gone = {} BY DEF MergesAreRight, TablesAreRight, TrashExists
  <2> QED BY <2>1, <2>2 DEF DeleteContact, RestoreContact, Existing
<1>3. /\ tables' \in Tables /\ tables'.into = tables.into /\ tables'.gone = tables.gone /\ tables'.log = tables.log /\ tables'.rows = tables.rows
      /\ tables'.trash = s
  BY <1>1, <1>2 DEF Tables
<1>4. TrashExists(tables') BY <1>2, <1>3 DEF TrashExists
<1> QED BY <1>3, <1>4, ChangesKeep

LEMMA PurgesKeep ==
  ASSUME MergesAreRight, NEW dead, ClosedIn(tables, dead), IsPurge(tables, tables', dead) PROVE MergesAreRight' /\ MergeStep
<1>1. TablesAreRight(tables') BY PurgeKeeps DEF MergesAreRight
<1>2. LogStays BY DEF LogStays, IsPurge
<1> QED BY <1>1, <1>2 DEF MergesAreRight, MergeStep

\* The pairs a check merges are finitely many.
LEMMA SureIsFinite == ASSUME NEW S \in SUBSET Sure PROVE IsFiniteSet(S)
<1>1. Sure \subseteq SUBSET Twins BY MergeAssumption DEF Pairs
<1>2. IsFiniteSet(SUBSET Twins) BY MergeAssumption, FS_SUBSET
<1> QED BY <1>1, <1>2, FS_Subset

LEMMA EndCheckKeeps == ASSUME MergesAreRight, NEW refused, EndCheck(refused) PROVE MergesAreRight' /\ MergeStep
<1> DEFINE cleared == [ClearStale(tables) EXCEPT !.review = [q \in Pairs |-> IF @[q] = "pending" THEN "none" ELSE @[q]]]
<1>1. /\ check # NoCheck
      /\ \E joined \in SUBSET Sure : \E order \in Orders(joined) : \E merged \in InTurn(cleared, order, check.apart) :
           \E waiting : tables' = merged \/ tables' = Suggested(merged, waiting, "pending")
  BY DEF EndCheck
<1>2. TablesAreRight(cleared) /\ cleared.log = tables.log
  <2>1. tables \in Tables BY DEF MergesAreRight, TablesAreRight
  <2>2. PICK s \in Tables : /\ s = ClearStale(tables) /\ s.into = tables.into /\ s.gone = tables.gone /\ s.log = tables.log
                            /\ s.rows = tables.rows /\ s.trash = tables.trash
    BY <2>1, ClearStaleIs
  <2>3. PICK r \in [Pairs -> Statuses] : cleared = [s EXCEPT !.review = r]
    <3>1. [q \in Pairs |-> IF s.review[q] = "pending" THEN "none" ELSE s.review[q]] \in [Pairs -> Statuses] BY DEF Tables, Statuses
    <3> QED BY <2>2, <3>1
  <2> HIDE DEF cleared
  <2>4. /\ cleared \in Tables /\ cleared.into = tables.into /\ cleared.gone = tables.gone /\ cleared.log = tables.log
        /\ cleared.rows = tables.rows /\ cleared.trash = tables.trash
    BY <2>2, <2>3, Reviewed
  <2> QED BY <2>4, SameMerges DEF MergesAreRight
<1> HIDE DEF cleared
<1>3. PICK joined \in SUBSET Sure : \E order \in Orders(joined) : \E merged \in InTurn(cleared, order, check.apart) :
        \E waiting : tables' = merged \/ tables' = Suggested(merged, waiting, "pending")
  BY <1>1
<1>4. PICK order \in Orders(joined) : \E merged \in InTurn(cleared, order, check.apart) :
        \E waiting : tables' = merged \/ tables' = Suggested(merged, waiting, "pending")
  BY <1>3
<1>5. PICK merged \in InTurn(cleared, order, check.apart) :
        \E waiting : tables' = merged \/ tables' = Suggested(merged, waiting, "pending")
  BY <1>4
<1>6. TablesAreRight(merged) /\ Grown(cleared, merged, check.apart) BY <1>2, SureIsFinite, InTurnKeeps
<1>7. TablesAreRight(tables') /\ tables'.log = merged.log
  <2>1. CASE tables' = merged BY <1>6, <2>1
  <2>2. ASSUME NEW waiting, tables' = Suggested(merged, waiting, "pending") PROVE TablesAreRight(tables') /\ tables'.log = merged.log
    <3>1. merged \in Tables /\ "pending" \in Statuses BY <1>6 DEF TablesAreRight, Statuses
    <3>2. /\ tables' \in Tables /\ tables'.into = merged.into /\ tables'.gone = merged.gone /\ tables'.log = merged.log
          /\ tables'.rows = merged.rows /\ tables'.trash = merged.trash
      BY <2>2, <3>1, SuggestedIs
    <3> QED BY <1>6, <3>2, SameMerges
  <2> QED BY <1>5, <2>1, <2>2
<1>8. Grown(tables, tables', check.apart) BY <1>2, <1>6, <1>7 DEF Grown, PairOf
<1> QED BY <1>1, <1>7, <1>8 DEF MergesAreRight, MergeStep, MergesByCheck

LEMMA PersistKeeps ==
  ASSUME MergesAreRight, NEW found, NEW known, Persist(found, known)
  PROVE  MergesAreRight' /\ Grown(tables, tables', known)
<1>1. PICK order \in Orders(found \cap Sure) : \E merged \in InTurn(tables, order, known) :
        \E waiting : tables' = Suggested(merged, waiting, "pending")
  BY DEF Persist
<1>2. PICK merged \in InTurn(tables, order, known) : \E waiting : tables' = Suggested(merged, waiting, "pending") BY <1>1
<1>3. PICK waiting : tables' = Suggested(merged, waiting, "pending") BY <1>2
<1>4. IsFiniteSet(found \cap Sure) BY SureIsFinite
<1>5. TablesAreRight(merged) /\ Grown(tables, merged, known) BY <1>4, <1>2, InTurnKeeps DEF MergesAreRight
<1>6. merged \in Tables /\ "pending" \in Statuses BY <1>5 DEF TablesAreRight, Statuses
<1>7. /\ tables' \in Tables /\ tables'.into = merged.into /\ tables'.gone = merged.gone /\ tables'.log = merged.log
      /\ tables'.rows = merged.rows /\ tables'.trash = merged.trash
  BY <1>6, <1>3, SuggestedIs
<1>8. TablesAreRight(tables') BY <1>5, <1>7, SameMerges
<1> QED BY <1>5, <1>7, <1>8 DEF MergesAreRight, Grown, PairOf

LEMMA ChecksKeep ==
  ASSUME MergesAreRight, NEW x, NEW refused, StartImportCheck(x, refused) \/ ImportCheck(x, refused) \/ CheckOne(x, refused)
  PROVE  MergesAreRight' /\ MergeStep
<1>1. \A todo : NewCorpus(todo).apart = tables.apart BY DEF NewCorpus
<1>2. CASE StartImportCheck(x, refused)
  <2>1. \E found : Persist(found, tables.apart) BY <1>1, <1>2 DEF StartImportCheck, CheckContact
  <2>2. MergesAreRight' /\ Grown(tables, tables', tables.apart) BY <2>1, PersistKeeps
  <2> QED BY <2>2 DEF MergeStep, MergesByCheck
<1>3. CASE ImportCheck(x, refused)
  <2>1. corpus # NoCheck /\ \E found : Persist(found, corpus.apart) BY <1>3 DEF ImportCheck, CheckContact
  <2>2. MergesAreRight' /\ Grown(tables, tables', corpus.apart) BY <2>1, PersistKeeps
  <2> QED BY <2>1, <2>2 DEF MergeStep, MergesByCheck
<1>4. CASE CheckOne(x, refused)
  <2>1. \E found : Persist(found, tables.apart) BY <1>1, <1>4 DEF CheckOne
  <2>2. MergesAreRight' /\ Grown(tables, tables', tables.apart) BY <2>1, PersistKeeps
  <2> QED BY <2>2 DEF MergeStep, MergesByCheck
<1> QED BY <1>2, <1>3, <1>4

LEMMA MergesRightNext == ASSUME MergesAreRight, MergeNext PROVE MergesAreRight' /\ MergeStep
<1>1. ASSUME NEW p \in Twins, NEW d \in Twins, MergeByHand(p, d) PROVE MergesAreRight' /\ MergeStep BY <1>1, ByHandKeeps
<1>2. ASSUME NEW i \in DOMAIN tables.log, NEW keep \in BOOLEAN, UndoMerge(i, keep) PROVE MergesAreRight' /\ MergeStep
  BY <1>2, UndoMergeKeeps
<1>3. ASSUME NEW q \in Pairs, KeepSeparate(q) \/ RestoreSuggestion(q) PROVE MergesAreRight' /\ MergeStep BY <1>3, ReviewKeeps
<1>4. ASSUME NEW i \in Touched, EditRow(i) \/ DeleteRow(i) PROVE MergesAreRight' /\ MergeStep BY <1>4, RowsKeep
<1>5. ASSUME NEW c \in Twins, DeleteContact(c) \/ RestoreContact(c) PROVE MergesAreRight' /\ MergeStep BY <1>5, TrashKeeps
<1>6. ASSUME NEW cs \in SUBSET Twins, PurgeTrash(cs) PROVE MergesAreRight' /\ MergeStep
  <2>1. tables' = Purged(tables, cs) /\ tables \in Tables BY <1>6 DEF PurgeTrash, MergesAreRight, TablesAreRight
  <2> DEFINE dead == UNION {MergedChain(tables, c) : c \in cs}
  <2>2. ClosedIn(tables, dead) /\ IsPurge(tables, tables', dead) BY <2>1, ChainsAreClosed, PurgedIs DEF MergesAreRight
  <2> HIDE DEF dead
  <2> QED BY <2>2, PurgesKeep
<1>7. ASSUME NEW n \in DOMAIN tables.log, PurgeExpiredMerges(n) PROVE MergesAreRight' /\ MergeStep
  <2>1. tables' = Expired(tables, n) BY <1>7 DEF PurgeExpiredMerges
  <2>2. PICK dead : ClosedIn(tables, dead) /\ IsPurge(tables, tables', dead) BY <2>1, ExpiredIs DEF MergesAreRight
  <2> QED BY <2>2, PurgesKeep
<1>8. CASE StartCheck
  <2>1. tables' = tables BY <1>8 DEF StartCheck
  <2>2. tables \in Tables BY DEF MergesAreRight, TablesAreRight
  <2> QED BY <2>1, <2>2, ChangesKeep
<1>9. ASSUME NEW refused, EndCheck(refused) PROVE MergesAreRight' /\ MergeStep BY <1>9, EndCheckKeeps
<1>10. ASSUME NEW refused, NEW x \in Twins, StartImportCheck(x, refused) \/ ImportCheck(x, refused) \/ CheckOne(x, refused)
       PROVE  MergesAreRight' /\ MergeStep
  BY <1>10, ChecksKeep
<1> QED BY <1>1, <1>2, <1>3, <1>4, <1>5, <1>6, <1>7, <1>8, <1>9, <1>10 DEF MergeNext

LEMMA AlwaysMergesRight == MergeSpec => []MergesAreRight
<1>1. MergesAreRight /\ [MergeNext]_mergeVars => MergesAreRight'
  <2>1. CASE UNCHANGED mergeVars BY <2>1 DEF mergeVars, MergesAreRight
  <2> QED BY <2>1, MergesRightNext
<1> QED BY <1>1, MergesRightInit, PTL DEF MergeSpec

\* Every hidden contact can be shown again, by one entry, and its chain ends at one that
\* shows: in any order of merges by hand and by checks, undos and purges.
THEOREM HiddenCanBeShown == MergeSpec => []MergesCanBeUndone
<1>1. ASSUME MergesAreRight PROVE MergesCanBeUndone
  <2>1. tables \in Tables BY <1>1 DEF MergesAreRight, TablesAreRight
  <2>2. ASSUME NEW c \in Existing(tables), tables.into[c] # Nobody
        PROVE  Cardinality({i \in DOMAIN tables.log : IsOpen(tables, i) /\ tables.log[i].duplicate = c}) = 1
    <3>1. c \in Twins BY DEF Existing
    <3>2. PICK i \in DOMAIN tables.log : Opens(tables, i, c) /\ \A j \in DOMAIN tables.log : Opens(tables, j, c) => j = i
      BY <1>1, <2>2, <3>1 DEF MergesAreRight, TablesAreRight, OneOpen
    <3>3. {j \in DOMAIN tables.log : IsOpen(tables, j) /\ tables.log[j].duplicate = c} = {i} BY <3>2 DEF Opens
    <3> QED BY <3>3, FS_Singleton
  <2>3. ASSUME NEW c \in Existing(tables) PROVE LeadsToLive(tables, c)
    <3> SUFFICES ASSUME NEW S \in SUBSET Twins, c \in S, \A d \in S : tables.into[d] \in S \cup {Nobody}
                 PROVE  S \cap Unmerged(tables) # {}
      BY DEF LeadsToLive
    <3>1. PICK rank \in [Twins -> Nat] : Ranks(tables, rank) BY <1>1 DEF MergesAreRight, TablesAreRight, NoCycle
    <3> DEFINE E == S \cap Existing(tables)
               R == {rank[d] : d \in E}
    <3>2. R \subseteq Nat /\ R # {} OBVIOUS
    <3> HIDE DEF R
    <3>3. PICK n \in R : \A m \in R : n <= m BY <3>2, LeastOf
    <3>4. PICK d \in E : rank[d] = n BY <3>3 DEF R
    <3>5. d \in Twins /\ d \in S /\ d \in Existing(tables) OBVIOUS
    <3>6. ASSUME tables.into[d] # Nobody PROVE FALSE
      <4>1. tables.into[d] \in S /\ tables.into[d] \notin tables.gone
        BY <1>1, <3>5, <3>6 DEF MergesAreRight, TablesAreRight, HiddenExist
      <4>2. tables.into[d] \in E BY <4>1 DEF Existing
      <4>3. n <= rank[tables.into[d]] BY <3>3, <4>2 DEF R
      <4>4. rank[tables.into[d]] < rank[d] /\ rank[tables.into[d]] \in Nat /\ rank[d] \in Nat
        BY <3>1, <3>5, <3>6, <4>2 DEF Ranks
      <4> QED BY <3>4, <4>3, <4>4
    <3> QED BY <3>5, <3>6 DEF Unmerged
  <2>4. ASSUME NEW i \in DOMAIN tables.log, IsOpen(tables, i)
        PROVE  tables.log[i].duplicate \in Existing(tables) /\ tables.into[tables.log[i].duplicate] = tables.log[i].primary
    <3>1. tables.log[i].duplicate \in Twins BY <2>1, <2>4 DEF IsOpen, Tables, MergeEntry
    <3> QED BY <1>1, <2>4, <3>1 DEF MergesAreRight, TablesAreRight, OpenIsRight, Existing
  <2> QED BY <2>2, <2>3, <2>4 DEF MergesCanBeUndone
<1> QED BY <1>1, AlwaysMergesRight, PTL

\* An undo gives the duplicate every record that left it, as it was, takes from the primary
\* none that changed since, and from any other contact nothing.
THEOREM UndosGiveBack == MergeSpec => UndoGivesBack
<1> DEFINE GivesBackNow ==
      \A i \in DOMAIN tables.log : IsOpen(tables, i) /\ tables'.log[i] # NoEntry /\ tables'.log[i].undone =>
        LET e == tables.log[i] IN
        /\ \A j \in e.moved : \E k \in On(tables', e.duplicate) : tables'.rows[k] = e.had[j]
        /\ \A k \in DOMAIN tables.rows \ e.moved : tables'.rows[k] = tables.rows[k]
        /\ \A c \in Twins, k \in e.moved :
             k \in On(tables, c) \ On(tables', c) => c = e.primary /\ tables.rows[k].text = e.had[k].text
<1>1. ASSUME MergesAreRight, MergeNext PROVE GivesBackNow
  <2> SUFFICES ASSUME NEW i \in DOMAIN tables.log, IsOpen(tables, i), tables'.log[i] # NoEntry, tables'.log[i].undone
               PROVE  LET e == tables.log[i] IN
                      /\ \A j \in e.moved : \E k \in On(tables', e.duplicate) : tables'.rows[k] = e.had[j]
                      /\ \A k \in DOMAIN tables.rows \ e.moved : tables'.rows[k] = tables.rows[k]
                      /\ \A c \in Twins, k \in e.moved :
                           k \in On(tables, c) \ On(tables', c) => c = e.primary /\ tables.rows[k].text = e.had[k].text
    OBVIOUS
  <2>1. tables \in Tables BY <1>1 DEF MergesAreRight, TablesAreRight
  <2>2. PICK e \in MergeEntry : e = tables.log[i] /\ ~e.undone BY <2>1 DEF Tables, IsOpen
  <2>3. tables'.log[i] # tables.log[i] BY <2>2
  <2>4. MergeStep BY <1>1, MergesRightNext
  <2>5. ~LogStays BY <2>3 DEF LogStays
  <2>6. ~MergesByHand /\ ~MergesByCheck BY <2>3 DEF MergesByHand, MergesByCheck, Grown
  <2>7. PICK j \in DOMAIN tables.log : IsUndo(tables, tables', j) BY <2>4, <2>5, <2>6 DEF MergeStep, Undoes
  <2>8. j = i BY <2>3, <2>7 DEF IsUndo
  <2>9. GivesBack(tables, tables'.rows, e) BY <2>2, <2>7, <2>8 DEF IsUndo
  <2>10. SavedIs(e, Len(tables.rows)) BY <1>1, <2>2, MergeAssumption DEF MergesAreRight, TablesAreRight, Saved
  <2>11. ASSUME NEW m \in e.moved PROVE \E k \in On(tables', e.duplicate) : tables'.rows[k] = e.had[m]
    <3>1. PICK k \in DOMAIN tables'.rows : tables'.rows[k] = e.had[m] BY <2>9 DEF GivesBack
    <3>2. e.had[m] # NoRow /\ e.had[m].on = e.duplicate BY <2>10, MergeAssumption DEF SavedIs
    <3>3. k \in On(tables', e.duplicate) BY <3>1, <3>2 DEF On
    <3> QED BY <3>1, <3>3
  <2>12. ASSUME NEW c \in Twins, NEW k \in e.moved, k \in On(tables, c), k \notin On(tables', c)
         PROVE  c = e.primary /\ tables.rows[k].text = e.had[k].text
    <3>1. tables.rows[k] # NoRow /\ tables.rows[k].on = c /\ k \in DOMAIN tables.rows BY <2>12 DEF On
    <3>2. k \in DOMAIN tables'.rows
      <4>1. PICK n, m : n = Len(tables.rows) /\ m = Len(tables'.rows) OBVIOUS
      <4>2. n \in Nat /\ m \in Nat /\ DOMAIN tables.rows = 1 .. n /\ DOMAIN tables'.rows = 1 .. m /\ n <= m
        BY <2>1, <2>9, <4>1 DEF GivesBack, Tables
      <4> QED BY <3>1, <4>2
    <3>3. tables'.rows[k] # tables.rows[k] BY <2>12, <3>1, <3>2 DEF On
    <3>4. tables.rows[k].on = e.primary /\ tables.rows[k].text = e.had[k].text BY <2>9, <3>1, <3>3 DEF GivesBack
    <3> QED BY <3>1, <3>4
  <2>13. \A k \in DOMAIN tables.rows \ e.moved : tables'.rows[k] = tables.rows[k] BY <2>9 DEF GivesBack
  <2> QED BY <2>2, <2>11, <2>12, <2>13
<1>2. ASSUME MergesAreRight, UNCHANGED mergeVars PROVE GivesBackNow
  <2> SUFFICES ASSUME NEW i \in DOMAIN tables.log, IsOpen(tables, i), tables'.log[i].undone PROVE FALSE OBVIOUS
  <2>1. tables' = tables BY <1>2 DEF mergeVars
  <2> QED BY <2>1 DEF IsOpen
<1>3. MergesAreRight /\ [MergeNext]_mergeVars => [GivesBackNow]_mergeVars BY <1>1
<1> QED BY <1>3, AlwaysMergesRight, PTL DEF MergeSpec, UndoGivesBack

\* A check never merges a pair that was kept apart before it began, whatever merges came
\* between, its own included.
THEOREM ApartPairsStayApart == MergeSpec => ApartStaysApart
<1> DEFINE ApartNow ==
      \A i \in DOMAIN tables'.log : NewByCheck(i) /\ PairOf(tables', i) \in tables.apart =>
        \/ check # NoCheck /\ PairOf(tables', i) \notin check.apart
        \/ corpus # NoCheck /\ PairOf(tables', i) \notin corpus.apart
<1>1. ASSUME MergesAreRight, MergeNext PROVE ApartNow
  <2> SUFFICES ASSUME NEW i \in DOMAIN tables'.log, NewByCheck(i), PairOf(tables', i) \in tables.apart
               PROVE  \/ check # NoCheck /\ PairOf(tables', i) \notin check.apart
                      \/ corpus # NoCheck /\ PairOf(tables', i) \notin corpus.apart
    OBVIOUS
  <2>1. i \in DOMAIN tables'.log \ DOMAIN tables.log /\ tables'.log[i].by = "auto" BY DEF NewByCheck
  <2>2. MergeStep BY <1>1, MergesRightNext
  <2>3. ~LogStays /\ ~Undoes /\ ~MergesByHand BY <2>1 DEF LogStays, Undoes, IsUndo, MergesByHand
  <2>4. MergesByCheck BY <2>2, <2>3 DEF MergeStep
  <2> QED BY <2>1, <2>4 DEF MergesByCheck, Grown
<1>2. MergesAreRight /\ [MergeNext]_mergeVars => [ApartNow]_mergeVars BY <1>1
<1> QED BY <1>2, AlwaysMergesRight, PTL DEF MergeSpec, ApartStaysApart

\* The tables keep their types: no purged contact is in the Trash, and the records and the
\* log stay well formed and within their bounds, whatever is merged, undone or purged.
THEOREM MergeTypesHold == MergeSpec => []MergesTypeOK
<1> DEFINE LogFits == Len(tables.log) <= MaxMerges
<1>1. MergeInit => LogFits BY MergeAssumption DEF MergeInit
<1>2. ASSUME MergesAreRight, LogFits, [MergeNext]_mergeVars PROVE LogFits'
  <2>1. tables \in Tables BY <1>2 DEF MergesAreRight, TablesAreRight
  <2>2. CASE Bounded(tables') BY <2>2 DEF Bounded
  <2>3. CASE tables'.log = tables.log BY <1>2, <2>3
  <2>4. ASSUME NEW dead, IsPurge(tables, tables', dead) PROVE LogFits'
    <3>1. tables' \in Tables /\ DOMAIN tables'.log = DOMAIN tables.log BY <2>4 DEF IsPurge
    <3>2. Len(tables'.log) = Len(tables.log) BY <2>1, <3>1 DEF Tables
    <3> QED BY <1>2, <3>2
  <2>5. ASSUME NEW p \in Twins, NEW d \in Twins, MergeByHand(p, d) PROVE LogFits' BY <2>2, <2>5 DEF MergeByHand
  <2>6. ASSUME NEW i \in DOMAIN tables.log, NEW keep \in BOOLEAN, UndoMerge(i, keep) PROVE LogFits' BY <2>2, <2>6 DEF UndoMerge
  <2>7. ASSUME NEW q \in Pairs, KeepSeparate(q) \/ RestoreSuggestion(q) PROVE LogFits'
    BY <2>1, <2>3, <2>7 DEF KeepSeparate, RestoreSuggestion, Tables
  <2>8. ASSUME NEW i \in Touched, EditRow(i) \/ DeleteRow(i) PROVE LogFits' BY <2>1, <2>3, <2>8 DEF EditRow, DeleteRow, Tables
  <2>9. ASSUME NEW c \in Twins, DeleteContact(c) \/ RestoreContact(c) PROVE LogFits'
    BY <2>1, <2>3, <2>9 DEF DeleteContact, RestoreContact, Tables
  <2>10. ASSUME NEW cs \in SUBSET Twins, PurgeTrash(cs) PROVE LogFits'
    BY <1>2, <2>4, <2>10, PurgedIs DEF PurgeTrash, MergesAreRight
  <2>11. ASSUME NEW n \in DOMAIN tables.log, PurgeExpiredMerges(n) PROVE LogFits'
    BY <1>2, <2>4, <2>11, ExpiredIs DEF PurgeExpiredMerges, MergesAreRight
  <2>12. CASE StartCheck \/ UNCHANGED mergeVars BY <2>3, <2>12 DEF StartCheck, mergeVars
  <2>13. ASSUME NEW refused, EndCheck(refused) PROVE LogFits' BY <2>2, <2>13 DEF EndCheck
  <2>14. ASSUME NEW refused, NEW x \in Twins, StartImportCheck(x, refused) \/ ImportCheck(x, refused) \/ CheckOne(x, refused)
         PROVE  LogFits'
    <3>1. \E found, known : Persist(found, known) BY <2>14 DEF StartImportCheck, ImportCheck, CheckOne, CheckContact
    <3> QED BY <2>2, <3>1 DEF Persist
  <2> QED BY <1>2, <2>5, <2>6, <2>7, <2>8, <2>9, <2>10, <2>11, <2>12, <2>13, <2>14 DEF MergeNext
<1>3. MergesAreRight /\ LogFits => MergesTypeOK
  BY DEF MergesAreRight, TablesAreRight, TrashExists, Tables, MergesTypeOK
<1> QED BY <1>1, <1>2, <1>3, AlwaysMergesRight, PTL DEF MergeSpec

\* While no check and no import is under way, a pair that was kept apart is not merged by
\* a check: KeptApart can only fail for a check that began before the pair was marked.
THEOREM ApartIsKept ==
  MergeSpec => [][check = NoCheck /\ corpus = NoCheck =>
                    \A i \in DOMAIN tables'.log : NewByCheck(i) => PairOf(tables', i) \notin tables.apart]_mergeVars
<1> DEFINE ApartNow ==
      \A i \in DOMAIN tables'.log : NewByCheck(i) /\ PairOf(tables', i) \in tables.apart =>
        \/ check # NoCheck /\ PairOf(tables', i) \notin check.apart
        \/ corpus # NoCheck /\ PairOf(tables', i) \notin corpus.apart
    KeptNow ==
      check = NoCheck /\ corpus = NoCheck =>
        \A i \in DOMAIN tables'.log : NewByCheck(i) => PairOf(tables', i) \notin tables.apart
<1>1. MergeSpec => [][ApartNow]_mergeVars BY ApartPairsStayApart DEF ApartStaysApart
<1>2. [ApartNow]_mergeVars => [KeptNow]_mergeVars OBVIOUS
<1> QED BY <1>1, <1>2, PTL

=============================================================================
