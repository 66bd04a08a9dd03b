------------------------ MODULE GenerationQueueProofs ------------------------
(***************************************************************************)
(* What WorkQueue does for every number of slots, every capacity and every *)
(* set of accounts and questions.  The invariant has three parts: the      *)
(* waiting room's books agree (RoomIsRight), whoever an account saw start  *)
(* while it waited has its next turn after it (TurnsAreRight), and the     *)
(* interactive starts a tier saw in a row are counted (PassesAreCounted);  *)
(* the search lane has one of its own (LaneIsRight).                       *)
(***************************************************************************)
EXTENDS WorkQueue, SequenceTheorems, FiniteSetTheorems, TLAPS

(***************************************************************************)
(* First and last of a set of places, and a sequence without one of its.   *)
(***************************************************************************)
LEMMA FirstOne ==
  ASSUME NEW S, S \subseteq Nat, S # {}
  PROVE  Min(S) \in S /\ \A i \in S : Min(S) <= i
<1>1. PICK x \in S : \A y \in S : ~(<<y, x>> \in OpToRel(<, Nat)) BY WFMin, NatLessThanWellFounded
<1>2. \A i, j \in Nat : j < i => <<j, i>> \in OpToRel(<, Nat) BY DEF OpToRel
<1>3. \A y \in S : x \in Nat /\ y \in Nat /\ ~(y < x) BY <1>1, <1>2
<1>4. \E z \in S : \A y \in S : z <= y BY <1>3
<1> QED BY <1>4 DEF Min

LEMMA LastOne ==
  ASSUME NEW n \in Nat, NEW S, S \subseteq 0 .. n, S # {}
  PROVE  Max(S) \in S /\ \A i \in S : i <= Max(S)
<1> DEFINE T == {n - i : i \in S}
<1>0. \A i \in S : i \in Nat /\ n - i \in Nat OBVIOUS
<1>1. T \subseteq Nat /\ T # {} BY <1>0
<1>2. PICK x \in T : x = Min(T) /\ \A y \in T : x <= y BY <1>1, FirstOne
<1>3. PICK i \in S : x = n - i OBVIOUS
<1>4. \A j \in S : n - j \in T /\ i \in Nat /\ j \in Nat OBVIOUS
<1>5. ASSUME NEW j \in S PROVE i >= j
  <2>1. n - i <= n - j BY <1>2, <1>3, <1>4
  <2> QED BY <1>0, <2>1
<1> QED BY <1>5 DEF Max

LEMMA RemoveAtFacts ==
  ASSUME NEW S, NEW s \in Seq(S), NEW i \in DOMAIN s
  PROVE  /\ RemoveAt(s, i) \in Seq(S)
         /\ Len(RemoveAt(s, i)) = Len(s) - 1 /\ Len(s) \in Nat \ {0} /\ i \in 1 .. Len(s)
         /\ \A j \in 1 .. Len(s) - 1 : RemoveAt(s, i)[j] = IF j < i THEN s[j] ELSE s[j + 1]
<1> DEFINE before == SubSeq(s, 1, i - 1)
           after  == SubSeq(s, i + 1, Len(s))
<1>1. i \in 1 .. Len(s) /\ Len(s) \in Nat \ {0} OBVIOUS
<1>2. before \in Seq(S) /\ Len(before) = i - 1 /\ \A j \in 1 .. i - 1 : before[j] = s[j]
  BY <1>1
<1>3. /\ after \in Seq(S) /\ Len(after) = Len(s) - i
      /\ \A j \in 1 .. Len(s) - i : after[j] = s[i + j]
  BY <1>1
<1>4. RemoveAt(s, i) = before \o after BY DEF RemoveAt
<1> HIDE DEF before, after
<1>5. RemoveAt(s, i) \in Seq(S) /\ Len(RemoveAt(s, i)) = Len(s) - 1 BY <1>1, <1>2, <1>3, <1>4
<1>6. ASSUME NEW j \in 1 .. Len(s) - 1 PROVE RemoveAt(s, i)[j] = IF j < i THEN s[j] ELSE s[j + 1]
  <2>1. CASE j < i BY <1>1, <1>2, <1>3, <1>4, <2>1
  <2>2. CASE j >= i
    <3>1. j \in 1 .. Len(before) + Len(after) /\ ~(j <= Len(before)) BY <1>1, <1>2, <1>3, <2>2
    <3>5. \A k \in 1 .. Len(before) + Len(after) :
            (before \o after)[k] = IF k <= Len(before) THEN before[k] ELSE after[k - Len(before)]
      BY <1>2, <1>3, ConcatProperties
    <3>3. (before \o after)[j] = after[j - Len(before)] BY <3>1, <3>5
    <3>4. RemoveAt(s, i)[j] = after[j - (i - 1)] BY <1>2, <1>4, <3>3
    <3>2. j - (i - 1) \in 1 .. Len(s) - i /\ i + (j - (i - 1)) = j + 1 BY <1>1, <2>2
    <3> QED BY <1>1, <1>3, <2>2, <3>4, <3>2, SMTT(30)
  <2> QED BY <1>1, <2>1, <2>2
<1> QED BY <1>1, <1>5, <1>6

\* What is left of a sequence has every other element of it, and no new one.
LEMMA RemoveAtElements ==
  ASSUME NEW S, NEW s \in Seq(S), NEW i \in DOMAIN s
  PROVE  /\ \A j \in DOMAIN RemoveAt(s, i) : \E k \in DOMAIN s : k # i /\ RemoveAt(s, i)[j] = s[k]
         /\ \A k \in DOMAIN s : k # i => \E j \in DOMAIN RemoveAt(s, i) : RemoveAt(s, i)[j] = s[k]
<1> DEFINE r == RemoveAt(s, i)
<1>1. /\ r \in Seq(S) /\ Len(r) = Len(s) - 1 /\ Len(s) \in Nat \ {0} /\ i \in 1 .. Len(s)
      /\ \A j \in 1 .. Len(s) - 1 : r[j] = IF j < i THEN s[j] ELSE s[j + 1]
  BY RemoveAtFacts
<1> HIDE DEF r
<1>2. DOMAIN r = 1 .. Len(s) - 1 /\ DOMAIN s = 1 .. Len(s) BY <1>1
<1>3. ASSUME NEW j \in DOMAIN r PROVE \E k \in DOMAIN s : k # i /\ r[j] = s[k]
  <2>1. CASE j < i
    <3>1. j \in DOMAIN s /\ j # i /\ r[j] = s[j] BY <1>1, <1>2, <2>1
    <3> QED BY <3>1
  <2>2. CASE ~(j < i)
    <3>1. j + 1 \in DOMAIN s /\ j + 1 # i /\ r[j] = s[j + 1] BY <1>1, <1>2, <2>2
    <3> QED BY <3>1
  <2> QED BY <2>1, <2>2
<1>4. ASSUME NEW k \in DOMAIN s, k # i PROVE \E j \in DOMAIN r : r[j] = s[k]
  <2>1. CASE k < i
    <3>1. k \in DOMAIN r /\ r[k] = s[k] BY <1>1, <1>2, <2>1
    <3> QED BY <3>1
  <2>2. CASE ~(k < i)
    <3>1. k - 1 \in DOMAIN r /\ ~(k - 1 < i) /\ (k - 1) + 1 = k BY <1>1, <1>2, <1>4, <2>2
    <3>2. r[k - 1] = s[k] BY <1>1, <1>2, <3>1
    <3> QED BY <3>1, <3>2
  <2> QED BY <2>1, <2>2
<1> QED BY <1>3, <1>4 DEF r

------------------------------------------------------------------------------
(***************************************************************************)
(* What the operations of the waiting room make of it.                     *)
(***************************************************************************)
\* The count, the line, the rotation and the turns of q agree, but for accounts of S
\* that are in the rotation and need not wait.
Fits(q, S) ==
  /\ q \in Queue /\ q.count = Len(q.line)
  /\ \A i \in DOMAIN q.line : \E p \in DOMAIN q.order : q.order[p] = q.line[i].account
  /\ \A p \in DOMAIN q.order : q.order[p] \in S \/ Waits(q, q.order[p])
  /\ \A p, r \in DOMAIN q.order : q.order[p] = q.order[r] => p = r
  /\ \A t \in Tiers : q.last[t] <= Len(q.order)

LEMMA TakenFits ==
  ASSUME NEW q, Fits(q, {}), NEW i \in DOMAIN q.line
  PROVE  /\ Fits(Taken(q, i), {q.line[i].account})
         /\ Taken(q, i) = [q EXCEPT !.line = RemoveAt(q.line, i), !.count = q.count - 1]
<1> DEFINE rest == Taken(q, i)
           line == RemoveAt(q.line, i)
<1>1. /\ q \in Queue /\ q.line \in Seq(Job) /\ q.order \in Seq(Accounts)
      /\ q.last \in [Tiers -> Nat] /\ q.count \in Nat
  BY DEF Fits, Queue
<1>2. rest = [q EXCEPT !.line = line, !.count = q.count - 1] BY <1>1 DEF Taken, Queue
<1>3. line \in Seq(Job) /\ Len(line) = Len(q.line) - 1 /\ Len(q.line) \in Nat \ {0} BY <1>1, RemoveAtFacts
<1>4. /\ \A j \in DOMAIN line : \E k \in DOMAIN q.line : k # i /\ line[j] = q.line[k]
      /\ \A k \in DOMAIN q.line : k # i => \E j \in DOMAIN line : line[j] = q.line[k]
  BY <1>1, RemoveAtElements
<1>5. rest.line = line /\ rest.order = q.order /\ rest.last = q.last /\ rest.count = q.count - 1
  BY <1>1, <1>2 DEF Queue
<1> HIDE DEF rest, line
<1>0. q.count - 1 = Len(line) /\ Len(line) \in Nat BY <1>1, <1>3 DEF Fits
<1>6. rest \in Queue /\ rest.count = Len(rest.line)
  <2>1. rest = [line |-> line, order |-> q.order, last |-> q.last, count |-> Len(line)]
    BY <1>0, <1>1, <1>2 DEF Queue
  <2> QED BY <1>0, <1>1, <1>3, <2>1 DEF Queue
<1>7. \A j \in DOMAIN line : \E p \in DOMAIN q.order : q.order[p] = line[j].account
  BY <1>4 DEF Fits
<1>8. ASSUME NEW p \in DOMAIN q.order, q.order[p] # q.line[i].account PROVE Waits(rest, q.order[p])
  <2>1. PICK k \in DOMAIN q.line : q.line[k].account = q.order[p] BY DEF Fits, Waits
  <2>2. k # i BY <1>8, <2>1
  <2>3. PICK j \in DOMAIN line : line[j] = q.line[k] BY <1>4, <2>2
  <2> QED BY <1>5, <2>1, <2>3 DEF Waits
<1>9. Fits(rest, {q.line[i].account}) BY <1>5, <1>6, <1>7, <1>8 DEF Fits
<1> QED BY <1>2, <1>9 DEF rest, line

\* Where an account is in the rotation.
LEMMA PlaceInOrder ==
  ASSUME NEW q, NEW S, Fits(q, S), NEW p \in DOMAIN q.order
  PROVE  (CHOOSE i \in DOMAIN q.order : q.order[i] = q.order[p]) = p
BY DEF Fits

\* An account leaves the rotation, and the turns that are not before it move up.
LEMMA DroppedFacts ==
  ASSUME NEW q, NEW S, Fits(q, S), NEW at \in DOMAIN q.order
  PROVE  LET r == Dropped(q, q.order[at])
         IN /\ r.line = q.line /\ r.count = q.count /\ r.order = RemoveAt(q.order, at)
            /\ r.last = [t \in Tiers |-> IF at <= q.last[t] THEN q.last[t] - 1 ELSE q.last[t]]
            /\ r.last \in [Tiers -> Nat] /\ r \in Queue
<1> DEFINE last == [t \in Tiers |-> IF at <= q.last[t] THEN q.last[t] - 1 ELSE q.last[t]]
           r == [q EXCEPT !.order = RemoveAt(q.order, at), !.last = last]
<1>1. /\ q \in Queue /\ q.line \in Seq(Job) /\ q.order \in Seq(Accounts)
      /\ q.last \in [Tiers -> Nat] /\ q.count \in Nat
  BY DEF Fits, Queue
<1>2. Dropped(q, q.order[at]) = r
  <2>1. (CHOOSE i \in DOMAIN q.order : q.order[i] = q.order[at]) = at BY PlaceInOrder
  <2> HIDE DEF last
  <2>2. last = [t \in Tiers |-> IF at <= q.last[t] THEN q.last[t] - 1 ELSE q.last[t]] BY DEF last
  <2> QED BY <1>1, <2>1, <2>2 DEF Dropped, Queue
<1>3. RemoveAt(q.order, at) \in Seq(Accounts) /\ at \in 1 .. Len(q.order) /\ Len(q.order) \in Nat BY <1>1, RemoveAtFacts
<1>4. last \in [Tiers -> Nat] BY <1>1, <1>3
<1> HIDE DEF last
<1>5. r.line = q.line /\ r.count = q.count /\ r.order = RemoveAt(q.order, at) /\ r.last = last
  BY <1>1 DEF Queue
<1>6. r \in Queue BY <1>1, <1>3, <1>4 DEF Queue
<1> QED BY <1>2, <1>4, <1>5, <1>6 DEF last

LEMMA DroppedFits ==
  ASSUME NEW q, NEW a, Fits(q, {a}), ~Waits(q, a), NEW at \in DOMAIN q.order, q.order[at] = a
  PROVE  Fits(Dropped(q, a), {}) /\ Dropped(q, a).line = q.line /\ Dropped(q, a).count = q.count
<1> DEFINE r == Dropped(q, a)
           order == RemoveAt(q.order, at)
<1>1. q.order \in Seq(Accounts) /\ q.last \in [Tiers -> Nat] BY DEF Fits, Queue
<1>2. /\ r.line = q.line /\ r.count = q.count /\ r.order = order /\ r \in Queue
      /\ r.last = [t \in Tiers |-> IF at <= q.last[t] THEN q.last[t] - 1 ELSE q.last[t]]
  BY DroppedFacts
<1>3. /\ order \in Seq(Accounts) /\ at \in 1 .. Len(q.order) /\ Len(q.order) \in Nat \ {0}
      /\ Len(order) = Len(q.order) - 1
      /\ \A j \in 1 .. Len(q.order) - 1 : order[j] = IF j < at THEN q.order[j] ELSE q.order[j + 1]
  BY <1>1, RemoveAtFacts
<1>0. DOMAIN order = 1 .. Len(q.order) - 1 /\ DOMAIN q.order = 1 .. Len(q.order) BY <1>1, <1>3
<1>4. /\ \A j \in DOMAIN order : \E k \in DOMAIN q.order : k # at /\ order[j] = q.order[k]
      /\ \A k \in DOMAIN q.order : k # at => \E j \in DOMAIN order : order[j] = q.order[k]
  BY <1>1, RemoveAtElements
<1> HIDE DEF r, order
<1>5. \A i \in DOMAIN q.line : \E p \in DOMAIN order : order[p] = q.line[i].account
  <2> SUFFICES ASSUME NEW i \in DOMAIN q.line PROVE \E p \in DOMAIN order : order[p] = q.line[i].account
    OBVIOUS
  <2>1. PICK k \in DOMAIN q.order : q.order[k] = q.line[i].account BY DEF Fits
  <2>2. k # at BY <2>1 DEF Waits
  <2> QED BY <1>4, <2>1, <2>2
<1>6. \A p \in DOMAIN order : Waits(q, order[p])
  <2> SUFFICES ASSUME NEW p \in DOMAIN order PROVE Waits(q, order[p]) OBVIOUS
  <2>1. PICK k \in DOMAIN q.order : k # at /\ order[p] = q.order[k] BY <1>4
  <2>2. q.order[k] # a BY <2>1 DEF Fits
  <2> QED BY <2>1, <2>2 DEF Fits
<1>7. \A p, s \in DOMAIN order : order[p] = order[s] => p = s
  <2> SUFFICES ASSUME NEW p \in DOMAIN order, NEW s \in DOMAIN order, order[p] = order[s] PROVE p = s
    OBVIOUS
  <2> DEFINE old(x) == IF x < at THEN x ELSE x + 1
  <2>1. old(p) \in DOMAIN q.order /\ old(s) \in DOMAIN q.order BY <1>0, <1>3
  <2>2. q.order[old(p)] = q.order[old(s)] BY <1>0, <1>3
  <2>3. old(p) = old(s) BY <2>1, <2>2 DEF Fits
  <2> QED BY <1>0, <1>3, <2>3
<1>8. \A t \in Tiers : r.last[t] <= Len(order)
  <2> SUFFICES ASSUME NEW t \in Tiers PROVE r.last[t] <= Len(order) OBVIOUS
  <2>1. q.last[t] \in Nat /\ q.last[t] <= Len(q.order) BY <1>1 DEF Fits
  <2>2. r.last[t] = IF at <= q.last[t] THEN q.last[t] - 1 ELSE q.last[t] BY <1>2
  <2> QED BY <1>3, <2>1, <2>2
<1>9. Fits(r, {})
  <2>1. \A b : Waits(r, b) <=> Waits(q, b) BY <1>2 DEF Waits
  <2>2. r.count = Len(r.line) BY <1>2 DEF Fits
  <2> QED BY <1>2, <1>5, <1>6, <1>7, <1>8, <2>1, <2>2 DEF Fits
<1> QED BY <1>2, <1>9 DEF r

\* A job leaves, and its account with the last one.
LEMMA RemovedFits ==
  ASSUME NEW q, Fits(q, {}), NEW i \in DOMAIN q.line
  PROVE  /\ Fits(Removed(q, i), {})
         /\ Removed(q, i).line = RemoveAt(q.line, i) /\ Removed(q, i).count = q.count - 1
<1> DEFINE rest == Taken(q, i)
           a == q.line[i].account
<1>1. Fits(rest, {a}) /\ rest = [q EXCEPT !.line = RemoveAt(q.line, i), !.count = q.count - 1] BY TakenFits
<1>2. rest.line = RemoveAt(q.line, i) /\ rest.count = q.count - 1 /\ rest.order = q.order
  BY <1>1 DEF Fits, Queue
<1>3. PICK at \in DOMAIN q.order : q.order[at] = a BY DEF Fits
<1> HIDE DEF rest
<1>4. Removed(q, i) = IF Waits(rest, a) THEN rest ELSE Dropped(rest, a) BY DEF Removed, rest
<1>5. CASE Waits(rest, a)
  <2>1. Fits(rest, {}) BY <1>1, <1>5 DEF Fits
  <2> QED BY <1>2, <1>4, <1>5, <2>1
<1>6. CASE ~Waits(rest, a)
  <2>1. Fits(Dropped(rest, a), {}) /\ Dropped(rest, a).line = rest.line /\ Dropped(rest, a).count = rest.count
    <3>1. at \in DOMAIN rest.order /\ rest.order[at] = a BY <1>2, <1>3
    <3> HIDE DEF a
    <3> QED BY <1>1, <1>6, <3>1, DroppedFits, ZenonT(30)
  <2> QED BY <1>2, <1>4, <1>6, <2>1
<1> QED BY <1>5, <1>6

\* A job comes, and its account with the first one.
LEMMA AddedFits ==
  ASSUME NEW job \in Job, NEW q, Fits(q, {job.account})
  PROVE  /\ Fits(Added(q, job), {})
         /\ Added(q, job).line = Append(q.line, job) /\ Added(q, job).count = q.count + 1
         /\ Added(q, job).last = q.last
         /\ \/ Added(q, job).order = q.order
            \/ /\ Added(q, job).order = Append(q.order, job.account)
               /\ \A p \in DOMAIN q.order : q.order[p] # job.account
<1> DEFINE r == Added(q, job)
           a == job.account
<1>1. /\ q \in Queue /\ q.line \in Seq(Job) /\ q.order \in Seq(Accounts)
      /\ q.last \in [Tiers -> Nat] /\ q.count \in Nat /\ a \in Accounts
  BY DEF Fits, Queue, Job
<1> DEFINE order == IF \E i \in DOMAIN q.order : q.order[i] = a THEN q.order ELSE Append(q.order, a)
<1>2. r = [q EXCEPT !.line = Append(q.line, job), !.order = order, !.count = q.count + 1]
  BY <1>1 DEF Added, Queue
<1>3. order \in Seq(Accounts) BY <1>1
<1>4. /\ r.line = Append(q.line, job) /\ r.order = order /\ r.count = q.count + 1 /\ r.last = q.last
  BY <1>1, <1>2 DEF Queue
<1>0. r \in Queue
  <2>1. Append(q.line, job) \in Seq(Job) /\ q.count + 1 \in Nat BY <1>1
  <2>2. r = [line |-> Append(q.line, job), order |-> order, last |-> q.last, count |-> q.count + 1]
    BY <1>1, <1>2 DEF Queue
  <2> HIDE DEF r, order
  <2> QED BY <1>1, <1>3, <2>1, <2>2 DEF Queue
<1>5. /\ DOMAIN q.order \subseteq DOMAIN order /\ Len(q.order) <= Len(order)
      /\ \A p \in DOMAIN q.order : order[p] = q.order[p]
      /\ \A p \in DOMAIN order \ DOMAIN q.order : order[p] = a
  BY <1>1
<1>6. \E p \in DOMAIN order : order[p] = a
  <2>1. CASE \E i \in DOMAIN q.order : q.order[i] = a BY <2>1
  <2>2. CASE ~\E i \in DOMAIN q.order : q.order[i] = a
    <3>1. order = Append(q.order, a) BY <2>2
    <3>2. Len(q.order) + 1 \in DOMAIN order /\ order[Len(q.order) + 1] = a BY <1>1, <3>1
    <3> QED BY <3>2
  <2> QED BY <2>1, <2>2
<1>7. \A p, s \in DOMAIN order : order[p] = order[s] => p = s
  <2>1. CASE \E i \in DOMAIN q.order : q.order[i] = a BY <2>1 DEF Fits
  <2>2. CASE ~\E i \in DOMAIN q.order : q.order[i] = a
    <3>1. order = Append(q.order, a) BY <2>2
    <3>2. DOMAIN order = DOMAIN q.order \cup {Len(q.order) + 1} BY <1>1, <3>1
    <3>3. \A p \in DOMAIN q.order : order[p] # a BY <1>5, <2>2
    <3>4. order[Len(q.order) + 1] = a BY <1>1, <3>1
    <3> QED BY <1>5, <3>2, <3>3, <3>4 DEF Fits
  <2> QED BY <2>1, <2>2
<1>8. /\ \A i \in DOMAIN q.line : i \in DOMAIN r.line /\ r.line[i] = q.line[i]
      /\ \A i \in DOMAIN r.line : i \in DOMAIN q.line \/ r.line[i] = job
      /\ \E i \in DOMAIN r.line : r.line[i] = job
  <2>1. Len(q.line) \in Nat /\ DOMAIN r.line = 1 .. Len(q.line) + 1 /\ DOMAIN q.line = 1 .. Len(q.line)
        /\ r.line[Len(q.line) + 1] = job
    BY <1>1, <1>4
  <2>2. \A i \in 1 .. Len(q.line) : r.line[i] = q.line[i] BY <1>1, <1>4
  <2>3. Len(q.line) + 1 \in DOMAIN r.line BY <2>1
  <2> QED BY <2>1, <2>2, <2>3
<1> HIDE DEF r, order
<1>9. \A i \in DOMAIN r.line : \E p \in DOMAIN order : order[p] = r.line[i].account
  <2> SUFFICES ASSUME NEW i \in DOMAIN r.line PROVE \E p \in DOMAIN order : order[p] = r.line[i].account
    OBVIOUS
  <2>1. CASE r.line[i] = job BY <1>6, <2>1
  <2>2. CASE i \in DOMAIN q.line
    <3>1. PICK p \in DOMAIN q.order : q.order[p] = q.line[i].account BY <2>2 DEF Fits
    <3> QED BY <1>5, <1>8, <2>2, <3>1
  <2> QED BY <1>8, <2>1, <2>2
<1>10. \A p \in DOMAIN order : Waits(r, order[p])
  <2> SUFFICES ASSUME NEW p \in DOMAIN order PROVE Waits(r, order[p]) OBVIOUS
  <2>1. CASE order[p] = a BY <1>8, <2>1 DEF Waits
  <2>2. CASE order[p] # a
    <3>1. p \in DOMAIN q.order /\ order[p] = q.order[p] BY <1>5, <2>2
    <3>2. PICK i \in DOMAIN q.line : q.line[i].account = order[p] BY <2>2, <3>1 DEF Fits, Waits
    <3> QED BY <1>8, <3>2 DEF Waits
  <2> QED BY <2>1, <2>2
<1>11. \A t \in Tiers : r.last[t] <= Len(order)
  <2> SUFFICES ASSUME NEW t \in Tiers PROVE r.last[t] <= Len(order) OBVIOUS
  <2>1. q.last[t] \in Nat /\ q.last[t] <= Len(q.order) BY <1>1 DEF Fits
  <2>2. Len(q.order) \in Nat /\ Len(order) \in Nat BY <1>1, <1>3
  <2> QED BY <1>4, <1>5, <2>1, <2>2
<1>12. r.count = Len(r.line) BY <1>1, <1>4 DEF Fits
<1>13. Fits(r, {}) BY <1>0, <1>4, <1>7, <1>9, <1>10, <1>11, <1>12 DEF Fits
<1>14. \/ r.order = q.order
       \/ r.order = Append(q.order, a) /\ \A p \in DOMAIN q.order : q.order[p] # a
  BY <1>4 DEF order
<1> QED BY <1>4, <1>13, <1>14 DEF r

------------------------------------------------------------------------------
(***************************************************************************)
(* How many wait, who has most, and whose turn it is.                      *)
(***************************************************************************)
LEMMA WaitingFacts ==
  ASSUME NEW q, NEW S, Fits(q, S), NEW a, NEW t
  PROVE  /\ Places(q, a, t) \subseteq 1 .. Len(q.line) /\ Len(q.line) \in Nat
         /\ IsFiniteSet(Places(q, a, t))
         /\ Waiting(q, a, t) \in 0 .. Len(q.line)
         /\ Waiting(q, a, t) = 0 <=> Places(q, a, t) = {}
<1>1. q.line \in Seq(Job) /\ Len(q.line) \in Nat BY DEF Fits, Queue
<1>2. Places(q, a, t) \subseteq 1 .. Len(q.line) BY <1>1 DEF Places
<1>3. IsFiniteSet(1 .. Len(q.line)) /\ Cardinality(1 .. Len(q.line)) = Len(q.line)
  BY <1>1, FS_Interval, SMTT(30)
<1>4. IsFiniteSet(Places(q, a, t)) /\ Cardinality(Places(q, a, t)) <= Len(q.line)
  BY <1>2, <1>3, FS_Subset
<1>5. Cardinality(Places(q, a, t)) \in Nat BY <1>4, FS_CardinalityType
<1>6. Cardinality(Places(q, a, t)) = 0 <=> Places(q, a, t) = {} BY <1>4, FS_EmptySet
<1> QED BY <1>1, <1>2, <1>4, <1>5, <1>6 DEF Waiting

LEMMA NewestIsThere ==
  ASSUME NEW q, NEW S, Fits(q, S), NEW a, NEW t, Places(q, a, t) # {}
  PROVE  /\ Newest(q, a, t) \in DOMAIN q.line /\ Newest(q, a, t) # 0
         /\ q.line[Newest(q, a, t)] = JobOf(a, t)
<1>1. Places(q, a, t) \subseteq 0 .. Len(q.line) /\ Len(q.line) \in Nat
      /\ Places(q, a, t) \subseteq 1 .. Len(q.line)
  BY WaitingFacts
<1>2. Newest(q, a, t) \in Places(q, a, t)
  BY <1>1, LastOne DEF Newest
<1>3. Newest(q, a, t) # 0 BY <1>1, <1>2
<1> QED BY <1>2, <1>3 DEF Places

\* An account that waits is in the rotation.
LEMMA WaitsInOrder ==
  ASSUME NEW q, NEW S, Fits(q, S), NEW a, NEW t, Places(q, a, t) # {}
  PROVE  \E p \in DOMAIN q.order : q.order[p] = a
<1>1. PICK i \in DOMAIN q.line : q.line[i] = JobOf(a, t) BY DEF Places
<1>2. q.line[i].account = a BY <1>1 DEF JobOf
<1> QED BY <1>2 DEF Fits

LEMMA WaitingTierHasAccount ==
  ASSUME NEW q, NEW S, Fits(q, S), NEW t \in Tiers
  PROVE  HasWaitingInTier(q, t) <=> \E p \in DOMAIN q.order : Places(q, q.order[p], t) # {}
<1>1. ASSUME HasWaitingInTier(q, t) PROVE \E p \in DOMAIN q.order : Places(q, q.order[p], t) # {}
  <2>1. PICK i \in DOMAIN q.line : q.line[i].tier = t BY <1>1 DEF HasWaitingInTier
  <2>2. q.line[i] \in Job BY DEF Fits, Queue
  <2>3. q.line[i] = JobOf(q.line[i].account, t) BY <2>1, <2>2 DEF Job, JobOf
  <2>4. Places(q, q.line[i].account, t) # {} BY <2>3 DEF Places
  <2> QED BY <2>4, WaitsInOrder
<1>2. ASSUME NEW p \in DOMAIN q.order, Places(q, q.order[p], t) # {} PROVE HasWaitingInTier(q, t)
  <2>1. PICK i \in DOMAIN q.line : q.line[i] = JobOf(q.order[p], t) BY <1>2 DEF Places
  <2> QED BY <2>1 DEF HasWaitingInTier, JobOf
<1> QED BY <1>1, <1>2

\* No account has more waiting in a tier than its heaviest.
LEMMA HeaviestHasMost ==
  ASSUME NEW q, NEW S, Fits(q, S), NEW t \in Tiers, HasWaitingInTier(q, t)
  PROVE  /\ Places(q, Heaviest(q, t), t) # {}
         /\ \A a \in Accounts : Waiting(q, a, t) <= Waiting(q, Heaviest(q, t), t)
<1> DEFINE W == {Waiting(q, q.order[i], t) : i \in DOMAIN q.order}
           most == Max(W)
           C == {i \in DOMAIN q.order : Waiting(q, q.order[i], t) = most}
<1>1. q.order \in Seq(Accounts) /\ DOMAIN q.order \subseteq Nat BY DEF Fits, Queue
<1>2. PICK p \in DOMAIN q.order : Places(q, q.order[p], t) # {} BY WaitingTierHasAccount
<1>3. Len(q.line) \in Nat /\ \A a : Waiting(q, a, t) \in 0 .. Len(q.line) BY WaitingFacts
<1>4. W \subseteq 0 .. Len(q.line) /\ W # {} BY <1>2, <1>3
<1>5. most \in W /\ \A w \in W : w <= most BY <1>3, <1>4, LastOne
<1>6. C # {} /\ C \subseteq Nat BY <1>1, <1>5
<1>7. Min(C) \in C BY <1>6, FirstOne
<1>8. Heaviest(q, t) = q.order[Min(C)] BY DEF Heaviest
<1>9. Waiting(q, Heaviest(q, t), t) = most BY <1>7, <1>8
<1>10. \A i \in DOMAIN q.order : Waiting(q, q.order[i], t) <= most BY <1>5
<1> HIDE DEF most, W, C
<1>11. Waiting(q, q.order[p], t) # 0 /\ Waiting(q, q.order[p], t) \in Nat BY <1>2, WaitingFacts
<1>12. Waiting(q, Heaviest(q, t), t) # 0
  BY <1>3, <1>9, <1>10, <1>11
<1>13. ASSUME NEW a \in Accounts PROVE Waiting(q, a, t) <= Waiting(q, Heaviest(q, t), t)
  <2>1. CASE Places(q, a, t) = {}
    <3>1. Waiting(q, a, t) = 0 BY <2>1, WaitingFacts
    <3> QED BY <1>3, <3>1
  <2>2. CASE Places(q, a, t) # {}
    <3>1. PICK i \in DOMAIN q.order : q.order[i] = a BY <2>2, WaitsInOrder
    <3> QED BY <1>9, <1>10, <3>1
  <2> QED BY <2>1, <2>2
<1>14. Places(q, Heaviest(q, t), t) # {} BY <1>12, WaitingFacts
<1> QED BY <1>13, <1>14

\* Which job makes room for another, if one does.
EvictedRightly(q, job, lost) ==
  \/ job.tier = "interactive" /\ lost.tier = "background" /\ lost.account = job.account
  \/ /\ lost.tier = "background" \/ (~HasWaitingInTier(q, "background") /\ job.tier = "interactive")
     /\ lost.tier = job.tier => Waiting(q, job.account, job.tier) < Waiting(q, lost.account, lost.tier)
     /\ job.tier = "interactive" \/ lost.tier = "background"

LEMMA EvictedFacts ==
  ASSUME NEW q, Fits(q, {}), NEW job \in Job, Evicted(q, job) # 0
  PROVE  /\ Evicted(q, job) \in DOMAIN q.line
         /\ EvictedRightly(q, job, q.line[Evicted(q, job)])
<1> DEFINE i == Evicted(q, job)
           bg == "background"
           ia == "interactive"
           lighter(t) == Waiting(q, job.account, t) < Waiting(q, Heaviest(q, t), t)
           own == job.tier = ia /\ Places(q, job.account, bg) # {}
           others == HasWaitingInTier(q, bg) /\ (job.tier = ia \/ lighter(bg))
           equals == job.tier = ia /\ HasWaitingInTier(q, ia) /\ lighter(ia)
<1>0. job.tier \in Tiers /\ bg \in Tiers /\ ia \in Tiers BY DEF Job, Tiers
<1>1. i = IF own THEN Newest(q, job.account, bg)
          ELSE IF others THEN Newest(q, Heaviest(q, bg), bg)
          ELSE IF equals THEN Newest(q, Heaviest(q, ia), ia) ELSE 0
  BY DEF Evicted
<1>2. CASE own
  <2>1. i \in DOMAIN q.line /\ q.line[i] = JobOf(job.account, bg) BY <1>1, <1>2, NewestIsThere
  <2> QED BY <1>2, <2>1 DEF EvictedRightly, JobOf
<1>3. CASE ~own /\ others
  <2>1. i = Newest(q, Heaviest(q, bg), bg) BY <1>1, <1>3
  <2>2. i \in DOMAIN q.line /\ q.line[i] = JobOf(Heaviest(q, bg), bg)
    BY <1>0, <1>3, <2>1, HeaviestHasMost, NewestIsThere
  <2>3. (job.tier = ia \/ job.tier = bg) /\ (job.tier = ia \/ lighter(bg))
    <3>1. job.tier = ia \/ lighter(bg) BY <1>3
    <3>2. job.tier = ia \/ job.tier = bg BY <1>0 DEF Tiers
    <3> QED BY <3>1, <3>2
  <2>4. q.line[i].tier = bg /\ q.line[i].account = Heaviest(q, bg) BY <2>2 DEF JobOf
  <2> DEFINE lost == q.line[i]
  <2>6. lost.tier = job.tier => Waiting(q, job.account, job.tier) < Waiting(q, lost.account, lost.tier)
    BY <2>3, <2>4
  <2>5. EvictedRightly(q, job, lost)
    <3>1. lost.tier = "background" BY <2>4
    <3> HIDE DEF lost
    <3> QED BY <2>6, <3>1 DEF EvictedRightly
  <2> QED BY <2>2, <2>5
<1>4. CASE ~own /\ ~others /\ equals
  <2>1. i = Newest(q, Heaviest(q, ia), ia) BY <1>1, <1>4
  <2>2. i \in DOMAIN q.line /\ q.line[i] = JobOf(Heaviest(q, ia), ia)
    BY <1>0, <1>4, <2>1, HeaviestHasMost, NewestIsThere
  <2>3. ~HasWaitingInTier(q, bg) /\ job.tier = ia /\ lighter(ia) BY <1>4
  <2>4. q.line[i].tier = ia /\ q.line[i].account = Heaviest(q, ia) BY <2>2 DEF JobOf
  <2>5. EvictedRightly(q, job, q.line[i]) BY <2>3, <2>4 DEF EvictedRightly
  <2> QED BY <2>2, <2>5
<1>5. CASE ~own /\ ~others /\ ~equals BY <1>1, <1>5
<1> QED BY <1>2, <1>3, <1>4, <1>5

\* A request is refused when none of its tier has more than it, and an interactive one
\* when no background job waits.
LEMMA RefusedFacts ==
  ASSUME NEW q, Fits(q, {}), NEW job \in Job, Evicted(q, job) = 0
  PROVE  /\ \A a \in Accounts : Waiting(q, a, job.tier) <= Waiting(q, job.account, job.tier)
         /\ job.tier = "interactive" => ~HasWaitingInTier(q, "background")
<1> DEFINE t == job.tier
           lighter(u) == Waiting(q, job.account, u) < Waiting(q, Heaviest(q, u), u)
<1>0. t \in Tiers /\ Tiers = {"interactive", "background"} /\ job.account \in Accounts BY DEF Job, Tiers
<1>1. \A a, u : Waiting(q, a, u) \in Nat BY WaitingFacts
<1>2. ~(HasWaitingInTier(q, "background") /\ (t = "interactive" \/ lighter("background")))
  <2> SUFFICES ASSUME HasWaitingInTier(q, "background"), t = "interactive" \/ lighter("background")
               PROVE  FALSE
    OBVIOUS
  <2>1. CASE t = "interactive" /\ Places(q, job.account, "background") # {}
    <3>1. Evicted(q, job) = Newest(q, job.account, "background") BY <2>1 DEF Evicted
    <3> QED BY <2>1, <3>1, NewestIsThere
  <2>2. CASE ~(t = "interactive" /\ Places(q, job.account, "background") # {})
    <3>1. Evicted(q, job) = Newest(q, Heaviest(q, "background"), "background") BY <2>2 DEF Evicted
    <3> QED BY <1>0, <3>1, HeaviestHasMost, NewestIsThere
  <2> QED BY <2>1, <2>2
<1>3. t = "interactive" => ~(HasWaitingInTier(q, "interactive") /\ lighter("interactive"))
  <2> SUFFICES ASSUME t = "interactive", HasWaitingInTier(q, "interactive"), lighter("interactive")
               PROVE  FALSE
    OBVIOUS
  <2>1. ~HasWaitingInTier(q, "background") BY <1>2
  <2>2. Places(q, job.account, "background") = {}
    <3> SUFFICES ASSUME Places(q, job.account, "background") # {} PROVE FALSE OBVIOUS
    <3>1. \E p \in DOMAIN q.order : q.order[p] = job.account BY WaitsInOrder
    <3> QED BY <1>0, <2>1, <3>1, WaitingTierHasAccount
  <2>3. Evicted(q, job) = Newest(q, Heaviest(q, "interactive"), "interactive")
    BY <2>1, <2>2 DEF Evicted
  <2> QED BY <1>0, <2>3, HeaviestHasMost, NewestIsThere
<1>4. HasWaitingInTier(q, t) => ~lighter(t) BY <1>0, <1>2, <1>3
<1>5. ASSUME NEW a \in Accounts PROVE Waiting(q, a, t) <= Waiting(q, job.account, t)
  <2>1. CASE HasWaitingInTier(q, t)
    <3>1. Waiting(q, a, t) <= Waiting(q, Heaviest(q, t), t) BY <1>0, <2>1, HeaviestHasMost
    <3> HIDE DEF t
    <3> QED BY <1>1, <1>4, <2>1, <3>1
  <2>2. CASE ~HasWaitingInTier(q, t)
    <3>1. Places(q, a, t) = {}
      <4> SUFFICES ASSUME Places(q, a, t) # {} PROVE FALSE OBVIOUS
      <4>1. \E p \in DOMAIN q.order : q.order[p] = a BY WaitsInOrder
      <4> QED BY <1>0, <2>2, <4>1, WaitingTierHasAccount
    <3>2. Waiting(q, a, t) = 0 BY <3>1, WaitingFacts
    <3> HIDE DEF t
    <3> QED BY <1>1, <3>2
  <2> QED BY <2>1, <2>2
<1> QED BY <1>2, <1>5

\* The first account after the last one served that waits in the tier, and its first job.
Candidates(q, t) == {p \in DOMAIN q.order : Places(q, q.order[p], t) # {}}

LEMMA TurnFacts ==
  ASSUME NEW q, NEW S, Fits(q, S), NEW t \in Tiers, HasWaitingInTier(q, t)
  PROVE  /\ Turn(q, t) \in Candidates(q, t)
         /\ \A p \in Candidates(q, t) :
              /\ p > q.last[t] => Turn(q, t) > q.last[t] /\ Turn(q, t) <= p
              /\ Turn(q, t) > q.last[t] \/ Turn(q, t) <= p
         /\ NextJob(q, t) \in DOMAIN q.line
         /\ q.line[NextJob(q, t)] = JobOf(q.order[Turn(q, t)], t)
<1> DEFINE C == Candidates(q, t)
           after == {p \in C : p > q.last[t]}
<1>1. q.order \in Seq(Accounts) /\ DOMAIN q.order \subseteq Nat /\ q.last[t] \in Nat BY DEF Fits, Queue
<1>2. C # {} /\ C \subseteq Nat /\ after \subseteq Nat BY <1>1, WaitingTierHasAccount DEF Candidates
<1>3. Turn(q, t) = IF after # {} THEN Min(after) ELSE Min(C) BY DEF Turn, Candidates
<1>4. /\ Min(C) \in C /\ \A p \in C : Min(C) <= p
      /\ after # {} => Min(after) \in after /\ \A p \in after : Min(after) <= p
  BY <1>2, FirstOne
<1> HIDE DEF C
<1>5. /\ Turn(q, t) \in C
      /\ \A p \in C : /\ p > q.last[t] => Turn(q, t) > q.last[t] /\ Turn(q, t) <= p
                      /\ Turn(q, t) > q.last[t] \/ Turn(q, t) <= p
  BY <1>1, <1>2, <1>3, <1>4
<1> DEFINE P == Places(q, q.order[Turn(q, t)], t)
<1>6. P # {} /\ P \subseteq Nat BY <1>5, WaitingFacts DEF C, Candidates
<1>7. NextJob(q, t) \in P BY <1>6, FirstOne DEF NextJob
<1> QED BY <1>5, <1>7 DEF C, Places

LEMMA ChosenTierFacts ==
  ASSUME NEW q, Fits(q, {}), q.count > 0
  PROVE  /\ ChosenTier(q) \in Tiers /\ HasWaitingInTier(q, ChosenTier(q))
         /\ ChosenTier(q) = "interactive" /\ HasWaitingInTier(q, "background") =>
              ~(consecutive >= MaxConsecutiveInteractive)
<1>1. Len(q.line) > 0 /\ q.line \in Seq(Job) BY DEF Fits, Queue
<1>0. 1 \in DOMAIN q.line /\ q.line[1] \in Job BY <1>1
<1>2. 1 \in DOMAIN q.line /\ q.line[1].tier \in Tiers BY <1>0 DEF Job
<1>3. HasWaitingInTier(q, "interactive") \/ HasWaitingInTier(q, "background")
  BY <1>2 DEF HasWaitingInTier, Tiers
<1> QED BY <1>3 DEF ChosenTier, Tiers

------------------------------------------------------------------------------
(***************************************************************************)
(* Counting: a job that leaves is one less, a job that comes is one more.  *)
(***************************************************************************)
LEMMA WaitingWithout ==
  ASSUME NEW q, NEW S, Fits(q, S), NEW i \in DOMAIN q.line, NEW r, r.line = RemoveAt(q.line, i),
         NEW a, NEW t
  PROVE  Waiting(r, a, t) = IF q.line[i] = JobOf(a, t) THEN Waiting(q, a, t) - 1 ELSE Waiting(q, a, t)
<1> DEFINE P == Places(q, a, t) \ {i}
           R == Places(r, a, t)
           f == [k \in P |-> IF k < i THEN k ELSE k - 1]
           n == Len(q.line)
<1>0. q.line \in Seq(Job) BY DEF Fits, Queue
<1>1. /\ q.line \in Seq(Job) /\ r.line \in Seq(Job) /\ n \in Nat \ {0} /\ i \in 1 .. n
      /\ Len(r.line) = n - 1
      /\ \A j \in 1 .. n - 1 : r.line[j] = IF j < i THEN q.line[j] ELSE q.line[j + 1]
  <2>1. /\ RemoveAt(q.line, i) \in Seq(Job)
        /\ Len(RemoveAt(q.line, i)) = Len(q.line) - 1 /\ Len(q.line) \in Nat \ {0} /\ i \in 1 .. Len(q.line)
        /\ \A j \in 1 .. Len(q.line) - 1 :
             RemoveAt(q.line, i)[j] = IF j < i THEN q.line[j] ELSE q.line[j + 1]
    BY <1>0, RemoveAtFacts, ZenonT(30)
  <2> QED BY <1>0, <2>1, ZenonT(30)
<1>2. DOMAIN q.line = 1 .. n /\ DOMAIN r.line = 1 .. n - 1 BY <1>1
<1> HIDE DEF n
<1>3. ASSUME NEW k \in P PROVE k \in Nat /\ f[k] \in R
  <2>1. k \in 1 .. n /\ k # i /\ q.line[k] = JobOf(a, t) BY <1>2 DEF Places
  <2>2. CASE k < i
    <3>1. f[k] = k /\ k \in 1 .. n - 1 BY <1>1, <2>1, <2>2
    <3>2. r.line[k] = q.line[k] BY <1>1, <2>2, <3>1
    <3> QED BY <1>2, <2>1, <3>1, <3>2 DEF Places
  <2>3. CASE ~(k < i)
    <3>1. f[k] = k - 1 /\ k - 1 \in 1 .. n - 1 /\ ~(k - 1 < i) /\ (k - 1) + 1 = k BY <1>1, <2>1, <2>3
    <3>2. r.line[k - 1] = q.line[k] BY <1>1, <3>1
    <3> QED BY <1>2, <2>1, <3>1, <3>2 DEF Places
  <2> QED BY <2>2, <2>3
<1>4. ASSUME NEW j \in R PROVE \E k \in P : f[k] = j
  <2>1. j \in 1 .. n - 1 /\ r.line[j] = JobOf(a, t) BY <1>2 DEF Places
  <2>2. CASE j < i
    <3>1. j \in 1 .. n /\ j # i /\ q.line[j] = JobOf(a, t) BY <1>1, <2>1, <2>2
    <3>2. j \in P BY <1>2, <3>1 DEF Places
    <3> QED BY <2>2, <3>2
  <2>3. CASE ~(j < i)
    <3>1. j + 1 \in 1 .. n /\ j + 1 # i /\ q.line[j + 1] = JobOf(a, t) /\ ~(j + 1 < i)
      BY <1>1, <2>1, <2>3
    <3>2. j + 1 \in P BY <1>2, <3>1 DEF Places
    <3>3. f[j + 1] = j BY <2>1, <3>1, <3>2
    <3> QED BY <3>2, <3>3
  <2> QED BY <2>2, <2>3
<1>5. ASSUME NEW k \in P, NEW l \in P, f[k] = f[l] PROVE k = l
  <2>1. k \in Nat /\ l \in Nat /\ k # i /\ l # i /\ i \in Nat BY <1>1, <1>3
  <2> QED BY <1>5, <2>1
<1>6. f \in Bijection(P, R)
  BY <1>3, <1>4, <1>5 DEF Bijection, Injection, Surjection, IsInjective
<1>7. IsFiniteSet(Places(q, a, t)) /\ Waiting(q, a, t) \in Nat BY WaitingFacts
<1>8. IsFiniteSet(P) BY <1>7, FS_Subset
<1>9. Cardinality(R) = Cardinality(P) BY <1>6, <1>8, FS_Bijection DEF ExistsBijection
<1>10. CASE q.line[i] = JobOf(a, t)
  <2>1. i \in Places(q, a, t) BY <1>10 DEF Places
  <2>2. Cardinality(P) = Cardinality(Places(q, a, t)) - 1 BY <1>7, <2>1, FS_RemoveElement
  <2> QED BY <1>9, <1>10, <2>2 DEF Waiting
<1>11. CASE q.line[i] # JobOf(a, t)
  <2>1. P = Places(q, a, t) BY <1>11 DEF Places
  <2> QED BY <1>9, <1>11, <2>1 DEF Waiting
<1> QED BY <1>10, <1>11

LEMMA WaitingWith ==
  ASSUME NEW q, NEW S, Fits(q, S), NEW job \in Job, NEW r, r.line = Append(q.line, job),
         NEW a, NEW t
  PROVE  Waiting(r, a, t) = IF job = JobOf(a, t) THEN Waiting(q, a, t) + 1 ELSE Waiting(q, a, t)
<1> DEFINE n == Len(q.line) + 1
<1>1. q.line \in Seq(Job) /\ Len(q.line) \in Nat BY DEF Fits, Queue
<1>2. /\ DOMAIN r.line = DOMAIN q.line \cup {n} /\ n \notin DOMAIN q.line
      /\ r.line[n] = job /\ \A k \in DOMAIN q.line : r.line[k] = q.line[k]
  BY <1>1
<1>3. IsFiniteSet(Places(q, a, t)) BY WaitingFacts
<1> HIDE DEF n
<1>4. CASE job = JobOf(a, t)
  <2>1. Places(r, a, t) = Places(q, a, t) \cup {n} BY <1>2, <1>4 DEF Places
  <2>2. n \notin Places(q, a, t) BY <1>2 DEF Places
  <2> QED BY <1>3, <1>4, <2>1, <2>2, FS_AddElement DEF Waiting
<1>5. CASE job # JobOf(a, t)
  <2>1. Places(r, a, t) = Places(q, a, t) BY <1>2, <1>5 DEF Places
  <2> QED BY <1>5, <2>1 DEF Waiting
<1> QED BY <1>4, <1>5

\* No tier is waited in anew but that of the job that comes.
LEMMA TiersWithout ==
  ASSUME NEW q, NEW S, Fits(q, S), NEW i \in DOMAIN q.line, NEW r, r.line = RemoveAt(q.line, i),
         NEW t, HasWaitingInTier(r, t)
  PROVE  HasWaitingInTier(q, t)
<1>1. q.line \in Seq(Job) BY DEF Fits, Queue
<1>2. PICK j \in DOMAIN r.line : r.line[j].tier = t BY DEF HasWaitingInTier
<1>3. PICK k \in DOMAIN q.line : r.line[j] = q.line[k] BY <1>1, <1>2, RemoveAtElements
<1> QED BY <1>2, <1>3 DEF HasWaitingInTier

LEMMA TiersWith ==
  ASSUME NEW q, NEW S, Fits(q, S), NEW job \in Job, NEW r, r.line = Append(q.line, job),
         NEW t, HasWaitingInTier(r, t), job.tier # t
  PROVE  HasWaitingInTier(q, t)
<1>1. q.line \in Seq(Job) /\ Len(q.line) \in Nat BY DEF Fits, Queue
<1>2. PICK j \in DOMAIN r.line : r.line[j].tier = t BY DEF HasWaitingInTier
<1>3. \A k \in DOMAIN r.line : r.line[k] = job \/ (k \in DOMAIN q.line /\ r.line[k] = q.line[k]) BY <1>1
<1> QED BY <1>2, <1>3 DEF HasWaitingInTier

------------------------------------------------------------------------------
(***************************************************************************)
(* The waiting room.                                                       *)
(***************************************************************************)
RoomIsRight ==
  /\ TypeOK /\ Fits(queue, {}) /\ queue.count <= Capacity
  /\ NoSlotIdles /\ EvictionIsFair

LEMMA RoomMadeFits ==
  ASSUME NEW q, Fits(q, {}), NEW job \in Job, Evicted(q, job) # 0
  PROVE  LET r == RoomMade(q, job)
         IN Fits(r, {job.account}) /\ r.line = RemoveAt(q.line, Evicted(q, job)) /\ r.count = q.count - 1
<1> DEFINE i == Evicted(q, job)
<1>1. i \in DOMAIN q.line BY EvictedFacts
<1>2. RoomMade(q, job) = IF q.line[i].account = job.account THEN Taken(q, i) ELSE Removed(q, i)
  BY DEF RoomMade
<1> HIDE DEF i
<1>3. CASE q.line[i].account = job.account
  <2>1. /\ Fits(Taken(q, i), {job.account})
        /\ Taken(q, i) = [q EXCEPT !.line = RemoveAt(q.line, i), !.count = q.count - 1]
    BY <1>1, <1>3, TakenFits
  <2>2. Taken(q, i).line = RemoveAt(q.line, i) /\ Taken(q, i).count = q.count - 1
    BY <2>1 DEF Fits, Queue
  <2> QED BY <1>2, <1>3, <2>1, <2>2 DEF i
<1>4. CASE q.line[i].account # job.account
  <2>1. /\ Fits(Removed(q, i), {})
        /\ Removed(q, i).line = RemoveAt(q.line, i) /\ Removed(q, i).count = q.count - 1
    BY <1>1, RemovedFits
  <2>2. Fits(Removed(q, i), {job.account}) BY <2>1 DEF Fits
  <2> QED BY <1>2, <1>4, <2>1, <2>2 DEF i
<1> QED BY <1>3, <1>4

LEMMA QueueOfFits == ASSUME NEW q, NEW S, Fits(q, S) PROVE q \in Queue
BY DEF Fits

LEMMA EnqueueKeeps == ASSUME RoomIsRight, NEW job \in Job, Enqueue(job) PROVE RoomIsRight'
<1>1. Fits(queue, {job.account}) BY DEF RoomIsRight, Fits
<1>2. Fits(queue', {}) /\ queue'.count = queue.count + 1 BY <1>1, AddedFits, ZenonT(30) DEF Enqueue
<1>3. queue.count \in Nat /\ queue.count < Capacity /\ Capacity \in Nat
  BY QueueAssumption DEF RoomIsRight, TypeOK, Queue, Enqueue
<1>4. active' = Concurrency
  BY <1>3, QueueAssumption DEF RoomIsRight, TypeOK, NoSlotIdles, Enqueue, MustWait
<1>5. TypeOK' BY <1>2, QueueOfFits DEF RoomIsRight, TypeOK, Enqueue
<1>6. answer' = None BY DEF Enqueue
<1>7. queue'.count <= Capacity BY <1>2, <1>3
<1>8. NoSlotIdles' BY <1>4, QueueAssumption DEF NoSlotIdles, Enqueue
<1>9. EvictionIsFair' BY <1>6 DEF EvictionIsFair
<1> QED BY <1>2, <1>5, <1>7, <1>8, <1>9 DEF RoomIsRight

\* Who lost a place and who won it, counted after the exchange.
LEMMA ExchangeIsFair ==
  ASSUME NEW q, Fits(q, {}), NEW job \in Job, Evicted(q, job) # 0,
         NEW r, r = Added(RoomMade(q, job), job), NEW lost, lost = q.line[Evicted(q, job)]
  PROVE  /\ Fits(r, {}) /\ r.count = q.count /\ lost \in Job /\ lost # job
         /\ lost.tier = job.tier =>
              Waiting(r, job.account, job.tier) <= Waiting(r, lost.account, lost.tier) + 1
         /\ lost.tier = "interactive" => job.tier = "interactive" /\ ~HasWaitingInTier(r, "background")
<1> DEFINE i == Evicted(q, job)
           m == RoomMade(q, job)
           w(x, y) == Waiting(x, y.account, y.tier)
<1>1. i \in DOMAIN q.line /\ EvictedRightly(q, job, lost) BY EvictedFacts
<1>2. Fits(m, {job.account}) /\ m.line = RemoveAt(q.line, i) /\ m.count = q.count - 1 BY RoomMadeFits
<1>3. q.line \in Seq(Job) /\ q.count \in Nat BY DEF Fits, Queue
<1>4. lost \in Job BY <1>1, <1>3
<1>5. job = JobOf(job.account, job.tier) /\ lost = JobOf(lost.account, lost.tier)
  BY <1>4 DEF Job, JobOf
<1> HIDE DEF i, m
<1>6. r = Added(m, job) BY DEF m
<1>7. Fits(r, {}) /\ r.line = Append(m.line, job) /\ r.count = m.count + 1
  <2>1. Fits(Added(m, job), {}) /\ Added(m, job).line = Append(m.line, job) /\ Added(m, job).count = m.count + 1
    BY <1>2, AddedFits, ZenonT(30)
  <2> QED BY <1>6, <2>1
<1>8. r.count = q.count BY <1>2, <1>3, <1>7
<1>9. job.tier \in Tiers /\ lost.tier \in Tiers /\ Tiers = {"interactive", "background"}
  BY <1>4 DEF Job, Tiers
<1>10. w(q, job) \in Nat /\ w(q, lost) \in Nat BY WaitingFacts
<1>11. lost # job
  <2>1. lost.tier # job.tier \/ w(q, job) < w(q, lost) BY <1>1, <1>9 DEF EvictedRightly
  <2>2. CASE lost.tier # job.tier BY <2>2
  <2>3. CASE w(q, job) < w(q, lost)
    <3> SUFFICES ASSUME lost = job PROVE FALSE OBVIOUS
    <3>1. w(q, job) = w(q, lost) OBVIOUS
    <3> HIDE DEF w
    <3> QED BY <1>10, <2>3, <3>1
  <2> QED BY <2>1, <2>2, <2>3
<1>12. ASSUME lost.tier = job.tier PROVE w(r, job) <= w(r, lost) + 1
  <2>1. w(q, job) < w(q, lost) BY <1>1, <1>9, <1>12 DEF EvictedRightly
  <2>2. lost = q.line[i] BY DEF i
  <2>3. w(m, job) = w(q, job) /\ w(m, lost) = w(q, lost) - 1
    <3>1. w(m, job) = IF q.line[i] = JobOf(job.account, job.tier) THEN w(q, job) - 1 ELSE w(q, job)
      BY <1>1, <1>2, WaitingWithout DEF i
    <3>2. w(m, lost) = IF q.line[i] = JobOf(lost.account, lost.tier) THEN w(q, lost) - 1 ELSE w(q, lost)
      BY <1>1, <1>2, WaitingWithout DEF i
    <3> HIDE DEF w
    <3> QED BY <1>5, <1>11, <2>2, <3>1, <3>2
  <2>4. w(r, job) = w(m, job) + 1 /\ w(r, lost) = w(m, lost)
    <3>1. w(r, job) = IF job = JobOf(job.account, job.tier) THEN w(m, job) + 1 ELSE w(m, job)
      BY <1>2, <1>7, WaitingWith, SMTT(30)
    <3>2. w(r, lost) = IF job = JobOf(lost.account, lost.tier) THEN w(m, lost) + 1 ELSE w(m, lost)
      BY <1>2, <1>7, WaitingWith
    <3> HIDE DEF w
    <3> QED BY <1>5, <1>11, <3>1, <3>2
  <2> HIDE DEF w
  <2> QED BY <1>10, <2>1, <2>3, <2>4
<1>13. ASSUME lost.tier = "interactive" PROVE job.tier = "interactive" /\ ~HasWaitingInTier(r, "background")
  <2>1. job.tier = "interactive" /\ ~HasWaitingInTier(q, "background")
    BY <1>1, <1>13 DEF EvictedRightly
  <2>2. ~HasWaitingInTier(m, "background") BY <1>1, <1>2, <2>1, TiersWithout DEF i
  <2>3. ~HasWaitingInTier(r, "background") BY <1>2, <1>7, <2>1, <2>2, TiersWith
  <2> QED BY <2>1, <2>3
<1> QED BY <1>4, <1>7, <1>8, <1>11, <1>12, <1>13

LEMMA EnqueueInPlaceKeeps ==
  ASSUME RoomIsRight, NEW job \in Job, EnqueueInPlace(job) PROVE RoomIsRight'
<1> DEFINE lost == queue.line[Evicted(queue, job)]
<1>1. /\ Fits(queue, {}) /\ Evicted(queue, job) # 0 /\ queue' = Added(RoomMade(queue, job), job)
      /\ answer' = [job |-> lost, for |-> job] /\ UNCHANGED <<active, consecutive>> /\ started' = None
  BY DEF RoomIsRight, EnqueueInPlace
<1>2. /\ Fits(queue', {}) /\ queue'.count = queue.count /\ lost \in Job /\ lost # job
      /\ lost.tier = job.tier =>
           Waiting(queue', job.account, job.tier) <= Waiting(queue', lost.account, lost.tier) + 1
      /\ lost.tier = "interactive" => job.tier = "interactive" /\ ~HasWaitingInTier(queue', "background")
  BY <1>1, ExchangeIsFair
<1> HIDE DEF lost
<1>3. TypeOK' BY <1>1, <1>2, QueueOfFits DEF RoomIsRight, TypeOK
<1>4. answer'.job = lost /\ answer'.for = job BY <1>1
<1>5. EvictionIsFair' BY <1>2, <1>4 DEF EvictionIsFair
<1>6. NoSlotIdles' BY <1>1, <1>2 DEF RoomIsRight, NoSlotIdles
<1> QED BY <1>2, <1>3, <1>5, <1>6 DEF RoomIsRight

LEMMA RefuseKeeps == ASSUME RoomIsRight, NEW job \in Job, Refuse(job) PROVE RoomIsRight'
<1>1. /\ Fits(queue, {}) /\ Evicted(queue, job) = 0 /\ answer' = [job |-> job, for |-> job]
      /\ UNCHANGED <<active, queue, consecutive>> /\ started' = None
  BY DEF RoomIsRight, Refuse
<1>2. /\ \A a \in Accounts : Waiting(queue, a, job.tier) <= Waiting(queue, job.account, job.tier)
      /\ job.tier = "interactive" => ~HasWaitingInTier(queue, "background")
  BY <1>1, RefusedFacts
<1>3. TypeOK' BY <1>1 DEF RoomIsRight, TypeOK
<1>4. answer'.job = job /\ answer'.for = job BY <1>1
<1>5. EvictionIsFair' BY <1>1, <1>2, <1>4 DEF EvictionIsFair
<1> QED BY <1>1, <1>3, <1>5 DEF RoomIsRight, NoSlotIdles

LEMMA AbortKeeps == ASSUME RoomIsRight, NEW i \in DOMAIN queue.line, Abort(i) PROVE RoomIsRight'
<1>1. Fits(queue, {}) /\ queue.count \in Nat /\ queue.count <= Capacity /\ Capacity \in Nat
  BY QueueAssumption DEF RoomIsRight, TypeOK, Queue
<1>2. Fits(queue', {}) /\ queue'.count = queue.count - 1 BY <1>1, RemovedFits DEF Abort
<1>3. TypeOK' BY <1>2, QueueOfFits DEF RoomIsRight, TypeOK, Abort
<1>4. EvictionIsFair' BY DEF EvictionIsFair, Abort
<1>5. NoSlotIdles' BY <1>1, <1>2 DEF RoomIsRight, NoSlotIdles, Abort
<1>6. queue'.count <= Capacity BY <1>1, <1>2
<1> QED BY <1>2, <1>3, <1>4, <1>5, <1>6 DEF RoomIsRight

\* The job that a slot that comes free takes, and what the room is without it.
LEMMA DispatchFacts ==
  ASSUME Fits(queue, {}), queue.count > 0, NEW t \in Tiers, t = ChosenTier(queue),
         NEW i, i = NextJob(queue, t), NEW q, q = [queue EXCEPT !.last[t] = Turn(queue, t)]
  PROVE  /\ Fits(q, {}) /\ q.line = queue.line /\ q.order = queue.order /\ q.count = queue.count
         /\ q.last = [queue.last EXCEPT ![t] = Turn(queue, t)]
         /\ i \in DOMAIN queue.line /\ queue.line[i] = JobOf(queue.order[Turn(queue, t)], t)
         /\ Turn(queue, t) \in DOMAIN queue.order /\ queue.line[i] \in Job
<1>1. HasWaitingInTier(queue, t) BY ChosenTierFacts
<1>2. /\ Turn(queue, t) \in Candidates(queue, t) /\ i \in DOMAIN queue.line
      /\ queue.line[i] = JobOf(queue.order[Turn(queue, t)], t)
  BY <1>1, TurnFacts
<1>3. Turn(queue, t) \in DOMAIN queue.order BY <1>2 DEF Candidates
<1> DEFINE last == [queue.last EXCEPT ![t] = Turn(queue, t)]
<1>4. /\ queue \in Queue /\ queue.line \in Seq(Job) /\ queue.order \in Seq(Accounts)
      /\ queue.last \in [Tiers -> Nat] /\ queue.count \in Nat
  BY DEF Fits, Queue
<1>5. Turn(queue, t) \in Nat /\ Turn(queue, t) <= Len(queue.order) BY <1>3, <1>4
<1>6. last \in [Tiers -> Nat] BY <1>4, <1>5
<1>7. \A u \in Tiers : last[u] <= Len(queue.order) BY <1>4, <1>5 DEF Fits
<1>8. q = [queue EXCEPT !.last = last] BY <1>4 DEF Queue
<1> HIDE DEF last
<1>9. q.line = queue.line /\ q.order = queue.order /\ q.count = queue.count /\ q.last = last
  BY <1>4, <1>8 DEF Queue
<1>10. q \in Queue BY <1>4, <1>6, <1>8 DEF Queue
<1>11. Fits(q, {}) BY <1>7, <1>9, <1>10 DEF Fits, Waits
<1> QED BY <1>2, <1>3, <1>4, <1>9, <1>11 DEF last

LEMMA FinishKeeps == ASSUME RoomIsRight, Finish PROVE RoomIsRight'
<1>1. /\ Fits(queue, {}) /\ queue.count \in Nat /\ queue.count <= Capacity /\ Capacity \in Nat
      /\ active \in 0 .. Concurrency /\ Concurrency \in Nat /\ active > 0 /\ answer' = None
      /\ consecutive \in 0 .. MaxConsecutiveInteractive /\ MaxConsecutiveInteractive \in Nat \ {0}
  BY QueueAssumption DEF RoomIsRight, TypeOK, Queue, Finish
<1>2. EvictionIsFair' BY <1>1 DEF EvictionIsFair
<1>3. CASE queue.count = 0
  <2>1. active' = active - 1 /\ started' = None /\ UNCHANGED <<queue, consecutive>>
    BY <1>3 DEF Finish, DispatchNext
  <2>2. TypeOK' BY <1>1, <2>1 DEF RoomIsRight, TypeOK
  <2>3. NoSlotIdles' BY <1>3, <2>1 DEF NoSlotIdles
  <2> QED BY <1>1, <1>2, <2>1, <2>2, <2>3 DEF RoomIsRight
<1>4. CASE queue.count # 0
  <2>1. ~(active - 1 >= Concurrency \/ queue.count = 0) BY <1>1, <1>4
  <2>0. DispatchNext(active - 1) BY DEF Finish
  <2>2. PICK t \in Tiers, i \in DOMAIN queue.line :
          /\ t = ChosenTier(queue) /\ i = NextJob(queue, t)
          /\ started' = queue.line[i]
          /\ queue' = Removed([queue EXCEPT !.last[t] = Turn(queue, t)], i)
          /\ consecutive' = IF t = "interactive" /\ HasWaitingInTier(queue', "background")
                            THEN consecutive + 1 ELSE 0
          /\ active' = (active - 1) + 1
    BY <2>0, <2>1 DEF DispatchNext
  <2> DEFINE q == [queue EXCEPT !.last[t] = Turn(queue, t)]
  <2>3. queue.count > 0 BY <1>1, <1>4
  <2>4. Fits(q, {}) /\ q.line = queue.line /\ q.count = queue.count /\ queue.line[i] \in Job
    BY <1>1, <2>2, <2>3, DispatchFacts
  <2> HIDE DEF q
  <2>5. queue' = Removed(q, i) /\ i \in DOMAIN q.line BY <2>2, <2>4 DEF q
  <2>6. Fits(queue', {}) /\ queue'.line = RemoveAt(queue.line, i) /\ queue'.count = queue.count - 1
    BY <2>4, <2>5, RemovedFits
  <2>7. consecutive' \in 0 .. MaxConsecutiveInteractive
    <3>1. CASE t = "interactive" /\ HasWaitingInTier(queue', "background")
      <4>1. HasWaitingInTier(queue, "background") BY <1>1, <2>6, <3>1, TiersWithout
      <4>2. ~(consecutive >= MaxConsecutiveInteractive) BY <1>1, <2>2, <2>3, <3>1, <4>1, ChosenTierFacts
      <4> QED BY <1>1, <2>2, <3>1, <4>2
    <3>2. CASE ~(t = "interactive" /\ HasWaitingInTier(queue', "background")) BY <1>1, <2>2, <3>2
    <3> QED BY <3>1, <3>2
  <2>8. active' = active BY <1>1, <2>2
  <2>9. TypeOK' BY <1>1, <2>2, <2>4, <2>6, <2>7, <2>8, QueueOfFits DEF RoomIsRight, TypeOK
  <2>10. NoSlotIdles' BY <2>3, <2>8 DEF RoomIsRight, NoSlotIdles
  <2>11. queue'.count <= Capacity BY <1>1, <2>6
  <2> QED BY <1>2, <2>6, <2>9, <2>10, <2>11 DEF RoomIsRight
<1> QED BY <1>3, <1>4

LEMMA RunImmediatelyKeeps == ASSUME RoomIsRight, RunImmediately PROVE RoomIsRight'
<1>1. TypeOK' BY QueueAssumption DEF RoomIsRight, TypeOK, RunImmediately
<1> QED BY <1>1 DEF RoomIsRight, RunImmediately, NoSlotIdles, EvictionIsFair

LEMMA RoomInit == Init => RoomIsRight
<1> SUFFICES ASSUME Init PROVE RoomIsRight OBVIOUS
<1>1. <<>> \in Seq(Job) /\ <<>> \in Seq(Accounts) /\ DOMAIN <<>> = {} /\ Len(<<>>) = 0 OBVIOUS
<1>2. queue \in Queue BY <1>1 DEF Init, Queue
<1>3. Fits(queue, {}) BY <1>1, <1>2 DEF Init, Fits
<1>4. TypeOK BY <1>2, QueueAssumption DEF Init, TypeOK
<1>5. queue.count <= Capacity BY QueueAssumption DEF Init
<1> QED BY <1>3, <1>4, <1>5 DEF Init, RoomIsRight, NoSlotIdles, EvictionIsFair

LEMMA RoomNext == RoomIsRight /\ Next => RoomIsRight'
BY EnqueueKeeps, EnqueueInPlaceKeeps, RefuseKeeps, AbortKeeps, FinishKeeps, RunImmediatelyKeeps DEF Next

LEMMA OrderFollows == RoomIsRight => OrderIsRight
BY DEF RoomIsRight, OrderIsRight, Fits

------------------------------------------------------------------------------
(***************************************************************************)
(* The rotation: whose turn is sooner, counted on from the last one served. *)
(***************************************************************************)
InTurn(q, a) == \E p \in DOMAIN q.order : q.order[p] = a
Distance(q, t, p) == IF p > q.last[t] THEN p ELSE p + Len(q.order)
Sooner(q, t, a, b) ==
  \E p, r \in DOMAIN q.order :
    q.order[p] = a /\ q.order[r] = b /\ Distance(q, t, p) < Distance(q, t, r)

LEMMA OrderFacts ==
  ASSUME NEW q, NEW S, Fits(q, S)
  PROVE  /\ q.order \in Seq(Accounts) /\ Len(q.order) \in Nat /\ DOMAIN q.order = 1 .. Len(q.order)
         /\ \A t \in Tiers : q.last[t] \in Nat /\ q.last[t] <= Len(q.order)
         /\ \A p, r \in DOMAIN q.order : q.order[p] = q.order[r] => p = r
BY DEF Fits, Queue

\* An account that leaves changes nothing between two others.
LEMMA DroppedKeepsTurns ==
  ASSUME NEW q, NEW S, Fits(q, S), NEW x, InTurn(q, x), NEW r, r = Dropped(q, x)
  PROVE  /\ ~InTurn(r, x)
         /\ \A c : c # x => (InTurn(r, c) <=> InTurn(q, c))
         /\ \A t \in Tiers : \A a, b : a # x /\ b # x /\ Sooner(q, t, a, b) => Sooner(r, t, a, b)
<1>1. PICK at \in DOMAIN q.order : q.order[at] = x BY DEF InTurn
<1>2. /\ r.order = RemoveAt(q.order, at)
      /\ r.last = [t \in Tiers |-> IF at <= q.last[t] THEN q.last[t] - 1 ELSE q.last[t]]
  BY <1>1, DroppedFacts
<1> DEFINE n == Len(q.order)
<1>3. /\ q.order \in Seq(Accounts) /\ n \in Nat /\ DOMAIN q.order = 1 .. n
      /\ \A t \in Tiers : q.last[t] \in Nat /\ q.last[t] <= n
      /\ \A p, s \in DOMAIN q.order : q.order[p] = q.order[s] => p = s
  BY OrderFacts
<1>a. r.order = RemoveAt(q.order, at) /\ q.order \in Seq(Accounts) BY <1>2, <1>3
<1>4. /\ r.order \in Seq(Accounts) /\ Len(r.order) = n - 1 /\ at \in 1 .. n
      /\ \A j \in 1 .. n - 1 : r.order[j] = IF j < at THEN q.order[j] ELSE q.order[j + 1]
  BY <1>a, RemoveAtFacts, SMTT(30)
<1>5. DOMAIN r.order = 1 .. n - 1 BY <1>4
<1>6. /\ \A j \in DOMAIN r.order : \E k \in DOMAIN q.order : k # at /\ r.order[j] = q.order[k]
      /\ \A k \in DOMAIN q.order : k # at => \E j \in DOMAIN r.order : r.order[j] = q.order[k]
  BY <1>a, RemoveAtElements
<1>7. ~InTurn(r, x) BY <1>1, <1>3, <1>6 DEF InTurn
<1>8. ASSUME NEW c, c # x PROVE InTurn(r, c) <=> InTurn(q, c)
  <2>1. ASSUME InTurn(r, c) PROVE InTurn(q, c) BY <1>6, <2>1 DEF InTurn
  <2>2. ASSUME InTurn(q, c) PROVE InTurn(r, c)
    <3>1. PICK k \in DOMAIN q.order : q.order[k] = c BY <2>2 DEF InTurn
    <3>2. k # at BY <1>1, <1>8, <3>1
    <3> QED BY <1>6, <3>1, <3>2 DEF InTurn
  <2> QED BY <2>1, <2>2
<1>9. ASSUME NEW t \in Tiers, NEW a, NEW b, a # x, b # x, Sooner(q, t, a, b) PROVE Sooner(r, t, a, b)
  <2>1. PICK p \in DOMAIN q.order, s \in DOMAIN q.order :
          q.order[p] = a /\ q.order[s] = b /\ Distance(q, t, p) < Distance(q, t, s)
    BY <1>9 DEF Sooner
  <2>2. p # at /\ s # at BY <1>1, <1>9, <2>1
  <2> DEFINE new(k) == IF k < at THEN k ELSE k - 1
  <2>3. ASSUME NEW k \in DOMAIN q.order, k # at
        PROVE  new(k) \in DOMAIN r.order /\ r.order[new(k)] = q.order[k]
    <3>1. CASE k < at
      <4>1. k \in 1 .. n - 1 /\ new(k) = k BY <1>3, <1>4, <2>3, <3>1
      <4>2. r.order[k] = q.order[k] BY <1>4, <1>5, <3>1, <4>1
      <4>3. DOMAIN r.order = 1 .. n - 1 BY <1>4, <1>5
      <4> QED BY <4>1, <4>2, <4>3
    <3>2. CASE ~(k < at)
      <4>1. k - 1 \in 1 .. n - 1 /\ ~(k - 1 < at) /\ (k - 1) + 1 = k BY <1>3, <1>4, <2>3, <3>2
      <4> QED BY <1>4, <1>5, <3>2, <4>1
    <3> QED BY <3>1, <3>2
  <2> DEFINE L == q.last[t]
  <2>4. L \in Nat /\ L <= n /\ r.last[t] = IF at <= L THEN L - 1 ELSE L BY <1>2, <1>3
  <2>5. Distance(r, t, new(p)) < Distance(r, t, new(s))
    <3>1. (IF p > L THEN p ELSE p + n) < (IF s > L THEN s ELSE s + n) BY <2>1 DEF Distance
    <3>2. p \in 1 .. n /\ s \in 1 .. n BY <1>3
    <3> DEFINE K == r.last[t]
    <3>3. (IF new(p) > K THEN new(p) ELSE new(p) + (n - 1)) < (IF new(s) > K THEN new(s) ELSE new(s) + (n - 1))
      <4> HIDE DEF n, L, K
      <4>1. K = IF at <= L THEN L - 1 ELSE L BY <2>4 DEF K
      <4> QED BY <1>3, <1>4, <2>2, <2>4, <3>1, <3>2, <4>1, SMTT(30)
    <3> QED BY <1>4, <3>3 DEF Distance
  <2>6. new(p) \in DOMAIN r.order /\ new(s) \in DOMAIN r.order
        /\ r.order[new(p)] = a /\ r.order[new(s)] = b
    BY <2>1, <2>2, <2>3
  <2> HIDE DEF new
  <2> QED BY <2>5, <2>6 DEF Sooner
<1> QED BY <1>7, <1>8, <1>9

\* Nor does one that comes, at the end.
LEMMA AppendedKeepsTurns ==
  ASSUME NEW q, NEW S, Fits(q, S), NEW x \in Accounts, NEW r, r.last = q.last, r.order = Append(q.order, x)
  PROVE  /\ \A c : InTurn(r, c) => InTurn(q, c) \/ c = x
         /\ \A t \in Tiers : \A a, b : Sooner(q, t, a, b) => Sooner(r, t, a, b)
<1> DEFINE n == Len(q.order)
<1>1. /\ q.order \in Seq(Accounts) /\ n \in Nat /\ DOMAIN q.order = 1 .. n
      /\ \A t \in Tiers : q.last[t] \in Nat /\ q.last[t] <= n
  BY OrderFacts
<1>2. /\ Len(r.order) = n + 1 /\ DOMAIN r.order = 1 .. n + 1 /\ r.order[n + 1] = x
      /\ \A p \in 1 .. n : r.order[p] = q.order[p]
  BY <1>1
<1>3. ASSUME NEW c, InTurn(r, c) PROVE InTurn(q, c) \/ c = x
  <2>1. PICK p \in DOMAIN r.order : r.order[p] = c BY <1>3 DEF InTurn
  <2>2. p \in 1 .. n \/ p = n + 1 BY <1>1, <1>2
  <2> QED BY <1>1, <1>2, <2>1, <2>2 DEF InTurn
<1>4. ASSUME NEW t \in Tiers, NEW a, NEW b, Sooner(q, t, a, b) PROVE Sooner(r, t, a, b)
  <2>1. PICK p \in DOMAIN q.order, s \in DOMAIN q.order :
          q.order[p] = a /\ q.order[s] = b /\ Distance(q, t, p) < Distance(q, t, s)
    BY <1>4 DEF Sooner
  <2> DEFINE L == q.last[t]
  <2>2. p \in 1 .. n /\ s \in 1 .. n /\ L \in Nat /\ L <= n BY <1>1
  <2>3. (IF p > L THEN p ELSE p + n) < (IF s > L THEN s ELSE s + n) BY <2>1 DEF Distance
  <2>4. (IF p > L THEN p ELSE p + (n + 1)) < (IF s > L THEN s ELSE s + (n + 1))
    <3> HIDE DEF n, L
    <3> QED BY <1>1, <2>2, <2>3
  <2>5. Distance(r, t, p) < Distance(r, t, s) BY <1>2, <2>4 DEF Distance
  <2>6. p \in DOMAIN r.order /\ s \in DOMAIN r.order /\ r.order[p] = a /\ r.order[s] = b
    BY <1>1, <1>2, <2>1, <2>2
  <2> QED BY <2>5, <2>6 DEF Sooner
<1> QED BY <1>3, <1>4

LEMMA SameOrderSameTurns ==
  ASSUME NEW q, NEW r, r.order = q.order, r.last = q.last
  PROVE  /\ \A c : InTurn(r, c) <=> InTurn(q, c)
         /\ \A t, a, b : Sooner(q, t, a, b) => Sooner(r, t, a, b)
BY DEF InTurn, Sooner, Distance

LEMMA RemovedKeepsTurns ==
  ASSUME NEW q, Fits(q, {}), NEW i \in DOMAIN q.line, NEW r, r = Removed(q, i)
  PROVE  /\ \A c : InTurn(r, c) => InTurn(q, c)
         /\ \A c : c # q.line[i].account => (InTurn(r, c) <=> InTurn(q, c))
         /\ \A t \in Tiers : \A a, b :
              InTurn(r, a) /\ InTurn(r, b) /\ Sooner(q, t, a, b) => Sooner(r, t, a, b)
<1> DEFINE rest == Taken(q, i)
           x == q.line[i].account
<1>1. Fits(rest, {x}) /\ rest = [q EXCEPT !.line = RemoveAt(q.line, i), !.count = q.count - 1]
  BY TakenFits
<1>2. rest.order = q.order /\ rest.last = q.last BY <1>1 DEF Fits, Queue
<1>3. InTurn(q, x) BY DEF Fits, InTurn
<1> HIDE DEF rest, x
<1>4. r = IF Waits(rest, x) THEN rest ELSE Dropped(rest, x) BY DEF Removed, rest, x
<1>5. /\ \A c : InTurn(rest, c) <=> InTurn(q, c)
      /\ \A t, a, b : Sooner(q, t, a, b) => Sooner(rest, t, a, b)
  BY <1>2, SameOrderSameTurns
<1>6. CASE Waits(rest, x) BY <1>4, <1>5, <1>6
<1>7. CASE ~Waits(rest, x)
  <2>1. r = Dropped(rest, x) /\ InTurn(rest, x) BY <1>3, <1>4, <1>5, <1>7
  <2>2. /\ ~InTurn(r, x)
        /\ \A c : c # x => (InTurn(r, c) <=> InTurn(rest, c))
        /\ \A t \in Tiers : \A a, b : a # x /\ b # x /\ Sooner(rest, t, a, b) => Sooner(r, t, a, b)
    BY <1>1, <2>1, DroppedKeepsTurns
  <2>3. \A c : InTurn(r, c) => c # x /\ InTurn(q, c) BY <1>5, <2>2
  <2>4. \A c : c # x => (InTurn(r, c) <=> InTurn(q, c)) BY <1>5, <2>2
  <2>5. \A t \in Tiers : \A a, b :
          InTurn(r, a) /\ InTurn(r, b) /\ Sooner(q, t, a, b) => Sooner(r, t, a, b)
    BY <1>5, <2>2, <2>3
  <2> QED BY <2>3, <2>4, <2>5 DEF x
<1> QED BY <1>6, <1>7 DEF x

LEMMA AddedKeepsTurns ==
  ASSUME NEW job \in Job, NEW q, Fits(q, {job.account}), NEW r, r = Added(q, job)
  PROVE  /\ \A c : InTurn(r, c) => InTurn(q, c) \/ c = job.account
         /\ \A t \in Tiers : \A a, b : Sooner(q, t, a, b) => Sooner(r, t, a, b)
<1>1. job.account \in Accounts BY DEF Job
<1>2. /\ r.last = q.last
      /\ r.order = q.order \/ r.order = Append(q.order, job.account)
  BY AddedFits
<1>3. CASE r.order = q.order BY <1>2, <1>3, SameOrderSameTurns
<1>4. CASE r.order = Append(q.order, job.account) BY <1>1, <1>2, <1>4, AppendedKeepsTurns
<1> QED BY <1>2, <1>3, <1>4

------------------------------------------------------------------------------
(***************************************************************************)
(* Turns.                                                                  *)
(***************************************************************************)
\* Whoever an account saw start while it waited has its next turn after it.
TurnsAreRight ==
  \A t \in Tiers : \A a \in Accounts : \A b \in passed[t][a] : Sooner(queue, t, a, b)

PassesAreCounted == passes \in Nat /\ passes <= consecutive

KeepsTurns ==
  \A t \in Tiers : \A a, b :
    InTurn(queue', a) /\ InTurn(queue', b) /\ Sooner(queue, t, a, b) => Sooner(queue', t, a, b)

Dispatched(t, i) ==
  /\ queue.count > 0 /\ t = ChosenTier(queue) /\ i = NextJob(queue, t)
  /\ started' = queue.line[i]
  /\ queue' = Removed([queue EXCEPT !.last[t] = Turn(queue, t)], i)
  /\ consecutive' = IF t = "interactive" /\ HasWaitingInTier(queue', "background")
                    THEN consecutive + 1 ELSE 0

LEMMA ExchangeKeepsTurns ==
  ASSUME NEW q, Fits(q, {}), NEW job \in Job, Evicted(q, job) # 0,
         NEW r, r = Added(RoomMade(q, job), job), NEW t \in Tiers, NEW a, NEW b,
         InTurn(r, a), InTurn(r, b), Sooner(q, t, a, b)
  PROVE  Sooner(r, t, a, b)
<1> DEFINE i == Evicted(q, job)
           m == RoomMade(q, job)
<1>1. i \in DOMAIN q.line BY EvictedFacts
<1>2. Fits(m, {job.account}) BY RoomMadeFits
<1>3. m = IF q.line[i].account = job.account THEN Taken(q, i) ELSE Removed(q, i) BY DEF RoomMade
<1> HIDE DEF i, m
<1>4. r = Added(m, job) BY DEF m
<1>5. /\ \A c : InTurn(r, c) => InTurn(m, c) \/ c = job.account
      /\ Sooner(m, t, a, b) => Sooner(r, t, a, b)
  BY <1>2, <1>4, AddedKeepsTurns
<1>6. InTurn(q, a) /\ InTurn(q, b) BY DEF Sooner, InTurn
<1>7. CASE q.line[i].account = job.account
  <2>1. m = [q EXCEPT !.line = RemoveAt(q.line, i), !.count = q.count - 1] BY <1>1, <1>3, <1>7, TakenFits
  <2>2. m.order = q.order /\ m.last = q.last BY <2>1 DEF Fits, Queue
  <2> QED BY <1>5, <2>2, SameOrderSameTurns
<1>8. CASE q.line[i].account # job.account
  <2>1. m = Removed(q, i) BY <1>3, <1>8
  <2>2. /\ \A c : c # q.line[i].account => (InTurn(m, c) <=> InTurn(q, c))
        /\ InTurn(m, a) /\ InTurn(m, b) /\ Sooner(q, t, a, b) => Sooner(m, t, a, b)
    BY <1>1, <2>1, RemovedKeepsTurns
  <2>3. InTurn(m, a) /\ InTurn(m, b) BY <1>5, <1>6, <1>8, <2>2
  <2> QED BY <1>5, <2>2, <2>3
<1> QED BY <1>7, <1>8

\* A step starts the next job of the room, or none and leaves the turns alone.
LEMMA StepFacts ==
  ASSUME RoomIsRight, Next
  PROVE  \/ started' = None /\ consecutive' = consecutive /\ KeepsTurns
         \/ \E t \in Tiers, i \in DOMAIN queue.line : Dispatched(t, i)
<1>1. Fits(queue, {}) BY DEF RoomIsRight
<1>2. ASSUME queue' = queue PROVE KeepsTurns BY <1>2 DEF KeepsTurns
<1>3. CASE RunImmediately BY <1>2, <1>3 DEF RunImmediately
<1>4. ASSUME NEW job \in Job, Enqueue(job) PROVE started' = None /\ consecutive' = consecutive /\ KeepsTurns
  <2>1. queue' = Added(queue, job) /\ started' = None /\ consecutive' = consecutive BY <1>4 DEF Enqueue
  <2>2. Fits(queue, {job.account}) BY <1>1 DEF Fits
  <2>3. \A t \in Tiers : \A a, b : Sooner(queue, t, a, b) => Sooner(queue', t, a, b)
    BY <2>1, <2>2, AddedKeepsTurns
  <2> QED BY <2>1, <2>3 DEF KeepsTurns
<1>5. ASSUME NEW job \in Job, EnqueueInPlace(job)
      PROVE  started' = None /\ consecutive' = consecutive /\ KeepsTurns
  <2>1. /\ queue' = Added(RoomMade(queue, job), job) /\ started' = None /\ consecutive' = consecutive
        /\ Evicted(queue, job) # 0
    BY <1>5 DEF EnqueueInPlace
  <2>2. KeepsTurns BY <1>1, <2>1, ExchangeKeepsTurns DEF KeepsTurns
  <2> QED BY <2>1, <2>2
<1>6. ASSUME NEW job \in Job, Refuse(job) PROVE started' = None /\ consecutive' = consecutive /\ KeepsTurns
  BY <1>2, <1>6 DEF Refuse
<1>7. ASSUME NEW i \in DOMAIN queue.line, Abort(i)
      PROVE  started' = None /\ consecutive' = consecutive /\ KeepsTurns
  <2>1. queue' = Removed(queue, i) /\ started' = None /\ consecutive' = consecutive BY <1>7 DEF Abort
  <2> QED BY <1>1, <2>1, RemovedKeepsTurns DEF KeepsTurns
<1>8. CASE Finish
  <2>1. DispatchNext(active - 1) BY <1>8 DEF Finish
  <2>2. active \in Int /\ Concurrency \in Int /\ active <= Concurrency /\ queue.count \in Nat
    BY QueueAssumption DEF RoomIsRight, TypeOK, Queue
  <2>3. ~(active - 1 >= Concurrency) BY <2>2
  <2>4. CASE queue.count = 0
    <3>1. started' = None /\ queue' = queue /\ consecutive' = consecutive BY <2>1, <2>4 DEF DispatchNext
    <3> QED BY <1>2, <3>1
  <2>5. CASE queue.count # 0
    <3>1. queue.count > 0 BY <2>2, <2>5
    <3>2. ~(active - 1 >= Concurrency \/ queue.count = 0) BY <2>3, <2>5
    <3>3. PICK t \in Tiers, i \in DOMAIN queue.line :
            /\ t = ChosenTier(queue) /\ i = NextJob(queue, t)
            /\ started' = queue.line[i]
            /\ queue' = Removed([queue EXCEPT !.last[t] = Turn(queue, t)], i)
            /\ consecutive' = IF t = "interactive" /\ HasWaitingInTier(queue', "background")
                              THEN consecutive + 1 ELSE 0
      BY <2>1, <3>2 DEF DispatchNext
    <3>4. Dispatched(t, i) BY <3>1, <3>3 DEF Dispatched
    <3> QED BY <3>4
  <2> QED BY <2>4, <2>5
<1> QED BY <1>3, <1>4, <1>5, <1>6, <1>7, <1>8 DEF Next

\* Once an account is served, every other that waits in the tier comes before it, and
\* the others keep their order.
LEMMA ServedKeepsTurns ==
  ASSUME NEW q, Fits(q, {}), NEW t \in Tiers, HasWaitingInTier(q, t),
         NEW r, r.order = q.order, r.last[t] = Turn(q, t),
         NEW a, Places(q, a, t) # {}, a # q.order[Turn(q, t)]
  PROVE  /\ Sooner(r, t, a, q.order[Turn(q, t)])
         /\ \A b : Sooner(q, t, a, b) => Sooner(r, t, a, b)
         /\ ~Sooner(q, t, a, q.order[Turn(q, t)])
<1> DEFINE n == Len(q.order)
           L == q.last[t]
           T == Turn(q, t)
<1>1. /\ q.order \in Seq(Accounts) /\ n \in Nat /\ DOMAIN q.order = 1 .. n /\ L \in Nat /\ L <= n
      /\ \A p, s \in DOMAIN q.order : q.order[p] = q.order[s] => p = s
  BY OrderFacts
<1>2. T \in 1 .. n BY <1>1, TurnFacts DEF Candidates
<1>3. ASSUME NEW p \in DOMAIN q.order, q.order[p] = a
      PROVE  /\ p \in 1 .. n /\ p # T /\ (p > L => T > L /\ T <= p) /\ (T > L \/ T <= p)
  <2>1. p \in Candidates(q, t) BY <1>3 DEF Candidates
  <2>2. p \in 1 .. n /\ p # T BY <1>1, <1>3
  <2> QED BY <2>1, <2>2, TurnFacts
<1>4. PICK pa \in DOMAIN q.order : q.order[pa] = a BY WaitsInOrder
<1>5. Sooner(r, t, a, q.order[T])
  <2>1. pa \in 1 .. n /\ pa # T BY <1>3, <1>4
  <2> HIDE DEF n, L, T
  <2>2. (IF pa > T THEN pa ELSE pa + n) < (IF T > T THEN T ELSE T + n) BY <1>1, <1>2, <2>1
  <2>3. Distance(r, t, pa) < Distance(r, t, T) BY <2>2 DEF Distance, n, T
  <2> QED BY <1>1, <1>2, <1>4, <2>3 DEF Sooner
<1>6. ASSUME NEW b, Sooner(q, t, a, b) PROVE Sooner(r, t, a, b) /\ b # q.order[T]
  <2>1. PICK p \in DOMAIN q.order, s \in DOMAIN q.order :
          q.order[p] = a /\ q.order[s] = b /\ Distance(q, t, p) < Distance(q, t, s)
    BY <1>6 DEF Sooner
  <2>2. p \in 1 .. n /\ p # T /\ (p > L => T > L /\ T <= p) /\ (T > L \/ T <= p) BY <1>3, <2>1
  <2>3. s \in 1 .. n BY <1>1
  <2>4. (IF p > L THEN p ELSE p + n) < (IF s > L THEN s ELSE s + n) BY <2>1 DEF Distance
  <2> HIDE DEF n, L, T
  <2>5. (IF p > T THEN p ELSE p + n) < (IF s > T THEN s ELSE s + n) BY <1>1, <1>2, <2>2, <2>3, <2>4
  <2>6. s # T BY <1>1, <1>2, <2>2, <2>3, <2>4
  <2>7. Distance(r, t, p) < Distance(r, t, s) BY <2>5 DEF Distance, n, T
  <2>8. Sooner(r, t, a, b) BY <2>1, <2>7 DEF Sooner
  <2>9. b # q.order[T] BY <1>1, <1>2, <2>1, <2>6
  <2> QED BY <2>8, <2>9
<1> QED BY <1>5, <1>6

------------------------------------------------------------------------------
SharedSound == RoomIsRight /\ TurnsAreRight /\ PassesAreCounted

LEMMA JobsAreJobs ==
  ASSUME NEW a \in Accounts, NEW t \in Tiers
  PROVE  JobOf(a, t) \in Job /\ JobOf(a, t) # None /\ JobOf(a, t).account = a /\ JobOf(a, t).tier = t
BY QueueAssumption DEF JobOf, Job

LEMMA JobsTellApart ==
  ASSUME NEW a, NEW b, NEW t, NEW u, JobOf(a, t) = JobOf(b, u)
  PROVE  a = b /\ t = u
BY DEF JobOf

\* What a waiting account can have seen start, now or before.
LEMMA PassedFacts ==
  ASSUME Watch, NEW t \in Tiers, NEW a \in Accounts, NEW b \in passed'[t][a]
  PROVE  /\ Places(queue', a, t) # {} /\ started' # JobOf(a, t) /\ b \in Accounts
         /\ InTurn(queue', b) /\ (b \in passed[t][a] \/ started' = JobOf(b, t))
<1>1. passed'[t][a] = IF Places(queue', a, t) = {} \/ started' = JobOf(a, t) THEN {}
                      ELSE {c \in Accounts : Stays(c) /\ (c \in passed[t][a] \/ started' = JobOf(c, t))}
  BY DEF Watch
<1>2. ~(Places(queue', a, t) = {} \/ started' = JobOf(a, t)) BY <1>1
<1>3. b \in {c \in Accounts : Stays(c) /\ (c \in passed[t][a] \/ started' = JobOf(c, t))} BY <1>1, <1>2
<1> QED BY <1>2, <1>3 DEF Stays, InTurn

LEMMA DispatchedTurns ==
  ASSUME RoomIsRight, RoomIsRight', TurnsAreRight, Watch,
         NEW t \in Tiers, NEW i \in DOMAIN queue.line, Dispatched(t, i)
  PROVE  TurnsAreRight' /\ Rotates
<1> DEFINE q == [queue EXCEPT !.last[t] = Turn(queue, t)]
           x == queue.order[Turn(queue, t)]
<1>1. Fits(queue, {}) /\ Fits(queue', {}) BY DEF RoomIsRight
<1>2. /\ Fits(q, {}) /\ q.line = queue.line /\ q.order = queue.order /\ q.count = queue.count
      /\ q.last = [queue.last EXCEPT ![t] = Turn(queue, t)]
      /\ i \in DOMAIN queue.line /\ queue.line[i] = JobOf(x, t)
      /\ Turn(queue, t) \in DOMAIN queue.order /\ queue.line[i] \in Job
  BY <1>1, DispatchFacts DEF Dispatched
<1>3. HasWaitingInTier(queue, t) BY <1>1, ChosenTierFacts DEF Dispatched
<1>4. started' = JobOf(x, t) /\ queue' = Removed(q, i) BY <1>2 DEF Dispatched
<1>5. queue.order \in Seq(Accounts) /\ queue.last \in [Tiers -> Nat] BY <1>1 DEF Fits, Queue
<1>6. x \in Accounts BY <1>2, <1>5
<1>7. /\ q.last[t] = Turn(queue, t)
      /\ \A u \in Tiers \ {t} : q.last[u] = queue.last[u]
  BY <1>2, <1>5
<1> HIDE DEF q, x
<1>8. /\ \A c : InTurn(queue', c) => InTurn(q, c)
      /\ \A u \in Tiers : \A a, b :
           InTurn(queue', a) /\ InTurn(queue', b) /\ Sooner(q, u, a, b) => Sooner(queue', u, a, b)
  BY <1>2, <1>4, RemovedKeepsTurns
<1>9. \A a, u : Places(queue', a, u) # {} => Places(queue, a, u) # {} /\ InTurn(queue', a)
  <2> SUFFICES ASSUME NEW a, NEW u, Places(queue', a, u) # {}
               PROVE  Places(queue, a, u) # {} /\ InTurn(queue', a)
    OBVIOUS
  <2>1. queue'.line = RemoveAt(queue.line, i) /\ queue.line \in Seq(Job)
    BY <1>1, <1>2, <1>4, RemovedFits, ZenonT(30) DEF Fits, Queue
  <2>2. PICK j \in DOMAIN queue'.line : queue'.line[j] = JobOf(a, u) BY DEF Places
  <2>3. PICK k \in DOMAIN queue.line : queue'.line[j] = queue.line[k] BY <2>1, <2>2, RemoveAtElements
  <2>4. Places(queue, a, u) # {} BY <2>2, <2>3 DEF Places
  <2>5. InTurn(queue', a) BY <1>1, WaitsInOrder DEF InTurn
  <2> QED BY <2>4, <2>5
<1>10. ASSUME NEW a, Places(queue, a, t) # {}, a # x
       PROVE  /\ Sooner(q, t, a, x) /\ ~Sooner(queue, t, a, x)
              /\ \A b : Sooner(queue, t, a, b) => Sooner(q, t, a, b)
  <2>1. a # queue.order[Turn(queue, t)] BY <1>10 DEF x
  <2> QED BY <1>1, <1>2, <1>3, <1>7, <1>10, <2>1, ServedKeepsTurns DEF x
<1>11. ASSUME NEW u \in Tiers, NEW a \in Accounts, NEW b \in passed'[u][a] PROVE Sooner(queue', u, a, b)
  <2>1. /\ Places(queue', a, u) # {} /\ started' # JobOf(a, u) /\ b \in Accounts
        /\ InTurn(queue', b) /\ (b \in passed[u][a] \/ started' = JobOf(b, u))
    BY PassedFacts
  <2>2. Places(queue, a, u) # {} /\ InTurn(queue', a) BY <1>9, <2>1
  <2>3. b \in passed[u][a] => Sooner(queue, u, a, b) BY DEF TurnsAreRight
  <2>4. Sooner(q, u, a, b)
    <3>1. CASE u = t
      <4>1. a # x BY <1>4, <2>1, <3>1
      <4>2. ASSUME started' = JobOf(b, u) PROVE b = x
        <5>1. JobOf(b, u) = JobOf(x, t) BY <1>4, <4>2
        <5> QED BY <5>1, JobsTellApart
      <4> QED BY <1>10, <2>1, <2>2, <2>3, <3>1, <4>1, <4>2
    <3>2. CASE u # t
      <4>1. started' # JobOf(b, u) BY <1>4, <3>2, JobsTellApart
      <4>2. Sooner(queue, u, a, b) BY <2>1, <2>3, <4>1
      <4>3. q.last[u] = queue.last[u] BY <1>7, <3>2
      <4> QED BY <1>2, <4>2, <4>3 DEF Sooner, Distance
    <3> QED BY <3>1, <3>2
  <2> QED BY <1>8, <2>1, <2>2, <2>4
<1>12. ASSUME NEW u \in Tiers, NEW a \in Accounts, NEW b \in Accounts,
              started' = JobOf(b, u), Places(queue', a, u) # {}, a # b
       PROVE  b \notin passed[u][a]
  <2>1. u = t /\ b = x BY <1>4, <1>12, JobsTellApart
  <2>2. Places(queue, a, t) # {} BY <1>9, <1>12, <2>1
  <2>3. ~Sooner(queue, t, a, b) BY <1>10, <1>12, <2>1, <2>2
  <2> QED BY <2>1, <2>3 DEF TurnsAreRight
<1>13. TurnsAreRight' BY <1>11 DEF TurnsAreRight
<1>14. Rotates BY <1>12 DEF Rotates
<1> QED BY <1>13, <1>14

LEMMA SharedNext == SharedSound /\ Next /\ Watch => SharedSound' /\ Rotates
<1> SUFFICES ASSUME RoomIsRight, TurnsAreRight, PassesAreCounted, Next, Watch
             PROVE  SharedSound' /\ Rotates
  BY DEF SharedSound
<1>1. RoomIsRight' BY RoomNext
<1>2. consecutive \in Nat /\ consecutive' \in Nat
  BY <1>1, QueueAssumption DEF RoomIsRight, TypeOK
<1>3. passes' = IF \/ ~HasWaitingInTier(queue', "background")
                   \/ started' # None /\ started'.tier = "background" THEN 0
                ELSE IF started' # None THEN passes + 1 ELSE passes
  BY DEF Watch
<1>4. CASE started' = None /\ consecutive' = consecutive /\ KeepsTurns
  <2>1. \A b \in Accounts : \A t \in Tiers : started' # JobOf(b, t) BY <1>4, JobsAreJobs
  <2>2. Rotates BY <2>1 DEF Rotates
  <2>3. ASSUME NEW t \in Tiers, NEW a \in Accounts, NEW b \in passed'[t][a] PROVE Sooner(queue', t, a, b)
    <3>1. Places(queue', a, t) # {} /\ b \in Accounts /\ InTurn(queue', b) /\ b \in passed[t][a]
      BY <2>1, PassedFacts
    <3>2. InTurn(queue', a) BY <1>1, <3>1, WaitsInOrder DEF RoomIsRight, InTurn
    <3> QED BY <1>4, <3>1, <3>2 DEF TurnsAreRight, KeepsTurns
  <2>4. TurnsAreRight' BY <2>3 DEF TurnsAreRight
  <2>5. PassesAreCounted' BY <1>2, <1>3, <1>4 DEF PassesAreCounted
  <2> QED BY <1>1, <2>2, <2>4, <2>5 DEF SharedSound
<1>5. ASSUME NEW t \in Tiers, NEW i \in DOMAIN queue.line, Dispatched(t, i)
      PROVE  SharedSound' /\ Rotates
  <2>1. TurnsAreRight' /\ Rotates BY <1>1, <1>5, DispatchedTurns
  <2>2. started'.tier = t /\ t \in {"interactive", "background"}
    <3>1. queue.line[i] = JobOf(queue.order[Turn(queue, t)], t)
      BY <1>5, DispatchFacts DEF RoomIsRight, Dispatched
    <3> QED BY <1>5, <3>1 DEF Dispatched, JobOf, Tiers
  <2>3. consecutive' = IF t = "interactive" /\ HasWaitingInTier(queue', "background")
                       THEN consecutive + 1 ELSE 0
    BY <1>5 DEF Dispatched
  <2>4. started' # None
    <3>1. started' \in Job
      BY <1>5, DispatchFacts DEF RoomIsRight, Dispatched
    <3> QED BY <3>1, QueueAssumption
  <2>5. PassesAreCounted' BY <1>2, <1>3, <2>2, <2>3, <2>4 DEF PassesAreCounted
  <2> QED BY <1>1, <2>1, <2>5 DEF SharedSound
<1> QED BY <1>4, <1>5, StepFacts

LEMMA SharedInit == TurnInit => SharedSound
<1> SUFFICES ASSUME TurnInit PROVE SharedSound OBVIOUS
<1>1. RoomIsRight BY RoomInit DEF TurnInit
<1>2. TurnsAreRight BY DEF TurnInit, TurnsAreRight
<1>3. PassesAreCounted BY DEF TurnInit, Init, PassesAreCounted
<1> QED BY <1>1, <1>2, <1>3 DEF SharedSound

LEMMA SharedStutters == SharedSound /\ UNCHANGED turnVars => SharedSound'
<1> SUFFICES ASSUME SharedSound, UNCHANGED turnVars PROVE SharedSound' OBVIOUS
<1>1. /\ active' = active /\ queue' = queue /\ consecutive' = consecutive /\ started' = started
      /\ answer' = answer /\ passed' = passed /\ passes' = passes
  BY DEF turnVars, vars
<1>2. TypeOK' BY <1>1 DEF SharedSound, RoomIsRight, TypeOK
<1>3. EvictionIsFair' BY <1>1 DEF SharedSound, RoomIsRight, EvictionIsFair
<1>4. RoomIsRight' BY <1>1, <1>2, <1>3 DEF SharedSound, RoomIsRight, NoSlotIdles
<1>5. TurnsAreRight' BY <1>1 DEF SharedSound, TurnsAreRight
<1>6. PassesAreCounted' BY <1>1 DEF SharedSound, PassesAreCounted
<1> QED BY <1>4, <1>5, <1>6 DEF SharedSound

------------------------------------------------------------------------------
(***************************************************************************)
(* The search lane.                                                        *)
(***************************************************************************)
LaneIsRight ==
  /\ searchActive \subseteq Questions /\ searchWaiting \in Seq(Questions)
  /\ \A i, k \in DOMAIN searchWaiting : searchWaiting[i] = searchWaiting[k] => i = k
  /\ \A i \in DOMAIN searchWaiting : searchWaiting[i] \notin searchActive
  /\ Cardinality(searchActive) <= SearchConcurrency
  /\ searchWaiting # <<>> => Cardinality(searchActive) = SearchConcurrency

LEMMA SameCount == \A S : Lane!Cardinality(S) = Cardinality(S)
BY DEF Lane!Cardinality, Cardinality

LEMMA SameRemoveAt == \A s, i : Lane!RemoveAt(s, i) = RemoveAt(s, i)
BY DEF Lane!RemoveAt, RemoveAt

LEMMA QuestionsAreFinite ==
  ASSUME NEW S, S \subseteq Questions
  PROVE  IsFiniteSet(S) /\ Cardinality(S) \in Nat
BY FS_Subset, FS_CardinalityType, LaneAssumption

LEMMA LaneRunKeeps ==
  ASSUME LaneIsRight, NEW j \in Questions, Lane!Run(j)
  PROVE  LaneIsRight' /\ Lane!InOrder
<1>1. j \notin searchActive /\ \A i \in DOMAIN searchWaiting : searchWaiting[i] # j
  BY DEF Lane!Run, Lane!Waits
<1>2. /\ IsFiniteSet(searchActive) /\ Cardinality(searchActive) \in Nat /\ SearchConcurrency \in Nat
      /\ searchWaiting \in Seq(Questions) /\ searchActive \subseteq Questions
  BY QuestionsAreFinite, LaneAssumption DEF LaneIsRight
<1>3. CASE Cardinality(searchActive) < SearchConcurrency /\ searchWaiting = <<>>
  <2>1. searchActive' = searchActive \cup {j} /\ searchWaiting' = searchWaiting
    BY <1>3, SameCount DEF Lane!Run
  <2>2. Cardinality(searchActive') = Cardinality(searchActive) + 1 BY <1>1, <1>2, <2>1, FS_AddElement
  <2>3. DOMAIN searchWaiting = {} BY <1>3
  <2>4. LaneIsRight' BY <1>2, <1>3, <2>1, <2>2, <2>3 DEF LaneIsRight
  <2>5. Lane!InOrder BY <2>3 DEF Lane!InOrder
  <2> QED BY <2>4, <2>5
<1>4. CASE ~(Cardinality(searchActive) < SearchConcurrency /\ searchWaiting = <<>>)
  <2>1. searchActive' = searchActive /\ searchWaiting' = Append(searchWaiting, j)
    BY <1>4, SameCount DEF Lane!Run
  <2>2. /\ DOMAIN searchWaiting' = DOMAIN searchWaiting \cup {Len(searchWaiting) + 1}
        /\ searchWaiting'[Len(searchWaiting) + 1] = j /\ searchWaiting' \in Seq(Questions)
        /\ \A i \in DOMAIN searchWaiting : searchWaiting'[i] = searchWaiting[i]
    BY <1>2, <2>1
  <2>3. Cardinality(searchActive) = SearchConcurrency BY <1>2, <1>4 DEF LaneIsRight
  <2>4. LaneIsRight' BY <1>1, <1>2, <2>1, <2>2, <2>3 DEF LaneIsRight
  <2>5. Lane!InOrder BY <2>1 DEF Lane!InOrder
  <2> QED BY <2>4, <2>5
<1> QED BY <1>3, <1>4

LEMMA LaneAbortKeeps ==
  ASSUME LaneIsRight, NEW j \in Questions, Lane!Abort(j)
  PROVE  LaneIsRight' /\ Lane!InOrder
<1>1. PICK i \in DOMAIN searchWaiting : searchWaiting' = RemoveAt(searchWaiting, i)
  BY SameRemoveAt DEF Lane!Abort
<1>2. searchActive' = searchActive BY DEF Lane!Abort
<1> DEFINE w == RemoveAt(searchWaiting, i)
           n == Len(searchWaiting)
<1>3. searchWaiting \in Seq(Questions) BY DEF LaneIsRight
<1>4. /\ w \in Seq(Questions) /\ Len(w) = n - 1 /\ n \in Nat \ {0} /\ i \in 1 .. n
      /\ \A k \in 1 .. n - 1 : w[k] = IF k < i THEN searchWaiting[k] ELSE searchWaiting[k + 1]
  BY <1>3, RemoveAtFacts
<1>5. \A k \in DOMAIN w : \E m \in DOMAIN searchWaiting : m # i /\ w[k] = searchWaiting[m]
  BY <1>3, RemoveAtElements
<1> HIDE DEF w
<1>6. DOMAIN w = 1 .. n - 1 /\ DOMAIN searchWaiting = 1 .. n BY <1>3, <1>4
<1>7. \A k \in DOMAIN w : w[k] \notin searchActive BY <1>5 DEF LaneIsRight
<1>8. ASSUME NEW k \in DOMAIN w, NEW m \in DOMAIN w, w[k] = w[m] PROVE k = m
  <2> DEFINE old(x) == IF x < i THEN x ELSE x + 1
  <2>1. /\ old(k) \in DOMAIN searchWaiting /\ old(m) \in DOMAIN searchWaiting
        /\ searchWaiting[old(k)] = searchWaiting[old(m)]
    BY <1>4, <1>6, <1>8
  <2>2. old(k) = old(m) BY <2>1 DEF LaneIsRight
  <2> QED BY <1>4, <1>6, <2>2
<1>9. w # <<>> => searchWaiting # <<>> BY <1>4
<1>10. searchWaiting' = w BY <1>1 DEF w
<1>11. LaneIsRight' BY <1>2, <1>4, <1>7, <1>8, <1>9, <1>10 DEF LaneIsRight
<1>12. Lane!InOrder BY <1>2 DEF Lane!InOrder
<1> QED BY <1>11, <1>12

LEMMA LaneFinishKeeps ==
  ASSUME LaneIsRight, NEW j \in Questions, Lane!Finish(j)
  PROVE  LaneIsRight' /\ Lane!InOrder
<1>1. j \in searchActive BY DEF Lane!Finish
<1>2. /\ IsFiniteSet(searchActive) /\ Cardinality(searchActive) \in Nat /\ SearchConcurrency \in Nat
      /\ searchWaiting \in Seq(Questions) /\ searchActive \subseteq Questions
  BY QuestionsAreFinite, LaneAssumption DEF LaneIsRight
<1> DEFINE rest == searchActive \ {j}
<1>3. IsFiniteSet(rest) /\ Cardinality(rest) = Cardinality(searchActive) - 1
  BY <1>1, <1>2, FS_RemoveElement
<1>4. CASE searchWaiting = <<>>
  <2>1. searchActive' = rest /\ searchWaiting' = searchWaiting BY <1>4 DEF Lane!Finish
  <2>2. DOMAIN searchWaiting = {} BY <1>4
  <2>3. LaneIsRight' BY <1>2, <1>3, <1>4, <2>1, <2>2 DEF LaneIsRight
  <2>4. Lane!InOrder BY <2>1 DEF Lane!InOrder
  <2> QED BY <2>3, <2>4
<1>5. CASE searchWaiting # <<>>
  <2> DEFINE h == Head(searchWaiting)
             n == Len(searchWaiting)
  <2>1. searchActive' = rest \cup {h} /\ searchWaiting' = Tail(searchWaiting) BY <1>5 DEF Lane!Finish
  <2>2. /\ n \in Nat \ {0} /\ h = searchWaiting[1] /\ 1 \in DOMAIN searchWaiting /\ h \in Questions
        /\ DOMAIN searchWaiting = 1 .. n
        /\ searchWaiting' \in Seq(Questions) /\ DOMAIN searchWaiting' = 1 .. n - 1
        /\ \A i \in 1 .. n - 1 : searchWaiting'[i] = searchWaiting[i + 1]
    BY <1>2, <1>5, <2>1
  <2> HIDE DEF h, n, rest
  <2>3. h \notin searchActive BY <2>2 DEF LaneIsRight
  <2>4. Cardinality(searchActive') = Cardinality(searchActive)
    <3>1. h \notin rest BY <2>3 DEF rest
    <3>2. Cardinality(rest \cup {h}) = Cardinality(rest) + 1 BY <1>3, <3>1, FS_AddElement
    <3> QED BY <1>2, <1>3, <2>1, <3>2
  <2>5. \A i \in 1 .. n - 1 : i + 1 \in DOMAIN searchWaiting /\ i + 1 # 1 BY <2>2
  <2>6. \A i \in DOMAIN searchWaiting' : searchWaiting'[i] \notin searchActive'
    <3> SUFFICES ASSUME NEW i \in DOMAIN searchWaiting' PROVE searchWaiting'[i] \notin searchActive'
      OBVIOUS
    <3>1. searchWaiting'[i] = searchWaiting[i + 1] /\ i + 1 \in DOMAIN searchWaiting /\ i + 1 # 1
      BY <2>2, <2>5
    <3>2. searchWaiting[i + 1] # h /\ searchWaiting[i + 1] \notin searchActive BY <2>2, <3>1 DEF LaneIsRight
    <3> QED BY <2>1, <3>1, <3>2 DEF rest
  <2>7. \A i, k \in DOMAIN searchWaiting' : searchWaiting'[i] = searchWaiting'[k] => i = k
    <3> SUFFICES ASSUME NEW i \in DOMAIN searchWaiting', NEW k \in DOMAIN searchWaiting',
                        searchWaiting'[i] = searchWaiting'[k]
                 PROVE  i = k
      OBVIOUS
    <3>1. searchWaiting[i + 1] = searchWaiting[k + 1] BY <2>2
    <3>2. i + 1 = k + 1 BY <2>2, <2>5, <3>1 DEF LaneIsRight
    <3> QED BY <2>2, <3>2
  <2>8. searchActive' \subseteq Questions BY <1>2, <2>1, <2>2 DEF rest
  <2>9. Cardinality(searchActive) = SearchConcurrency BY <1>5 DEF LaneIsRight
  <2>10. LaneIsRight' BY <1>2, <2>2, <2>4, <2>6, <2>7, <2>8, <2>9 DEF LaneIsRight
  <2>11. Lane!InOrder
    <3> SUFFICES ASSUME NEW k \in searchActive' \ searchActive, NEW i \in DOMAIN searchWaiting,
                        \A m \in 1 .. i : searchWaiting[m] # k
                 PROVE  searchWaiting[i] \in searchActive'
      BY DEF Lane!InOrder
    <3>1. k = h BY <2>1 DEF rest
    <3>2. 1 \in 1 .. i BY <2>2
    <3> QED BY <2>2, <3>1, <3>2
  <2> QED BY <2>10, <2>11
<1> QED BY <1>4, <1>5

LEMMA LaneNext == LaneIsRight /\ Lane!Next => LaneIsRight' /\ Lane!InOrder
BY LaneRunKeeps, LaneAbortKeeps, LaneFinishKeeps DEF Lane!Next

LEMMA LaneInit == Lane!Init => LaneIsRight
<1> SUFFICES ASSUME Lane!Init PROVE LaneIsRight OBVIOUS
<1>1. searchActive = {} /\ searchWaiting = <<>> BY DEF Lane!Init
<1>2. <<>> \in Seq(Questions) /\ DOMAIN <<>> = {} OBVIOUS
<1>3. Cardinality({}) = 0 /\ SearchConcurrency \in Nat BY FS_EmptySet, LaneAssumption
<1> QED BY <1>1, <1>2, <1>3 DEF LaneIsRight

(***************************************************************************)
(* The whole queue.                                                        *)
(***************************************************************************)
WorkIsSound == SharedSound /\ LaneIsRight
workVars == <<turnVars, laneVars>>

LEMMA WorkStep ==
  ASSUME WorkIsSound, [WorkNext]_workVars
  PROVE  /\ WorkIsSound'
         /\ UNCHANGED turnVars \/ Rotates
         /\ UNCHANGED laneVars \/ Lane!InOrder
<1>1. CASE Next /\ Watch /\ UNCHANGED laneVars
  <2>1. SharedSound' /\ Rotates BY <1>1, SharedNext DEF WorkIsSound
  <2>2. LaneIsRight' BY <1>1 DEF WorkIsSound, LaneIsRight, laneVars
  <2> QED BY <1>1, <2>1, <2>2 DEF WorkIsSound
<1>2. CASE Lane!Next /\ UNCHANGED turnVars
  <2>1. LaneIsRight' /\ Lane!InOrder BY <1>2, LaneNext DEF WorkIsSound
  <2>2. SharedSound' BY <1>2, SharedStutters DEF WorkIsSound
  <2> QED BY <1>2, <2>1, <2>2 DEF WorkIsSound
<1>3. CASE UNCHANGED workVars
  <2>1. UNCHANGED turnVars /\ UNCHANGED laneVars BY <1>3 DEF workVars
  <2>2. SharedSound' BY <2>1, SharedStutters DEF WorkIsSound
  <2>3. LaneIsRight' BY <2>1 DEF WorkIsSound, LaneIsRight, laneVars
  <2> QED BY <2>1, <2>2, <2>3 DEF WorkIsSound
<1> QED BY <1>1, <1>2, <1>3 DEF WorkNext

\* The strengthened invariant of the queue holds in every reachable state.
THEOREM AlwaysSound == WorkSpec => []WorkIsSound
<1>1. WorkInit => WorkIsSound BY SharedInit, LaneInit DEF WorkInit, WorkIsSound
<1>2. WorkIsSound /\ [WorkNext]_workVars => WorkIsSound' BY WorkStep
<1> QED BY <1>1, <1>2, PTL DEF WorkSpec, workVars

\* Both pools keep their types: neither has more running than its slots, nor more waiting
\* than the capacity, and nothing runs and waits at once.
THEOREM WorkTypesHold == WorkSpec => [](TypeOK /\ Lane!TypeOK)
<1> DEFINE Short == Len(searchWaiting) <= Capacity
<1>1. WorkInit => Short BY QueueAssumption DEF WorkInit, Lane!Init
<1>2. WorkIsSound /\ Short /\ [WorkNext]_workVars => Short'
  <2> SUFFICES ASSUME WorkIsSound, Short, [WorkNext]_workVars PROVE Short' OBVIOUS
  <2>1. CASE UNCHANGED laneVars BY <2>1 DEF laneVars
  <2>2. CASE Lane!Next
    <3>1. searchWaiting \in Seq(Questions) /\ Capacity \in Nat BY QueueAssumption DEF WorkIsSound, LaneIsRight
    <3>2. ASSUME NEW j \in Questions, Lane!Run(j) PROVE Short' BY <3>1, <3>2 DEF Lane!Run
    <3>3. ASSUME NEW j \in Questions, Lane!Finish(j) PROVE Short' BY <3>1, <3>3 DEF Lane!Finish
    <3>4. ASSUME NEW j \in Questions, Lane!Abort(j) PROVE Short'
      <4>1. PICK i \in DOMAIN searchWaiting : searchWaiting' = RemoveAt(searchWaiting, i)
        BY <3>4, SameRemoveAt DEF Lane!Abort
      <4>2. Len(RemoveAt(searchWaiting, i)) = Len(searchWaiting) - 1 BY <3>1, RemoveAtFacts
      <4> QED BY <3>1, <4>1, <4>2
    <3> QED BY <2>2, <3>2, <3>3, <3>4 DEF Lane!Next
  <2> QED BY <2>1, <2>2 DEF WorkNext, workVars
<1>3. WorkIsSound /\ Short => TypeOK /\ Lane!TypeOK
  BY SameCount DEF WorkIsSound, SharedSound, RoomIsRight, LaneIsRight, Lane!TypeOK, Lane!Waits
<1> QED BY <1>1, <1>2, <1>3, AlwaysSound, PTL DEF WorkSpec, workVars

\* The count that gates admission, the rotation and its turns agree with who waits,
\* whatever was evicted, aborted or started.
THEOREM WaitingRoomIsRight == WorkSpec => []OrderIsRight
<1>1. WorkIsSound => OrderIsRight BY OrderFollows DEF WorkIsSound, SharedSound
<1> QED BY <1>1, AlwaysSound, PTL

\* No slot is free while a job waits for it, and no slot of the lane while a question does.
THEOREM NoSlotStaysIdle == WorkSpec => []NothingIdles
<1>1. WorkIsSound => NothingIdles
  BY SameCount DEF WorkIsSound, SharedSound, RoomIsRight, LaneIsRight, NothingIdles, Lane!LaneNeverIdles
<1> QED BY <1>1, AlwaysSound, PTL

\* Evictions take from whoever has more and from background work first, and background
\* work waits for a bounded number of interactive starts.
THEOREM EvictionsAndTiersAreFair == WorkSpec => []TiersAreFair
<1>1. WorkIsSound => TiersAreFair
  <2> SUFFICES ASSUME WorkIsSound PROVE TiersAreFair OBVIOUS
  <2>1. /\ EvictionIsFair /\ passes \in Nat /\ passes <= consecutive
        /\ consecutive \in 0 .. MaxConsecutiveInteractive /\ MaxConsecutiveInteractive \in Nat
    BY QueueAssumption DEF WorkIsSound, SharedSound, RoomIsRight, TypeOK, PassesAreCounted
  <2> QED BY <2>1 DEF TiersAreFair
<1> QED BY <1>1, AlwaysSound, PTL

\* No account that waits sees another that does start twice before it, and questions
\* start in the order they came.
THEOREM AccountsTakeTurns == WorkSpec => TurnsInOrder
<1>1. WorkIsSound /\ [WorkNext]_workVars
        => [(UNCHANGED turnVars \/ Rotates) /\ (UNCHANGED laneVars \/ Lane!InOrder)]_workVars
  BY WorkStep
<1> QED BY <1>1, AlwaysSound, PTL DEF WorkSpec, TurnsInOrder, workVars
==============================================================================
