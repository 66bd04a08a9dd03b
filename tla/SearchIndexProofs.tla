------------------------- MODULE SearchIndexProofs -------------------------
(***************************************************************************)
(* Proofs about SearchIndexQueue, and about the two models of              *)
(* MCIndexModels: what keeps a vector, a row of the queue and a drain      *)
(* together.                                                               *)
(***************************************************************************)
EXTENDS MCIndexModels, FiniteSetTheorems, TLAPS
-----------------------------------------------------------------------------
IndexTypes ==
  /\ status \in [Contacts -> Statuses] /\ text \in [Contacts -> Texts]
  /\ vector \in [Contacts -> Texts \cup {None}] /\ row \in [Contacts -> QueueRow \cup {None}]
  /\ \A item \in batch : item.id \in Contacts /\ item.attempts \in Nat
  /\ embed \in Embed \cup {None}
  /\ {busy, running} \subseteq BOOLEAN /\ importing \subseteq Contacts /\ cutOff \subseteq Contacts

\* A drain runs while it holds the thread or awaits an answer.
DrainRuns == (busy => Up /\ running) /\ (embed # None => running)

\* Whom the drain works for, and which rows it put back.
RowsAreHeld ==
  /\ \A c \in Contacts : Up /\ Processing(c) => embed # None /\ embed.id = c
  /\ \A c \in Contacts : row[c] # None /\ ~row[c].due => c \in deferred

IndexIsRight == IndexTypes /\ DrainRuns /\ RowsAreHeld /\ TrashIsNotIndexed

\* The server's own model, and contacts nobody archives.
OwnModel == ~Provider /\ Archivable = {}

NobodyArchived == \A c \in Contacts : status[c] \in {"none", "active", "trash", "gone"}
ImportedExist == \A c \in Contacts : status[c] = "none" => c \notin cutOff \cup importing

\* What the drain found of the contact it works for is so until its row is written.
FoundIsSo ==
  embed # None =>
    /\ embed.outcome # "dropped"
    /\ embed.outcome = "indexed" /\ Processing(embed.id) => vector[embed.id] = text[embed.id]

CutOffAreFound == boot = "done" \/ backfill # None => \A c \in cutOff : ~Missing(c)

PendingIsDrained ==
  \A c \in Contacts : Up /\ Pending(c) /\ c \notin deferred \cup unheard => DrainComes

OwnIsRight ==
  NobodyArchived /\ ImportedExist /\ FoundIsSo /\ CutOffAreFound /\ PendingIsDrained /\ StaleIsQueued

LEMMA RowFacts ==
  /\ Fresh \in QueueRow /\ Fresh.status = "pending" /\ Fresh.due
  /\ \A r \in QueueRow : r # None
<1>1. Fresh \in QueueRow /\ Fresh.status = "pending" /\ Fresh.due BY DEF Fresh, QueueRow
<1>2. \A r \in QueueRow : r # None BY NoneAssumption
<1> QED BY <1>1, <1>2

-----------------------------------------------------------------------------
(***************************************************************************)
(* Writes, and calls of the drain.  What they have in common: rows stay,   *)
(* go, or are queued afresh, with a drain to come or unheard.              *)
(***************************************************************************)
Written ==
  /\ Up /\ UNCHANGED <<boot, backfill, embed>>
  /\ batch' \subseteq batch /\ {busy, running}' \subseteq BOOLEAN
  /\ (busy' => running') /\ (running => running')
  /\ importing' \subseteq Contacts /\ cutOff' \subseteq Contacts
  /\ status' \in [Contacts -> Statuses] /\ text' \in [Contacts -> Texts]
  /\ vector' \in [Contacts -> Texts \cup {None}] /\ row' \in [Contacts -> QueueRow \cup {None}]
  /\ \A c \in Contacts :
       /\ \/ row'[c] = row[c] /\ (c \in deferred => c \in deferred')
          \/ row'[c] = None
          \/ row'[c] = Fresh
       /\ status'[c] \notin {"active", "archived"} => vector'[c] = None /\ row'[c] = None

\* The same for contacts nobody archives.
OwnWritten ==
  /\ NobodyArchived' /\ cutOff' \subseteq cutOff /\ (DrainComes => DrainComes')
  /\ DrainComes' \/ unheard \subseteq unheard'
  /\ \A c \in cutOff' : Missing(c)' => Missing(c)
  /\ \A c \in Contacts :
       /\ (row'[c] = row[c] /\ (c \in deferred => c \in deferred')) \/ row'[c] = None \/ DrainComes' \/ c \in unheard'
       /\ (vector'[c] = vector[c] /\ text'[c] = text[c]) \/ row'[c] \in {None, Fresh}
       /\ status'[c] = "none" => status[c] = "none" /\ (c \in importing' => c \in importing)
       /\ status'[c] = "active" =>
            \/ row'[c] # None \/ c \in importing' \cup cutOff'
            \/ /\ status[c] = "active" /\ vector'[c] = vector[c] /\ text'[c] = text[c]
               /\ row'[c] = row[c] /\ c \notin importing \cup cutOff

LEMMA WrittenKeeps == ASSUME IndexIsRight, Written PROVE IndexIsRight'
<1> USE RowFacts DEF IndexIsRight, Written
<1>1. IndexTypes' BY DEF IndexTypes
<1>2. DrainRuns' BY DEF DrainRuns, Up
<1>3. RowsAreHeld'
  <2>1. \A c \in Contacts : Processing(c)' => row'[c] = row[c] BY DEF Processing
  <2>2. \A c \in Contacts : Up' /\ Processing(c)' => embed' # None /\ embed'.id = c
    BY <2>1 DEF Processing, Up, RowsAreHeld
  <2>3. \A c \in Contacts : row'[c] # None /\ ~row'[c].due => c \in deferred' BY DEF RowsAreHeld
  <2> QED BY <2>2, <2>3 DEF RowsAreHeld
<1>4. TrashIsNotIndexed' BY DEF TrashIsNotIndexed, InTrash
<1> QED BY <1>1, <1>2, <1>3, <1>4

LEMMA OwnWrittenKeeps == ASSUME IndexIsRight, OwnIsRight, Written, OwnWritten PROVE OwnIsRight'
<1> USE RowFacts DEF OwnIsRight, OwnWritten
<1>1. NobodyArchived' OBVIOUS
<1>2. ImportedExist' BY DEF ImportedExist
<1>3. FoundIsSo'
  <2>1. embed' = embed /\ (embed # None => embed.id \in Contacts)
    BY DEF Written, IndexIsRight, IndexTypes, Embed
  <2>2. ASSUME NEW c \in Contacts, Processing(c)'
        PROVE  Processing(c) /\ vector'[c] = vector[c] /\ text'[c] = text[c]
    BY <2>2 DEF Processing, Written
  <2> QED BY <2>1, <2>2 DEF FoundIsSo, Processing
<1>4. CutOffAreFound' BY DEF CutOffAreFound, Written
<1>5. PendingIsDrained' BY DEF PendingIsDrained, Pending, Written, DrainComes, Up, RowsAreHeld, IndexIsRight
<1>6. StaleIsQueued' BY DEF StaleIsQueued, Stale, Active
<1> QED BY <1>1, <1>2, <1>3, <1>4, <1>5, <1>6

LEMMA CreateKeeps ==
  ASSUME IndexIsRight, NEW c \in Contacts, Create(c)
  PROVE  Written /\ (OwnIsRight => OwnWritten)
<1>1. Idle /\ status[c] = "none" /\ status' = [status EXCEPT ![c] = "active"] /\ Schedule({c}, status')
      /\ UNCHANGED <<text, vector, importing, unaffected>>
  BY DEF Create
<1>2. /\ row' \in [Contacts -> QueueRow \cup {None}] /\ status' \in [Contacts -> Statuses]
      /\ \A b \in Contacts : row'[b] = (IF b = c THEN Fresh ELSE row[b]) /\ status'[b] = IF b = c THEN "active" ELSE status[b]
      /\ timer' # "off" /\ cutOff' = cutOff \ {c} /\ deferred' = deferred \ {c}
  BY <1>1, RowFacts DEF Schedule, IndexIsRight, IndexTypes, Armed, Statuses
<1>3. Written
  BY <1>1, <1>2 DEF Written, IndexIsRight, IndexTypes, DrainRuns, TrashIsNotIndexed, Idle, unaffected, drain, Statuses, InTrash
<1>4. OwnIsRight => OwnWritten
  BY <1>1, <1>2, RowFacts DEF OwnWritten, OwnIsRight, NobodyArchived, Missing, Active, StaleIsQueued, Stale, DrainComes, unaffected, drain
<1> QED BY <1>3, <1>4

\* The trigger: the vector goes, and the row of the contact, or it is queued afresh.
LEMMA Triggered ==
  ASSUME IndexIsRight, NEW c \in Contacts, NEW now, SearchVectorUpdate(c, now)
  PROVE  /\ row' \in [Contacts -> QueueRow \cup {None}] /\ vector' \in [Contacts -> Texts \cup {None}]
         /\ \A b \in Contacts :
              /\ row'[b] = IF b # c THEN row[b] ELSE IF now[c] = "active" THEN Fresh ELSE None
              /\ vector'[b] = IF b = c THEN None ELSE vector[b]
         /\ cutOff' = (IF now[c] = "active" THEN cutOff \ {c} ELSE cutOff)
         /\ deferred' = (IF now[c] = "active" THEN deferred \ {c} ELSE deferred)
<1>1. CASE now[c] = "active"
  BY <1>1, RowFacts DEF SearchVectorUpdate, IndexIsRight, IndexTypes
<1>2. CASE now[c] # "active"
  BY <1>2 DEF SearchVectorUpdate, IndexIsRight, IndexTypes
<1> QED BY <1>1, <1>2

LEMMA ImportRowKeeps ==
  ASSUME IndexIsRight, NEW c \in Contacts, ImportRow(c)
  PROVE  Written /\ (OwnIsRight => OwnWritten)
<1>1. /\ Idle /\ status[c] = "none" /\ status' = [status EXCEPT ![c] = "active"]
      /\ importing' = importing \cup {c} /\ UNCHANGED <<text, timer, unaffected>>
      /\ UNCHANGED <<index, ghosts>> \/ (SearchVectorUpdate(c, status') /\ unheard' = Unheard(c))
  BY DEF ImportRow
<1>2. /\ status' \in [Contacts -> Statuses]
      /\ \A b \in Contacts : status'[b] = IF b = c THEN "active" ELSE status[b]
  BY <1>1 DEF IndexIsRight, IndexTypes, Statuses
<1>3. CASE UNCHANGED <<index, ghosts>>
  <2>1. Written
    BY <1>1, <1>2, <1>3 DEF Written, IndexIsRight, IndexTypes, DrainRuns, TrashIsNotIndexed, Idle, unaffected, drain, Statuses, InTrash, index, ghosts
  <2>2. OwnIsRight => OwnWritten
    BY <1>1, <1>2, <1>3 DEF OwnWritten, OwnIsRight, NobodyArchived, Missing, Active, StaleIsQueued, Stale, DrainComes, unaffected, drain, ImportedExist, index, ghosts
  <2> QED BY <2>1, <2>2
<1>4. CASE SearchVectorUpdate(c, status') /\ unheard' = Unheard(c)
  <2>1. /\ row' \in [Contacts -> QueueRow \cup {None}] /\ vector' \in [Contacts -> Texts \cup {None}]
        /\ \A b \in Contacts :
             row'[b] = (IF b = c THEN Fresh ELSE row[b]) /\ vector'[b] = IF b = c THEN None ELSE vector[b]
        /\ cutOff' = cutOff \ {c} /\ deferred' = deferred \ {c}
    BY <1>2, <1>4, Triggered
  <2>2. Written
    BY <1>1, <1>2, <2>1 DEF Written, IndexIsRight, IndexTypes, DrainRuns, TrashIsNotIndexed, Idle, unaffected, drain, Statuses, InTrash
  <2>3. DrainComes' = DrainComes BY <1>1 DEF DrainComes, unaffected, drain
  <2>4. unheard \subseteq unheard' /\ (DrainComes' \/ c \in unheard') BY <1>4, <2>3 DEF Unheard
  <2>5. \A b \in cutOff' : Missing(b)' => Missing(b)
    BY <1>1, <1>2, <2>1 DEF Missing, Active, IndexIsRight, IndexTypes
  <2>6. OwnIsRight => OwnWritten
    BY <1>1, <1>2, <2>1, <2>3, <2>4, <2>5, RowFacts DEF OwnWritten, OwnIsRight, NobodyArchived, Active
  <2> QED BY <2>2, <2>6
<1> QED BY <1>1, <1>3, <1>4

LEMMA FinishImportKeeps == ASSUME IndexIsRight, FinishImport PROVE Written /\ (OwnIsRight => OwnWritten)
<1> DEFINE queued == {c \in importing : status[c] = "active"}
<1>1. /\ Idle /\ Schedule(importing, status) /\ importing' = {}
      /\ UNCHANGED <<status, text, vector, unaffected>>
  BY DEF FinishImport
<1>2. /\ row' \in [Contacts -> QueueRow \cup {None}]
      /\ \A b \in Contacts : row'[b] = IF b \in queued THEN Fresh ELSE row[b]
      /\ timer' # "off" /\ cutOff' = cutOff \ queued /\ deferred' = deferred \ queued
  BY <1>1, RowFacts DEF Schedule, IndexIsRight, IndexTypes, Armed
<1>3. Written
  BY <1>1, <1>2 DEF Written, IndexIsRight, IndexTypes, DrainRuns, TrashIsNotIndexed, Idle, unaffected, drain, Statuses, InTrash
<1>4. OwnIsRight => OwnWritten
  BY <1>1, <1>2, RowFacts DEF OwnWritten, OwnIsRight, NobodyArchived, Missing, Active, StaleIsQueued, Stale, DrainComes, unaffected, drain
<1> QED BY <1>3, <1>4

LEMMA EditTextKeeps ==
  ASSUME IndexIsRight, NEW c \in Contacts, EditText(c)
  PROVE  Written /\ (OwnIsRight => OwnWritten)
<1>1. /\ Idle /\ status[c] \in {"active", "archived"} /\ SearchVectorUpdate(c, status)
      /\ text' \in [Contacts -> Texts] /\ \A b \in Contacts \ {c} : text'[b] = text[b]
      /\ UNCHANGED <<status, importing, unaffected>>
  BY SearchAssumption DEF EditText, IndexIsRight, IndexTypes, Texts
<1>2. /\ row' \in [Contacts -> QueueRow \cup {None}] /\ vector' \in [Contacts -> Texts \cup {None}]
      /\ \A b \in Contacts :
           /\ row'[b] = IF b # c THEN row[b] ELSE IF Active(c) THEN Fresh ELSE None
           /\ vector'[b] = IF b = c THEN None ELSE vector[b]
      /\ cutOff' = (IF Active(c) THEN cutOff \ {c} ELSE cutOff)
      /\ deferred' = (IF Active(c) THEN deferred \ {c} ELSE deferred)
  BY <1>1, Triggered DEF Active
<1>3. Written
  BY <1>1, <1>2 DEF Written, IndexIsRight, IndexTypes, DrainRuns, TrashIsNotIndexed, Idle, unaffected, drain, Statuses, InTrash
<1>4. DrainComes' BY DEF EditText, Armed, DrainComes
<1>5. OwnIsRight => OwnWritten
  <2> SUFFICES ASSUME OwnIsRight PROVE OwnWritten OBVIOUS
  <2>1. status[c] = "active" BY <1>1 DEF OwnIsRight, NobodyArchived
  <2>2. \A b \in cutOff' : Missing(b)' => Missing(b)
    BY <1>1, <1>2, <2>1 DEF Missing, Active, IndexIsRight, IndexTypes
  <2> QED BY <1>1, <1>2, <1>4, <2>1, <2>2, RowFacts
      DEF OwnWritten, OwnIsRight, NobodyArchived, Active, DrainComes, unaffected, drain
<1> QED BY <1>3, <1>5

LEMMA EditDetailsKeeps ==
  ASSUME IndexIsRight, NEW c \in Contacts, EditDetails(c)
  PROVE  Written /\ (OwnIsRight => OwnWritten)
<1>1. /\ Idle /\ status[c] \in {"active", "archived"} /\ SearchVectorUpdate(c, status)
      /\ text' \in [Contacts -> Texts] /\ \A b \in Contacts \ {c} : text'[b] = text[b]
      /\ UNCHANGED <<status, importing, unaffected>>
  BY SearchAssumption DEF EditDetails, IndexIsRight, IndexTypes, Texts
<1>2. /\ row' \in [Contacts -> QueueRow \cup {None}] /\ vector' \in [Contacts -> Texts \cup {None}]
      /\ \A b \in Contacts :
           /\ row'[b] = IF b # c THEN row[b] ELSE IF Active(c) THEN Fresh ELSE None
           /\ vector'[b] = IF b = c THEN None ELSE vector[b]
      /\ cutOff' = (IF Active(c) THEN cutOff \ {c} ELSE cutOff)
      /\ deferred' = (IF Active(c) THEN deferred \ {c} ELSE deferred)
  BY <1>1, Triggered DEF Active
<1>3. Written
  BY <1>1, <1>2 DEF Written, IndexIsRight, IndexTypes, DrainRuns, TrashIsNotIndexed, Idle, unaffected, drain, Statuses, InTrash
<1>4. /\ DrainComes' = DrainComes /\ unheard \subseteq unheard'
      /\ Active(c) => DrainComes' \/ c \in unheard'
  BY <1>1 DEF EditDetails, Unheard, DrainComes, unaffected, drain
<1>5. OwnIsRight => OwnWritten
  <2> SUFFICES ASSUME OwnIsRight PROVE OwnWritten OBVIOUS
  <2>1. status[c] = "active" BY <1>1 DEF OwnIsRight, NobodyArchived
  <2>2. \A b \in cutOff' : Missing(b)' => Missing(b)
    BY <1>1, <1>2, <2>1 DEF Missing, Active, IndexIsRight, IndexTypes
  <2> QED BY <1>1, <1>2, <1>4, <2>1, <2>2, RowFacts
      DEF OwnWritten, OwnIsRight, NobodyArchived, Active, DrainComes, unaffected, drain
<1> QED BY <1>3, <1>5

LEMMA ArchiveKeeps ==
  ASSUME IndexIsRight, NEW c \in Contacts, Archive(c)
  PROVE  Written /\ (OwnModel /\ OwnIsRight => OwnWritten)
<1>1. /\ Idle /\ c \in Archivable /\ status[c] \in {"active", "archived"}
      /\ status' \in {[status EXCEPT ![c] = "archived"], [status EXCEPT ![c] = "active"]}
      /\ UNCHANGED <<text, index, timer, importing, ghosts, unaffected>>
  BY DEF Archive
<1>2. /\ status' \in [Contacts -> Statuses] /\ status'[c] \in {"active", "archived"}
      /\ \A b \in Contacts \ {c} : status'[b] = status[b]
  BY <1>1 DEF IndexIsRight, IndexTypes, Statuses
<1>3. Written
  BY <1>1, <1>2 DEF Written, IndexIsRight, IndexTypes, DrainRuns, TrashIsNotIndexed, Idle, unaffected, drain, Statuses, InTrash, index, ghosts
<1> QED BY <1>1, <1>3 DEF OwnModel

LEMMA TrashKeeps ==
  ASSUME IndexIsRight, NEW c \in Contacts, Trash(c)
  PROVE  Written /\ (OwnIsRight => OwnWritten)
<1>1. /\ Idle /\ status[c] # "none"
      /\ \/ status[c] = "active" /\ status' = [status EXCEPT ![c] = "trash"]
         \/ status[c] = "archived" /\ status' = [status EXCEPT ![c] = "archived_trash"]
         \/ status[c] \in InTrash /\ status' = [status EXCEPT ![c] = "gone"]
      /\ vector' = [vector EXCEPT ![c] = None] /\ row' = [row EXCEPT ![c] = None]
      /\ UNCHANGED <<text, timer, importing, ghosts, unaffected>>
  BY DEF Trash, InTrash
<1>2. /\ status' \in [Contacts -> Statuses] /\ status'[c] \in {"trash", "archived_trash", "gone"}
      /\ status[c] # "archived" /\ status[c] # "archived_trash" => status'[c] # "archived_trash"
      /\ row' \in [Contacts -> QueueRow \cup {None}] /\ vector' \in [Contacts -> Texts \cup {None}]
      /\ row'[c] = None /\ vector'[c] = None
      /\ \A b \in Contacts \ {c} : status'[b] = status[b] /\ row'[b] = row[b] /\ vector'[b] = vector[b]
  BY <1>1 DEF IndexIsRight, IndexTypes, Statuses, InTrash
<1>3. Written
  BY <1>1, <1>2 DEF Written, IndexIsRight, IndexTypes, DrainRuns, TrashIsNotIndexed, Idle, unaffected, drain, Statuses, InTrash, ghosts
<1>4. OwnIsRight => OwnWritten
  <2> SUFFICES ASSUME OwnIsRight PROVE OwnWritten OBVIOUS
  <2>1. \A b \in cutOff' : Missing(b)' => Missing(b)
    BY <1>1, <1>2 DEF Missing, Active, IndexIsRight, IndexTypes, ghosts
  <2> QED BY <1>1, <1>2, <2>1 DEF OwnWritten, OwnIsRight, NobodyArchived, Missing, Active, StaleIsQueued, Stale, DrainComes, unaffected, drain, ghosts
<1> QED BY <1>3, <1>4

LEMMA RestoreContactKeeps ==
  ASSUME IndexIsRight, NEW c \in Contacts, RestoreContact(c)
  PROVE  Written /\ (OwnIsRight => OwnWritten)
<1>1. /\ Idle /\ status[c] \in InTrash
      /\ status' = [status EXCEPT ![c] = IF @ = "trash" THEN "active" ELSE "archived"]
      /\ Schedule({c}, status') /\ UNCHANGED <<text, vector, importing, unaffected>>
  BY DEF RestoreContact
<1>2. /\ status' \in [Contacts -> Statuses] /\ \A b \in Contacts \ {c} : status'[b] = status[b]
      /\ status'[c] = IF status[c] = "trash" THEN "active" ELSE "archived"
  BY <1>1 DEF IndexIsRight, IndexTypes, Statuses
<1> DEFINE back == status'[c] = "active"
<1>3. /\ row' \in [Contacts -> QueueRow \cup {None}]
      /\ \A b \in Contacts : row'[b] = IF b = c /\ back THEN Fresh ELSE row[b]
      /\ timer' # "off" /\ cutOff' = (IF back THEN cutOff \ {c} ELSE cutOff)
      /\ deferred' = (IF back THEN deferred \ {c} ELSE deferred)
  BY <1>1, RowFacts DEF Schedule, IndexIsRight, IndexTypes, Armed
<1>4. Written
  BY <1>1, <1>2, <1>3 DEF Written, IndexIsRight, IndexTypes, DrainRuns, TrashIsNotIndexed, Idle, unaffected, drain, Statuses, InTrash
<1>5. OwnIsRight => OwnWritten
  BY <1>1, <1>2, <1>3, RowFacts DEF OwnWritten, OwnIsRight, NobodyArchived, Missing, Active, StaleIsQueued, Stale, DrainComes, unaffected, drain, InTrash
<1> QED BY <1>4, <1>5

\* A call of the drain leaves rows alone, and leaves a timer or a drain behind.
LEMMA DrainCalled ==
  ASSUME IndexIsRight, NEW allowed \in BOOLEAN, DrainIndexQueue(allowed), Idle, UNCHANGED <<boot, backfill>>
  PROVE  /\ embed' = embed /\ batch' \subseteq batch /\ {busy, running}' \subseteq BOOLEAN
         /\ (busy' => running') /\ (running => running')
         /\ allowed \/ ~Provider => DrainComes'
<1>1. CASE running \/ backfill # None
  BY <1>1 DEF DrainIndexQueue, IndexIsRight, IndexTypes, DrainRuns, DrainComes, Idle, drain
<1>2. CASE ~(running \/ backfill # None)
  BY <1>2 DEF DrainIndexQueue, IndexIsRight, IndexTypes, DrainRuns, DrainComes, Idle, drain
<1> QED BY <1>1, <1>2

LEMMA RefreshIndexKeeps ==
  ASSUME IndexIsRight, NEW forceAll \in BOOLEAN, RefreshIndex(forceAll)
  PROVE  Written /\ (OwnIsRight => OwnWritten)
<1> DEFINE queued == {c \in Contacts : IF forceAll THEN Active(c) ELSE Missing(c) \/ Failed(c)}
<1>1. /\ Idle /\ row' = [c \in Contacts |-> IF c \in queued THEN Fresh ELSE IF forceAll THEN None ELSE row[c]]
      /\ vector' = [c \in Contacts |-> IF forceAll THEN None ELSE vector[c]]
      /\ cutOff' = cutOff \ queued /\ deferred' = deferred \ queued
      /\ DrainIndexQueue(TRUE) /\ UNCHANGED <<contacts, boot, ready, backfill, importing, failures>>
  BY DEF RefreshIndex
<1>2. /\ row' \in [Contacts -> QueueRow \cup {None}] /\ vector' \in [Contacts -> Texts \cup {None}]
      /\ \A c \in Contacts :
           /\ row'[c] = IF c \in queued THEN Fresh ELSE IF forceAll THEN None ELSE row[c]
           /\ vector'[c] = IF forceAll THEN None ELSE vector[c]
  BY <1>1, RowFacts DEF IndexIsRight, IndexTypes
<1>3. /\ embed' = embed /\ batch' \subseteq batch /\ {busy, running}' \subseteq BOOLEAN
      /\ (busy' => running') /\ (running => running') /\ DrainComes'
  BY <1>1, DrainCalled
<1>4. /\ \A c \in queued : Active(c) /\ c \in Contacts
      /\ forceAll => \A c \in Contacts : Active(c) => c \in queued
      /\ ~forceAll => \A c \in Contacts : Missing(c) => c \in queued
  BY DEF Missing, Failed
<1>5. /\ status' = status /\ text' = text /\ importing' = importing /\ UNCHANGED <<boot, backfill>> /\ Idle
  BY <1>1 DEF contacts
<1> HIDE DEF queued
<1>6. Written
  BY <1>1, <1>2, <1>3, <1>4, <1>5
  DEF Written, IndexIsRight, IndexTypes, TrashIsNotIndexed, Idle, Statuses, InTrash, Active
<1>7. OwnIsRight => OwnWritten
  <2>1. \A c \in cutOff' : c \in cutOff /\ c \notin queued /\ c \in Contacts BY <1>1 DEF IndexIsRight, IndexTypes
  <2> SUFFICES ASSUME OwnIsRight PROVE OwnWritten OBVIOUS
  <2>2. ASSUME NEW c \in cutOff', Missing(c)' PROVE Missing(c) 
    BY <1>2, <1>4, <1>5, <2>1, <2>2 DEF Missing, Active
  <2>3. ASSUME NEW c \in Contacts, status'[c] = "active"
        PROVE  \/ row'[c] # None \/ c \in importing' \cup cutOff'
               \/ /\ status[c] = "active" /\ vector'[c] = vector[c] /\ text'[c] = text[c]
                  /\ row'[c] = row[c] /\ c \notin importing \cup cutOff
    BY <1>1, <1>2, <1>4, <1>5, <2>3, RowFacts DEF Active
  <2> QED BY <1>1, <1>2, <1>4, <1>5, <1>3, <2>1, <2>2, <2>3 DEF OwnWritten, OwnIsRight, NobodyArchived, Active
<1> QED BY <1>6, <1>7

LEMMA QuietKeeps ==
  ASSUME IndexIsRight, SwitchAi \/ RefreshIndexElsewhere \/ TimerFires
  PROVE  Written /\ (OwnModel /\ OwnIsRight => OwnWritten)
<1>1. /\ Idle /\ UNCHANGED <<status, text, index, boot, backfill, importing, cutOff, deferred>>
      /\ UNCHANGED <<timer, drain>> \/ DrainIndexQueue(TRUE) \/ DrainIndexQueue(FALSE)
      /\ unheard' = unheard \/ DrainIndexQueue(TRUE)
  BY DEF SwitchAi, RefreshIndexElsewhere, TimerFires, contacts, ghosts
<1>2. /\ embed' = embed /\ batch' \subseteq batch /\ {busy, running}' \subseteq BOOLEAN
      /\ (busy' => running') /\ (running => running')
      /\ (OwnModel /\ DrainComes => DrainComes') /\ (unheard' = unheard \/ DrainComes')
  <2>1. CASE UNCHANGED <<timer, drain>>
    <3>1. unheard' = unheard \/ DrainComes' BY <1>1, DrainCalled
    <3> QED BY <1>1, <2>1, <3>1 DEF drain, DrainComes, IndexIsRight, IndexTypes, DrainRuns
  <2>2. CASE DrainIndexQueue(TRUE) \/ DrainIndexQueue(FALSE)
    BY <1>1, <2>2, DrainCalled DEF OwnModel
  <2> QED BY <1>1, <2>1, <2>2
<1>3. Written
  BY <1>1, <1>2 DEF Written, IndexIsRight, IndexTypes, TrashIsNotIndexed, Idle, Statuses, InTrash, index
<1>4. OwnModel /\ OwnIsRight => OwnWritten
  BY <1>1, <1>2 DEF OwnWritten, OwnIsRight, NobodyArchived, Missing, Active, StaleIsQueued, Stale, index
<1> QED BY <1>3, <1>4

-----------------------------------------------------------------------------
(***************************************************************************)
(* The drain and the process.                                              *)
(***************************************************************************)
LEMMA SelectBatchKeeps ==
  ASSUME IndexIsRight, SelectBatch
  PROVE  IndexIsRight' /\ (OwnIsRight => OwnIsRight')
<1>1. PICK C \in Candidates : batch' = {[id |-> c, attempts |-> row[c].attempts] : c \in C \ seen}
  BY DEF SelectBatch
<1>2. UNCHANGED <<idle, index, timer, busy, running, embed, ghosts>> BY DEF SelectBatch
<1>3. \A c \in C : c \in Contacts /\ row[c] # None BY DEF Candidates, DueRows, Pending
<1>4. \A item \in batch' : item.id \in Contacts /\ item.attempts \in Nat
  BY <1>1, <1>3 DEF IndexIsRight, IndexTypes, QueueRow
<1>5. IndexTypes' /\ DrainRuns'
  BY <1>2, <1>4 DEF IndexIsRight, IndexTypes, DrainRuns, idle, index, contacts, ghosts, Up
<1>6. RowsAreHeld' /\ TrashIsNotIndexed'
  BY <1>2 DEF IndexIsRight, RowsAreHeld, TrashIsNotIndexed, Processing, idle, index, contacts, ghosts, Up
<1>7. OwnIsRight => OwnIsRight'
  BY <1>2 DEF OwnIsRight, NobodyArchived, ImportedExist, FoundIsSo, CutOffAreFound, PendingIsDrained, DrainComes, StaleIsQueued,
              Stale, Missing, Active, Pending, Processing, Up, idle, index, contacts, ghosts
<1> QED BY <1>5, <1>6, <1>7 DEF IndexIsRight

LEMMA ClaimKeeps ==
  ASSUME IndexIsRight, NEW item \in batch, Claim(item)
  PROVE  IndexIsRight' /\ (OwnModel /\ OwnIsRight => OwnIsRight')
<1> DEFINE c == item.id
<1>1. /\ busy /\ embed = None /\ batch' \subseteq batch
      /\ UNCHANGED <<idle, vector, timer, running, explicit, ghosts>>
      /\ IF Pending(c)
         THEN /\ row' = [row EXCEPT ![c].status = "processing"]
              /\ embed' = [id |-> c, attempts |-> item.attempts, read |-> text[c], outcome |-> Embedding(c)]
              /\ busy' = FALSE
         ELSE UNCHANGED <<row, embed, busy>>
  BY DEF Claim
<1>2. /\ c \in Contacts /\ item.attempts \in Nat /\ text[c] \in Texts /\ Up /\ running
      /\ \A b \in Contacts : ~Processing(b)
  BY <1>1 DEF IndexIsRight, IndexTypes, DrainRuns, RowsAreHeld
<1> HIDE DEF c
<1>3. /\ status' = status /\ text' = text /\ vector' = vector /\ UNCHANGED <<boot, backfill, timer, running>>
      /\ importing' = importing /\ cutOff' = cutOff /\ deferred' = deferred /\ unheard' = unheard
  BY <1>1 DEF idle, contacts, ghosts
<1>4. CASE Pending(c)
  <2> DEFINE r == [row[c] EXCEPT !.status = "processing"]
  <2>1. row[c] \in QueueRow /\ row \in [Contacts -> QueueRow \cup {None}]
    BY <1>2, <1>4 DEF Pending, IndexIsRight, IndexTypes
  <2>2. row' = [row EXCEPT ![c] = r] BY <1>1, <1>2, <1>4, <2>1
  <2>3. r \in QueueRow /\ r # None /\ r.status = "processing" /\ r.due = row[c].due BY <2>1, RowFacts DEF QueueRow
  <2> HIDE DEF r
  <2>4. /\ row' \in [Contacts -> QueueRow \cup {None}] /\ row'[c] = r
        /\ \A b \in Contacts \ {c} : row'[b] = row[b]
    BY <1>2, <2>1, <2>2, <2>3
  <2>5. Embedding(c) \in Outcomes BY DEF Embedding, Outcomes
  <2>6. /\ embed' \in Embed /\ embed' # None /\ embed'.id = c /\ embed'.outcome = Embedding(c)
    BY <1>1, <1>2, <1>4, <2>5, NoneAssumption DEF Embed
  <2>7. IndexTypes' /\ DrainRuns'
    <3>1. busy' = FALSE /\ batch' \subseteq batch BY <1>1, <1>4
    <3>2. IndexTypes /\ DrainRuns BY DEF IndexIsRight
    <3>3. IndexTypes' BY <1>3, <2>4, <2>6, <3>1, <3>2 DEF IndexTypes
    <3> QED BY <1>2, <1>3, <3>1, <3>3 DEF DrainRuns
  <2>8. RowsAreHeld'
    BY <1>2, <1>3, <2>3, <2>4, <2>6, <1>4 DEF IndexIsRight, RowsAreHeld, Processing, Pending
  <2>9. TrashIsNotIndexed' BY <1>3, <1>4, <2>4 DEF IndexIsRight, TrashIsNotIndexed, Pending
  <2>10. ASSUME OwnModel, OwnIsRight PROVE OwnIsRight'
    <3>1. Active(c) BY <1>2, <1>4, <2>10 DEF OwnIsRight, NobodyArchived, IndexIsRight, TrashIsNotIndexed, Pending, Active, InTrash
    <3>2. FoundIsSo' BY <2>6, <2>10, <3>1 DEF FoundIsSo, Embedding, OwnModel, Refused
    <3>3. PendingIsDrained' BY <1>2, <1>3 DEF PendingIsDrained, DrainComes
    <3>4. StaleIsQueued' BY <1>3, <2>3, <2>4, <2>10 DEF OwnIsRight, StaleIsQueued, Stale, Active
    <3>5. NobodyArchived' /\ ImportedExist' /\ CutOffAreFound'
      BY <1>3, <2>10 DEF OwnIsRight, NobodyArchived, ImportedExist, CutOffAreFound, Missing, Active
    <3> QED BY <3>2, <3>3, <3>4, <3>5 DEF OwnIsRight
  <2> QED BY <2>7, <2>8, <2>9, <2>10 DEF IndexIsRight
<1>5. CASE ~Pending(c)
  <2>1. UNCHANGED <<row, embed, busy>> BY <1>1, <1>5
  <2>2. IndexTypes' /\ DrainRuns'
    BY <1>1, <1>3, <2>1 DEF IndexIsRight, IndexTypes, DrainRuns, Up
  <2>3. RowsAreHeld' /\ TrashIsNotIndexed'
    BY <1>3, <2>1 DEF IndexIsRight, RowsAreHeld, TrashIsNotIndexed, Processing, Up
  <2>4. OwnIsRight => OwnIsRight'
    BY <1>3, <2>1 DEF OwnIsRight, NobodyArchived, ImportedExist, FoundIsSo, CutOffAreFound, PendingIsDrained, DrainComes,
                      StaleIsQueued, Stale, Missing, Active, Pending, Processing, Up
  <2> QED BY <2>2, <2>3, <2>4 DEF IndexIsRight
<1> QED BY <1>4, <1>5

\* What became of the embedding is noted.
LEMMA Noted ==
  ASSUME IndexIsRight, embed # None, NEW o \in Outcomes, embed' = [embed EXCEPT !.outcome = o]
  PROVE  embed' \in Embed /\ embed' # None /\ embed'.id = embed.id /\ embed'.outcome = o /\ embed.id \in Contacts
BY NoneAssumption DEF IndexIsRight, IndexTypes, Embed

LEMMA EmbeddedKeeps ==
  ASSUME IndexIsRight, Embedded
  PROVE  IndexIsRight' /\ (OwnIsRight => OwnIsRight')
<1> DEFINE c == embed.id
           same == Active(c) /\ text[c] = embed.read
<1>1. /\ Up /\ embed # None
      /\ UNCHANGED <<idle, row, timer, busy, running, explicit, processed, seen, batch, ghosts>>
      /\ IF same THEN vector' = [vector EXCEPT ![c] = embed.read] /\ embed' = [embed EXCEPT !.outcome = "indexed"]
         ELSE embed' = [embed EXCEPT !.outcome = "outdated"] /\ UNCHANGED vector
  BY DEF Embedded, Idle, Unchanged
<1>2. /\ embed' \in Embed /\ embed' # None /\ embed'.id = c /\ c \in Contacts
      /\ embed'.outcome = IF same THEN "indexed" ELSE "outdated"
  <2>1. "indexed" \in Outcomes /\ "outdated" \in Outcomes BY DEF Outcomes
  <2>2. CASE same BY <1>1, <2>1, <2>2, Noted
  <2>3. CASE ~same BY <1>1, <2>1, <2>3, Noted
  <2> QED BY <2>2, <2>3
<1>3. /\ vector' \in [Contacts -> Texts \cup {None}]
      /\ \A b \in Contacts : vector'[b] = IF same /\ b = c THEN text[c] ELSE vector[b]
  BY <1>1, <1>2 DEF IndexIsRight, IndexTypes
<1>4. /\ status' = status /\ text' = text /\ row' = row /\ UNCHANGED <<boot, backfill, timer, running, busy, batch>>
      /\ importing' = importing /\ cutOff' = cutOff /\ deferred' = deferred /\ unheard' = unheard
  BY <1>1 DEF idle, contacts, ghosts
<1>5. same => Active(c) OBVIOUS
<1> HIDE DEF c, same
<1>6. IndexTypes' /\ DrainRuns' BY <1>1, <1>2, <1>3, <1>4 DEF IndexIsRight, IndexTypes, DrainRuns, Up
<1>7. RowsAreHeld' BY <1>1, <1>2, <1>4 DEF IndexIsRight, RowsAreHeld, Processing, Up, c
<1>8. TrashIsNotIndexed' BY <1>3, <1>4, <1>5 DEF IndexIsRight, TrashIsNotIndexed, Active, InTrash
<1>9. ASSUME OwnIsRight PROVE OwnIsRight'
  <2>1. FoundIsSo' BY <1>2, <1>3, <1>4 DEF FoundIsSo
  <2>2. CutOffAreFound'
    <3>1. \A b \in cutOff : b \in Contacts /\ (Missing(b)' => Missing(b))
      BY <1>3, <1>4, NoneAssumption DEF Missing, Active, IndexIsRight, IndexTypes
    <3> QED BY <1>4, <1>9, <3>1 DEF OwnIsRight, CutOffAreFound
  <2>3. PendingIsDrained' BY <1>4, <1>9 DEF OwnIsRight, PendingIsDrained, DrainComes, Pending, Up
  <2>4. StaleIsQueued' BY <1>3, <1>4, <1>9 DEF OwnIsRight, StaleIsQueued, Stale, Active
  <2>5. NobodyArchived' /\ ImportedExist' BY <1>4, <1>9 DEF OwnIsRight, NobodyArchived, ImportedExist
  <2> QED BY <2>1, <2>2, <2>3, <2>4, <2>5 DEF OwnIsRight
<1> QED BY <1>6, <1>7, <1>8, <1>9 DEF IndexIsRight

LEMMA EmbedFailsKeeps ==
  ASSUME IndexIsRight, EmbedFails
  PROVE  IndexIsRight' /\ (OwnModel /\ OwnIsRight => OwnIsRight')
<1>1. /\ Up /\ embed # None
      /\ UNCHANGED <<idle, index, timer, busy, running, explicit, processed, seen, batch, cutOff, deferred, unheard>>
      /\ \/ embed' = [embed EXCEPT !.outcome = "error"]
         \/ Refused /\ embed' = [embed EXCEPT !.outcome = "dropped"]
  BY DEF EmbedFails, Idle
<1>2. /\ embed' \in Embed /\ embed' # None /\ embed'.id = embed.id
      /\ embed'.outcome = "error" \/ (embed'.outcome = "dropped" /\ Refused)
  <2>1. "error" \in Outcomes /\ "dropped" \in Outcomes BY DEF Outcomes
  <2>2. CASE embed' = [embed EXCEPT !.outcome = "error"] BY <1>1, <2>1, <2>2, Noted
  <2>3. CASE Refused /\ embed' = [embed EXCEPT !.outcome = "dropped"] BY <1>1, <2>1, <2>3, Noted
  <2> QED BY <1>1, <2>2, <2>3
<1>3. IndexTypes' /\ DrainRuns'
  BY <1>1, <1>2 DEF IndexIsRight, IndexTypes, DrainRuns, Up, idle, index, contacts
<1>4. RowsAreHeld' /\ TrashIsNotIndexed'
  BY <1>1, <1>2 DEF IndexIsRight, RowsAreHeld, TrashIsNotIndexed, Processing, Up, idle, index, contacts
<1>5. ASSUME OwnModel, OwnIsRight PROVE OwnIsRight'
  <2>1. FoundIsSo' BY <1>2, <1>5 DEF FoundIsSo, OwnModel, Refused
  <2> QED BY <1>1, <1>5, <2>1
      DEF OwnIsRight, NobodyArchived, ImportedExist, CutOffAreFound, PendingIsDrained, DrainComes,
          StaleIsQueued, Stale, Missing, Active, Pending, Up, idle, index, contacts
<1> QED BY <1>3, <1>4, <1>5 DEF IndexIsRight

\* The row of the contact that was worked for goes, or waits again, or failed.
LEMMA SettledRow ==
  ASSUME IndexIsRight, Settle
  PROVE  LET c == embed.id IN
         /\ c \in Contacts /\ row' \in [Contacts -> QueueRow \cup {None}]
         /\ \A b \in Contacts \ {c} : row'[b] = row[b]
         /\ row'[c] # None => row[c] # None /\ row'[c].status # "processing"
         /\ row'[c] # None /\ ~row'[c].due => c \in deferred'
         /\ row'[c] = None =>
              row[c] = None \/ embed.outcome = "dropped" \/ (embed.outcome = "indexed" /\ Processing(c))
<1> DEFINE c == embed.id
           o == embed.outcome
           n == embed.attempts + 1
           kept == IF row[c] = None THEN 0 ELSE row[c].attempts
           q == CASE o = "indexed" -> RowAfterIndexed(c)
                  [] o = "dropped" -> None
                  [] o \in {"outdated", "not_ready"} -> PutBack(c, kept)
                  [] o = "error" -> RowAfterError(c, n)
<1>1. /\ row' = [row EXCEPT ![c] = q] /\ embed # None /\ o # "embedding"
      /\ deferred' = IF Processing(c) /\ o \in {"outdated", "not_ready", "error"} THEN deferred \cup {c} ELSE deferred
  BY DEF Settle
<1>2. /\ c \in Contacts /\ o \in {"indexed", "dropped", "outdated", "not_ready", "error"} /\ n \in Nat
      /\ row \in [Contacts -> QueueRow \cup {None}] /\ row[c] \in QueueRow \cup {None}
  BY <1>1 DEF IndexIsRight, IndexTypes, Embed, Outcomes
<1>3. kept \in Nat BY <1>2 DEF QueueRow
<1>4. row[c] # None /\ ~row[c].due => c \in deferred BY <1>2 DEF IndexIsRight, RowsAreHeld
<1> HIDE DEF c, o, n, kept
<1>5. ASSUME NEW a \in Nat
      PROVE  LET p == PutBack(c, a) IN
             /\ p \in QueueRow \cup {None}
             /\ p # None => row[c] # None /\ p.status # "processing" /\ (~p.due => Processing(c) \/ ~row[c].due)
             /\ p = None => row[c] = None
  <2>1. [status |-> "pending", attempts |-> a, due |-> FALSE] \in QueueRow BY DEF QueueRow
  <2> QED BY <1>2, <2>1, RowFacts DEF PutBack, Processing
<1>6. LET p == RowAfterError(c, n) IN
      /\ p \in QueueRow \cup {None}
      /\ p # None => row[c] # None /\ p.status # "processing" /\ (~p.due => Processing(c) \/ ~row[c].due)
      /\ p = None => row[c] = None
  <2>1. CASE n < MaxAttempts BY <1>2, <1>5, <2>1 DEF RowAfterError
  <2>2. CASE ~(n < MaxAttempts) /\ Processing(c)
    <3> DEFINE p == [row[c] EXCEPT !.status = "failed", !.attempts = n]
    <3>1. row[c] \in QueueRow BY <1>2, <2>2 DEF Processing
    <3>2. p \in QueueRow /\ p.status = "failed" /\ p.due = row[c].due BY <1>2, <3>1 DEF QueueRow
    <3>3. RowAfterError(c, n) = p BY <2>2 DEF RowAfterError
    <3> HIDE DEF p
    <3> QED BY <2>2, <3>1, <3>2, <3>3, RowFacts
  <2>3. CASE ~(n < MaxAttempts) /\ ~Processing(c) BY <1>2, <2>3 DEF RowAfterError, Processing
  <2> QED BY <2>1, <2>2, <2>3
<1>7. /\ q \in QueueRow \cup {None}
      /\ q # None => row[c] # None /\ q.status # "processing"
      /\ q # None /\ ~q.due => (Processing(c) /\ o \in {"outdated", "not_ready", "error"}) \/ ~row[c].due
      /\ q = None => row[c] = None \/ o = "dropped" \/ (o = "indexed" /\ Processing(c))
  <2>1. CASE o = "indexed"
    <3>1. q = RowAfterIndexed(c) BY <2>1
    <3> HIDE DEF q
    <3> QED BY <1>2, <2>1, <3>1 DEF RowAfterIndexed, Processing
  <2>2. CASE o = "dropped"
    <3>1. q = None BY <2>2
    <3> HIDE DEF q
    <3> QED BY <2>2, <3>1
  <2>3. CASE o \in {"outdated", "not_ready"}
    <3>1. q = PutBack(c, kept) BY <2>3
    <3> HIDE DEF q
    <3> QED BY <1>3, <1>5, <2>3, <3>1
  <2>4. CASE o = "error"
    <3>1. q = RowAfterError(c, n) BY <2>4
    <3> HIDE DEF q
    <3> QED BY <1>6, <2>4, <3>1
  <2> QED BY <1>2, <2>1, <2>2, <2>3, <2>4
<1> HIDE DEF q
<1>8. row' \in [Contacts -> QueueRow \cup {None}] /\ row'[c] = q /\ \A b \in Contacts \ {c} : row'[b] = row[b]
  BY <1>1, <1>2, <1>7
<1> QED BY <1>1, <1>2, <1>4, <1>7, <1>8 DEF c, o

LEMMA SettleKeeps ==
  ASSUME IndexIsRight, Settle
  PROVE  IndexIsRight' /\ (OwnIsRight => OwnIsRight')
<1> DEFINE c == embed.id
<1>1. /\ c \in Contacts /\ row' \in [Contacts -> QueueRow \cup {None}]
      /\ \A b \in Contacts \ {c} : row'[b] = row[b]
      /\ row'[c] # None => row[c] # None /\ row'[c].status # "processing"
      /\ row'[c] # None /\ ~row'[c].due => c \in deferred'
      /\ row'[c] = None =>
           row[c] = None \/ embed.outcome = "dropped" \/ (embed.outcome = "indexed" /\ Processing(c))
  BY SettledRow
<1>2. /\ Up /\ embed # None /\ embed' = None /\ busy' = TRUE /\ deferred \subseteq deferred'
      /\ UNCHANGED <<idle, vector, running, explicit, processed, seen, batch, cutOff, unheard, tries, failures>>
  BY DEF Settle, Idle
<1> HIDE DEF c
<1>3. running /\ Up /\ \A b \in Contacts \ {c} : ~Processing(b)
  BY <1>2 DEF IndexIsRight, DrainRuns, RowsAreHeld, c
<1>4. IndexTypes' /\ DrainRuns'
  <2>1. IndexTypes' BY <1>1, <1>2 DEF IndexIsRight, IndexTypes, idle, contacts
  <2> QED BY <1>2, <1>3, <2>1 DEF DrainRuns, idle, Up
<1>5. RowsAreHeld'
  <2>1. \A b \in Contacts : ~Processing(b)' BY <1>1, <1>3 DEF Processing
  <2>2. \A b \in Contacts : row'[b] # None /\ ~row'[b].due => b \in deferred'
    BY <1>1, <1>2 DEF IndexIsRight, RowsAreHeld
  <2> QED BY <2>1, <2>2 DEF RowsAreHeld
<1>6. TrashIsNotIndexed' BY <1>1, <1>2 DEF IndexIsRight, TrashIsNotIndexed, idle, contacts
<1>7. ASSUME OwnIsRight PROVE OwnIsRight'
  <2>1. row'[c] = None => row[c] = None \/ vector[c] = text[c]
    BY <1>1, <1>2, <1>7 DEF OwnIsRight, FoundIsSo, c
  <2>2. StaleIsQueued'
    BY <1>1, <1>2, <1>7, <2>1 DEF OwnIsRight, StaleIsQueued, Stale, Active, idle, contacts
  <2>3. FoundIsSo' BY <1>2 DEF FoundIsSo
  <2>4. PendingIsDrained' BY <1>2, <1>3 DEF PendingIsDrained, DrainComes
  <2>5. NobodyArchived' /\ ImportedExist' /\ CutOffAreFound'
    BY <1>2, <1>7 DEF OwnIsRight, NobodyArchived, ImportedExist, CutOffAreFound, Missing, Active, idle, contacts
  <2> QED BY <2>2, <2>3, <2>4, <2>5 DEF OwnIsRight
<1> QED BY <1>4, <1>5, <1>6, <1>7 DEF IndexIsRight

LEMMA EndDrainKeeps ==
  ASSUME IndexIsRight, EndDrain
  PROVE  IndexIsRight' /\ (OwnModel /\ OwnIsRight => OwnIsRight')
<1>1. /\ busy /\ embed = None /\ busy' = FALSE /\ running' = FALSE
      /\ timer' = (IF DueRows # {} /\ (~Provider \/ explicit) THEN Armed("soon") ELSE timer)
      /\ UNCHANGED <<idle, index, batch, embed, ghosts>>
  BY DEF EndDrain
<1>2. IndexTypes' /\ DrainRuns' /\ RowsAreHeld' /\ TrashIsNotIndexed'
  BY <1>1 DEF IndexIsRight, IndexTypes, DrainRuns, RowsAreHeld, TrashIsNotIndexed, Processing, Up, idle, index, contacts, ghosts
<1>3. ASSUME OwnModel, OwnIsRight PROVE OwnIsRight'
  <2>1. PendingIsDrained'
    <3> SUFFICES ASSUME NEW c \in Contacts, Pending(c)', c \notin deferred' PROVE timer' # "off"
      BY DEF PendingIsDrained, DrainComes
    <3>1. Pending(c) /\ c \notin deferred BY <1>1 DEF Pending, index, ghosts
    <3>2. row[c].due BY <3>1 DEF IndexIsRight, RowsAreHeld, Pending
    <3>3. DueRows # {} BY <3>1, <3>2 DEF DueRows
    <3> QED BY <1>1, <1>3, <3>3 DEF OwnModel, Armed
  <2>2. FoundIsSo' BY <1>1 DEF FoundIsSo
  <2> QED BY <1>1, <1>3, <2>1, <2>2
      DEF OwnIsRight, NobodyArchived, ImportedExist, CutOffAreFound, StaleIsQueued, Stale, Missing, Active,
          idle, index, contacts, ghosts
<1> QED BY <1>2, <1>3 DEF IndexIsRight

LEMMA FallDueKeeps ==
  ASSUME IndexIsRight, NEW c \in Contacts, FallDue(c)
  PROVE  IndexIsRight' /\ (OwnIsRight => OwnIsRight')
<1> DEFINE r == [row[c] EXCEPT !.due = TRUE]
<1>1. /\ Pending(c) /\ row' = [row EXCEPT ![c].due = TRUE]
      /\ UNCHANGED <<contacts, vector, boot, ready, timer, drain, backfill, importing, ghosts>>
  BY DEF FallDue, LaterRows
<1>2. row[c] \in QueueRow /\ row \in [Contacts -> QueueRow \cup {None}]
  BY <1>1 DEF Pending, IndexIsRight, IndexTypes
<1>3. row' = [row EXCEPT ![c] = r] BY <1>1, <1>2
<1>4. r \in QueueRow /\ r # None /\ r.status = row[c].status /\ r.due BY <1>2, RowFacts DEF QueueRow
<1> HIDE DEF r
<1>5. /\ row' \in [Contacts -> QueueRow \cup {None}] /\ row'[c] = r /\ row[c] # None
      /\ \A b \in Contacts \ {c} : row'[b] = row[b]
  BY <1>1, <1>2, <1>3, <1>4 DEF Pending
<1>6. IndexTypes' /\ DrainRuns'
  BY <1>1, <1>5 DEF IndexIsRight, IndexTypes, DrainRuns, Up, contacts, drain, ghosts
<1>7. \A b \in Contacts : (Pending(b)' <=> Pending(b)) /\ (Processing(b)' <=> Processing(b))
  BY <1>4, <1>5 DEF Pending, Processing
<1>8. RowsAreHeld'
  BY <1>1, <1>4, <1>5, <1>7 DEF IndexIsRight, RowsAreHeld, Up, drain, ghosts
<1>9. TrashIsNotIndexed' BY <1>1, <1>5 DEF IndexIsRight, TrashIsNotIndexed, contacts
<1>10. ASSUME OwnIsRight PROVE OwnIsRight'
  <2>1. FoundIsSo'
    <3>1. embed # None => embed.id \in Contacts BY DEF IndexIsRight, IndexTypes, Embed
    <3> QED BY <1>1, <1>7, <1>10, <3>1 DEF OwnIsRight, FoundIsSo, contacts, drain
  <2>2. PendingIsDrained' BY <1>1, <1>7, <1>10 DEF OwnIsRight, PendingIsDrained, DrainComes, Up, drain, ghosts
  <2>3. StaleIsQueued' BY <1>1, <1>4, <1>5, <1>10 DEF OwnIsRight, StaleIsQueued, Stale, Active, contacts, ghosts
  <2>4. NobodyArchived' /\ ImportedExist' /\ CutOffAreFound'
    BY <1>1, <1>10 DEF OwnIsRight, NobodyArchived, ImportedExist, CutOffAreFound, Missing, Active, contacts, ghosts
  <2> QED BY <2>1, <2>2, <2>3, <2>4 DEF OwnIsRight
<1> QED BY <1>6, <1>8, <1>9, <1>10 DEF IndexIsRight

LEMMA RecoveredFacts ==
  ASSUME IndexIsRight
  PROVE  /\ Recovered \in [Contacts -> QueueRow \cup {None}]
         /\ \A c \in Contacts :
              /\ Recovered[c] = None <=> row[c] = None
              /\ Recovered[c] # None => Recovered[c].status # "processing" /\ Recovered[c].due = row[c].due
<1> SUFFICES ASSUME NEW c \in Contacts
             PROVE  LET r == IF Processing(c) THEN [row[c] EXCEPT !.status = "pending"] ELSE row[c] IN
                    /\ r \in QueueRow \cup {None} /\ (r = None <=> row[c] = None)
                    /\ r # None => r.status # "processing" /\ r.due = row[c].due
  BY DEF Recovered
<1>1. row[c] \in QueueRow \cup {None} BY DEF IndexIsRight, IndexTypes
<1>2. CASE Processing(c)
  <2> DEFINE r == [row[c] EXCEPT !.status = "pending"]
  <2>1. row[c] \in QueueRow /\ row[c] # None BY <1>1, <1>2 DEF Processing
  <2>2. r \in QueueRow /\ r.status = "pending" /\ r.due = row[c].due BY <2>1 DEF QueueRow
  <2> HIDE DEF r
  <2>3. r # None BY <2>2, RowFacts
  <2> QED BY <1>2, <2>1, <2>2, <2>3 DEF r
<1>3. CASE ~Processing(c) BY <1>1, <1>3 DEF Processing
<1> QED BY <1>2, <1>3

\* The rows of an interrupted drain are pending, and a drain is due.
LEMMA RecoveredKeeps ==
  ASSUME IndexIsRight, row' = Recovered, timer' # "off",
         UNCHANGED <<contacts, vector, drain, importing, cutOff, deferred>>, busy => Up'
  PROVE  /\ IndexIsRight'
         /\ OwnIsRight /\ CutOffAreFound' => OwnIsRight'
<1>1. /\ row' \in [Contacts -> QueueRow \cup {None}]
      /\ \A c \in Contacts :
           /\ row'[c] = None <=> row[c] = None
           /\ row'[c] # None => row'[c].status # "processing" /\ row'[c].due = row[c].due
  BY RecoveredFacts
<1>2. IndexTypes' /\ DrainRuns'
  BY <1>1 DEF IndexIsRight, IndexTypes, DrainRuns, contacts, drain
<1>3. \A c \in Contacts : ~Processing(c)' BY <1>1 DEF Processing
<1>4. RowsAreHeld' BY <1>1, <1>3 DEF IndexIsRight, RowsAreHeld
<1>5. TrashIsNotIndexed' BY <1>1 DEF IndexIsRight, TrashIsNotIndexed, contacts
<1>6. ASSUME OwnIsRight, CutOffAreFound' PROVE OwnIsRight'
  <2>1. FoundIsSo'
    <3>1. embed # None => embed.id \in Contacts BY DEF IndexIsRight, IndexTypes, Embed
    <3> QED BY <1>3, <1>6, <3>1 DEF OwnIsRight, FoundIsSo, drain
  <2>2. PendingIsDrained' BY DEF PendingIsDrained, DrainComes
  <2>3. StaleIsQueued' BY <1>1, <1>6 DEF OwnIsRight, StaleIsQueued, Stale, Active, contacts
  <2>4. NobodyArchived' /\ ImportedExist'
    BY <1>6 DEF OwnIsRight, NobodyArchived, ImportedExist, contacts
  <2> QED BY <1>6, <2>1, <2>2, <2>3, <2>4 DEF OwnIsRight
<1> QED BY <1>2, <1>4, <1>5, <1>6 DEF IndexIsRight

LEMMA StartKeeps ==
  ASSUME IndexIsRight, Boot \/ StartFails
  PROVE  IndexIsRight' /\ (OwnIsRight => OwnIsRight')
<1>1. /\ row' = Recovered /\ timer' = Armed("soon") /\ boot' \in {"loading", "done", "failed"}
      /\ UNCHANGED <<contacts, vector, drain, importing, cutOff, deferred>>
      /\ backfill' # None => backfill # None
      /\ boot' = "done" => backfill # None
  BY DEF Boot, StartFails, InitSearchIndexQueue, ghosts
<1>2. timer' # "off" /\ Up' BY <1>1 DEF Armed, Up
<1>3. OwnIsRight => CutOffAreFound'
  BY <1>1 DEF OwnIsRight, CutOffAreFound, Missing, Active, contacts
<1> QED BY <1>1, <1>2, <1>3, RecoveredKeeps

LEMMA StartBackfillKeeps ==
  ASSUME IndexIsRight, StartBackfill
  PROVE  IndexIsRight' /\ (OwnModel /\ OwnIsRight => OwnIsRight')
<1> DEFINE round == {c \in Contacts : Missing(c) /\ ~Refused}
<1>1. /\ Up /\ backfill' = [c \in Contacts |-> IF c \in round THEN text[c] ELSE None]
      /\ row' = [c \in Contacts |-> IF c \in round /\ row[c] = None THEN Fresh ELSE row[c]]
      /\ cutOff' = cutOff \ round /\ deferred' = {c \in deferred : row[c] # None}
      /\ UNCHANGED <<contacts, vector, boot, timer, drain, importing, tries, failures>>
  BY DEF StartBackfill, Idle
<1>2. \A c \in round : c \in Contacts /\ Active(c) BY DEF Missing
<1>3. OwnModel => \A c \in Contacts : Missing(c) => c \in round BY DEF OwnModel, Refused
<1>4. backfill' \in [Contacts -> Texts \cup {None}] BY <1>1 DEF IndexIsRight, IndexTypes
<1>5. backfill' # None BY <1>4, NoneAssumption
<1> HIDE DEF round
<1>6. /\ row' \in [Contacts -> QueueRow \cup {None}]
      /\ \A c \in Contacts : row'[c] = IF c \in round /\ row[c] = None THEN Fresh ELSE row[c]
  BY <1>1, RowFacts DEF IndexIsRight, IndexTypes
<1>7. IndexTypes' /\ DrainRuns'
  BY <1>1, <1>6 DEF IndexIsRight, IndexTypes, DrainRuns, Up, contacts, drain
<1>8. RowsAreHeld'
  <2>1. \A c \in Contacts : Processing(c)' => Processing(c) BY <1>6, RowFacts DEF Processing
  <2>2. \A c \in Contacts : row'[c] # None /\ ~row'[c].due => row[c] # None /\ ~row[c].due BY <1>6, RowFacts
  <2> QED BY <1>1, <2>1, <2>2 DEF IndexIsRight, RowsAreHeld, Up, drain
<1>9. TrashIsNotIndexed' BY <1>1, <1>2, <1>6 DEF IndexIsRight, TrashIsNotIndexed, Active, InTrash, contacts
<1>10. ASSUME OwnModel, OwnIsRight PROVE OwnIsRight'
  <2>1. FoundIsSo'
    <3>1. embed # None => embed.id \in Contacts BY DEF IndexIsRight, IndexTypes, Embed
    <3>2. \A c \in Contacts : Processing(c)' => Processing(c) BY <1>6, RowFacts DEF Processing
    <3> QED BY <1>1, <1>10, <3>1, <3>2 DEF OwnIsRight, FoundIsSo, contacts, drain
  <2>2. PendingIsDrained' BY <1>5 DEF PendingIsDrained, DrainComes
  <2>3. StaleIsQueued'
    <3>1. \A c \in Contacts : Stale(c)' => Stale(c) BY <1>1 DEF Stale, Active, contacts
    <3>2. \A c \in Contacts : row[c] # None \/ c \in round => row'[c] # None BY <1>6, RowFacts
    <3> QED BY <1>1, <1>10, <3>1, <3>2 DEF OwnIsRight, StaleIsQueued
  <2>4. CutOffAreFound'
    <3>1. \A c \in cutOff' : c \in Contacts /\ c \notin round BY <1>1 DEF IndexIsRight, IndexTypes
    <3>2. \A c \in Contacts : Missing(c)' <=> Missing(c) BY <1>1 DEF Missing, Active, contacts
    <3> QED BY <1>3, <1>10, <3>1, <3>2 DEF CutOffAreFound
  <2>5. NobodyArchived' /\ ImportedExist' BY <1>1, <1>10 DEF OwnIsRight, NobodyArchived, ImportedExist, contacts
  <2> QED BY <2>1, <2>2, <2>3, <2>4, <2>5 DEF OwnIsRight
<1> QED BY <1>7, <1>8, <1>9, <1>10 DEF IndexIsRight

LEMMA FinishBackfillKeeps ==
  ASSUME IndexIsRight, FinishBackfill
  PROVE  IndexIsRight' /\ (OwnIsRight => OwnIsRight')
<1> DEFINE stored == {c \in Contacts : backfill[c] # None /\ Unchanged(c, backfill[c])}
<1>1. /\ Up /\ boot' = "done" /\ timer' = Armed("soon") /\ backfill # None /\ backfill' = None
      /\ vector' = [c \in Contacts |-> IF c \in stored THEN text[c] ELSE vector[c]]
      /\ row' = [c \in Contacts |-> IF c \in stored THEN None ELSE Recovered[c]]
      /\ UNCHANGED <<contacts, ready, drain, importing, ghosts>>
  BY DEF FinishBackfill, Idle
<1>2. \A c \in stored : Active(c) BY DEF Unchanged
<1> HIDE DEF stored
<1>3. /\ row' \in [Contacts -> QueueRow \cup {None}] /\ vector' \in [Contacts -> Texts \cup {None}]
      /\ \A c \in Contacts :
           /\ vector'[c] = IF c \in stored THEN text[c] ELSE vector[c]
           /\ row'[c] = IF c \in stored THEN None ELSE Recovered[c]
  BY <1>1, RecoveredFacts DEF IndexIsRight, IndexTypes
<1>4. \A c \in Contacts :
           /\ row'[c] = None <=> c \in stored \/ row[c] = None
           /\ row'[c] # None => row'[c].status # "processing" /\ row'[c].due = row[c].due
  BY <1>3, RecoveredFacts
<1>5. IndexTypes' /\ DrainRuns'
  BY <1>1, <1>3 DEF IndexIsRight, IndexTypes, DrainRuns, Up, contacts, drain, ghosts
<1>6. \A c \in Contacts : ~Processing(c)' BY <1>4 DEF Processing
<1>7. RowsAreHeld' BY <1>1, <1>4, <1>6 DEF IndexIsRight, RowsAreHeld, ghosts
<1>8. TrashIsNotIndexed'
  BY <1>1, <1>2, <1>3, <1>4 DEF IndexIsRight, TrashIsNotIndexed, Active, InTrash, contacts
<1>9. ASSUME OwnIsRight PROVE OwnIsRight'
  <2>1. FoundIsSo'
    <3>1. embed # None => embed.id \in Contacts BY DEF IndexIsRight, IndexTypes, Embed
    <3> QED BY <1>1, <1>6, <1>9, <3>1 DEF OwnIsRight, FoundIsSo, drain
  <2>2. PendingIsDrained' BY <1>1 DEF PendingIsDrained, DrainComes, Armed
  <2>3. StaleIsQueued' BY <1>1, <1>3, <1>4, <1>9 DEF OwnIsRight, StaleIsQueued, Stale, Active, contacts, ghosts
  <2>4. CutOffAreFound'
    <3>1. \A c \in cutOff : c \in Contacts /\ (Missing(c)' => Missing(c))
      BY <1>1, <1>3, NoneAssumption DEF Missing, Active, IndexIsRight, IndexTypes, contacts
    <3> QED BY <1>1, <1>9, <3>1 DEF OwnIsRight, CutOffAreFound, ghosts
  <2>5. NobodyArchived' /\ ImportedExist' BY <1>1, <1>9 DEF OwnIsRight, NobodyArchived, ImportedExist, contacts, ghosts
  <2> QED BY <2>1, <2>2, <2>3, <2>4, <2>5 DEF OwnIsRight
<1> QED BY <1>5, <1>7, <1>8, <1>9 DEF IndexIsRight

LEMMA CrashKeeps ==
  ASSUME IndexIsRight, Crash
  PROVE  IndexIsRight' /\ (OwnIsRight => OwnIsRight')
<1>1. /\ boot' = "down" /\ backfill' = None /\ busy' = FALSE /\ running' = FALSE /\ batch' = {} /\ embed' = None
      /\ cutOff' = cutOff \cup importing /\ importing' = {}
      /\ UNCHANGED <<contacts, index, deferred, tries, failures>>
  BY DEF Crash
<1>2. IndexTypes' /\ DrainRuns' /\ RowsAreHeld' /\ TrashIsNotIndexed'
  BY <1>1 DEF IndexIsRight, IndexTypes, DrainRuns, RowsAreHeld, TrashIsNotIndexed, Up, contacts, index
<1>3. OwnIsRight => OwnIsRight'
  BY <1>1 DEF OwnIsRight, NobodyArchived, ImportedExist, FoundIsSo, CutOffAreFound, PendingIsDrained, DrainComes,
              StaleIsQueued, Stale, Active, Up, contacts, index
<1> QED BY <1>2, <1>3 DEF IndexIsRight

LEMMA IndexInit == Init => IndexIsRight /\ OwnIsRight
<1> SUFFICES ASSUME Init PROVE IndexIsRight /\ OwnIsRight OBVIOUS
<1> USE DEF Init
<1>1. 0 \in Texts BY SearchAssumption DEF Texts
<1>2. IndexIsRight
  BY <1>1 DEF IndexIsRight, IndexTypes, DrainRuns, RowsAreHeld, TrashIsNotIndexed, Statuses, InTrash, Up
<1>3. OwnIsRight
  BY DEF OwnIsRight, NobodyArchived, ImportedExist, FoundIsSo, CutOffAreFound, PendingIsDrained, DrainComes, StaleIsQueued, Stale, Active, Up
<1> QED BY <1>2, <1>3

LEMMA IndexNext ==
  ASSUME IndexIsRight, [Next]_vars
  PROVE  IndexIsRight' /\ (OwnModel /\ OwnIsRight => OwnIsRight')
<1>1. CASE \E c \in Contacts : Write(c)
  <2>1. PICK c \in Contacts : Write(c) BY <1>1
  <2>2. Written /\ (OwnModel /\ OwnIsRight => OwnWritten)
    BY <2>1, CreateKeeps, ImportRowKeeps, EditTextKeeps, EditDetailsKeeps, ArchiveKeeps, TrashKeeps, RestoreContactKeeps
    DEF Write
  <2> QED BY <2>2, WrittenKeeps, OwnWrittenKeeps
<1>2. CASE FinishImport BY <1>2, FinishImportKeeps, WrittenKeeps, OwnWrittenKeeps
<1>3. CASE \E forceAll \in BOOLEAN : RefreshIndex(forceAll)
  BY <1>3, RefreshIndexKeeps, WrittenKeeps, OwnWrittenKeeps
<1>4. CASE SwitchAi \/ RefreshIndexElsewhere \/ TimerFires
  BY <1>4, QuietKeeps, WrittenKeeps, OwnWrittenKeeps
<1>5. CASE \E c \in Contacts : FallDue(c) BY <1>5, FallDueKeeps
<1>6. CASE DrainStep
  BY <1>6, SelectBatchKeeps, ClaimKeeps, EmbeddedKeeps, EmbedFailsKeeps, SettleKeeps, EndDrainKeeps DEF DrainStep
<1>7. CASE Boot \/ StartFails BY <1>7, StartKeeps
<1>8. CASE StartBackfill \/ FinishBackfill \/ Crash
  BY <1>8, StartBackfillKeeps, FinishBackfillKeeps, CrashKeeps
<1>9. CASE UNCHANGED vars
  <2>1. UNCHANGED <<status, text, vector, row, boot, timer, busy, running, batch, embed, backfill, importing, cutOff, deferred, unheard>>
    BY <1>9 DEF vars, contacts, index, drain, ghosts
  <2>2. IndexIsRight'
    BY <2>1 DEF IndexIsRight, IndexTypes, DrainRuns, RowsAreHeld, TrashIsNotIndexed, Processing, Up
  <2>3. OwnIsRight => OwnIsRight'
    BY <2>1 DEF OwnIsRight, NobodyArchived, ImportedExist, FoundIsSo, CutOffAreFound, PendingIsDrained, DrainComes, StaleIsQueued,
                Stale, Missing, Active, Pending, Processing, Up
  <2> QED BY <2>2, <2>3
<1> QED BY <1>1, <1>2, <1>3, <1>4, <1>5, <1>6, <1>7, <1>8, <1>9 DEF Next

\* The strengthened invariant of the queue holds in every reachable state, with either
\* sort of model.
THEOREM IndexAlwaysRight == Spec => []IndexIsRight
<1>1. Init => IndexIsRight BY IndexInit
<1>2. IndexIsRight /\ [Next]_vars => IndexIsRight' BY IndexNext
<1> QED BY <1>1, <1>2, PTL DEF Spec

\* A vector is only ever written of the text the contact has, whatever happened while it
\* was made.
THEOREM VectorsAreCurrent == Spec => OnlyCurrentVectors
<1>1. IndexIsRight /\ [Next]_vars => [WritesCurrent]_vars
  <2> SUFFICES ASSUME IndexIsRight, Next PROVE WritesCurrent OBVIOUS
  <2>1. vector \in [Contacts -> Texts \cup {None}] BY DEF IndexIsRight, IndexTypes
  <2>2. CASE \E c \in Contacts : Write(c)
    BY <2>1, <2>2 DEF Write, Create, ImportRow, SearchVectorUpdate, EditText, EditDetails, Archive, Trash, RestoreContact, WritesCurrent, index
  <2>3. CASE \E forceAll \in BOOLEAN : RefreshIndex(forceAll) BY <2>1, <2>3 DEF RefreshIndex, WritesCurrent
  <2>4. CASE Embedded BY <2>1, <2>4 DEF Embedded, Unchanged, WritesCurrent, idle, contacts
  <2>5. CASE FinishBackfill BY <2>1, <2>5 DEF FinishBackfill, WritesCurrent, contacts
  <2>6. CASE \/ FinishImport \/ SwitchAi \/ RefreshIndexElsewhere \/ TimerFires
             \/ (\E c \in Contacts : FallDue(c)) \/ SelectBatch \/ (\E item \in batch : Claim(item))
             \/ EmbedFails \/ Settle \/ EndDrain \/ Boot \/ StartBackfill \/ StartFails \/ Crash
    <3>1. vector' = vector
      BY <2>6 DEF FinishImport, SwitchAi, RefreshIndexElsewhere, TimerFires, FallDue, SelectBatch, Claim,
                  EmbedFails, Settle, EndDrain, Boot, StartBackfill, StartFails, Crash, index
    <3> QED BY <3>1 DEF WritesCurrent
  <2> QED BY <2>2, <2>3, <2>4, <2>5, <2>6 DEF Next, DrainStep
<1> QED BY <1>1, IndexAlwaysRight, PTL DEF Spec, OnlyCurrentVectors

-----------------------------------------------------------------------------
(***************************************************************************)
(* The counts: tries of a row, items of a batch, rows of a drain.          *)
(***************************************************************************)
\* A row that is not given up has tries left.
Fits(r) == r # None => r.attempts \in Attempts /\ (r.status # "failed" => r.attempts < MaxAttempts)
RowsFit == \A c \in Contacts : Fits(row[c])

\* So have those a drain read, and it takes no more of them than its limit.
Left == 0 .. MaxAttempts - 1
WorkFits ==
  /\ batch \subseteq [id : Contacts, attempts : Left] /\ (embed # None => embed.attempts \in Left)
  /\ processed \in Nat /\ IsFiniteSet(batch) /\ processed + Cardinality(batch) <= BatchSize

TriesFit == failures \in 0 .. MaxFailures /\ tries \in [Contacts -> 0 .. failures]

Switches ==
  /\ {aiOff, ready, explicit} \subseteq BOOLEAN /\ boot \in {"down", "loading", "done", "failed"}
  /\ timer \in {"off", "soon"} \cup Contacts /\ seen \subseteq Contacts
  /\ deferred \subseteq Contacts /\ unheard \subseteq Contacts
  /\ backfill \in [Contacts -> Texts \cup {None}] \cup {None}

LEMMA FreshFits == Fits(Fresh) /\ Fits(None)
<1>1. 0 \in Attempts /\ 0 < MaxAttempts BY SearchAssumption DEF Attempts
<1> QED BY <1>1 DEF Fits, Fresh

LEMMA RecoveredFits == ASSUME IndexIsRight, RowsFit PROVE \A c \in Contacts : Fits(Recovered[c])
<1> SUFFICES ASSUME NEW c \in Contacts PROVE Fits(Recovered[c]) OBVIOUS
<1>1. row[c] \in QueueRow \cup {None} /\ Fits(row[c]) BY DEF IndexIsRight, IndexTypes, RowsFit
<1>2. CASE Processing(c)
  <2>1. row[c] \in QueueRow /\ row[c].status = "processing" BY <1>1, <1>2 DEF Processing
  <2>2. Recovered[c] = [row[c] EXCEPT !.status = "pending"] BY <1>2 DEF Recovered
  <2>3. Recovered[c].attempts = row[c].attempts /\ row[c].attempts \in Attempts /\ row[c].attempts < MaxAttempts
    BY <1>1, <2>1, <2>2, RowFacts DEF QueueRow, Fits
  <2> QED BY <2>3 DEF Fits
<1>3. CASE ~Processing(c) BY <1>1, <1>3 DEF Recovered
<1> QED BY <1>2, <1>3

LEMMA SettledFits == ASSUME IndexIsRight, RowsFit, WorkFits, Settle PROVE RowsFit'
<1> DEFINE c == embed.id
           o == embed.outcome
           n == embed.attempts + 1
           kept == IF row[c] = None THEN 0 ELSE row[c].attempts
           q == CASE o = "indexed" -> RowAfterIndexed(c)
                  [] o = "dropped" -> None
                  [] o \in {"outdated", "not_ready"} -> PutBack(c, kept)
                  [] o = "error" -> RowAfterError(c, n)
<1>1. row' = [row EXCEPT ![c] = q] /\ embed # None /\ o # "embedding" BY DEF Settle
<1>2. /\ o \in {"indexed", "dropped", "outdated", "not_ready", "error"} /\ n \in 1 .. MaxAttempts
      /\ c \in Contacts /\ row \in [Contacts -> QueueRow \cup {None}]
  BY <1>1, SearchAssumption DEF IndexIsRight, IndexTypes, Embed, Outcomes, WorkFits, Left
<1>3. row[c] \in QueueRow \cup {None} /\ Fits(row[c]) BY <1>2 DEF RowsFit
<1>4. kept \in Attempts /\ (Processing(c) => kept < MaxAttempts)
  BY <1>3, SearchAssumption DEF Fits, Processing, Attempts
<1> HIDE DEF c, o, n, kept
<1>5. ASSUME NEW a \in Attempts, Processing(c) => a < MaxAttempts PROVE Fits(PutBack(c, a))
  BY <1>3, <1>5 DEF PutBack, Fits
<1>6. Fits(RowAfterError(c, n))
  <2>1. n \in Attempts BY <1>2, SearchAssumption DEF Attempts
  <2>2. CASE n < MaxAttempts BY <1>5, <2>1, <2>2 DEF RowAfterError
  <2>3. CASE ~(n < MaxAttempts) /\ Processing(c)
    <3>1. RowAfterError(c, n) = [row[c] EXCEPT !.status = "failed", !.attempts = n] BY <2>3 DEF RowAfterError
    <3>2. row[c] \in QueueRow BY <1>3, <2>3 DEF Processing
    <3>3. RowAfterError(c, n).status = "failed" /\ RowAfterError(c, n).attempts = n BY <3>1, <3>2 DEF QueueRow
    <3> QED BY <2>1, <3>3 DEF Fits
  <2>4. CASE ~(n < MaxAttempts) /\ ~Processing(c) BY <1>3, <2>4 DEF RowAfterError
  <2> QED BY <2>2, <2>3, <2>4
<1>7. Fits(q)
  <2>1. CASE o = "indexed"
    <3>1. q = RowAfterIndexed(c) BY <2>1
    <3> HIDE DEF q
    <3> QED BY <1>3, <3>1, FreshFits DEF RowAfterIndexed
  <2>2. CASE o = "dropped" BY <2>2, FreshFits
  <2>3. CASE o \in {"outdated", "not_ready"}
    <3>1. q = PutBack(c, kept) BY <2>3
    <3> HIDE DEF q
    <3> QED BY <1>4, <1>5, <3>1
  <2>4. CASE o = "error"
    <3>1. q = RowAfterError(c, n) BY <2>4
    <3> HIDE DEF q
    <3> QED BY <1>6, <3>1
  <2> QED BY <1>2, <2>1, <2>2, <2>3, <2>4
<1> HIDE DEF q
<1>8. \A b \in Contacts : row'[b] = IF b = c THEN q ELSE row[b] BY <1>1, <1>2
<1> QED BY <1>7, <1>8 DEF RowsFit

\* Whatever writes rows leaves tries to those that are not given up.
LEMMA RowsFitNext == ASSUME IndexIsRight, RowsFit, WorkFits, [Next]_vars PROVE RowsFit'
<1>1. ASSUME Written PROVE RowsFit' BY <1>1, FreshFits DEF Written, RowsFit
<1>2. CASE \/ \E c \in Contacts : Write(c)
           \/ FinishImport \/ (\E forceAll \in BOOLEAN : RefreshIndex(forceAll))
           \/ SwitchAi \/ RefreshIndexElsewhere \/ TimerFires
  <2>1. Written
    BY <1>2, CreateKeeps, ImportRowKeeps, EditTextKeeps, EditDetailsKeeps, ArchiveKeeps, TrashKeeps,
       RestoreContactKeeps, FinishImportKeeps, RefreshIndexKeeps, QuietKeeps DEF Write
  <2> QED BY <1>1, <2>1
<1>3. ASSUME NEW c \in Contacts, row[c] \in QueueRow, NEW r, r = [row[c] EXCEPT !.due = TRUE] \/
                (Pending(c) /\ r = [row[c] EXCEPT !.status = "processing"]), row' = [row EXCEPT ![c] = r]
      PROVE  RowsFit'
  <2>1. Fits(row[c]) /\ row[c] # None BY <1>3, RowFacts DEF RowsFit
  <2>2. r.attempts = row[c].attempts /\ (r.status # "failed" => row[c].status # "failed") BY <1>3 DEF QueueRow, Pending
  <2>3. Fits(r) BY <2>1, <2>2 DEF Fits
  <2>4. \A b \in Contacts : row'[b] = IF b = c THEN r ELSE row[b] BY <1>3 DEF IndexIsRight, IndexTypes
  <2> QED BY <2>3, <2>4 DEF RowsFit
<1>4. CASE \E c \in Contacts : FallDue(c)
  <2>1. PICK c \in Contacts : Pending(c) /\ row' = [row EXCEPT ![c].due = TRUE] BY <1>4 DEF FallDue, LaterRows
  <2>2. row[c] \in QueueRow BY <2>1 DEF Pending, IndexIsRight, IndexTypes
  <2> QED BY <1>3, <2>1, <2>2
<1>5. CASE \E item \in batch : Claim(item)
  <2>1. PICK item \in batch : Claim(item) BY <1>5
  <2>2. item.id \in Contacts BY DEF IndexIsRight, IndexTypes
  <2>3. CASE Pending(item.id)
    <3>1. row' = [row EXCEPT ![item.id].status = "processing"] BY <2>1, <2>3 DEF Claim
    <3>2. row[item.id] \in QueueRow BY <2>2, <2>3 DEF Pending, IndexIsRight, IndexTypes
    <3> QED BY <1>3, <2>2, <2>3, <3>1, <3>2
  <2>4. CASE ~Pending(item.id)
    <3>1. row' = row BY <2>1, <2>4 DEF Claim
    <3> QED BY <3>1 DEF RowsFit
  <2> QED BY <2>3, <2>4
<1>6. CASE Settle BY <1>6, SettledFits
<1>7. CASE Boot \/ StartFails
  <2>1. row' = Recovered BY <1>7 DEF Boot, StartFails, InitSearchIndexQueue
  <2> QED BY <2>1, RecoveredFits DEF RowsFit
<1>8. CASE StartBackfill
  <2>1. \A c \in Contacts : row'[c] \in {Fresh, row[c]} BY <1>8 DEF StartBackfill
  <2> QED BY <2>1, FreshFits DEF RowsFit
<1>9. CASE FinishBackfill
  <2>1. \A c \in Contacts : row'[c] \in {None, Recovered[c]} BY <1>9 DEF FinishBackfill
  <2> QED BY <2>1, FreshFits, RecoveredFits DEF RowsFit
<1>10. CASE SelectBatch \/ Embedded \/ EmbedFails \/ EndDrain \/ Crash \/ UNCHANGED vars
  <2>1. row' = row BY <1>10 DEF SelectBatch, Embedded, EmbedFails, EndDrain, Crash, vars, index
  <2> QED BY <2>1 DEF RowsFit
<1> QED BY <1>2, <1>4, <1>5, <1>6, <1>7, <1>8, <1>9, <1>10 DEF Next, DrainStep

\* A read of the queue returns no more items than the limit has left.
LEMMA SelectFits == ASSUME IndexIsRight, RowsFit, WorkFits, SelectBatch PROVE WorkFits'
<1>1. PICK C \in Candidates : batch' = {[id |-> c, attempts |-> row[c].attempts] : c \in C \ seen} BY DEF SelectBatch
<1>2. /\ C \subseteq Contacts /\ Cardinality(C) <= BatchSize - processed
      /\ \A c \in C : row[c] # None /\ row[c].status = "pending"
  BY <1>1 DEF Candidates, DueRows, Pending
<1>3. processed' = processed /\ embed' = embed BY DEF SelectBatch
<1> DEFINE D == C \ seen
           f == [c \in D |-> [id |-> c, attempts |-> row[c].attempts]]
<1>4. IsFiniteSet(C) /\ IsFiniteSet(D) /\ Cardinality(D) <= Cardinality(C)
  <2>1. IsFiniteSet(C) BY <1>2, FS_Subset, SearchAssumption
  <2> QED BY <2>1, FS_Subset
<1>5. f \in Surjection(D, batch')
  <2>1. f \in [D -> batch'] BY <1>1
  <2>2. \A b \in batch' : \E c \in D : f[c] = b BY <1>1
  <2> QED BY <2>1, <2>2 DEF Surjection
<1> HIDE DEF f
<1>6. IsFiniteSet(batch') /\ Cardinality(batch') <= Cardinality(D) BY <1>4, <1>5, FS_Surjection
<1>7. batch' \subseteq [id : Contacts, attempts : Left]
  <2>1. \A c \in D : c \in Contacts /\ row[c].attempts \in Left
    BY <1>2, SearchAssumption DEF RowsFit, Fits, Attempts, Left
  <2> HIDE DEF D
  <2> QED BY <1>1, <2>1 DEF D
<1>8. processed + Cardinality(batch') <= BatchSize
  <2>1. Cardinality(batch') \in Nat /\ Cardinality(D) \in Nat /\ Cardinality(C) \in Nat
    BY <1>4, <1>6, FS_CardinalityType
  <2> HIDE DEF D
  <2> QED BY <1>2, <1>4, <1>6, <2>1, SearchAssumption DEF WorkFits
<1> QED BY <1>3, <1>6, <1>7, <1>8 DEF WorkFits

LEMMA WorkFitsNext == ASSUME IndexIsRight, RowsFit, WorkFits, [Next]_vars PROVE WorkFits'
<1>1. ASSUME UNCHANGED drain PROVE WorkFits' BY <1>1 DEF WorkFits, drain
<1>2. ASSUME batch' = {}, embed' \in {None, embed}, processed' \in {0, processed} PROVE WorkFits'
  BY <1>2, FS_EmptySet, FS_CardinalityType, SearchAssumption DEF WorkFits
<1>3. ASSUME NEW allowed, DrainIndexQueue(allowed) PROVE WorkFits'
  <2>1. UNCHANGED drain \/ (batch' = {} /\ embed' = None /\ processed' = 0) BY <1>3 DEF DrainIndexQueue
  <2> QED BY <1>1, <1>2, <2>1
<1>4. CASE \/ \E c \in Contacts : Write(c) \/ FallDue(c)
           \/ FinishImport \/ SwitchAi \/ Boot \/ StartBackfill \/ FinishBackfill \/ StartFails
  <2>1. UNCHANGED drain
    BY <1>4 DEF Write, Create, ImportRow, EditText, EditDetails, Archive, Trash, RestoreContact, FallDue, FinishImport,
                SwitchAi, Boot, StartBackfill, FinishBackfill, StartFails, unaffected
  <2> QED BY <1>1, <2>1
<1>5. CASE (\E forceAll \in BOOLEAN : RefreshIndex(forceAll)) \/ RefreshIndexElsewhere \/ TimerFires
  BY <1>3, <1>5 DEF RefreshIndex, RefreshIndexElsewhere, TimerFires
<1>6. CASE SelectBatch BY <1>6, SelectFits
<1>7. CASE \E item \in batch : Claim(item)
  <2>1. PICK item \in batch : Claim(item) BY <1>7
  <2>2. /\ batch' = batch \ {item} /\ processed' = processed + 1 /\ embed = None
        /\ embed' \in {None, [id |-> item.id, attempts |-> item.attempts, read |-> text[item.id],
                              outcome |-> Embedding(item.id)]}
    BY <2>1 DEF Claim
  <2>3. IsFiniteSet(batch') /\ Cardinality(batch') = Cardinality(batch) - 1 BY <2>2, FS_RemoveElement DEF WorkFits
  <2>4. Cardinality(batch) \in Nat /\ Cardinality(batch') \in Nat BY <2>3, FS_CardinalityType DEF WorkFits
  <2>5. processed' \in Nat /\ processed' + Cardinality(batch') <= BatchSize
    BY <2>2, <2>3, <2>4, SearchAssumption DEF WorkFits
  <2>6. item.attempts \in Left /\ (embed' # None => embed'.attempts = item.attempts) BY <2>2 DEF WorkFits
  <2> QED BY <2>2, <2>3, <2>5, <2>6 DEF WorkFits
<1>8. CASE Embedded \/ EmbedFails \/ Settle
  <2>1. processed' = processed /\ batch' = batch BY <1>8 DEF Embedded, EmbedFails, Settle
  <2>2. embed # None BY <1>8 DEF Embedded, EmbedFails, Settle
  <2>3. embed' # None => embed'.attempts = embed.attempts
    <3>1. embed \in Embed BY <2>2 DEF IndexIsRight, IndexTypes
    <3>2. embed' = None \/ \E o \in Outcomes : embed' = [embed EXCEPT !.outcome = o]
      BY <1>8 DEF Embedded, EmbedFails, Settle, Outcomes
    <3> QED BY <3>1, <3>2 DEF Embed
  <2> QED BY <2>1, <2>2, <2>3 DEF WorkFits
<1>9. CASE EndDrain \/ Crash
  <2>1. batch' = {} /\ processed' = 0 /\ embed' \in {None, embed} BY <1>9 DEF EndDrain, Crash
  <2> QED BY <1>2, <2>1
<1>10. CASE UNCHANGED vars BY <1>1, <1>10 DEF vars
<1> QED BY <1>4, <1>5, <1>6, <1>7, <1>8, <1>9, <1>10 DEF Next, DrainStep

LEMMA TriesFitNext == ASSUME IndexIsRight, TriesFit, [Next]_vars PROVE TriesFit'
<1>1. ASSUME failures' = failures, \A c \in Contacts : tries'[c] \in {0, tries[c]}, tries' \in [Contacts -> Nat]
      PROVE  TriesFit'
  <2>1. failures \in Nat /\ 0 \in 0 .. failures BY SearchAssumption DEF TriesFit
  <2> QED BY <1>1, <2>1 DEF TriesFit
<1>2. tries \in [Contacts -> Nat] BY SearchAssumption DEF TriesFit
<1>3. CASE EmbedFails
  <2>1. CASE UNCHANGED <<failures, tries>> BY <2>1 DEF TriesFit
  <2>2. CASE failures < MaxFailures /\ failures' = failures + 1 /\ tries' = [tries EXCEPT ![embed.id] = @ + 1]
    <3>1. failures \in Nat /\ failures' \in 0 .. MaxFailures BY <2>2, SearchAssumption DEF TriesFit
    <3>2. \A c \in Contacts : tries'[c] \in {tries[c], tries[c] + 1} BY <1>2, <2>2
    <3>3. \A c \in Contacts : tries'[c] \in 0 .. failures' BY <2>2, <3>1, <3>2 DEF TriesFit
    <3>4. tries' = [c \in Contacts |-> tries'[c]] BY <1>2, <2>2
    <3> QED BY <3>1, <3>3, <3>4 DEF TriesFit
  <2> QED BY <1>3, <2>1, <2>2 DEF EmbedFails
<1>4. ASSUME NEW C, NEW now, Schedule(C, now) PROVE TriesFit'
  <2>1. failures' = failures /\ tries' \in [Contacts -> Nat] /\ \A c \in Contacts : tries'[c] \in {0, tries[c]}
    BY <1>2, <1>4 DEF Schedule
  <2> QED BY <1>1, <2>1
<1>5. CASE \E forceAll \in BOOLEAN : RefreshIndex(forceAll)
  <2>1. failures' = failures /\ tries' \in [Contacts -> Nat] /\ \A c \in Contacts : tries'[c] \in {0, tries[c]}
    BY <1>2, <1>5 DEF RefreshIndex
  <2> QED BY <1>1, <2>1
<1>6. ASSUME UNCHANGED <<tries, failures>> PROVE TriesFit' BY <1>6 DEF TriesFit
<1>7. ASSUME NEW c \in Contacts, Write(c) PROVE TriesFit'
  <2>1. \/ Schedule({c}, status') \/ UNCHANGED <<tries, failures>>
        \/ SearchVectorUpdate(c, status') \/ SearchVectorUpdate(c, status)
    BY <1>7 DEF Write, Create, ImportRow, EditText, EditDetails, Archive, Trash, RestoreContact, ghosts
  <2>2. ASSUME NEW now, SearchVectorUpdate(c, now) PROVE TriesFit'
    <3>1. failures' = failures /\ tries' \in [Contacts -> Nat] /\ \A b \in Contacts : tries'[b] \in {0, tries[b]}
      BY <1>2, <2>2 DEF SearchVectorUpdate
    <3> QED BY <1>1, <3>1
  <2> QED BY <1>4, <1>6, <2>1, <2>2
<1>8. CASE FinishImport BY <1>4, <1>8 DEF FinishImport
<1>9. CASE \/ (\E c \in Contacts : FallDue(c)) \/ SwitchAi \/ RefreshIndexElsewhere \/ TimerFires
           \/ SelectBatch \/ (\E item \in batch : Claim(item)) \/ Embedded \/ Settle \/ EndDrain
           \/ Boot \/ StartBackfill \/ FinishBackfill \/ StartFails \/ Crash \/ UNCHANGED vars
  <2>1. UNCHANGED <<tries, failures>>
    BY <1>9 DEF FallDue, SwitchAi, RefreshIndexElsewhere, TimerFires, SelectBatch, Claim, Embedded, Settle, EndDrain,
                Boot, StartBackfill, FinishBackfill, StartFails, Crash, vars, ghosts
  <2> QED BY <1>6, <2>1
<1> QED BY <1>3, <1>5, <1>7, <1>8, <1>9 DEF Next, DrainStep

LEMMA SwitchesNext == ASSUME IndexIsRight, Switches, WorkFits, [Next]_vars PROVE Switches'
<1>1. aiOff' \in BOOLEAN /\ ready' \in BOOLEAN /\ boot' \in {"down", "loading", "done", "failed"}
  BY SearchAssumption
  DEF Switches, Next, Write, DrainStep, vars, Create, ImportRow, EditText, EditDetails, Archive, Trash, RestoreContact,
      FallDue, FinishImport, SwitchAi, RefreshIndex, RefreshIndexElsewhere, TimerFires, SelectBatch, Claim, Embedded,
      EmbedFails, Settle, EndDrain, Boot, StartBackfill, FinishBackfill, StartFails, Crash, unaffected, idle, contacts
<1>2. explicit' \in BOOLEAN /\ seen' \subseteq Contacts
  <2>1. \A item \in batch : item.id \in Contacts BY DEF WorkFits
  <2>2. ASSUME NEW allowed \in BOOLEAN, DrainIndexQueue(allowed) PROVE explicit' \in BOOLEAN /\ seen' \subseteq Contacts
    BY <2>2, SearchAssumption DEF DrainIndexQueue, Switches, drain
  <2>3. CASE (\E forceAll \in BOOLEAN : RefreshIndex(forceAll)) \/ RefreshIndexElsewhere \/ TimerFires
    BY <2>2, <2>3 DEF RefreshIndex, RefreshIndexElsewhere, TimerFires
  <2>4. CASE DrainStep
    BY <2>1, <2>4 DEF DrainStep, SelectBatch, Claim, Embedded, EmbedFails, Settle, EndDrain, Switches
  <2>5. CASE \/ \E c \in Contacts : Write(c) \/ FallDue(c)
             \/ FinishImport \/ SwitchAi \/ Boot \/ StartBackfill \/ FinishBackfill \/ StartFails \/ Crash \/ UNCHANGED vars
    BY <2>5 DEF Write, Create, ImportRow, EditText, EditDetails, Archive, Trash, RestoreContact, FallDue, FinishImport,
                SwitchAi, Boot, StartBackfill, FinishBackfill, StartFails, Crash, unaffected, drain, vars, Switches
  <2> QED BY <2>3, <2>4, <2>5 DEF Next
<1>3. timer' \in {"off", "soon"} \cup Contacts
  <2>1. embed # None => embed.id \in Contacts BY DEF IndexIsRight, IndexTypes, Embed
  <2> QED BY <2>1
      DEF Switches, Next, Write, DrainStep, vars, Create, ImportRow, EditText, EditDetails, Archive, Trash,
          RestoreContact, FallDue, FinishImport, SwitchAi, RefreshIndex, RefreshIndexElsewhere, TimerFires, SelectBatch,
          Claim, Embedded, EmbedFails, Settle, EndDrain, Boot, StartBackfill, FinishBackfill, StartFails, Crash,
          Armed, Schedule, DrainIndexQueue, InitSearchIndexQueue, idle
<1>4. deferred' \subseteq Contacts
  <2>1. embed # None => embed.id \in Contacts BY DEF IndexIsRight, IndexTypes, Embed
  <2>2. deferred' \subseteq deferred \cup Contacts
    BY <2>1
    DEF Next, Write, DrainStep, vars, Create, ImportRow, EditText, EditDetails, Archive, Trash,
        RestoreContact, FallDue, FinishImport, SwitchAi, RefreshIndex, RefreshIndexElsewhere, TimerFires, SelectBatch,
        Claim, Embedded, EmbedFails, Settle, EndDrain, Boot, StartBackfill, FinishBackfill, StartFails, Crash,
        Schedule, SearchVectorUpdate, ghosts
  <2> QED BY <2>2 DEF Switches
<1>5. backfill' \in [Contacts -> Texts \cup {None}] \cup {None}
  <2>1. text \in [Contacts -> Texts] BY DEF IndexIsRight, IndexTypes
  <2> QED BY <2>1
      DEF Switches, Next, Write, DrainStep, vars, Create, ImportRow, EditText, EditDetails, Archive, Trash,
          RestoreContact, FallDue, FinishImport, SwitchAi, RefreshIndex, RefreshIndexElsewhere, TimerFires, SelectBatch,
          Claim, Embedded, EmbedFails, Settle, EndDrain, Boot, StartBackfill, FinishBackfill, StartFails, Crash,
          unaffected, idle
<1>6. unheard' \subseteq Contacts
  <2>1. unheard' \subseteq unheard \cup Contacts
    BY DEF Next, Write, DrainStep, vars, Create, ImportRow, EditText, EditDetails, Archive, Trash,
           RestoreContact, FallDue, FinishImport, SwitchAi, RefreshIndex, RefreshIndexElsewhere, TimerFires, SelectBatch,
           Claim, Embedded, EmbedFails, Settle, EndDrain, Boot, StartBackfill, FinishBackfill, StartFails, Crash,
           Schedule, Unheard, ghosts
  <2> QED BY <2>1 DEF Switches
<1> QED BY <1>1, <1>2, <1>3, <1>4, <1>5, <1>6 DEF Switches

\* Every variable of the queue keeps its type, whatever writes, restarts and failures come
\* between: a drain takes no more rows than its limit, and a row is tried no more often
\* than MAX_ATTEMPTS.
THEOREM IndexTypesHold == Spec => []TypeOK
<1> DEFINE Fit == RowsFit /\ WorkFits /\ TriesFit /\ Switches
<1>1. Init => Fit
  <2> SUFFICES ASSUME Init PROVE Fit OBVIOUS
  <2>1. RowsFit BY FreshFits DEF Init, RowsFit
  <2>2. WorkFits BY FS_EmptySet, SearchAssumption DEF Init, WorkFits
  <2>3. TriesFit BY SearchAssumption DEF Init, TriesFit
  <2>4. Switches BY DEF Init, Switches
  <2> QED BY <2>1, <2>2, <2>3, <2>4
<1>2. IndexIsRight /\ Fit /\ [Next]_vars => Fit' BY RowsFitNext, WorkFitsNext, TriesFitNext, SwitchesNext
<1>3. IndexIsRight /\ Fit => TypeOK
  <2> SUFFICES ASSUME IndexIsRight, Fit PROVE TypeOK OBVIOUS
  <2>1. \A c \in Contacts : row[c] # None => row[c].attempts \in Attempts BY DEF RowsFit, Fits
  <2>2. processed \in 0 .. BatchSize
    <3>1. Cardinality(batch) \in Nat BY FS_CardinalityType DEF WorkFits
    <3> QED BY <3>1, SearchAssumption DEF WorkFits
  <2>3. Left \subseteq Attempts BY SearchAssumption DEF Left, Attempts
  <2>4. batch \subseteq [id : Contacts, attempts : Attempts] /\ (embed # None => embed.attempts \in Attempts)
    BY <2>3 DEF WorkFits
  <2>5. tries \in [Contacts -> 0 .. MaxFailures] /\ failures \in 0 .. MaxFailures
    <3>1. 0 .. failures \subseteq 0 .. MaxFailures BY SearchAssumption DEF TriesFit
    <3> QED BY <3>1 DEF TriesFit
  <2> QED BY <2>1, <2>2, <2>4, <2>5 DEF TypeOK, IndexIsRight, IndexTypes, Switches
<1> QED BY <1>1, <1>2, <1>3, IndexAlwaysRight, PTL DEF Spec

-----------------------------------------------------------------------------
(***************************************************************************)
(* The server's own model.                                                 *)
(***************************************************************************)
LEMMA OwnAlwaysRight ==
  ASSUME OwnModel
  PROVE  /\ Spec => [](IndexIsRight /\ OwnIsRight)
         /\ ModelsSpec => [](model = "local" => IndexIsRight /\ OwnIsRight)
<1>1. Init => IndexIsRight /\ OwnIsRight BY IndexInit
<1>2. IndexIsRight /\ OwnIsRight /\ [Next]_vars => (IndexIsRight /\ OwnIsRight)' BY IndexNext
<1> DEFINE local == model = "local" => IndexIsRight /\ OwnIsRight
<1>3. ModelsInit => local BY <1>1 DEF ModelsInit
<1>4. local /\ [ModelsNext]_<<vars, model>> => local'
  <2> SUFFICES ASSUME local, [ModelsNext]_<<vars, model>>, model' = "local" PROVE (IndexIsRight /\ OwnIsRight)' OBVIOUS
  <2>1. model = "local" /\ [Next]_vars BY DEF ModelsNext
  <2> QED BY <1>2, <2>1
<1>5. Spec => [](IndexIsRight /\ OwnIsRight) BY <1>1, <1>2, PTL DEF Spec
<1>6. ModelsSpec => []local BY <1>3, <1>4, PTL DEF ModelsSpec
<1> QED BY <1>5, <1>6

\* An active contact whose vector is not of its present text has a row, over edits during
\* an embedding, restarts and rebuilds, but for an import that is not done or died.
THEOREM StaleContactsAreQueued ==
  ASSUME OwnModel
  PROVE  (Spec => []StaleIsQueued) /\ (ModelsSpec => []StaleIsQueuedLocally)
<1>1. IndexIsRight /\ OwnIsRight => StaleIsQueued BY DEF OwnIsRight
<1>2. (model = "local" => IndexIsRight /\ OwnIsRight) => StaleIsQueuedLocally BY <1>1 DEF StaleIsQueuedLocally
<1> QED BY <1>1, <1>2, OwnAlwaysRight, PTL

\* What was queued waits for a drain, a timer or the end of the start-up, unless it was put
\* back for later, or a trigger alone queued it while no drain was to come; and no row is
\* left `processing` by nobody.
THEOREM QueuedRowsAreDrained ==
  ASSUME OwnModel
  PROVE  (Spec => []QueuedIsDrained) /\ (ModelsSpec => []QueuedIsDrainedLocally)
<1>1. IndexIsRight /\ OwnIsRight => QueuedIsDrained
  BY DEF IndexIsRight, RowsAreHeld, OwnIsRight, PendingIsDrained, QueuedIsDrained
<1>2. (model = "local" => IndexIsRight /\ OwnIsRight) => QueuedIsDrainedLocally BY <1>1 DEF QueuedIsDrainedLocally
<1> QED BY <1>1, <1>2, OwnAlwaysRight, PTL

-----------------------------------------------------------------------------
(***************************************************************************)
(* The hosted model, with the one contact of MCIndexModels.                *)
(***************************************************************************)
HostedIsRight ==
  /\ DOMAIN status = {cy} /\ DOMAIN vector = {cy} /\ DOMAIN row = {cy}
  /\ embed # None => "outcome" \in DOMAIN embed /\ embed.outcome \in Hosted!Outcomes
  /\ Hosted!TrashIsNotIndexed

LEMMA HostedWrite == ASSUME HostedIsRight, Hosted!Write(cy) PROVE HostedIsRight'
<1> USE DEF HostedIsRight, Hosted!TrashIsNotIndexed, Hosted!InTrash, Hosted!unaffected, Hosted!drain, Hosted!index,
            Hosted!ghosts
<1>1. CASE Hosted!Create(cy) BY <1>1 DEF Hosted!Create, Hosted!Schedule
<1>2. CASE Hosted!ImportRow(cy) BY <1>2 DEF Hosted!ImportRow, Hosted!SearchVectorUpdate
<1>3. CASE Hosted!EditText(cy) BY <1>3 DEF Hosted!EditText, Hosted!SearchVectorUpdate
<1>4. CASE Hosted!EditDetails(cy) BY <1>4 DEF Hosted!EditDetails, Hosted!SearchVectorUpdate
<1>5. CASE Hosted!Archive(cy) BY <1>5 DEF Hosted!Archive
<1>6. CASE Hosted!Trash(cy) BY <1>6 DEF Hosted!Trash
<1>7. CASE Hosted!RestoreContact(cy) BY <1>7 DEF Hosted!RestoreContact, Hosted!Schedule
<1> QED BY <1>1, <1>2, <1>3, <1>4, <1>5, <1>6, <1>7 DEF Hosted!Write

LEMMA HostedDrain == ASSUME HostedIsRight, Hosted!DrainStep PROVE HostedIsRight'
<1> USE DEF HostedIsRight, Hosted!TrashIsNotIndexed, Hosted!InTrash, Hosted!Outcomes, Hosted!idle, Hosted!contacts,
            Hosted!index, Hosted!ghosts
<1>1. CASE Hosted!SelectBatch \/ Hosted!EndDrain BY <1>1 DEF Hosted!SelectBatch, Hosted!EndDrain
<1>2. CASE \E item \in batch : Hosted!Claim(item)
  <2>1. PICK item \in batch : Hosted!Claim(item) BY <1>2
  <2>2. UNCHANGED <<status, vector>> BY <2>1 DEF Hosted!Claim
  <2>3. CASE Hosted!Pending(item.id)
    <3>1. /\ row' = [row EXCEPT ![item.id].status = "processing"]
          /\ embed'.outcome = Hosted!Embedding(item.id) /\ "outcome" \in DOMAIN embed'
      BY <2>1, <2>3 DEF Hosted!Claim
    <3>2. Hosted!Embedding(item.id) \in Hosted!Outcomes BY DEF Hosted!Embedding
    <3>3. DOMAIN row' = {cy} /\ (row[cy] = None => row'[cy] = None) BY <2>3, <3>1 DEF Hosted!Pending
    <3> QED BY <2>2, <3>1, <3>2, <3>3
  <2>4. CASE ~Hosted!Pending(item.id) BY <2>1, <2>2, <2>4 DEF Hosted!Claim
  <2> QED BY <2>3, <2>4
<1>3. CASE Hosted!Embedded BY <1>3 DEF Hosted!Embedded, Hosted!Unchanged, Hosted!Active
<1>4. CASE Hosted!EmbedFails BY <1>4 DEF Hosted!EmbedFails
<1>5. CASE Hosted!Settle
  BY <1>5 DEF Hosted!Settle, Hosted!RowAfterIndexed, Hosted!PutBack, Hosted!RowAfterError, Hosted!Processing
<1> QED BY <1>1, <1>2, <1>3, <1>4, <1>5 DEF Hosted!DrainStep

LEMMA HostedNext == ASSUME HostedIsRight, [Hosted!Next]_Hosted!vars PROVE HostedIsRight'
<1> USE DEF Hosted!contacts, Hosted!index, Hosted!ghosts
<1>1. CASE Hosted!Write(cy) BY <1>1, HostedWrite
<1>2. CASE Hosted!FallDue(cy)
  <2>1. /\ row[cy] # None /\ row' = [row EXCEPT ![cy].due = TRUE] /\ UNCHANGED <<status, vector, embed>>
    BY <1>2 DEF Hosted!FallDue, Hosted!LaterRows, Hosted!Pending, Hosted!drain
  <2>2. DOMAIN row' = {cy} BY <2>1 DEF HostedIsRight
  <2> QED BY <2>1, <2>2 DEF HostedIsRight, Hosted!TrashIsNotIndexed
<1>3. CASE Hosted!FinishImport
  BY <1>3 DEF HostedIsRight, Hosted!TrashIsNotIndexed, Hosted!InTrash, Hosted!FinishImport, Hosted!Schedule,
              Hosted!unaffected, Hosted!drain
<1>4. CASE Hosted!DrainStep BY <1>4, HostedDrain
<1>5. CASE \E forceAll \in BOOLEAN : Hosted!RefreshIndex(forceAll)
  BY <1>5 DEF HostedIsRight, Hosted!TrashIsNotIndexed, Hosted!InTrash, Hosted!RefreshIndex, Hosted!Active, Hosted!Missing,
              Hosted!Failed, Hosted!DrainIndexQueue, Hosted!drain
<1>6. CASE Hosted!SwitchAi \/ Hosted!RefreshIndexElsewhere \/ Hosted!TimerFires
  BY <1>6 DEF HostedIsRight, Hosted!TrashIsNotIndexed, Hosted!SwitchAi, Hosted!RefreshIndexElsewhere, Hosted!TimerFires,
              Hosted!DrainIndexQueue, Hosted!drain
<1>7. CASE Hosted!Boot \/ Hosted!StartFails
  BY <1>7 DEF HostedIsRight, Hosted!TrashIsNotIndexed, Hosted!Boot, Hosted!StartFails, Hosted!InitSearchIndexQueue,
              Hosted!Recovered, Hosted!Processing, Hosted!drain
<1>8. CASE Hosted!StartBackfill
  BY <1>8 DEF HostedIsRight, Hosted!TrashIsNotIndexed, Hosted!InTrash, Hosted!StartBackfill, Hosted!Missing, Hosted!Active,
              Hosted!drain
<1>9. CASE Hosted!FinishBackfill
  BY <1>9 DEF HostedIsRight, Hosted!TrashIsNotIndexed, Hosted!InTrash, Hosted!FinishBackfill, Hosted!Unchanged,
              Hosted!Active, Hosted!Recovered, Hosted!Processing, Hosted!drain
<1>10. CASE Hosted!Crash BY <1>10 DEF HostedIsRight, Hosted!TrashIsNotIndexed, Hosted!Crash
<1>11. CASE UNCHANGED Hosted!vars
  BY <1>11 DEF HostedIsRight, Hosted!TrashIsNotIndexed, Hosted!vars, Hosted!drain
<1> QED BY <1>1, <1>2, <1>3, <1>4, <1>5, <1>6, <1>7, <1>8, <1>9, <1>10, <1>11 DEF Hosted!Next

\* Nothing of the trash is indexed, with either model, and the start-up with the server's
\* own has found what an import that died left out.
THEOREM OnlyTheLivingAreIndexed ==
  ASSUME OwnModel
  PROVE  (Spec => []IndexHoldsTheLiving) /\ (ModelsSpec => []LivingAreIndexed)
<1>1. IndexIsRight /\ OwnIsRight => IndexHoldsTheLiving
  BY DEF IndexIsRight, OwnIsRight, CutOffAreFound, IndexHoldsTheLiving
<1> DEFINE either == /\ model = "local" => IndexIsRight /\ OwnIsRight
                     /\ model # "local" => HostedIsRight
<1>2. ModelsInit => either
  <2>1. Hosted!Init => HostedIsRight
    BY DEF HostedIsRight, Hosted!Init, Hosted!TrashIsNotIndexed
  <2> QED BY <2>1, IndexInit DEF ModelsInit
<1>3. either /\ [ModelsNext]_<<vars, model>> => either'
  <2> SUFFICES ASSUME either, [ModelsNext]_<<vars, model>> PROVE either' OBVIOUS
  <2>1. CASE model = "local"
    <3>1. [Next]_vars /\ model' = "local" BY <2>1 DEF ModelsNext
    <3> QED BY <2>1, <3>1, IndexNext
  <2>2. CASE model # "local"
    <3>1. vars = Hosted!vars
      BY DEF vars, Hosted!vars, contacts, Hosted!contacts, index, Hosted!index, drain, Hosted!drain, ghosts, Hosted!ghosts
    <3>2. CASE ModelsNext
      <4>1. Hosted!Next /\ model' # "local" BY <2>2, <3>2 DEF ModelsNext
      <4> QED BY <2>2, <4>1, HostedNext
    <3>3. CASE UNCHANGED <<vars, model>>
      <4>1. vars' = vars /\ model' = model BY <3>3
      <4>2. UNCHANGED Hosted!vars
        BY <3>1, <4>1 DEF vars, Hosted!vars, contacts, Hosted!contacts, index, Hosted!index, drain, Hosted!drain, ghosts,
                          Hosted!ghosts
      <4> QED BY <2>2, <4>1, <4>2, HostedNext
    <3> QED BY <3>2, <3>3
  <2> QED BY <2>1, <2>2
<1>4. either => LivingAreIndexed BY <1>1 DEF LivingAreIndexed, HostedIsRight
<1>5. ModelsSpec => []LivingAreIndexed BY <1>2, <1>3, <1>4, PTL DEF ModelsSpec
<1> QED BY <1>1, <1>5, OwnAlwaysRight, PTL
====
