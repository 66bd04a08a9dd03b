----------------------------- MODULE MCServices -----------------------------
(***************************************************************************)
(* Instances of the services beside the job runner and the event log.      *)
(* They keep their state apart, so a behaviour here is one of one of them, *)
(* which `which` names, and `Checked` says which ones a run takes.         *)
(***************************************************************************)
EXTENDS SharedWork, ConnectorSync, ConnectorIngest, ScanQueue, ResearchQueue, GeocodeQueue,
        CpuWorkerHost, PendingDeletes, ContactMerge, SearchAnswers, TLC

CONSTANTS
  Checked,
  ann, bob, cy,           \* accounts
  w1, w2,                 \* works of SharedWork
  mail, dav,              \* connectors, of which the second writes to its server
  mbox, gbox, eve,        \* mailboxes, and a sender
  t1, t2, s1, s2, s3, s4, \* syncs, scans
  p1, p2, p3, b1, b2,     \* contacts to research, of ann and of bob, and batches
  c1, c2, k1, k2,         \* contacts with an address, and addresses
  e1, e2, r1,             \* embeddings and a reranking
  i1, i2, u1, u2, u3,     \* items to delete, and undo windows
  m1, m2, m3, f1, f2,     \* contacts that look alike, and what their records say
  a1, a2, q1, q2          \* requests, and questions

MCOwnerOf == [c \in Connectors |-> ann]
MCFrom == [m \in 1 .. Mails |-> eve]
MCReached == {Mailboxes}
MCDeleted == First \X {1}
MCBelongsTo == [c \in Persons |-> IF c = p3 THEN bob ELSE ann]
MCLivesAt == [c \in Contacts |-> IF c = c1 THEN {k1, k2, Nowhere} ELSE {k1}]

Record(c, f) == [on |-> c, fact |-> f, text |-> "first"]
MCFirstRows == <<Record(m1, f1), Record(m2, f1), Record(m3, f2)>>
MCSure == {{m1, m2}, {m2, m3}}
MCLikely == {{m1, m3}}
MCWording == [a \in Asks |-> IF a = a1 THEN {q1} ELSE Questions]

VARIABLE which

ServicesInit ==
  /\ which \in Checked
  /\ Init /\ SyncInit /\ IngestInit /\ ScanInit /\ ResearchInit /\ GeoInit
  /\ CpuInit /\ DeletesInit /\ MergeInit /\ AnswersInit

ServicesNext ==
  \/ /\ which = "shared work" /\ Next
     /\ UNCHANGED <<which, syncVars, ingestVars, scanVars, researchVars, geoVars,
                    cpuVars, deleteVars, mergeVars, answerVars>>
  \/ /\ which = "sync" /\ SyncNext
     /\ UNCHANGED <<which, vars, ingestVars, scanVars, researchVars, geoVars,
                    cpuVars, deleteVars, mergeVars, answerVars>>
  \/ /\ which = "ingest" /\ IngestNext
     /\ UNCHANGED <<which, vars, syncVars, scanVars, researchVars, geoVars,
                    cpuVars, deleteVars, mergeVars, answerVars>>
  \/ /\ which = "scan" /\ ScanNext
     /\ UNCHANGED <<which, vars, syncVars, ingestVars, researchVars, geoVars,
                    cpuVars, deleteVars, mergeVars, answerVars>>
  \/ /\ which = "research" /\ ResearchNext
     /\ UNCHANGED <<which, vars, syncVars, ingestVars, scanVars, geoVars,
                    cpuVars, deleteVars, mergeVars, answerVars>>
  \/ /\ which = "geocoding" /\ GeoNext
     /\ UNCHANGED <<which, vars, syncVars, ingestVars, scanVars, researchVars,
                    cpuVars, deleteVars, mergeVars, answerVars>>
  \/ /\ which = "cpu worker" /\ CpuNext
     /\ UNCHANGED <<which, vars, syncVars, ingestVars, scanVars, researchVars,
                    geoVars, deleteVars, mergeVars, answerVars>>
  \/ /\ which = "deletes" /\ DeletesNext
     /\ UNCHANGED <<which, vars, syncVars, ingestVars, scanVars, researchVars,
                    geoVars, cpuVars, mergeVars, answerVars>>
  \/ /\ which = "merges" /\ MergeNext
     /\ UNCHANGED <<which, vars, syncVars, ingestVars, scanVars, researchVars,
                    geoVars, cpuVars, deleteVars, answerVars>>
  \/ /\ which = "asks" /\ AnswersNext
     /\ UNCHANGED <<which, vars, syncVars, ingestVars, scanVars, researchVars,
                    geoVars, cpuVars, deleteVars, mergeVars>>

ServicesSpec ==
  ServicesInit /\ [][ServicesNext]_<<which, vars, syncVars, ingestVars, scanVars, researchVars,
                                     geoVars, cpuVars, deleteVars, mergeVars, answerVars>>
=============================================================================
