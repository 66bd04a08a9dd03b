----------------------------- MODULE ScanQueue ------------------------------
(***************************************************************************)
(* Whose turn it is to look for duplicates: server/services/dedupe/        *)
(* jobQueue.ts with POST /dedupe/scan and the ends of runScan.             *)
(*                                                                         *)
(* One scan runs on the instance.  A scan that ends frees the lock at once *)
(* and gives the next one its turn in a setImmediate; a request can come   *)
(* between the two.                                                        *)
(***************************************************************************)
EXTENDS Integers, Sequences, FiniteSets

CONSTANTS
  Accounts,
  Scans         \* bound: the scans there will be

VARIABLES
  scans,        \* each scan's owner and how far it is
  scanning,     \* the run lock
  pending,      \* the scans that wait for it
  immediates    \* the turns that were given and have not begun

scanVars == <<scans, scanning, pending, immediates>>

NoScan == [owner |-> "nobody", phase |-> "none"]
Entry == [owner : Accounts, phase : {"starting", "running", "ended"}]

ScanTypeOK ==
  /\ scans \in [Scans -> Entry \cup {NoScan}]
  /\ scanning \in BOOLEAN
  /\ {pending, immediates} \subseteq Seq(Scans)

In(s, q) == \E i \in DOMAIN q : q[i] = s
Active(s) == scans[s].phase \in {"starting", "running"}
HasActiveScan(a) == \E s \in Scans : Active(s) /\ scans[s].owner = a

-----------------------------------------------------------------------------
Create(s, a, phase) ==
  /\ scans[s] = NoScan
  /\ scans' = [scans EXCEPT ![s] = [owner |-> a, phase |-> phase]]

\* A request while nothing runs: runScan takes the lock at once.
Scan(s, a) ==
  /\ ~scanning
  /\ Create(s, a, "running") /\ scanning' = TRUE
  /\ UNCHANGED <<pending, immediates>>

\* A request while another account's scan runs books a turn, one for an account.  An
\* account that has a scan is refused.
Enqueue(s, a) ==
  /\ scanning /\ ~HasActiveScan(a) /\ ~\E i \in DOMAIN pending : scans[pending[i]].owner = a
  /\ Create(s, a, "starting") /\ pending' = Append(pending, s)
  /\ UNCHANGED <<scanning, immediates>>

\* complete and fail, with startNextPending.
Finish(s) ==
  /\ scans[s].phase = "running"
  /\ scans' = [scans EXCEPT ![s].phase = "ended"] /\ scanning' = FALSE
  /\ IF pending = <<>> THEN UNCHANGED <<pending, immediates>>
     ELSE pending' = Tail(pending) /\ immediates' = Append(immediates, Head(pending))

\* Variant: a turn that finds the lock taken is dropped.
PutBackNot(s) == UNCHANGED pending

\* A turn that finds the lock taken goes to the front again.
PutBack(s) == pending' = <<s>> \o pending

\* The setImmediate.
TakeTurn ==
  /\ immediates # <<>>
  /\ immediates' = Tail(immediates)
  /\ LET s == Head(immediates)
     IN IF scanning THEN PutBack(s) /\ UNCHANGED <<scans, scanning>>
        ELSE /\ scans' = [scans EXCEPT ![s].phase = "running"] /\ scanning' = TRUE
             /\ UNCHANGED pending

ScanInit ==
  /\ scans = [s \in Scans |-> NoScan] /\ scanning = FALSE
  /\ pending = <<>> /\ immediates = <<>>

ScanNext ==
  \/ \E s \in Scans, a \in Accounts : Scan(s, a) \/ Enqueue(s, a)
  \/ \E s \in Scans : Finish(s)
  \/ TakeTurn

ScanSpec == ScanInit /\ [][ScanNext]_scanVars
FairScanSpec == ScanSpec /\ WF_scanVars(TakeTurn) /\ \A s \in Scans : WF_scanVars(Finish(s))

-----------------------------------------------------------------------------
\* One scan holds the lock, and a turn that was booked is kept until it begins: a scan
\* waits in one place, and what waits always has something that will start it.
TurnsAreKept ==
  /\ scanning <=> \E s \in Scans : scans[s].phase = "running"
  /\ \A s, t \in Scans : scans[s].phase = "running" /\ scans[t].phase = "running" => s = t
  /\ \A s \in Scans : scans[s].phase = "starting" => In(s, pending \o immediates)
  /\ \A i, j \in DOMAIN (pending \o immediates) :
       (pending \o immediates)[i] = (pending \o immediates)[j] => i = j
  /\ pending # <<>> => scanning \/ immediates # <<>>

\* A scan that was booked runs and ends.
BookedScanRuns == \A s \in Scans : scans[s].phase = "starting" ~> scans[s].phase = "ended"
=============================================================================
