-------------------------- MODULE ConnectorIngest ---------------------------
(***************************************************************************)
(* What a sync makes of the mail it reads: ingestStream of                 *)
(* server/connectors/ingest.ts, for connectors of one owner and one kind.  *)
(*                                                                         *)
(* A run takes the other connectors' names and the contacts' addresses at  *)
(* its start, then reads its mailbox in transactions and saves its cursor  *)
(* at the end.  It can be lost between any two, and a mail can be read     *)
(* again.  A mail of a contact goes on the timeline, with the others of    *)
(* the day; the sender of any other is counted, and becomes a suggested    *)
(* contact, a ghost.  All mails here are of one day.                       *)
(***************************************************************************)
EXTENDS Integers, Sequences, FiniteSets

CONSTANTS
  Mailboxes,    \* the connectors
  First,        \* those that exist from the start
  Mails,        \* bound: 1..Mails are the mails there will be
  From, People, \* who sent each
  Anew,         \* bound: the connectors whose server may give its list anew
  Reached,      \* bound: the sets of mailboxes a mail arrives in
  Deleted,      \* bound: the entries the owner deletes
  GhostThreshold,
  NoIngest

ASSUME IngestAssumption ==
  /\ First \subseteq Mailboxes /\ IsFiniteSet(Mailboxes) /\ Mails \in Nat
  /\ From \in [1..Mails -> People] /\ GhostThreshold \in Nat \ {0}
  /\ Anew \subseteq Mailboxes /\ Reached \subseteq SUBSET Mailboxes /\ Deleted \subseteq Mailboxes \X (1..Mails)

VARIABLES
  box,          \* each server's mails, in order
  sent,         \* how many mails there are
  present,      \* the connectors that exist
  saved,        \* the cursors: how many of a box's mails were read
  ingest,       \* each connector's run, or NoIngest
  link,         \* kind 'interaction': what each connector made of a mail
  rollup,       \* kind 'rollup': the entry of a contact's day
  correspondent,\* kind 'correspondent': a stranger's count
  timeline,     \* the mails in each entry
  contacts      \* the people the owner's contacts have the address of

ingestVars == <<box, sent, present, saved, ingest, link, rollup, correspondent, timeline, contacts>>

Mail == 1..Mails
\* An entry is named by the link that made it; the other links are tuples too.
Entries == Mailboxes \X Mail
Unread == <<>>
NoContact == <<"no contact">>

IngestTypeOK ==
  /\ box \in [Mailboxes -> Seq(Mail)] /\ sent \in 0..Mails /\ present \subseteq Mailboxes
  /\ saved \in [Mailboxes -> 0..Mails]
  /\ ingest \in [Mailboxes -> [read : 0..Mails, listed : 0..Mails, siblings : SUBSET Mailboxes, knows : SUBSET People]
                                \cup {NoIngest}]
  /\ link \in [Mailboxes -> [Mail -> Entries \cup {Unread, NoContact}]]
  /\ rollup \in [Mailboxes -> [People -> Entries \cup {Unread}]]
  /\ correspondent \in [Mailboxes -> [People -> [seen : 0..Mails, ghost : BOOLEAN, ignored : BOOLEAN]]]
  /\ \A e \in DOMAIN timeline : e \in Entries /\ timeline[e] \in Seq(Mail)
  /\ contacts \subseteq People

\* A run starts: after the cursor, or at the first mail when the server gives its list
\* anew, as a calendar feed always does.
StartIngest(k) ==
  /\ k \in present /\ ingest[k] = NoIngest
  /\ \E from \in {saved[k]} \cup (IF k \in Anew THEN {0} ELSE {}) :
       ingest' = [ingest EXCEPT ![k] = [read |-> from, listed |-> Len(box[k]),
                                        siblings |-> present \ {k}, knows |-> contacts]]
  /\ UNCHANGED <<box, sent, present, saved, link, rollup, correspondent, timeline, contacts>>

\* The entries that siblings link a mail to.  Variant: they are not asked.
SharedNone(k, m) == {}
Shared(k, m) == {link[s][m] : s \in ingest[k].siblings} \cap Entries

\* Whether the mail's sender was counted, here or by a sibling.
Counted(k, m) == \E s \in ingest[k].siblings \cup {k} : link[s][m] = NoContact

\* processSingleEvent, each mail in a transaction of its own: a batch is several in a row.
Process(k, m, entry) ==
  /\ link' = [link EXCEPT ![k][m] = entry]
  /\ UNCHANGED <<box, sent, present, saved>>

IsNext(k, m) ==
  ingest[k] # NoIngest /\ ingest[k].read < ingest[k].listed /\ m = box[k][ingest[k].read + 1]

Reads(k, learnt) == ingest' = [ingest EXCEPT ![k].read = @ + 1, ![k].knows = @ \cup learnt]

Skip(k, m) ==
  /\ IsNext(k, m) /\ link[k][m] \in Entries
  /\ Process(k, m, link[k][m]) /\ Reads(k, {})
  /\ UNCHANGED <<rollup, correspondent, timeline, contacts>>

\* The mail came through a sibling already.
Share(k, m) ==
  /\ IsNext(k, m) /\ link[k][m] \notin Entries
  /\ \E e \in Shared(k, m) : Process(k, m, e) /\ Reads(k, {})
  /\ UNCHANGED <<rollup, correspondent, timeline, contacts>>

Matches(k, m) ==
  IsNext(k, m) /\ link[k][m] \notin Entries /\ Shared(k, m) = {} /\ From[m] \in ingest[k].knows

\* The first mail of a contact's day makes an entry.
Log(k, m) ==
  /\ Matches(k, m) /\ rollup[k][From[m]] = Unread
  /\ Process(k, m, <<k, m>>) /\ Reads(k, {})
  /\ rollup' = [rollup EXCEPT ![k][From[m]] = <<k, m>>]
  /\ timeline' = [e \in DOMAIN timeline \cup {<<k, m>>} |-> IF e = <<k, m>> THEN <<m>> ELSE timeline[e]]
  /\ UNCHANGED <<correspondent, contacts>>

\* The others of the day join it, even when the owner deleted it since.
RollUp(k, m) ==
  LET day == rollup[k][From[m]]
  IN /\ Matches(k, m) /\ day # Unread
     /\ Process(k, m, day) /\ Reads(k, {})
     /\ timeline' = [e \in DOMAIN timeline |-> IF e = day THEN Append(timeline[e], m) ELSE timeline[e]]
     /\ UNCHANGED <<rollup, correspondent, contacts>>

\* A stranger is counted by each connector for itself, and is suggested at the threshold.
Count(k, m) ==
  LET row == correspondent[k][From[m]]
      suggested == ~row.ignored /\ ~row.ghost /\ row.seen + 1 >= GhostThreshold
      ghost == IF suggested THEN {From[m]} ELSE {}
  IN /\ IsNext(k, m) /\ link[k][m] \notin Entries /\ Shared(k, m) = {} /\ From[m] \notin ingest[k].knows
     /\ Process(k, m, NoContact)
     /\ IF Counted(k, m) THEN Reads(k, {}) /\ UNCHANGED <<correspondent, contacts>>
        ELSE /\ correspondent' = [correspondent EXCEPT ![k][From[m]] =
                  [row EXCEPT !.seen = @ + 1, !.ghost = @ \/ suggested]]
             /\ contacts' = contacts \cup ghost /\ Reads(k, ghost)
     /\ UNCHANGED <<rollup, timeline>>

\* Variant: the cursor is saved as the mail is listed, before it is read.
EndIngestFirst(k) ==
  /\ ingest[k] # NoIngest
  /\ saved' = [saved EXCEPT ![k] = ingest[k].listed]
  /\ ingest' = [ingest EXCEPT ![k] = NoIngest]
  /\ UNCHANGED <<box, sent, present, link, rollup, correspondent, timeline, contacts>>

\* The cursor is saved once every mail of the list was read.
EndIngest(k) ==
  /\ ingest[k] # NoIngest /\ ingest[k].read = ingest[k].listed
  /\ saved' = [saved EXCEPT ![k] = ingest[k].listed]
  /\ ingest' = [ingest EXCEPT ![k] = NoIngest]
  /\ UNCHANGED <<box, sent, present, link, rollup, correspondent, timeline, contacts>>

\* An error, an abort or a crash: what was written stays.
LoseIngest(k) ==
  /\ ingest[k] # NoIngest
  /\ ingest' = [ingest EXCEPT ![k] = NoIngest]
  /\ UNCHANGED <<box, sent, present, saved, link, rollup, correspondent, timeline, contacts>>

-----------------------------------------------------------------------------
\* A mail reaches some of the mailboxes.
Deliver(ks) ==
  /\ sent < Mails /\ ks # {}
  /\ sent' = sent + 1
  /\ box' = [k \in Mailboxes |-> IF k \in ks THEN Append(box[k], sent + 1) ELSE box[k]]
  /\ UNCHANGED <<present, saved, ingest, link, rollup, correspondent, timeline, contacts>>

Add(k) ==
  /\ k \notin present
  /\ present' = present \cup {k}
  /\ UNCHANGED <<box, sent, saved, ingest, link, rollup, correspondent, timeline, contacts>>

\* The owner saves a contact, or deletes an entry from the timeline.
SaveContact(p) ==
  /\ p \notin contacts
  /\ contacts' = contacts \cup {p}
  /\ UNCHANGED <<box, sent, present, saved, ingest, link, rollup, correspondent, timeline>>

DeleteEntry(e) ==
  /\ e \in DOMAIN timeline
  /\ timeline' = [x \in DOMAIN timeline \ {e} |-> timeline[x]]
  /\ UNCHANGED <<box, sent, present, saved, ingest, link, rollup, correspondent, contacts>>

\* listCorrespondents: one line for a person, of the connector that saw them most.
Listed(k, p) ==
  /\ k \in present /\ p \notin contacts
  /\ correspondent[k][p].seen > 0 /\ ~correspondent[k][p].ghost
  /\ \A j \in present : ~correspondent[j][p].ignored
  /\ \A j \in present : correspondent[j][p].ghost \/ correspondent[j][p].seen <= correspondent[k][p].seen

\* The line's connector is the one told.
Ignore(k, p) ==
  /\ Listed(k, p)
  /\ correspondent' = [correspondent EXCEPT ![k][p].ignored = TRUE]
  /\ UNCHANGED <<box, sent, present, saved, ingest, link, rollup, timeline, contacts>>

IngestInit ==
  /\ box = [k \in Mailboxes |-> <<>>] /\ sent = 0 /\ present = First
  /\ saved = [k \in Mailboxes |-> 0] /\ ingest = [k \in Mailboxes |-> NoIngest]
  /\ link = [k \in Mailboxes |-> [m \in Mail |-> Unread]]
  /\ rollup = [k \in Mailboxes |-> [p \in People |-> Unread]]
  /\ correspondent = [k \in Mailboxes |-> [p \in People |-> [seen |-> 0, ghost |-> FALSE, ignored |-> FALSE]]]
  /\ timeline = <<>> /\ contacts = {}

IngestNext ==
  \/ \E ks \in Reached : Deliver(ks)
  \/ \E k \in Mailboxes : StartIngest(k) \/ EndIngest(k) \/ LoseIngest(k) \/ Add(k)
  \/ \E k \in Mailboxes, m \in Mail : Skip(k, m) \/ Share(k, m) \/ Log(k, m) \/ RollUp(k, m) \/ Count(k, m)
  \/ \E p \in People : SaveContact(p) \/ \E k \in Mailboxes : Ignore(k, p)
  \/ \E e \in Deleted : DeleteEntry(e)

IngestSpec == IngestInit /\ [][IngestNext]_ingestVars

-----------------------------------------------------------------------------
(***************************************************************************)
(* Properties.                                                             *)
(***************************************************************************)
\* A run that does not know of a connector added since.
Stale(k) == ingest[k] # NoIngest /\ present # ingest[k].siblings \cup {k}

\* Where a mail stands: an entry, and its place there.
Places(m) ==
  {at \in Entries \X Mail :
     at[1] \in DOMAIN timeline /\ at[2] \in DOMAIN timeline[at[1]] /\ timeline[at[1]][at[2]] = m}

\* A mail that reached two mailboxes, or was read again after a lost run or from a list
\* given anew, is on the timeline once: no step that sees all the connectors adds a second
\* place.
LoggedOnce ==
  [][timeline' = timeline \/ \A m \in Mail :
       Cardinality(Places(m)') > 1 => Places(m)' \subseteq Places(m) \/ \E k \in Mailboxes : Stale(k)]_ingestVars

\* No mail before a cursor was left unread, whatever was lost, and none was counted
\* twice: a suggested contact wrote as many mails as the owner asks for.
MailsOf(p) == Cardinality({m \in 1..sent : From[m] = p})
EachMailCountsOnce ==
  \A k \in Mailboxes :
    /\ \A i \in 1..saved[k] : link[k][box[k][i]] # Unread
    /\ \A p \in People : correspondent[k][p].seen <= MailsOf(p)
                        /\ (correspondent[k][p].ghost => MailsOf(p) >= GhostThreshold)

\* "They do not come back, and they never become a ghost."
IgnoredForGood ==
  [][\A p \in People : (\E k \in Mailboxes : correspondent[k][p].ignored) =>
       \A k \in Mailboxes : correspondent[k][p].ghost = correspondent'[k][p].ghost]_ingestVars
=============================================================================
