---------------------------- MODULE EventDelivery -----------------------------
(***************************************************************************)
(* What the outbox promises, without transactions, rounds or tries: every  *)
(* subscriber is given what was published since it joined, one event after *)
(* the other and each once, from a place that goes back only to where it   *)
(* was saved.  An event may be dropped instead, but it has its turn.       *)
(* Events expire when every subscriber has saved a place past them, and    *)
(* those of a deleted owner go at once.                                    *)
(***************************************************************************)
EXTENDS Integers

CONSTANTS Subscribers, Takes

VARIABLES
  events,    \* what was published, by id
  expired,   \* ids that were removed for their age
  deleted,   \* owners whose events are gone
  joined,    \* the subscribers there are
  place,     \* the id each subscriber got to
  saved,     \* and from which it goes on after a crash
  given, dropped   \* what each subscriber was given, and what was given up for it

vars == <<events, expired, deleted, joined, place, saved, given, dropped>>

Kept == {e \in DOMAIN events \ expired : events[e].owner \notin deleted}
Ahead(s) == {e \in Kept : e > place[s] /\ events[e].kind \in Takes[s]}

Init ==
  /\ DOMAIN events = {} /\ expired = {} /\ deleted = {} /\ joined = {}
  /\ place = [s \in Subscribers |-> 0] /\ saved = place
  /\ given = [s \in Subscribers |-> {}] /\ dropped = given

\* Nothing that was published changes or goes.
Grows == DOMAIN events \subseteq DOMAIN events' /\ \A e \in DOMAIN events : events'[e] = events[e]

Publish == Grows /\ UNCHANGED <<expired, deleted, joined, place, saved, given, dropped>>

Moves(s, n) == s \in joined /\ n > place[s] /\ place' = [place EXCEPT ![s] = n]

\* The next event has its turn; the subscriber may publish while it has it.
Deliver(s) ==
  /\ \E e \in DOMAIN events :
       /\ Moves(s, e) /\ e \in Ahead(s) /\ \A d \in Ahead(s) : e <= d
       /\ \/ given' = [given EXCEPT ![s] = @ \cup {e}] /\ UNCHANGED dropped
          \/ dropped' = [dropped EXCEPT ![s] = @ \cup {e}] /\ UNCHANGED given
  /\ Grows /\ UNCHANGED <<expired, deleted, joined, saved>>

\* Events it does not take, or that are gone, are passed over.
PassOver(s) ==
  /\ \E n \in DOMAIN events : Moves(s, n) /\ \A e \in Ahead(s) : e > n
  /\ UNCHANGED <<events, expired, deleted, joined, saved, given, dropped>>

Save == saved' = place /\ UNCHANGED <<events, expired, deleted, joined, place, given, dropped>>

Lose == place' = saved /\ UNCHANGED <<events, expired, deleted, joined, saved, given, dropped>>

\* Whoever joins begins past everything there is.
Join ==
  /\ joined \subseteq joined' /\ joined' # joined
  /\ \E n \in {0} \cup DOMAIN events :
       LET Begins(from) == [s \in Subscribers |-> IF s \in joined' \ joined THEN n ELSE from[s]]
       IN  /\ \A e \in Kept : e <= n
           /\ place' = Begins(place) /\ saved' = Begins(saved)
  /\ UNCHANGED <<events, expired, deleted, given, dropped>>

Expire ==
  /\ \E n \in DOMAIN events : expired' = expired \cup 1 .. n /\ \A s \in joined : n <= saved[s]
  /\ UNCHANGED <<events, deleted, joined, place, saved, given, dropped>>

Delete ==
  /\ deleted \subseteq deleted'
  /\ UNCHANGED <<events, expired, joined, place, saved, given, dropped>>

Next ==
  \/ Publish \/ Save \/ Lose \/ Join \/ Expire \/ Delete
  \/ \E s \in Subscribers : Deliver(s) \/ PassOver(s)

Spec == Init /\ [][Next]_vars
=============================================================================
