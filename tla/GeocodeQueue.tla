---------------------------- MODULE GeocodeQueue ----------------------------
(***************************************************************************)
(* How contacts get their pins: server/services/geocoding/, with the       *)
(* contacts.geocode subscriber and the writes of contactService.ts that    *)
(* move or release a pin.                                                  *)
(*                                                                         *)
(* One lookup at a time leaves the server.  While it does, the contact's   *)
(* address can change, its pin can be placed by hand, other contacts with  *)
(* the same address can be queued, and lookups can be turned off.  A place *)
(* is the key of the address it was found for.                             *)
(***************************************************************************)
EXTENDS Integers, Sequences, FiniteSets, Functions

CONSTANTS
  Contacts,
  Keys,         \* normalized addresses
  LivesAt,      \* bound: the addresses a contact takes, and whether it loses its address
  Placed,       \* bound: the contacts whose pin the owner places
  Searched,     \* bound: the addresses looked up on the map
  Nowhere       \* no address, no pin, no task

ASSUME GeoAssumption == LivesAt \in [Contacts -> SUBSET (Keys \cup {Nowhere})] /\ Placed \subseteq Contacts /\ Searched \subseteq Keys /\ Nowhere \notin Keys

VARIABLES
  address, pin, manual,  \* the rows: the address, whose place the pin is at, and who placed it
  event,        \* the address change the subscriber has not read: "moved" or "released"
  cache,        \* what the server knows of a key, for a week: "unknown", "found" or "failed"
  queue, latest,\* geocodeQueue and latestKeyByContact
  asking,       \* the task whose lookup is out
  waits,        \* whether the drain waits after no answer
  off,          \* lookups are off
  wereOff,      \* history: they were, since the start
  lapsed        \* history: who had no task when what was known of their address lapsed

geoVars == <<address, pin, manual, event, cache, queue, latest, asking, waits, off, wereOff, lapsed>>

Task == [contact : Contacts, key : Keys]
ASSUME TaskAssumption == Nowhere \notin Task
Maybe(S) == S \cup {Nowhere}

GeoTypeOK ==
  /\ {address, pin, latest} \subseteq [Contacts -> Maybe(Keys)] /\ manual \in [Contacts -> BOOLEAN]
  /\ event \in [Contacts -> {"no", "moved", "released"}]
  /\ cache \in [Keys -> {"unknown", "found", "failed"}]
  /\ queue \in Seq(Task) /\ asking \in Maybe(Task)
  /\ {waits, off, wereOff} \subseteq BOOLEAN /\ lapsed \subseteq Contacts

Draining == queue # <<>> \/ asking # Nowhere \/ waits

\* writeGeocoded: never over a pin placed by hand.
PinsOf(cs, k) == [c \in Contacts |-> IF c \in cs /\ ~manual[c] THEN k ELSE pin[c]]

-----------------------------------------------------------------------------
\* The tasks that are not among `out`, in their order.
Without(tasks, out) ==
  LET left[n \in 0 .. Len(tasks)] ==
        IF n = 0 THEN <<>> ELSE IF tasks[n] \in out THEN left[n - 1] ELSE Append(left[n - 1], tasks[n])
  IN  left[Len(tasks)]

Of(c) == [contact : {c}, key : Keys]
For(k) == [contact : Contacts, key : {k}]

\* queueGeocode: what waits for the contact goes; a known place is the pin at once.
Queues(c, k) ==
  LET left == Without(queue, Of(c))
      asks == cache[k] = "unknown" /\ ~off
  IN /\ latest' = [latest EXCEPT ![c] = IF asks THEN k ELSE Nowhere]
     /\ queue' = IF asks THEN Append(left, [contact |-> c, key |-> k]) ELSE left
     /\ lapsed' = lapsed \ {c}

Queued(c, k) == Queues(c, k) /\ pin' = IF cache[k] = "found" THEN PinsOf({c}, k) ELSE pin

\* contacts.geocode reads the contact as it is now.
Subscriber(c) ==
  /\ event[c] # "no"
  /\ event' = [event EXCEPT ![c] = "no"]
  /\ IF manual[c] THEN UNCHANGED <<pin, manual, queue, latest, lapsed>>
     ELSE IF address[c] # Nowhere THEN Queued(c, address[c]) /\ UNCHANGED manual
     ELSE /\ queue' = Without(queue, Of(c))
          /\ latest' = [latest EXCEPT ![c] = Nowhere]
          /\ manual' = [manual EXCEPT ![c] = event[c] = "released"]
          /\ pin' = IF event[c] = "released" THEN pin ELSE [pin EXCEPT ![c] = Nowhere]
          /\ UNCHANGED lapsed
  /\ UNCHANGED <<address, cache, asking, waits, off, wereOff>>

\* An edit of the address gives a pin placed by hand back to the geocoder.
SetAddress(c, k) ==
  /\ address[c] # k
  /\ address' = [address EXCEPT ![c] = k]
  /\ manual' = [manual EXCEPT ![c] = FALSE]
  /\ event' = [event EXCEPT ![c] = IF manual[c] \/ @ = "released" THEN "released" ELSE "moved"]
  /\ lapsed' = lapsed \ {c}
  /\ UNCHANGED <<pin, cache, queue, latest, asking, waits, off, wereOff>>

\* The owner drops the pin somewhere, which is no key's place.
SetLocation(c) ==
  /\ manual' = [manual EXCEPT ![c] = TRUE] /\ pin' = [pin EXCEPT ![c] = Nowhere]
  /\ UNCHANGED <<address, event, cache, queue, latest, asking, waits, off, wereOff, lapsed>>

\* regeocode takes the pin off and queues the address in one go.
Regeocode(c) ==
  /\ address[c] # Nowhere
  /\ manual' = [manual EXCEPT ![c] = FALSE]
  /\ Queues(c, address[c])
  /\ pin' = [pin EXCEPT ![c] = IF cache[address[c]] = "found" THEN address[c] ELSE Nowhere]
  /\ UNCHANGED <<address, event, cache, asking, waits, off, wereOff>>

-----------------------------------------------------------------------------
(***************************************************************************)
(* drainQueue.                                                             *)
(***************************************************************************)
\* The lookups are off: what waits is dropped.
Drop ==
  /\ queue # <<>> /\ asking = Nowhere /\ ~waits /\ off
  /\ queue' = <<>>
  /\ UNCHANGED <<address, pin, manual, event, cache, latest, asking, waits, off, wereOff, lapsed>>

\* A lookup goes out, unless the place is known by now.
Ask ==
  /\ queue # <<>> /\ asking = Nowhere /\ ~waits /\ ~off
  /\ LET task == Head(queue)
     IN /\ cache[task.key] # "found"
        /\ asking' = task /\ queue' = Tail(queue)
  /\ UNCHANGED <<address, pin, manual, event, cache, latest, waits, off, wereOff, lapsed>>

\* Those who wait for a place, its task's contact and the queued ones.
Wanting(task) == {c \in Contacts : latest[c] = task.key /\
  (c = task.contact \/ [contact |-> c, key |-> task.key] \in Range(queue))}

\* Variant: whoever the task was for gets the place.
ApplyAnyway(task) ==
  /\ pin' = PinsOf({task.contact}, task.key)
  /\ latest' = latest /\ queue' = Without(queue, For(task.key))

\* applyCoordinates: to those who still want it.
Apply(task) ==
  /\ pin' = PinsOf(Wanting(task), task.key)
  /\ latest' = [c \in Contacts |-> IF c \in Wanting(task) THEN Nowhere ELSE latest[c]]
  /\ queue' = Without(queue, For(task.key))

\* A place search found the task's place meanwhile.
ApplyKnown ==
  /\ queue # <<>> /\ asking = Nowhere /\ ~waits /\ ~off
  /\ cache[Head(queue).key] = "found"
  /\ Apply(Head(queue))
  /\ UNCHANGED <<address, manual, event, cache, asking, waits, off, wereOff, lapsed>>

Answered(k, answer) ==
  /\ asking # Nowhere /\ asking.key = k
  /\ cache' = [cache EXCEPT ![k] = answer]
  /\ asking' = Nowhere
  /\ UNCHANGED <<address, manual, event, waits, off, wereOff>>

\* Who is at an address and waits for no place.
LeftOut(k) == {c \in Contacts : address[c] = k /\ pin[c] = Nowhere /\ latest[c] # k}

\* A place that a queued twin was still asked for reaches none of those who were told of the failure.
Found(k) ==
  /\ Answered(k, "found") /\ Apply(asking)
  /\ lapsed' = IF cache[k] = "failed" THEN lapsed \cup LeftOut(k) ELSE lapsed

\* The others that wait for the same address stay queued.
NotFound(k) ==
  /\ Answered(k, "failed")
  /\ latest' = IF latest[asking.contact] = k THEN [latest EXCEPT ![asking.contact] = Nowhere] ELSE latest
  /\ UNCHANGED <<pin, queue, lapsed>>

\* Variant: a task without an answer is gone.
NoAnswerOnce ==
  /\ asking # Nowhere
  /\ asking' = Nowhere /\ waits' = TRUE
  /\ UNCHANGED <<address, pin, manual, event, cache, queue, latest, off, wereOff, lapsed>>

\* No answer: again after a wait, if the address is still the contact's.
NoAnswer ==
  /\ asking # Nowhere
  /\ queue' = IF latest[asking.contact] = asking.key THEN Append(queue, asking) ELSE queue
  /\ asking' = Nowhere /\ waits' = TRUE
  /\ UNCHANGED <<address, pin, manual, event, cache, latest, off, wereOff, lapsed>>

Wake ==
  /\ waits /\ waits' = FALSE
  /\ UNCHANGED <<address, pin, manual, event, cache, queue, latest, asking, off, wereOff, lapsed>>

-----------------------------------------------------------------------------
\* isRecentFailure: a week after it, a failure says nothing, and nothing is queued for it.
FailureLapses(k) ==
  /\ cache[k] = "failed" /\ cache' = [cache EXCEPT ![k] = "unknown"]
  /\ lapsed' = lapsed \cup LeftOut(k)
  /\ UNCHANGED <<address, pin, manual, event, queue, latest, asking, waits, off, wereOff>>

\* pruneGeocodeCache: the row of an address that no contact has goes.
Prune(k) ==
  /\ cache[k] # "unknown" /\ \A c \in Contacts : address[c] # k
  /\ cache' = [cache EXCEPT ![k] = "unknown"]
  /\ UNCHANGED <<address, pin, manual, event, queue, latest, asking, waits, off, wereOff, lapsed>>

\* The map's place search answers for a key.
SearchPlace(k) ==
  /\ ~off /\ cache[k] = "unknown"
  /\ \E answer \in {"found", "failed"} : cache' = [cache EXCEPT ![k] = answer]
  /\ UNCHANGED <<address, pin, manual, event, queue, latest, asking, waits, off, wereOff, lapsed>>

\* bound: they are turned off once.
SetGeocodingOff(value) ==
  /\ value # off /\ (value => ~wereOff)
  /\ off' = value /\ wereOff' = (wereOff \/ value)
  /\ UNCHANGED <<address, pin, manual, event, cache, queue, latest, asking, waits, lapsed>>

GeoInit ==
  /\ address = [c \in Contacts |-> Nowhere] /\ pin = address /\ latest = address
  /\ manual = [c \in Contacts |-> FALSE] /\ event = [c \in Contacts |-> "no"]
  /\ cache = [k \in Keys |-> "unknown"] /\ queue = <<>> /\ asking = Nowhere /\ waits = FALSE
  /\ off = FALSE /\ wereOff = FALSE /\ lapsed = {}

GeoNext ==
  \/ \E c \in Placed : SetLocation(c)
  \/ \E c \in Contacts : Subscriber(c) \/ Regeocode(c)
                         \/ \E k \in LivesAt[c] : SetAddress(c, k)
  \/ Drop \/ Ask \/ ApplyKnown \/ NoAnswer \/ Wake
  \/ \E k \in Keys : Found(k) \/ NotFound(k) \/ FailureLapses(k) \/ Prune(k)
  \/ \E k \in Searched : SearchPlace(k)
  \/ \E value \in BOOLEAN : SetGeocodingOff(value)

GeoSpec == GeoInit /\ [][GeoNext]_geoVars

-----------------------------------------------------------------------------
\* A lookup's late answer moves no pin to an address its contact has left, unless that
\* change has not been read yet, and no pin that its owner placed.
PinFollowsAddress ==
  [][\A c \in Contacts : pin'[c] # pin[c] /\ pin'[c] # Nowhere =>
       /\ ~manual'[c]
       /\ pin'[c] = address[c] \/ event[c] # "no"]_geoVars

\* notOnMap: "pending", which the list shows as "Waiting for the geocoder".
SaidToWait(c) ==
  /\ address[c] # Nowhere /\ pin[c] = Nowhere /\ ~manual[c] /\ event[c] = "no"
  /\ cache[address[c]] # "failed" /\ ~off

IsAskedFor(c) == [contact |-> c, key |-> address[c]] \in Range(queue) \cup {asking}

\* "The task stays queued until an answer, so 'Waiting for the geocoder' is true": whoever is said
\* to wait has a task, lookups having been on, but for those whose address found nothing and of
\* whom nobody took note when that lapsed.
WaitingIsTrue == \A c \in Contacts : SaidToWait(c) /\ ~wereOff /\ c \notin lapsed => IsAskedFor(c)

\* The same without that exception, which the code does not keep: nothing queues an address again
\* when its failure lapses, or when a twin's task finds it after all, before the next start.
WaitingIsAlwaysTrue == \A c \in Contacts : SaidToWait(c) /\ ~wereOff => IsAskedFor(c)

\* "It does not try an address that found nothing again for seven days."
NotAskedAgain ==
  [][\A k \in Keys : asking' # Nowhere /\ asking'.key = k /\ asking' # asking => cache[k] # "failed"]_geoVars
=============================================================================
