--------------------------- MODULE PendingDeletes ---------------------------
(***************************************************************************)
(* The undo window before a delete: src/lib/pendingDeletes.ts of the       *)
(* client.                                                                 *)
(*                                                                         *)
(* A window ends when its toast closes, a timer runs out, the page hides,  *)
(* or by Undo.  The toast of an older window of the same item may still    *)
(* call back.  A request can fail on its way out or on its way back, and   *)
(* then the item shows again and can be deleted again.                     *)
(***************************************************************************)
EXTENDS Integers

CONSTANTS
  Items,        \* interactions and follow-ups
  Windows,      \* bound: the undo windows there will be
  NoWindow

ASSUME WindowAssumption == NoWindow \notin Windows /\ NoWindow \notin Items

VARIABLES
  entries,      \* each item's entry, which hides it: its window, or NoWindow
  window,       \* each window's item and status; `undone` and `failed` are out of entries
  armed,        \* the windows whose fallback timer is set
  removed,      \* the items the server deleted
  requests          \* history: how often each window's request went out

deleteVars == <<entries, window, armed, removed, requests>>

Unopened == [item |-> NoWindow, status |-> "unopened"]
WindowType == [item : Items, status : {"waiting", "sending", "deleted", "undone", "failed"}]

DeletesTypeOK ==
  /\ entries \in [Items -> Windows \cup {NoWindow}]
  /\ window \in [Windows -> WindowType \cup {Unopened}]
  /\ armed \subseteq Windows /\ removed \subseteq Items /\ requests \in [Windows -> Nat]

Opened == {w \in Windows : window[w] # Unopened}
IsWaiting(w) == w \in Opened /\ window[w].status = "waiting"
IsCurrent(w) == w \in Opened /\ entries[window[w].item] = w

\* send: the request starts in this call.
Send(ws) ==
  /\ window' = [w \in Windows |-> IF w \in ws THEN [window[w] EXCEPT !.status = "sending"] ELSE window[w]]
  /\ requests' = [w \in Windows |-> IF w \in ws THEN requests[w] + 1 ELSE requests[w]]
  /\ armed' = armed \ ws
  /\ UNCHANGED <<entries, removed>>

StartPendingDelete(i, w) ==
  /\ entries[i] = NoWindow /\ window[w] = Unopened
  /\ entries' = [entries EXCEPT ![i] = w]
  /\ window' = [window EXCEPT ![w] = [item |-> i, status |-> "waiting"]]
  /\ armed' = armed \cup {w}
  /\ UNCHANGED <<removed, requests>>

\* Variant: the end of a window does not ask what became of it.
EndWindowAnyway(w) == Send({w})

\* endWindow, which a toast may call more than once, and late.
EndWindow(w) == IsCurrent(w) /\ IsWaiting(w) /\ Send({w})

\* The toast's onAutoClose and onDismiss, and the fallback timer.
ToastCloses(w) == w \in Opened /\ EndWindow(w)
TimerRunsOut(w) == w \in armed /\ EndWindow(w)

Undo(w) ==
  /\ IsCurrent(w) /\ IsWaiting(w)
  /\ window' = [window EXCEPT ![w].status = "undone"]
  /\ entries' = [entries EXCEPT ![window[w].item] = NoWindow]
  /\ armed' = armed \ {w}
  /\ UNCHANGED <<removed, requests>>

\* flushPendingDeletes: every window that waits is sent.  The page may come back.
PageHides ==
  /\ \E w \in Windows : IsWaiting(w)
  /\ Send({w \in Windows : IsWaiting(w)})

\* The request arrives and is answered, or fails before or after it arrived.
DeleteEnds(w) ==
  /\ w \in Opened /\ window[w].status = "sending"
  /\ \/ /\ removed' = removed \cup {window[w].item}
        /\ window' = [window EXCEPT ![w].status = "deleted"] /\ UNCHANGED entries
     \/ /\ removed' \in {removed, removed \cup {window[w].item}}
        /\ window' = [window EXCEPT ![w].status = "failed"]
        /\ entries' = IF IsCurrent(w) THEN [entries EXCEPT ![window[w].item] = NoWindow] ELSE entries
  /\ UNCHANGED <<armed, requests>>

DeletesInit ==
  /\ entries = [i \in Items |-> NoWindow] /\ window = [w \in Windows |-> Unopened]
  /\ armed = {} /\ removed = {} /\ requests = [w \in Windows |-> 0]

DeletesNext ==
  \/ \E i \in Items, w \in Windows : StartPendingDelete(i, w)
  \/ \E w \in Windows : ToastCloses(w) \/ TimerRunsOut(w) \/ Undo(w) \/ DeleteEnds(w)
  \/ PageHides

DeletesSpec == DeletesInit /\ [][DeletesNext]_deleteVars

-----------------------------------------------------------------------------
(***************************************************************************)
(* Properties.                                                             *)
(***************************************************************************)
\* An item is hidden while and only while a delete of it waits, is out or was done, one
\* at a time; a window sends once and never after its Undo; and an item is removed only
\* if a window of it sent its request.
DeletesGoOnce ==
  /\ \A i \in Items : {w \in Opened : window[w].item = i /\ window[w].status \in {"waiting", "sending", "deleted"}}
                      = {entries[i]} \ {NoWindow}
  /\ \A w \in Opened : requests[w] = IF window[w].status \in {"waiting", "undone"} THEN 0 ELSE 1
  /\ armed = {w \in Opened : window[w].status = "waiting"}
  /\ \A i \in removed : \E w \in Opened : window[w].item = i /\ requests[w] = 1
=============================================================================
