------------------------------ MODULE Notifier ------------------------------
(***************************************************************************)
(* Desktop notifications: internal/notify/notify.go, between the sync      *)
(* loops that call it and the notification daemon on the session bus.      *)
(*                                                                         *)
(* A loop shows the notifications of a batch one after the other; each is  *)
(* a call of the daemon, which answers with an id, and then a store of the *)
(* id in `pending'.  Meanwhile the daemon's signals, about notifications   *)
(* of every program, are handled by a goroutine of its own.  The daemon    *)
(* (external) may be restarted: its notifications vanish without a signal  *)
(* and its ids begin anew.                                                 *)
(*                                                                         *)
(* Abstraction.  A notification is its place in `shown', which lists all   *)
(* that were ever shown; texts, hints and malformed signals are left out.  *)
(***************************************************************************)
EXTENDS Integers, FiniteSets, SequencesExt

CONSTANTS
  Loop,        \* the callers
  Other,       \* a program that shows notifications too
  Batches,     \* sizes of a pass's new mail
  MaxShown,    \* bound: notifications ever shown
  MaxRestarts  \* bound: restarts of the daemon

VARIABLES
  conn,      \* "none", "up" (cached), "dead" (cached, and the bus has gone)
  todo,      \* [Loop -> Nat]: notifications of the batch still to show
  id,        \* [Loop -> Nat]: the answer of Notify, 0 before it
  pending,   \* the ids whose signals are ours
  signals,   \* signals sent and not handled, in order
  epoch,     \* restarts of the daemon
  shown,     \* every notification: owner, id, epoch, open
  clicked,   \* those the user clicked
  handled,   \* those whose click handleSignals has seen
  activated, \* [1..MaxShown -> Nat]: calls of onActivate
  early      \* those whose click was handled before their id was stored

vars == <<conn, todo, id, pending, signals, epoch, shown, clicked, handled, activated, early>>

Shown == DOMAIN shown
IdOf(k) == shown[k].id
Open(k) == k \in Shown /\ shown[k].open
NextId == 1 + Cardinality({k \in Shown : shown[k].epoch = epoch})

Init ==
  /\ conn = "none"
  /\ todo = [l \in Loop |-> 0] /\ id = [l \in Loop |-> 0]
  /\ pending = {} /\ signals = <<>> /\ epoch = 0
  /\ shown = <<>> /\ clicked = {} /\ handled = {} /\ early = {}
  /\ activated = [k \in 1..MaxShown |-> 0]

(* Batch: one each for three messages or less, one for all of more. *)
Batch(n) == IF n > 3 THEN 1 ELSE n

(* NotifyNewMail is called; Test shows one. *)
NotifyNewMail(l) ==
  /\ todo[l] = 0 /\ id[l] = 0
  /\ \E n \in Batches : todo' = [todo EXCEPT ![l] = Batch(n)]
  /\ UNCHANGED <<conn, id, pending, signals, epoch, shown, clicked, handled, activated, early>>

(* Show with connect: the connection is made once and never replaced; the  *)
(* notification is dropped if there is none or the call fails.             *)
ShowFails(l) ==
  /\ todo[l] > 0 /\ id[l] = 0
  /\ todo' = [todo EXCEPT ![l] = @ - 1]
  /\ UNCHANGED <<conn, id, pending, signals, epoch, shown, clicked, handled, activated, early>>

Put(owner) ==
  shown' = Append(shown, [owner |-> owner, id |-> NextId, epoch |-> epoch, open |-> TRUE])

Show(l) ==
  /\ todo[l] > 0 /\ id[l] = 0 /\ conn # "dead"
  /\ Len(shown) < MaxShown
  /\ conn' = "up"
  /\ Put(l)
  /\ id' = [id EXCEPT ![l] = NextId]
  /\ UNCHANGED <<todo, pending, signals, epoch, clicked, handled, activated, early>>

(* The end of Show: n.pending[id] = struct{}{} under n.mu. *)
Record(l) ==
  /\ id[l] # 0
  /\ pending' = pending \union {id[l]}
  /\ id' = [id EXCEPT ![l] = 0]
  /\ todo' = [todo EXCEPT ![l] = @ - 1]
  /\ UNCHANGED <<conn, signals, epoch, shown, clicked, handled, activated, early>>

BusDies ==
  /\ conn = "up"
  /\ conn' = "dead" /\ signals' = <<>>
  /\ UNCHANGED <<todo, id, pending, epoch, shown, clicked, handled, activated, early>>

-----------------------------------------------------------------------------
(* The daemon, the user and the other program. *)
OtherShows ==
  /\ Len(shown) < MaxShown
  /\ Put(Other)
  /\ UNCHANGED <<conn, todo, id, pending, signals, epoch, clicked, handled, activated, early>>

Send(sigs) == signals' = IF conn = "up" THEN signals \o sigs ELSE signals

Click(k) ==
  /\ Open(k)
  /\ shown' = [shown EXCEPT ![k].open = FALSE]
  /\ clicked' = clicked \union {k}
  /\ Send(<<[name |-> "ActionInvoked", of |-> k], [name |-> "NotificationClosed", of |-> k]>>)
  /\ UNCHANGED <<conn, todo, id, pending, epoch, handled, activated, early>>

Close(k) ==
  /\ Open(k)
  /\ shown' = [shown EXCEPT ![k].open = FALSE]
  /\ Send(<<[name |-> "NotificationClosed", of |-> k]>>)
  /\ UNCHANGED <<conn, todo, id, pending, epoch, clicked, handled, activated, early>>

DaemonRestarts ==
  /\ epoch < MaxRestarts
  /\ epoch' = epoch + 1
  /\ shown' = [k \in Shown |-> [shown[k] EXCEPT !.open = FALSE]]
  /\ UNCHANGED <<conn, todo, id, pending, signals, clicked, handled, activated, early>>

-----------------------------------------------------------------------------
(* The caller that showed k is between the answer and the store. *)
NotYetStored(k) == \E l \in Loop : shown[k].owner = l /\ id[l] = IdOf(k)

(* The daemon signals to every program: only the ids of `pending' count. *)
OursOrNot(i) == TRUE
Ours(i) == i \in pending

(* One signal in handleSignals. *)
HandleSignal ==
  /\ signals # <<>>
  /\ signals' = Tail(signals)
  /\ LET sig == Head(signals)
         k   == sig.of
         ours == Ours(IdOf(k))
         acts == sig.name = "ActionInvoked"
     IN /\ pending' = pending \ {IdOf(k)}
        /\ activated' = [activated EXCEPT ![k] = @ + (IF ours /\ acts THEN 1 ELSE 0)]
        /\ handled' = IF acts THEN handled \union {k} ELSE handled
        /\ early' = IF acts /\ NotYetStored(k) THEN early \union {k} ELSE early
  /\ UNCHANGED <<conn, todo, id, epoch, shown, clicked>>

Next ==
  \/ \E l \in Loop : NotifyNewMail(l) \/ ShowFails(l) \/ Show(l) \/ Record(l)
  \/ BusDies \/ OtherShows \/ DaemonRestarts \/ HandleSignal
  \/ \E k \in Shown : Click(k) \/ Close(k)

Spec == Init /\ [][Next]_vars

-----------------------------------------------------------------------------
TypeOK ==
  /\ conn \in {"none", "up", "dead"}
  /\ \A l \in Loop : todo[l] \in 0..3 /\ id[l] \in 0..MaxShown
  /\ pending \subseteq 1..MaxShown
  /\ signals \in Seq([name : {"ActionInvoked", "NotificationClosed"}, of : Shown])
  /\ epoch \in 0..MaxRestarts /\ Len(shown) <= MaxShown
  /\ clicked \subseteq Shown /\ handled \subseteq clicked /\ early \subseteq handled
  /\ activated \in [1..MaxShown -> Nat]

(* A restart of the daemon has given the id of k twice. *)
Reused(k) == \E j \in Shown \ {k} : IdOf(j) = IdOf(k)

(* The window is brought forward once for every click on a notification    *)
(* of ours, and for nothing else, however many loops show them and other   *)
(* programs' are clicked -- save a click handled before Show has stored    *)
(* the id, which is lost, and an id given twice, whose signals are taken   *)
(* for the wrong notification's.                                           *)
ClickActivates ==
  \A k \in Shown : ~Reused(k) =>
    /\ activated[k] <= 1
    /\ activated[k] = 1 => k \in clicked /\ shown[k].owner # Other
    /\ k \in handled \ early /\ shown[k].owner # Other => activated[k] = 1
=============================================================================
