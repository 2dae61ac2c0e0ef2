---------------------------- MODULE CachedFolder ----------------------------
(***************************************************************************)
(* What the local store promises of one folder, with no goroutine, no      *)
(* session and no command: its rows are a window on the mailbox.  The      *)
(* window grows at its upper end and skips nothing there; a row keeps its  *)
(* message as long as it is there; it goes alone only when its message has *)
(* left the mailbox, and all rows go when the mailbox was numbered anew;   *)
(* and a message is notified at most once, after its row was written.      *)
(*                                                                         *)
(* FolderSync, IdleLoop and MessageActions implement it, each with the     *)
(* steps its own questions need and the others leave out.                  *)
(***************************************************************************)
EXTENDS Integers

VARIABLES
  box,    \* the mailbox: UID -> message
  high,   \* UIDs up to this one were assigned
  epoch,  \* UIDVALIDITY
  rows,   \* the folder's rows: UID -> message
  valid,  \* the UIDVALIDITY they were read under, 0 before the first
  fresh,  \* messages stored and to be notified
  shown   \* messages notified under that UIDVALIDITY

mailbox == <<box, high, epoch>>
vars    == <<mailbox, rows, valid, fresh, shown>>

Current == valid = epoch

Agree(f, g) == \A u \in DOMAIN f \intersect DOMAIN g : f[u] = g[u]

Init ==
  /\ \A u \in DOMAIN box : u <= high
  /\ DOMAIN rows = {} /\ valid \in {0, epoch} /\ fresh = {} /\ shown = {}

-----------------------------------------------------------------------------
(* The mailbox *)

\* Messages come, each under a UID that was never assigned before, and go.
Change ==
  /\ high <= high' /\ epoch' = epoch
  /\ Agree(box, box')
  /\ \A u \in DOMAIN box' \ DOMAIN box : high < u /\ u <= high'
  /\ UNCHANGED <<rows, valid, fresh, shown>>

\* All are numbered anew.
Rebuild ==
  /\ epoch < epoch'
  /\ \A u \in DOMAIN box' : u <= high'
  /\ UNCHANGED <<rows, valid, fresh, shown>>

-----------------------------------------------------------------------------
(* The store *)

\* No message that a later fetch would have to look for below a row is left out
\* by the rows w.
SkipsNothing(w, new) ==
  \A u \in DOMAIN box \ DOMAIN w :
    (\E v \in new : u < v) => \A v \in DOMAIN w : u < v

\* Rows are added above all others.
Store ==
  /\ valid # 0
  /\ DOMAIN rows \subseteq DOMAIN rows' /\ Agree(rows, rows')
  /\ LET new == DOMAIN rows' \ DOMAIN rows
     IN /\ \A u \in new, v \in DOMAIN rows : v < u
        /\ Current =>
             /\ \A u \in new : u <= high /\ (u \in DOMAIN box => rows'[u] = box[u])
             /\ SkipsNothing(rows', new)
        /\ fresh' \subseteq fresh \union {rows'[u] : u \in new}
  /\ UNCHANGED <<mailbox, valid, shown>>

\* Rows go whose messages have left the mailbox.
Remove ==
  /\ DOMAIN rows' \subseteq DOMAIN rows /\ Agree(rows, rows')
  /\ Current => \A u \in DOMAIN rows \ DOMAIN rows' : u \notin DOMAIN box
  /\ UNCHANGED <<mailbox, valid, fresh, shown>>

\* All rows go, for their UIDs mean nothing any more.
Wipe ==
  /\ valid < epoch
  /\ DOMAIN rows' = {}
  /\ UNCHANGED <<mailbox, valid, fresh, shown>>

\* An empty folder takes a UIDVALIDITY the server has had since.
Adopt ==
  /\ DOMAIN rows = {}
  /\ valid < valid' /\ valid' <= epoch
  /\ shown' = {}
  /\ UNCHANGED <<mailbox, rows, fresh>>

\* What is new is notified ...
Notify ==
  /\ fresh \intersect shown = {}
  /\ shown' = shown \union fresh /\ fresh' = {}
  /\ UNCHANGED <<mailbox, rows, valid>>

\* ... or forgotten: the pass failed, or the program ended.
Forget ==
  /\ fresh' = {}
  /\ UNCHANGED <<mailbox, rows, valid, shown>>

Next == Change \/ Rebuild \/ Store \/ Remove \/ Wipe \/ Adopt \/ Notify \/ Forget

Spec == Init /\ [][Next]_vars
=============================================================================
