------------------------------ MODULE MailView ------------------------------
(***************************************************************************)
(* The message list and the reader of the window: MailStore of             *)
(* frontend/src/lib/stores/mail.svelte.ts, over the listing commands of    *)
(* app.go and the queries of internal/store/store.go that answer them.     *)
(*                                                                         *)
(* A handler of the window runs to its next `await' in one step.  A call   *)
(* of the backend is answered in two: the backend reads or changes its     *)
(* rows (Serve...), and the window takes the answer (Take...), any time    *)
(* later and in any order, for every call runs in a goroutine of its own.  *)
(* What a handler remembers across its `await' is in the call's record.    *)
(*                                                                         *)
(* Abstractions.  A message is the rank of its date: a larger one is       *)
(* newer.  A row never changes its folder.  There is one search term,      *)
(* which finds the messages Hits, and its rank is the order of age, which  *)
(* differs from the list's.  A search goes over all folders: their account *)
(* is the only one.  Flags, the filter chip, the live filter, folder       *)
(* counts, shipments and toasts are left out; the folder lists are loaded. *)
(* A mark is the event it ends in.  A pass of the sync stores one row, and *)
(* a folder's next pass begins when it has ended.                          *)
(***************************************************************************)
EXTENDS Integers, FiniteSets, SequencesExt

CONSTANTS
  Folder,     \* the folders of the accounts
  Inboxes,    \* those of role inbox
  MaxMsg,     \* bound: messages that ever have a row
  Home,       \* [1..MaxMsg -> Folder]: the folder of a message's row
  Hits,       \* the messages the search term finds
  First,      \* the messages cached before the window opens
  PageLimit,  \* PAGE_LIMIT
  MaxCalls,   \* bound: calls in flight
  MaxEvents,  \* bound: events emitted and not handled
  MaxUser,    \* bound: what the user does
  Unified,    \* the unified view
  NoMsg       \* null

ASSUME MailViewAssumption ==
  /\ Inboxes \subseteq Folder /\ Unified \notin Folder
  /\ MaxMsg \in Nat /\ Home \in [1..MaxMsg -> Folder] /\ NoMsg \notin 1..MaxMsg
  /\ Hits \subseteq 1..MaxMsg /\ First \subseteq 1..MaxMsg
  /\ PageLimit \in Nat \ {0} /\ MaxCalls \in Nat \ {0}
  /\ MaxEvents \in Nat \ {0} /\ MaxUser \in Nat

Msg  == 1..MaxMsg
View == Folder \union {Unified}

VARIABLES
  (* the backend *)
  rows,      \* messages with a row in the store
  gone,      \* messages whose row was removed
  arriving,  \* messages whose row a sync pass has stored, and not yet told of
  events,    \* events emitted and not yet handled, in order
  (* the window *)
  listening, \* init has subscribed to the events
  view,      \* unified, or selectedFolderId
  searching, \* searchActive
  list,      \* messages
  offset, hasMore,
  loading,   \* loadingMessages
  selected,  \* selectedMessageId
  body,      \* the message whose body is shown
  calls,     \* calls in flight, in the order they were made
  (* history *)
  user,      \* what the user has done so far
  blur,      \* the list may differ from its view for good: see ListIsTheView
  late,      \* a folder's answer was under way when the search began
  rejoined   \* a failed removal has put the selection back

backVars == <<rows, gone, events>>
feedVars == <<arriving, listening>>
listVars == <<list, hasMore, loading>>
readVars == <<selected, body, rejoined>>
navVars  == <<view, searching, offset, late>>
vars == <<backVars, feedVars, listVars, readVars, navVars, calls, user, blur>>

-----------------------------------------------------------------------------
(***************************************************************************)
(* Calls and events                                                        *)
(***************************************************************************)
PageOps    == {"page", "more"}            \* #fetchPage(false), #fetchPage(true)
RefreshOps == {"refresh", "restore"}      \* refreshCurrentPage, also after a failure
ListOps    == PageOps \union RefreshOps

Call == [op : ListOps \union {"body", "remove", "reselect"}, view : View, search : BOOLEAN,
         from : Nat, limit : Nat, msg : Msg \union {NoMsg},
         done : BOOLEAN, ok : BOOLEAN, rows : Seq(Msg)]

ListCall(op, v, s, from, limit, m) ==
  [op |-> op, view |-> v, search |-> s, from |-> from, limit |-> limit, msg |-> m,
   done |-> FALSE, ok |-> TRUE, rows |-> <<>>]

MsgCall(op, m) ==
  [op |-> op, view |-> Unified, search |-> FALSE, from |-> 0, limit |-> 0, msg |-> m,
   done |-> FALSE, ok |-> TRUE, rows |-> <<>>]

Event == [event : {"new", "updated"}, folder : Folder, msg : Msg \union {NoMsg}]

New(m)     == [event |-> "new", folder |-> Home[m], msg |-> m]
Updated(f) == [event |-> "updated", folder |-> f, msg |-> NoMsg]

Room(n)      == Len(calls) + n <= MaxCalls
EventRoom(n) == Len(events) + n <= MaxEvents

(* What the user sees of folder f in view v. *)
Shows(v, f) == IF v = Unified THEN f \in Inboxes ELSE f = v

(* The numbers of a set from the largest, and from the smallest. *)
Descending(S) ==
  [k \in 1..Cardinality(S) |-> CHOOSE m \in S : Cardinality({n \in S : n >= m}) = k]
Ascending(S) ==
  [k \in 1..Cardinality(S) |-> CHOOSE m \in S : Cardinality({n \in S : n <= m}) = k]

(* PageMessages and PageUnifiedMessages. *)
Rows(v) == Descending({m \in rows : Shows(v, Home[m])})

(* SearchMessages. *)
Found == Ascending(rows \intersect Hits)

(* LIMIT ... OFFSET. *)
Page(s, from, limit) == SubSeq(s, from + 1, IF from + limit < Len(s) THEN from + limit ELSE Len(s))

AnswerOf(c) == Page(IF c.search THEN Found ELSE Rows(c.view), c.from, c.limit)

(* The guards after `await': does the view v, searching or not, take the   *)
(* answer of c?  Only a search page asks whether a search is active.       *)
AcceptedAnyFolder(c, v, s) ==
  IF c.op \in PageOps /\ c.search THEN s ELSE c.view # Unified \/ v = Unified
Accepted(c, v, s) ==
  IF c.op \in PageOps /\ c.search THEN s ELSE v = c.view

(* The list is being asked for from its start. *)
AskedAgain ==
  \E i \in DOMAIN calls : /\ calls[i].op \in ListOps \ {"more"} /\ ~calls[i].done
                          /\ Accepted(calls[i], view, FALSE)

(* The window shows folder f and will not know of a change to it.          *)
Unnoticed(f) == ~searching /\ Shows(view, f) /\ ~AskedAgain

(* Two answers for one list are under way, in an order nobody knows. *)
Overlap(v, s) == \E i \in DOMAIN calls : calls[i].op \in ListOps /\ Accepted(calls[i], v, s)

-----------------------------------------------------------------------------
(* The window opens: init has loaded the folders, in loadAccounts, and     *)
(* awaits the first page of the unified view.                              *)
Init ==
  /\ rows = First /\ gone = {} /\ events = <<>>
  /\ arriving = {} /\ listening = FALSE
  /\ view = Unified /\ searching = FALSE
  /\ list = <<>> /\ offset = 0 /\ hasMore = FALSE /\ loading = TRUE
  /\ selected = NoMsg /\ body = NoMsg
  /\ calls = <<ListCall("page", Unified, FALSE, 0, PageLimit, NoMsg)>>
  /\ user = 0 /\ blur = FALSE /\ late = FALSE /\ rejoined = FALSE

(***************************************************************************)
(* What the user does                                                      *)
(***************************************************************************)
Does == user < MaxUser /\ user' = user + 1

Deselect == selected' = NoMsg /\ body' = NoMsg /\ rejoined' = FALSE

(* A view is entered: the list is emptied and its first page asked for.    *)
(* hasMore keeps the value it had.                                         *)
Enter(v, s) ==
  /\ Does /\ Room(1)
  /\ view' = v /\ searching' = s
  /\ Deselect
  /\ offset' = 0 /\ list' = <<>> /\ loading' = TRUE
  /\ calls' = Append(calls, ListCall("page", v, s, 0, PageLimit, NoMsg))
  /\ blur' = Overlap(v, s)
  /\ UNCHANGED <<backVars, feedVars, hasMore>>

SelectUnified    == Enter(Unified, FALSE) /\ late' = FALSE
SelectFolder(f)  == Enter(f, FALSE) /\ late' = FALSE
ClearSearch      == searching /\ Enter(view, FALSE) /\ late' = FALSE
RunSearch        == Enter(view, TRUE) /\ late' = Overlap(view, FALSE)

(* loadMore. *)
LoadMore ==
  /\ hasMore /\ ~loading
  /\ Does /\ Room(1)
  /\ offset' = offset + PageLimit
  /\ loading' = TRUE
  /\ calls' = Append(calls, ListCall("more", view, searching, offset', PageLimit, NoMsg))
  /\ blur' = (blur \/ Overlap(view, searching) \/ offset' # Len(list))
  /\ UNCHANGED <<backVars, feedVars, view, searching, late, list, hasMore, readVars>>

SelectMessage(m) ==
  /\ Contains(list, m)
  /\ Does /\ Room(1)
  /\ selected' = m /\ body' = NoMsg /\ rejoined' = FALSE
  /\ calls' = Append(calls, MsgCall("body", m))
  /\ UNCHANGED <<backVars, feedVars, listVars, navVars, blur>>

(* setSeen, toggleFlagged: MarkRead and MarkFlagged end in an event. *)
Mark(m) ==
  /\ Contains(list, m) /\ m \in rows
  /\ Does /\ EventRoom(1)
  /\ events' = Append(events, Updated(Home[m]))
  /\ UNCHANGED <<rows, gone, feedVars, listVars, readVars, navVars, calls, blur>>

(* nextSelectionId: the one after m in the list, else the one before. *)
NextOf(m) ==
  LET at == CHOOSE i \in DOMAIN list : list[i] = m
  IN IF at < Len(list) THEN list[at + 1] ELSE IF at > 1 THEN list[at - 1] ELSE NoMsg

(* Without m, however often s has it. *)
Dropped(s, m) ==
  LET kept == Ascending({i \in DOMAIN s : s[i] # m})
  IN [k \in DOMAIN kept |-> s[kept[k]]]

(* #removeOptimistically up to `await action()'.                           *)
RemoveMessage(m) ==
  /\ Contains(list, m)
  /\ Does
  /\ LET next  == NextOf(m)
         reads == selected = m /\ next # NoMsg /\ next # m
     IN /\ Room(IF reads THEN 2 ELSE 1)
        /\ list' = Dropped(list, m)
        /\ IF selected = m
             THEN selected' = next /\ body' = NoMsg /\ rejoined' = FALSE
             ELSE UNCHANGED readVars
        /\ calls' = calls \o (IF reads THEN <<MsgCall("body", next)>> ELSE <<>>)
                          \o <<MsgCall("remove", m)>>
  /\ UNCHANGED <<backVars, feedVars, hasMore, loading, navVars, blur>>

-----------------------------------------------------------------------------
(***************************************************************************)
(* The backend                                                             *)
(***************************************************************************)
(* A pass of the sync stores a row; dates follow arrival.                  *)
Arrive(m) ==
  /\ \A n \in rows \union gone : n < m
  /\ \A n \in arriving : Home[n] # Home[m]
  /\ rows' = rows \union {m} /\ arriving' = arriving \union {m}
  /\ UNCHANGED <<gone, events, listening, listVars, readVars, navVars, calls, user, blur>>

(* It emits its two events, or stops with an error between the two.        *)
Announce(m) ==
  /\ m \in arriving /\ arriving' = arriving \ {m}
  /\ \/ /\ EventRoom(2)
        /\ events' = events \o <<New(m), Updated(Home[m])>>
        /\ UNCHANGED blur
     \/ /\ blur' = (blur \/ Unnoticed(Home[m]))
        /\ UNCHANGED events
  /\ UNCHANGED <<rows, gone, listening, listVars, readVars, navVars, calls, user>>

(* ListMessages, ListUnifiedMessages, SearchMessages: the rows, or an      *)
(* error.                                                                  *)
ServeList(i) ==
  /\ calls[i].op \in ListOps /\ ~calls[i].done
  /\ \E ok \in BOOLEAN :
       calls' = [calls EXCEPT ![i].done = TRUE, ![i].ok = ok,
                              ![i].rows = IF ok THEN AnswerOf(calls[i]) ELSE <<>>]
  /\ UNCHANGED <<backVars, feedVars, listVars, readVars, navVars, user, blur>>

(* performMove, DeleteMessage: they fail before the row is removed, or     *)
(* after it (the target's counts), or tell the window of both folders.     *)
RemoveRow(m) == rows' = rows \ {m} /\ gone' = gone \union {m}

ServeRemove(i) ==
  /\ calls[i].op = "remove" /\ ~calls[i].done
  /\ \/ /\ calls' = [calls EXCEPT ![i].done = TRUE, ![i].ok = FALSE]
        /\ UNCHANGED <<rows, gone>> \/ RemoveRow(calls[i].msg)
        /\ UNCHANGED events
     \/ /\ calls[i].msg \in rows
        /\ calls' = [calls EXCEPT ![i].done = TRUE]
        /\ RemoveRow(calls[i].msg)
        /\ LET source == Home[calls[i].msg]
           IN \E target \in (Folder \ {source}) \union {Unified} :  \* Unified: deleted for good
                LET told == <<Updated(source)>>
                              \o (IF target = Unified THEN <<>> ELSE <<Updated(target)>>)
                IN EventRoom(Len(told)) /\ events' = events \o told
  /\ UNCHANGED <<feedVars, listVars, readVars, navVars, user, blur>>

-----------------------------------------------------------------------------
(***************************************************************************)
(* The window takes an answer                                              *)
(***************************************************************************)
(* The rest of #fetchPage.  A failed first page empties whatever list is   *)
(* shown by now; any end of a page ends `loading'.  After the page it      *)
(* awaits, the first call that was made, init subscribes to the events.    *)
TakePage(i) ==
  LET c == calls[i] IN
  /\ c.op \in PageOps /\ c.done
  /\ calls' = RemoveAt(calls, i)
  /\ loading' = FALSE
  /\ listening' = (listening \/ i = 1)
  /\ IF c.ok
       THEN /\ IF Accepted(c, view, searching)
                 THEN /\ list' = IF c.op = "more" THEN list \o c.rows ELSE c.rows
                      /\ hasMore' = (Len(c.rows) = PageLimit)
                 ELSE UNCHANGED <<list, hasMore>>
            /\ UNCHANGED blur
       ELSE /\ list' = IF c.op = "more" THEN list ELSE <<>>
            /\ blur' = (blur \/ c.op = "page")
            /\ UNCHANGED hasMore
  /\ UNCHANGED <<backVars, arriving, readVars, navVars, user>>

(* The rest of refreshCurrentPage.  After a failed removal loadFolders     *)
(* follows, and then the selection.                                        *)
TakeRefresh(i) ==
  LET c == calls[i] IN
  /\ c.op \in RefreshOps /\ c.done
  /\ calls' = RemoveAt(calls, i)
                \o (IF c.op = "restore" THEN <<MsgCall("reselect", c.msg)>> ELSE <<>>)
  /\ IF c.ok /\ Accepted(c, view, searching)
       THEN /\ list' = c.rows
            /\ hasMore' = (Len(c.rows) = c.limit)
            /\ UNCHANGED blur
       ELSE /\ blur' = (blur \/ ~c.ok)
            /\ UNCHANGED <<list, hasMore>>
  /\ UNCHANGED <<backVars, feedVars, loading, readVars, navVars, user>>

Reselect(i) ==
  /\ calls[i].op = "reselect"
  /\ calls' = RemoveAt(calls, i)
  /\ IF Contains(list, calls[i].msg)
       THEN /\ selected' = calls[i].msg
            /\ rejoined' = (rejoined \/ selected # calls[i].msg)
            /\ UNCHANGED body
       ELSE UNCHANGED readVars
  /\ UNCHANGED <<backVars, feedVars, listVars, navVars, user, blur>>

(* The rest of selectMessage; an unread message is marked in the end. *)
TakeAnyBody(i) == calls[i].op = "body" /\ body' = calls[i].msg /\ UNCHANGED <<selected, rejoined>>
ShowBody(i) ==
  /\ calls[i].op = "body"
  /\ IF selected = calls[i].msg THEN body' \in {body, calls[i].msg} ELSE UNCHANGED body
  /\ UNCHANGED <<selected, rejoined>>
TakeBody(i) ==
  /\ ShowBody(i)
  /\ calls' = RemoveAt(calls, i)
  /\ \/ UNCHANGED events
     \/ /\ calls[i].msg \in rows /\ EventRoom(1)
        /\ events' = Append(events, Updated(Home[calls[i].msg]))
  /\ UNCHANGED <<rows, gone, feedVars, listVars, navVars, user, blur>>

(* refreshCurrentPage up to its `await': whatever the view is now, and     *)
(* whether or not a search is active.                                      *)
RefreshCall(op, m) ==
  ListCall(op, view, FALSE, 0, IF Len(list) > PageLimit THEN Len(list) ELSE PageLimit, m)

(* #removeOptimistically after `await action()'. *)
TakeRemove(i) ==
  LET c    == calls[i]
      rest == RemoveAt(calls, i)
  IN
  /\ c.op = "remove" /\ c.done
  /\ IF c.ok
       THEN /\ calls' = rest
            /\ UNCHANGED <<blur, late>>
       ELSE /\ calls' = Append(rest, RefreshCall("restore", c.msg))
            /\ blur' = Overlap(view, FALSE)
            /\ late' = (late \/ searching)
  /\ UNCHANGED <<backVars, feedVars, listVars, readVars, view, searching, offset, user>>

-----------------------------------------------------------------------------
(***************************************************************************)
(* The window handles an event                                             *)
(***************************************************************************)
(* Before init has subscribed, an event is lost. *)
MissEvent ==
  /\ ~listening /\ events # <<>>
  /\ events' = Tail(events)
  /\ blur' = (blur \/ (Head(events).event = "updated" /\ Unnoticed(Head(events).folder)))
  /\ UNCHANGED <<rows, gone, feedVars, listVars, readVars, navVars, calls, user>>

(* #onNewMessages. *)
Prepend(m) == list' = IF Contains(list, m) THEN list ELSE <<m>> \o list

OnNewMessages ==
  /\ listening /\ events # <<>> /\ Head(events).event = "new"
  /\ events' = Tail(events)
  /\ IF ~searching /\ Shows(view, Head(events).folder)
       THEN Prepend(Head(events).msg)
       ELSE UNCHANGED list
  /\ UNCHANGED <<rows, gone, feedVars, hasMore, loading, readVars, navVars, calls, user, blur>>

(* #onMessagesUpdated. *)
RefreshIfOpen(f) ==
  IF ~searching /\ view = f
    THEN /\ Room(1)
         /\ calls' = Append(calls, RefreshCall("refresh", NoMsg))
         /\ blur' = Overlap(view, FALSE)
    ELSE UNCHANGED <<calls, blur>>
RefreshIfShown(f) ==
  IF ~searching /\ Shows(view, f)
    THEN /\ Room(1)
         /\ calls' = Append(calls, RefreshCall("refresh", NoMsg))
         /\ blur' = Overlap(view, FALSE)
    ELSE UNCHANGED <<calls, blur>>

OnMessagesUpdated ==
  /\ listening /\ events # <<>> /\ Head(events).event = "updated"
  /\ events' = Tail(events)
  /\ RefreshIfShown(Head(events).folder)
  /\ UNCHANGED <<rows, gone, feedVars, listVars, readVars, navVars, user>>

-----------------------------------------------------------------------------
User ==
  \/ SelectUnified \/ RunSearch \/ ClearSearch \/ LoadMore
  \/ \E f \in Folder : SelectFolder(f)
  \/ \E m \in Msg : SelectMessage(m) \/ Mark(m) \/ RemoveMessage(m)

Backend ==
  \/ \E m \in Msg : Arrive(m) \/ Announce(m)
  \/ \E i \in DOMAIN calls : ServeList(i) \/ ServeRemove(i)

Window ==
  \/ MissEvent \/ OnNewMessages \/ OnMessagesUpdated
  \/ \E i \in DOMAIN calls :
       TakePage(i) \/ TakeRefresh(i) \/ Reselect(i) \/ TakeBody(i) \/ TakeRemove(i)

Next == User \/ Backend \/ Window

Spec == Init /\ [][Next]_vars

-----------------------------------------------------------------------------
TypeOK ==
  /\ rows \subseteq Msg /\ gone \subseteq Msg
  /\ arriving \subseteq Msg /\ listening \in BOOLEAN
  /\ events \in Seq(Event)
  /\ view \in View /\ searching \in BOOLEAN
  /\ list \in Seq(Msg) /\ offset \in Nat /\ hasMore \in BOOLEAN /\ loading \in BOOLEAN
  /\ selected \in Msg \union {NoMsg} /\ body \in Msg \union {NoMsg}
  /\ calls \in Seq(Call) /\ user \in 0..MaxUser
  /\ blur \in BOOLEAN /\ late \in BOOLEAN /\ rejoined \in BOOLEAN

Quiet == calls = <<>> /\ events = <<>> /\ arriving = {}

(* The list holds only what its view shows: messages of the folder, of the *)
(* inboxes, or of the search, whatever answers come late -- save that an   *)
(* answer meant for the folder under a search replaces the results.        *)
ViewShowsItsOwn ==
  \A i \in DOMAIN list :
    IF searching THEN late \/ list[i] \in Hits ELSE Shows(view, Home[list[i]])

(* When everything is answered and handled, the list is the newest part of *)
(* the view without a gap or a repetition, and can be continued if it is   *)
(* not all -- through arrivals, removals, failed removals, marks and       *)
(* changes of view.  The exceptions (`blur'): since the list was last      *)
(* asked for with no answer under way, a second answer was asked for while *)
(* one was, a page was asked for by an offset that is not the list's       *)
(* length, an answer failed; or a change came too late for the answers     *)
(* under way, and its event was lost because init had not subscribed yet,  *)
(* or never sent because the pass that stored the row failed.              *)
ListIsTheView ==
  (Quiet /\ ~searching /\ ~blur) =>
    /\ Len(list) <= Len(Rows(view))
    /\ list = SubSeq(Rows(view), 1, Len(list))
    /\ Len(list) < Len(Rows(view)) => hasMore

(* The reader never shows the body of another message than the selected    *)
(* one, whatever order bodies arrive in -- save after a failed removal,    *)
(* which selects the message again and leaves the body of the next.        *)
ReaderShowsSelection == body # NoMsg /\ ~rejoined => body = selected
=============================================================================
