--------------------------- MODULE MessageActions ---------------------------
(***************************************************************************)
(* The commands on one message (app.go: MarkRead, MoveMessage,             *)
(* ArchiveMessage, DeleteMessage, GetMessageBody) beside the account's     *)
(* sync goroutine (internal/sync/sync.go) and the server.                  *)
(*                                                                         *)
(* A command is given a row id.  It reads the row's folder and UID, opens  *)
(* a session of its own, works on the server, and then writes the row of   *)
(* that id.  Row ids are SQLite's: one more than the highest in use, so    *)
(* the id of a removed row may come back with another message.             *)
(*                                                                         *)
(* Abstractions.  There are two folders: the inbox and, on Gmail, All Mail *)
(* (what arrives in the inbox is there too, with one \Seen flag),          *)
(* elsewhere the trash, where every copy has a flag of its own.            *)
(* UIDVALIDITY is constant, and a pass fetches all above the highest       *)
(* cached UID (module FolderSync has the rest).  A message's Message-ID is *)
(* read on Gmail only, and has no value elsewhere.                         *)
(* Accesses to the store with no network call in between are one step,     *)
(* save where a failure between them matters.  MarkFlagged is MarkRead     *)
(* without counts and siblings and is left out, as are the events sent to  *)
(* the window.                                                             *)
(***************************************************************************)
EXTENDS Integers, FiniteSets, FiniteSetsExt, Functions

CONSTANTS
  Caller,       \* threads that run commands
  MaxMsg,       \* bound: messages that ever arrive; one with two labels is two
  MaxEvents,    \* bound: commands, commands cut short, changes by other clients
  Servers,      \* what servers can do of MOVE and UIDPLUS
  Headers,      \* the ways messages may share Message-IDs, or have none (NoMsg)
  NoLoc, NoMsg  \* no location, no message

Msg    == 1..MaxMsg
Folder == {"inbox", "other"}
Op     == {"read", "unread", "move", "delete", "body"}

ASSUME MessageActionsAssumption ==
  /\ MaxMsg \in Nat /\ MaxEvents \in Nat /\ NoMsg \notin Msg
  /\ Servers \subseteq SUBSET {"MOVE", "UIDPLUS"}
  /\ Headers \subseteq [Msg -> Msg \union {NoMsg}]

VARIABLES
  (* the server *)
  gmail,       \* the account's kind
  caps,        \* what the server can do of MOVE and UIDPLUS
  header,      \* message -> its Message-ID, by a message that has it
  box,         \* per folder: UID -> message
  uidNext,     \* per folder: the next UID
  serverSeen,  \* the folder and UID of each copy with \Seen
  deleted,     \* the folder and UID of each copy with \Deleted
  arrived,     \* messages that arrived so far
  (* the store *)
  rows,        \* row id -> the row: folder, uid, msg, seen, and the
               \* messages its body and its attachments are of
  total,       \* folders.total_count
  unread,      \* folders.unread_count
  (* the sync goroutine *)
  syncAt, syncFolder,
  exists, unseen,  \* the answer of STATUS
  batch,           \* UID -> message and flag: fetched envelopes
  prefetch,        \* row id and message of the body being prefetched
  (* the commands *)
  at, op, id,
  loc,      \* LocateMessage's folder and UID
  target,   \* performMove's target folder
  wasSeen,  \* the row's seen as MessageActionContext read it
  fetched,  \* the message whose body FetchBody returned
  (* history *)
  chosen,   \* the message the command was given
  reused,   \* row ids a new row was given while a command held them
  blurred,  \* messages whose flag nothing promises any more
  foreign,  \* messages another client marked
  events    \* commands, faults and changes so far

account     == <<gmail, caps, header>>
serverVars  == <<account, box, uidNext, serverSeen, deleted, arrived>>
storeVars   == <<rows, total, unread>>
syncVars    == <<syncAt, syncFolder, exists, unseen, batch, prefetch>>
commandVars == <<at, op, id, loc, target, wasSeen, fetched, chosen>>
history     == <<reused, blurred, foreign, events>>
vars == <<serverVars, storeVars, syncVars, commandVars, history>>

Empty == <<>>
Without(f, S) == Restrict(f, DOMAIN f \ S)
Highest(S) == IF S = {} THEN 0 ELSE Max(S)

\* MAX(0, n - 1).
Dec(n) == IF n = 0 THEN 0 ELSE n - 1

\* f with x mapped to y.
With(f, x, y) == [v \in DOMAIN f \union {x} |-> IF v = x THEN y ELSE f[v]]

OtherFolder(f) == IF f = "inbox" THEN "other" ELSE "inbox"
IsTrash(f) == f = "other" /\ ~gmail

UnseenIn(f) == {u \in DOMAIN box[f] : <<f, u>> \notin serverSeen}

Init ==
  /\ gmail \in BOOLEAN
  /\ IF gmail THEN caps = {"MOVE", "UIDPLUS"} /\ header \in Headers
              ELSE caps \in Servers /\ header = [m \in Msg |-> NoMsg]
  /\ box = [f \in Folder |-> Empty] /\ uidNext = [f \in Folder |-> 1]
  /\ serverSeen = {} /\ deleted = {} /\ arrived = 0
  /\ rows = Empty
  /\ total = [f \in Folder |-> 0] /\ unread = [f \in Folder |-> 0]
  /\ syncAt = "between" /\ syncFolder = "inbox" /\ exists = 0 /\ unseen = 0
  /\ batch = Empty /\ prefetch = NoLoc
  /\ at = [c \in Caller |-> "out"] /\ op = [c \in Caller |-> "none"]
  /\ id = [c \in Caller |-> 0] /\ loc = [c \in Caller |-> NoLoc]
  /\ target = [c \in Caller |-> "none"] /\ wasSeen = [c \in Caller |-> FALSE]
  /\ fetched = [c \in Caller |-> NoMsg] /\ chosen = [c \in Caller |-> NoMsg]
  /\ reused = {} /\ blurred = {} /\ foreign = {} /\ events = 0

-----------------------------------------------------------------------------
(* The server and other clients *)

\* m enters folder f of the mailboxes b: a new copy, on Gmail a label.
Enters(b, f, m) ==
  IF gmail /\ m \in Range(b[f]) THEN b[f] ELSE With(b[f], uidNext[f], m)

\* The copies that share the \Seen flag of UID u of folder f.
Copies(f, u) ==
  {<<f, u>>} \union
    {p \in UNION {{g} \X DOMAIN box[g] : g \in Folder} : gmail /\ box[p[1]][p[2]] = box[f][u]}

\* The copies with a flag that those of S had, when the mailboxes become b and what
\* is new in them has it or not.
FlaggedIn(S, b, new) ==
  {p \in S : p[2] \in DOMAIN b[p[1]]} \union
    IF new THEN UNION {{f} \X (DOMAIN b[f] \ DOMAIN box[f]) : f \in Folder} ELSE {}

\* A message arrives; on Gmail with the inbox label or without.
Arrive ==
  /\ arrived' = arrived + 1
  /\ \E into \in IF gmail THEN {Folder, {"other"}} ELSE {{f} : f \in Folder} :
       /\ arrived + Cardinality(into) <= MaxMsg
       /\ box' = [f \in Folder |->
                    IF f \in into THEN Enters(box, f, arrived + 1) ELSE box[f]]
       /\ uidNext' = [f \in Folder |-> uidNext[f] + IF f \in into THEN 1 ELSE 0]
  /\ UNCHANGED <<account, serverSeen, deleted, storeVars, syncVars, commandVars, history>>

Event == events < MaxEvents /\ events' = events + 1

\* Another client removes a copy or changes a flag; \Deleted matters only where a plain
\* EXPUNGE may follow, never on Gmail.
OtherClient ==
  /\ Event
  /\ \/ /\ \E f \in Folder : \E u \in DOMAIN box[f] :
             box' = [box EXCEPT ![f] = Without(@, {u})]
        /\ serverSeen' = FlaggedIn(serverSeen, box', FALSE)
        /\ deleted' = FlaggedIn(deleted, box', FALSE)
        /\ UNCHANGED foreign
     \/ /\ \E f \in Folder : \E u \in DOMAIN box[f] :
             /\ serverSeen' = IF <<f, u>> \in serverSeen
                                THEN serverSeen \ Copies(f, u)
                                ELSE serverSeen \union Copies(f, u)
             /\ foreign' = foreign \union {box[f][u]}
        /\ UNCHANGED <<box, deleted>>
     \/ /\ ~gmail
        /\ \E f \in Folder : \E u \in DOMAIN box[f] :
             deleted' = IF <<f, u>> \in deleted THEN deleted \ {<<f, u>>}
                        ELSE deleted \union {<<f, u>>}
        /\ UNCHANGED <<box, serverSeen, foreign>>
  /\ UNCHANGED <<account, uidNext, arrived, storeVars, syncVars, commandVars,
                 reused, blurred>>

-----------------------------------------------------------------------------
(* The sync goroutine: one folder after the other, each as in FolderSync *)

\* STATUS of the next folder of a sweep, or of the inbox in the idle loop.
SyncStatus(f) ==
  /\ syncAt = "between" /\ "inbox" \in {f, syncFolder}
  /\ syncAt' = "counts" /\ syncFolder' = f
  /\ exists' = Cardinality(DOMAIN box[f]) /\ unseen' = Cardinality(UnseenIn(f))
  /\ UNCHANGED <<serverVars, storeVars, batch, prefetch, commandVars, history>>

\* The unread count of the cached rows in place of the server's.
CachedUnread(f) == Cardinality({i \in DOMAIN rows : rows[i].folder = f /\ ~rows[i].seen})

\* setFolderCountsLocked stores what STATUS said.
UnreadCount(f) == unseen

\* UpsertFolderWithCounts.
SyncCounts ==
  /\ syncAt = "counts"
  /\ total' = [total EXCEPT ![syncFolder] = exists]
  /\ unread' = [unread EXCEPT ![syncFolder] = UnreadCount(syncFolder)]
  /\ syncAt' = "fetch" /\ exists' = 0 /\ unseen' = 0
  /\ UNCHANGED <<serverVars, rows, syncFolder, batch, prefetch, commandVars, history>>

CachedUids(f) == {rows[i].uid : i \in {j \in DOMAIN rows : rows[j].folder = f}}

\* The UIDs a pass fetches.
Fresh(f) == {u \in DOMAIN box[f] : u > Highest(CachedUids(f))}

AfterStore == IF syncFolder = "inbox" THEN "prefetch" ELSE "between"

\* FolderSyncState, FETCH.
SyncFetch ==
  /\ syncAt = "fetch"
  /\ batch' = [u \in Fresh(syncFolder) |->
                 [msg |-> box[syncFolder][u], seen |-> <<syncFolder, u>> \in serverSeen]]
  /\ syncAt' = IF DOMAIN batch' # {} THEN "store" ELSE AfterStore
  /\ UNCHANGED <<serverVars, storeVars, syncFolder, exists, unseen, prefetch, commandVars,
                 history>>

\* The id SQLite gives the k-th new row.
NewId(k) == Highest(DOMAIN rows) + k

\* The k-th lowest UID of the batch.
NthUid(k) ==
  CHOOSE u \in DOMAIN batch : Cardinality({v \in DOMAIN batch : v <= u}) = k

\* UpsertEnvelopes, in UID order under one hold of the mutex.
SyncStore ==
  /\ syncAt = "store"
  /\ LET new == {NewId(k) : k \in 1..Cardinality(DOMAIN batch)}
         row(i) == LET u == NthUid(i - Highest(DOMAIN rows)) IN
                     [folder |-> syncFolder, uid |-> u, msg |-> batch[u].msg,
                      seen |-> batch[u].seen, body |-> NoMsg, parts |-> NoMsg]
     IN  /\ rows' = [i \in DOMAIN rows \union new |-> IF i \in new THEN row(i) ELSE rows[i]]
         /\ reused' = reused \union {i \in new : \E c \in Caller : id[c] = i}
  /\ batch' = Empty
  /\ syncAt' = AfterStore
  /\ UNCHANGED <<serverVars, total, unread, syncFolder, exists, unseen, prefetch,
                 commandVars, blurred, foreign, events>>

\* Bodies are prefetched from whatever mailbox the sweep left selected.
AnySelected == OtherFolder("inbox")

\* The mailbox the session has selected during the prefetch.
PrefetchSelected == "inbox"

\* BodyPrefetchCandidates and FetchBody of one of them.  No candidate, a failed
\* fetch, or the last candidate ends the pass.
PrefetchFetch ==
  /\ syncAt = "prefetch"
  /\ \/ /\ \E i \in DOMAIN rows :
             /\ rows[i].folder = "inbox" /\ rows[i].body = NoMsg
             /\ rows[i].uid \in DOMAIN box[PrefetchSelected]
             /\ prefetch' = [id |-> i, msg |-> box[PrefetchSelected][rows[i].uid]]
        /\ syncAt' = "prefetchCache"
     \/ syncAt' = "between" /\ UNCHANGED prefetch
  /\ UNCHANGED <<serverVars, storeVars, syncFolder, exists, unseen, batch, commandVars,
                 history>>

\* CacheParsedBody of message m for row i, a no-op if the row is gone.
WithBody(i, m) ==
  IF i \in DOMAIN rows THEN [rows EXCEPT ![i].body = m, ![i].parts = m] ELSE rows

\* Its first statement only: body_cached is set, and the attachments and
\* shipments are as they were.
WithBodyOnly(i, m) == IF i \in DOMAIN rows THEN [rows EXCEPT ![i].body = m] ELSE rows

\* CacheBody; it fails after its first statement at worst, which is only logged.
PrefetchCache ==
  /\ syncAt = "prefetchCache"
  /\ \/ /\ rows' = WithBody(prefetch.id, prefetch.msg)
        /\ UNCHANGED events
     \/ /\ rows' = WithBodyOnly(prefetch.id, prefetch.msg)
        /\ Event
  /\ prefetch' = NoLoc /\ syncAt' = "between"
  /\ UNCHANGED <<serverVars, total, unread, syncFolder, exists, unseen, batch,
                 commandVars, reused, blurred, foreign>>

-----------------------------------------------------------------------------
(* The commands *)

Marks == {"read", "unread"}

\* A command of kind o on message m meets another one, and one of them marks m.
Overlaps(o, m) == \E c \in Caller : chosen[c] = m /\ {o, op[c]} \intersect Marks # {}

Goto(c, p) == at' = [at EXCEPT ![c] = p]

\* The user picks a row of a list that is up to date.
Command(c, o, i) ==
  /\ at[c] = "out" /\ Event
  /\ op' = [op EXCEPT ![c] = o] /\ id' = [id EXCEPT ![c] = i]
  /\ chosen' = [chosen EXCEPT ![c] = rows[i].msg]
  /\ Goto(c, "locate")
  /\ blurred' = IF Overlaps(o, rows[i].msg)
                  THEN blurred \union {rows[i].msg} ELSE blurred
  /\ UNCHANGED <<serverVars, storeVars, syncVars, loc, target, wasSeen, fetched, reused,
                 foreign>>

\* The command returns.
Return(c) ==
  /\ Goto(c, "out")
  /\ op' = [op EXCEPT ![c] = "none"] /\ id' = [id EXCEPT ![c] = 0]
  /\ loc' = [loc EXCEPT ![c] = NoLoc] /\ target' = [target EXCEPT ![c] = "none"]
  /\ wasSeen' = [wasSeen EXCEPT ![c] = FALSE]
  /\ fetched' = [fetched EXCEPT ![c] = NoMsg] /\ chosen' = [chosen EXCEPT ![c] = NoMsg]

Row(c) == rows[id[c]]
HasRow(c) == id[c] \in DOMAIN rows

\* The command ends before it needs the network: the row is gone, GetBody finds
\* a cached body, DeleteMessage no trash folder.
Settled(c) ==
  HasRow(c) => \/ op[c] = "body" /\ Row(c).body # NoMsg
               \/ op[c] = "delete" /\ gmail

\* MessageActionContext or GetBody, and LocateMessage; then withSelected connects
\* and selects the folder.  DeleteMessage moves to the trash what is not in it.
Locate(c) ==
  /\ at[c] = "locate"
  /\ \/ Settled(c) /\ Return(c)
     \/ /\ ~Settled(c)
        /\ loc' = [loc EXCEPT ![c] = [folder |-> Row(c).folder, uid |-> Row(c).uid]]
        /\ target' = [target EXCEPT ![c] =
                        IF op[c] = "move" \/ (op[c] = "delete" /\ ~IsTrash(Row(c).folder))
                          THEN OtherFolder(Row(c).folder) ELSE "none"]
        /\ wasSeen' = [wasSeen EXCEPT ![c] = target'[c] # "none" /\ Row(c).seen]
        /\ Goto(c, "server")
        /\ UNCHANGED <<op, id, fetched, chosen>>
  /\ UNCHANGED <<serverVars, storeVars, syncVars, history>>

OnServer(c) == loc[c].uid \in DOMAIN box[loc[c].folder]
Found(c) == box[loc[c].folder][loc[c].uid]
FoundCopies(c) == Copies(loc[c].folder, loc[c].uid)
FoundSeen(c) == <<loc[c].folder, loc[c].uid>> \in serverSeen
FoundDeleted(c) == <<loc[c].folder, loc[c].uid>> \in deleted

\* What a mark of message m gets wrong in the cache of a Gmail account: the other copies
\* of a message without a Message-ID, and the messages that share one.
Astray(m) ==
  IF ~gmail THEN {}
  ELSE IF header[m] = NoMsg THEN {m}
  ELSE {n \in Msg \ {m} : header[n] = header[m]}

\* SetSeenFlag.  A UID that is gone is no error, and the cache is marked all the
\* same.  An envelope fetched before will yet be stored with the old flag.
StoreFlag(c) ==
  /\ at[c] = "server" /\ op[c] \in Marks
  /\ serverSeen' = IF ~OnServer(c) THEN serverSeen
                   ELSE IF op[c] = "read" THEN serverSeen \union FoundCopies(c)
                   ELSE serverSeen \ FoundCopies(c)
  /\ blurred' = blurred \union Astray(chosen[c]) \union
                  IF ~OnServer(c) \/ \E u \in DOMAIN batch : batch[u].msg = Found(c)
                    THEN {chosen[c]} ELSE {}
  /\ Goto(c, "seen")
  /\ UNCHANGED <<account, box, uidNext, deleted, arrived, storeVars, syncVars, op, id, loc, target,
                 wasSeen, fetched, chosen, reused, foreign, events>>

\* The server refuses the move and its answer is ignored.
ServerRefuses(c) == box

\* The UIDs of the folder with \Deleted, and the command's own.
AllDeleted(c) ==
  {loc[c].uid} \union {u \in DOMAIN box[loc[c].folder] : <<loc[c].folder, u>> \in deleted}

\* What goes with the EXPUNGE that follows STORE \Deleted: without UIDPLUS all there is.
Expunged(c) == IF "UIDPLUS" \in caps THEN {loc[c].uid} ELSE AllDeleted(c)

\* The COPY of a server without MOVE; a UID that is gone is no error.
Copied(c) ==
  IF OnServer(c) THEN [box EXCEPT ![target[c]] = Enters(box, target[c], Found(c))] ELSE box

\* UID MOVE, or COPY, STORE and EXPUNGE.
Moved(c) ==
  [Copied(c) EXCEPT ![loc[c].folder] =
     Without(@, IF "MOVE" \in caps THEN {loc[c].uid} ELSE Expunged(c))]

NextUids(b) == [f \in Folder |->
                  IF uidNext[f] \in DOMAIN b[f] THEN uidNext[f] + 1 ELSE uidNext[f]]

MoveMessage(c) ==
  /\ at[c] = "server" /\ target[c] # "none"
  /\ box' = Moved(c) /\ uidNext' = NextUids(box')
  /\ serverSeen' = FlaggedIn(serverSeen, box', FoundSeen(c))
  /\ deleted' = FlaggedIn(deleted, box', FoundDeleted(c))
  /\ Goto(c, "remove")
  /\ UNCHANGED <<account, arrived, storeVars, syncVars, op, id, loc, target,
                 wasSeen, fetched, chosen, history>>

DeletePermanently(c) ==
  /\ at[c] = "server" /\ op[c] = "delete" /\ target[c] = "none"
  /\ box' = [box EXCEPT ![loc[c].folder] = Without(@, Expunged(c))]
  /\ serverSeen' = FlaggedIn(serverSeen, box', FALSE)
  /\ deleted' = FlaggedIn(deleted, box', FALSE)
  /\ Goto(c, "remove")
  /\ UNCHANGED <<account, uidNext, arrived, storeVars, syncVars, op, id, loc,
                 target, wasSeen, fetched, chosen, history>>

\* FetchBody fails on a UID that is gone.
FetchBody(c) ==
  /\ at[c] = "server" /\ op[c] = "body"
  /\ \/ ~OnServer(c) /\ Return(c)
     \/ /\ OnServer(c)
        /\ fetched' = [fetched EXCEPT ![c] = Found(c)]
        /\ Goto(c, "cache")
        /\ UNCHANGED <<op, id, loc, target, wasSeen, chosen>>
  /\ UNCHANGED <<serverVars, storeVars, syncVars, history>>

\* CacheBody.
CacheBody(c) ==
  /\ at[c] = "cache"
  /\ rows' = WithBody(id[c], fetched[c])
  /\ Return(c)
  /\ UNCHANGED <<serverVars, total, unread, syncVars, history>>

\* The row moves to the target folder with the UID it will probably get.
Refiled(c) ==
  IF target[c] = "none" THEN Without(rows, {id[c]})
  ELSE [rows EXCEPT ![id[c]] =
          [@ EXCEPT !.folder = target[c], !.uid = Highest(CachedUids(target[c])) + 1]]

\* The rows of all copies of the message go.
DroppedByMessage(c) == Without(rows, {i \in DOMAIN rows : rows[i].msg = Row(c).msg})

\* The row goes; the message reappears in the target on its next sync.
Dropped(c) == Without(rows, {id[c]})

\* RemoveMessage, a no-op if the row is gone, and IncrementFolderCounts.
RemoveMessage(c) ==
  /\ at[c] = "remove"
  /\ LET left(f)   == HasRow(c) /\ Row(c).folder = f
         landed(f) == IF target[c] = f THEN 1 ELSE 0 IN
       /\ rows' = IF HasRow(c) THEN Dropped(c) ELSE rows
       /\ total' = [f \in Folder |->
                      (IF left(f) THEN Dec(total[f]) ELSE total[f]) + landed(f)]
       /\ unread' = [f \in Folder |->
                       (IF left(f) /\ ~Row(c).seen THEN Dec(unread[f]) ELSE unread[f])
                         + IF wasSeen[c] THEN 0 ELSE landed(f)]
  /\ Return(c)
  /\ UNCHANGED <<serverVars, syncVars, history>>

\* n unread messages after d of them were marked, floored at 0.
Adjusted(c, n, d) ==
  IF op[c] = "unread" THEN n + d ELSE IF n < d THEN 0 ELSE n - d

\* MarkSeen, and AdjustFolderUnreadCount if it changed the row.
MarkSeen(c) ==
  /\ at[c] = "seen"
  /\ IF HasRow(c) /\ Row(c).seen # (op[c] = "read")
       THEN /\ rows' = [rows EXCEPT ![id[c]].seen = op[c] = "read"]
            /\ unread' = [unread EXCEPT ![loc[c].folder] = Adjusted(c, @, 1)]
       ELSE UNCHANGED <<rows, unread>>
  /\ Goto(c, "siblings")
  /\ UNCHANGED <<serverVars, total, syncVars, op, id, loc, target, wasSeen, fetched,
                 chosen, history>>

\* Only the row that was clicked.
NoSiblings(c) == {}

\* The other rows with the row's Message-ID whose flag differs, on Gmail.
Siblings(c) ==
  IF gmail /\ HasRow(c) /\ header[Row(c).msg] # NoMsg
    THEN {i \in DOMAIN rows \ {id[c]} :
            header[rows[i].msg] = header[Row(c).msg] /\ rows[i].seen # (op[c] = "read")}
    ELSE {}

\* MessageIDHeader and MarkSeenForMessageIDSiblings.
MarkSiblings(c) ==
  /\ at[c] = "siblings"
  /\ LET S == Siblings(c) IN
       /\ rows' = [i \in DOMAIN rows |->
                     IF i \in S THEN [rows[i] EXCEPT !.seen = op[c] = "read"] ELSE rows[i]]
       /\ unread' = [f \in Folder |->
                       Adjusted(c, unread[f], Cardinality({i \in S : rows[i].folder = f}))]
  /\ Return(c)
  /\ UNCHANGED <<serverVars, total, syncVars, history>>

\* STORE \Deleted.
OwnCopy(c) == IF OnServer(c) THEN {<<loc[c].folder, loc[c].uid>>} ELSE {}

\* The command ends with an error, or with the process: a call or a statement
\* fails, or the server's answer is lost.  On the server, COPY may be done, and STORE.
Abort(c) ==
  /\ at[c] # "out" /\ Event
  /\ blurred' = IF at[c] \in {"seen", "siblings"}
                  THEN blurred \union {chosen[c]} ELSE blurred
  /\ \/ UNCHANGED <<box, uidNext, serverSeen, deleted, rows>>
     \/ /\ at[c] = "server" /\ target[c] # "none" /\ "MOVE" \notin caps
        /\ box' = Copied(c) /\ uidNext' = NextUids(box')
        /\ serverSeen' = FlaggedIn(serverSeen, box', FoundSeen(c))
        /\ \E stored \in {{}, OwnCopy(c)} :
             deleted' = FlaggedIn(deleted, box', FoundDeleted(c)) \union stored
        /\ UNCHANGED rows
     \/ /\ at[c] = "server" /\ op[c] = "delete" /\ target[c] = "none"
        /\ deleted' = deleted \union OwnCopy(c)
        /\ UNCHANGED <<box, uidNext, serverSeen, rows>>
     \/ /\ at[c] = "cache"
        /\ rows' = WithBodyOnly(id[c], fetched[c])
        /\ UNCHANGED <<box, uidNext, serverSeen, deleted>>
  /\ Return(c)
  /\ UNCHANGED <<account, arrived, total, unread, syncVars, reused, foreign>>

Proceed(c) ==
  \/ Locate(c) \/ StoreFlag(c) \/ MoveMessage(c) \/ DeletePermanently(c) \/ FetchBody(c)
  \/ CacheBody(c) \/ RemoveMessage(c) \/ MarkSeen(c) \/ MarkSiblings(c)

SyncStep ==
  \/ \E f \in Folder : SyncStatus(f)
  \/ SyncCounts \/ SyncFetch \/ SyncStore \/ PrefetchFetch \/ PrefetchCache

Next ==
  \/ Arrive \/ OtherClient
  \/ SyncStep
  \/ \E c \in Caller :
       \/ \E o \in Op, i \in DOMAIN rows : Command(c, o, i)
       \/ Proceed(c) \/ Abort(c)

\* Each folder is swept again and again (module IdleLoop: every FullResync), and
\* commands go on: their calls return, at the latest with an error.
Fairness ==
  /\ WF_vars(SyncStep) /\ SF_vars(SyncStatus("other"))
  /\ \A c \in Caller : WF_vars(Proceed(c))

Spec == Init /\ [][Next]_vars /\ Fairness

-----------------------------------------------------------------------------
(* Properties *)

IsRow(r) ==
  /\ r.folder \in Folder /\ r.uid \in Nat \ {0} /\ r.msg \in Msg
  /\ r.seen \in BOOLEAN /\ r.body \in Msg \union {NoMsg} /\ r.parts \in Msg \union {NoMsg}

TypeOK ==
  /\ gmail \in BOOLEAN /\ caps \subseteq {"MOVE", "UIDPLUS"}
  /\ header \in [Msg -> Msg \union {NoMsg}]
  /\ arrived \in 0..MaxMsg /\ serverSeen \union deleted \subseteq Folder \X Nat
  /\ \A f \in Folder :
       /\ DOMAIN box[f] \subseteq 1..(uidNext[f] - 1) /\ Range(box[f]) \subseteq Msg
       /\ uidNext[f] \in Nat \ {0} /\ total[f] \in Nat /\ unread[f] \in Nat
  /\ DOMAIN rows \subseteq Nat \ {0} /\ \A i \in DOMAIN rows : IsRow(rows[i])
  /\ syncAt \in {"between", "counts", "fetch", "store", "prefetch", "prefetchCache"}
  /\ syncFolder \in Folder /\ exists \in Nat /\ unseen \in Nat
  /\ \A u \in DOMAIN batch : batch[u].msg \in Msg /\ batch[u].seen \in BOOLEAN
  /\ \A c \in Caller :
       /\ at[c] \in {"out", "locate", "server", "remove", "seen", "siblings", "cache"}
       /\ op[c] \in Op \union {"none"} /\ id[c] \in Nat
       /\ target[c] \in Folder \union {"none"} /\ wasSeen[c] \in BOOLEAN
       /\ fetched[c] \in Msg \union {NoMsg} /\ chosen[c] \in Msg \union {NoMsg}

\* A row's cached body is the body of the row's own message, unless its id was
\* given away under a command in flight: a UID means nothing in another mailbox.
BodyIsTheRowsOwn ==
  \A i \in DOMAIN rows \ reused : rows[i].body \in {NoMsg, rows[i].msg}

\* No step of c touches the copy of folder f with UID u, or it has \Deleted, the server
\* lacks UIDPLUS, and it goes with what c expunges.
Spared(c, f, u) ==
  \/ /\ u \in DOMAIN box'[f] /\ box'[f][u] = box[f][u]
     /\ <<f, u>> \in serverSeen' <=> <<f, u>> \in serverSeen
     /\ <<f, u>> \in deleted' <=> <<f, u>> \in deleted
  \/ /\ f = loc[c].folder /\ <<f, u>> \in deleted /\ u \notin DOMAIN box'[f]
     /\ op[c] \in {"move", "delete"} /\ "UIDPLUS" \notin caps
     /\ target[c] = "none" \/ "MOVE" \notin caps

\* What a command does on the server, it does to the message the user chose: no other
\* message goes, comes or has its flags changed, save by a plain EXPUNGE -- with one
\* exception: LocateMessage reads after the choice, and the row may have been removed
\* in between and its id given away.
ActsOnTheChosen ==
  [][\A c \in Caller, f \in Folder :
       at[c] = "server" /\ at'[c] # "server" /\ id[c] \notin reused =>
         /\ \A u \in DOMAIN box[f] : box[f][u] # chosen[c] => Spared(c, f, u)
         /\ \A u \in DOMAIN box'[f] \ DOMAIN box[f] : box'[f][u] = chosen[c]]_vars

\* The commands are server-authoritative: a row vanishes only after its message
\* has left the folder, whoever else moves or marks it meanwhile.
RowOutlivesMessage ==
  [][\A i \in DOMAIN rows \ DOMAIN rows' :
       i \in reused \/ rows[i].uid \notin DOMAIN box[rows[i].folder]]_vars

\* No command is marking a message.
Quiet == \A c \in Caller : op[c] \notin Marks

\* When no command is marking, the cached flag is the server's, in every folder
\* of a Gmail account, save for messages another client marked, two commands
\* marked at once, a command cut short had marked, or a fetch had read before,
\* and on Gmail those marked without a Message-ID or sharing a marked one's.
SeenAgrees ==
  Quiet /\ reused = {} =>
    \A i \in DOMAIN rows :
      rows[i].uid \in DOMAIN box[rows[i].folder] /\ rows[i].msg \notin blurred \union foreign =>
        (rows[i].seen <=> <<rows[i].folder, rows[i].uid>> \in serverSeen)

\* Commands adjust the counts beside a STATUS answered before and stored after
\* them; whatever the order, a later STATUS makes them the server's again.
CountsSettle ==
  <>[](\A f \in Folder :
         total[f] = Cardinality(DOMAIN box[f]) /\ unread[f] = Cardinality(UnseenIn(f)))

\* A moved message reappears in its target, as a delivered one appears, under the
\* UID the server gave it there; in the end no folder lacks any.  (A command
\* whose id was given away may remove a row for good: the same exception.)
MailReappears ==
  <>[](reused = {} =>
         \A f \in Folder : \A u \in DOMAIN box[f] :
           \E i \in DOMAIN rows :
             rows[i].folder = f /\ rows[i].uid = u /\ rows[i].msg = box[f][u])

-----------------------------------------------------------------------------
(* Folder f under its one UIDVALIDITY, as the store and the server have it.       *)
RowOf(f, u) == CHOOSE i \in DOMAIN rows : rows[i].folder = f /\ rows[i].uid = u
Stored(f)   == [u \in CachedUids(f) |-> rows[RowOf(f, u)].msg]

Cache(f) == INSTANCE CachedFolder WITH box <- box[f], high <- uidNext[f] - 1, epoch <- 1,
              rows <- Stored(f), valid <- 1, fresh <- {}, shown <- {}

\* Each folder is a cached folder, though commands remove rows by their ids alone and
\* what the sync stores was fetched before they did: as long as no id was given away,
\* every step is one of the folder's or none.
ImplementsCache ==
  /\ \A f \in Folder : Cache(f)!Init
  /\ [][reused' = {} => \A f \in Folder : [Cache(f)!Next]_(Cache(f)!vars)]_vars

=============================================================================
