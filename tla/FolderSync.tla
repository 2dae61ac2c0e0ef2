----------------------------- MODULE FolderSync -----------------------------
(***************************************************************************)
(* How the inbox reaches the local store and which of its messages are     *)
(* notified: Manager.syncFolderUIDs and the calls around it in runOnce     *)
(* (internal/sync/sync.go) over upsertFolderLocked, FolderSyncState,       *)
(* UpsertEnvelopes and SetLastSeenUID (internal/store/store.go).           *)
(*                                                                         *)
(* Every statement that commits by itself is a step, so the program can    *)
(* fail or be killed between any two of them, and the mailbox can change:  *)
(* deliveries, removals, and a new UIDVALIDITY epoch.                      *)
(*                                                                         *)
(* Abstractions.  A message is the number of its arrival; an envelope is   *)
(* its UID and message.  \Seen may be set or not in every FETCH.  The      *)
(* waits between two re-syncs, the drain and the connection itself are the *)
(* matter of module IdleLoop: here another re-sync simply follows.  FETCH  *)
(* answers in UID order, as servers do.                                    *)
(***************************************************************************)
EXTENDS Integers, FiniteSets, FiniteSetsExt, Functions

CONSTANTS
  MaxMsg,    \* bound: messages that ever arrive
  MaxEpoch,  \* bound: UIDVALIDITY epochs
  Limit,     \* InitialSyncLimit
  MaxStops   \* bound: passes that fail, restarts of the process or the task

ASSUME FolderSyncAssumption ==
  /\ MaxMsg \in Nat /\ MaxEpoch \in Nat \ {0}
  /\ Limit \in Nat \ {0} /\ MaxStops \in Nat

Msg   == 1..MaxMsg
Uid   == 1..MaxMsg
Epoch == 1..MaxEpoch

VARIABLES
  (* the server *)
  server,   \* UID -> message, for the UIDs in use
  uidNext,  \* the next UID to assign
  epoch,    \* UIDVALIDITY
  arrived,  \* messages that arrived so far
  (* the store *)
  rows,     \* UID -> message: the folder's rows in `messages'
  valid,    \* folders.uidvalidity, 0 before the folder's row exists
  lastSeen, \* folders.last_seen_uid
  (* the sync goroutine *)
  pc,
  firstRun,   \* accountLoop's firstRun
  initial,    \* the argument of this pass
  status,     \* UIDVALIDITY and EXISTS of its STATUS
  lastUid,    \* the cached maximum and ...
  seenMark,   \* ... last_seen_uid, as FolderSyncState read them
  batch,      \* UID -> message: fetched envelopes
  stored,     \* those of them UpsertEnvelopes has written
  news,       \* those of them to notify
  (* history; the first two since the folder's UIDVALIDITY last changed *)
  notified,   \* messages shown as desktop notifications
  removed,    \* UIDs of rows a user command removed
  before,     \* messages that had arrived when the first sync looked
  torn,       \* a pass ended with its rows written and the mark not yet raised
  stops       \* failed passes and restarts so far

serverVars == <<server, uidNext, epoch, arrived>>
storeVars  == <<rows, valid, lastSeen>>
passVars   == <<initial, status, lastUid, seenMark, batch, stored, news>>
history    == <<notified, removed, before, torn, stops>>
vars == <<serverVars, storeVars, pc, firstRun, passVars, history>>

Empty == <<>>
MaxOf(S) == IF S = {} THEN 0 ELSE Max(S)

\* f with u mapped to m.
With(f, u, m) == [v \in DOMAIN f \union {u} |-> IF v = u THEN m ELSE f[v]]

\* f without u.
Without(f, u) == Restrict(f, DOMAIN f \ {u})

NoStatus == [validity |-> 0, count |-> 0]

Init ==
  /\ server = Empty /\ uidNext = 1 /\ epoch = 1 /\ arrived = 0
  /\ rows = Empty /\ valid = 0 /\ lastSeen = 0
  /\ pc = "out" /\ firstRun = TRUE /\ initial = FALSE /\ status = NoStatus
  /\ lastUid = 0 /\ seenMark = 0 /\ batch = Empty /\ stored = {} /\ news = {}
  /\ notified = {} /\ removed = {} /\ before = 0 /\ torn = FALSE
  /\ stops = 0

-----------------------------------------------------------------------------
(* The mailbox and the user *)

Arrive ==
  /\ arrived < MaxMsg
  /\ arrived' = arrived + 1
  /\ server' = With(server, uidNext, arrived + 1)
  /\ uidNext' = uidNext + 1
  /\ UNCHANGED <<epoch, storeVars, pc, firstRun, passVars, history>>

\* Another client, or the server half of a move or delete of this app.
Expunge ==
  /\ \E u \in DOMAIN server : server' = Without(server, u)
  /\ UNCHANGED <<uidNext, epoch, arrived, storeVars, pc, firstRun, passVars, history>>

\* Those n messages in the order of their arrival, with the UIDs 1 to n.
Renumbered(messages, n) ==
  {f \in [1..n -> messages] : Range(f) = messages /\ \A u, v \in 1..n : u < v => f[u] < f[v]}

\* The mailbox is rebuilt: a new UIDVALIDITY and UIDs numbered afresh.  A server
\* does not do so to a mailbox between SELECT and FETCH.
NewEpoch ==
  /\ epoch < MaxEpoch /\ pc # "fetch"
  /\ epoch' = epoch + 1
  /\ server' \in Renumbered(Range(server), Cardinality(DOMAIN server))
  /\ uidNext' = Cardinality(DOMAIN server) + 1
  /\ UNCHANGED <<arrived, storeVars, pc, firstRun, passVars, history>>

\* The row goes before the server was asked.
RowGoesFirst(u) == TRUE

\* performMove and DeleteMessage remove the row once the server's command has
\* succeeded: the message is gone, or, under a new UIDVALIDITY nobody checked,
\* the command spoke of another message.
ServerDone(u) == rows[u] \notin Range(server) \/ valid # epoch

RemoveMessage ==
  /\ \E u \in DOMAIN rows :
       /\ ServerDone(u)
       /\ rows' = Without(rows, u)
       /\ removed' = removed \union {u}
  /\ UNCHANGED <<serverVars, valid, lastSeen, pc, firstRun, passVars, notified, before,
                 torn, stops>>

-----------------------------------------------------------------------------
(* The sync goroutine *)

Idle == /\ initial' = FALSE /\ status' = NoStatus /\ lastUid' = 0 /\ seenMark' = 0
        /\ batch' = Empty /\ stored' = {} /\ news' = {}

\* runOnce starts a cycle with a sweep, `initial' until one cycle succeeded.
Sweep ==
  /\ pc = "out"
  /\ pc' = "status" /\ initial' = firstRun
  /\ UNCHANGED <<serverVars, storeVars, firstRun, status, lastUid, seenMark, batch,
                 stored, news, history>>

\* The idle loop re-syncs on the live connection, never `initial'.
Resync ==
  /\ pc = "between"
  /\ pc' = "status" /\ initial' = FALSE
  /\ UNCHANGED <<serverVars, storeVars, firstRun, status, lastUid, seenMark, batch,
                 stored, news, history>>

\* runOnce returns nil and accountLoop clears firstRun.
EndCycle ==
  /\ pc = "between"
  /\ pc' = "out" /\ firstRun' = FALSE
  /\ UNCHANGED <<serverVars, storeVars, passVars, history>>

Status ==
  /\ pc = "status"
  /\ status' = [validity |-> epoch, count |-> Cardinality(DOMAIN server)]
  /\ before' = IF valid = 0 THEN arrived ELSE before
  /\ pc' = "upsertFolder"
  /\ UNCHANGED <<serverVars, storeVars, firstRun, initial, lastUid, seenMark, batch,
                 stored, news, notified, removed, torn, stops>>

\* A folder row that keeps its messages whatever UIDVALIDITY says.
NeverStale == FALSE

\* A mailbox with fewer messages than rows is taken for a rebuilt one.
ShrunkIsStale ==
  valid # 0 /\ (valid # status.validity \/ status.count < Cardinality(DOMAIN rows))

\* The rows belong to another UIDVALIDITY epoch.
Stale == valid # 0 /\ valid # status.validity

\* A wipe that only resets the folder's row.
DeleteForgotten == rows

\* The folder's messages after the first statement of a wipe.
RowsAfterWipe == Empty

\* upsertFolderLocked: insert the folder, or wipe its messages when their
\* epoch has passed, or only refresh its role.
UpsertFolder ==
  /\ pc = "upsertFolder"
  /\ IF Stale
       THEN rows' = RowsAfterWipe /\ pc' = "resetFolder" /\ UNCHANGED valid
       ELSE /\ valid' = IF valid = 0 THEN status.validity ELSE valid
            /\ pc' = "select" /\ UNCHANGED rows
  /\ UNCHANGED <<serverVars, lastSeen, firstRun, passVars, history>>

\* The second statement of the wipe.
ResetFolder ==
  /\ pc = "resetFolder"
  /\ valid' = status.validity /\ lastSeen' = 0
  /\ notified' = {} /\ removed' = {}
  /\ pc' = "select"
  /\ UNCHANGED <<serverVars, rows, firstRun, passVars, before, torn, stops>>

\* SELECT, then FolderSyncState.
Select ==
  /\ pc = "select"
  /\ lastUid' = MaxOf(DOMAIN rows) /\ seenMark' = lastSeen
  /\ pc' = "fetch"
  /\ UNCHANGED <<serverVars, storeVars, firstRun, initial, status, batch, stored, news,
                 history>>

\* RecentSequenceStart: the first sequence number of the newest page.
RecentStart(count) == IF count <= Limit THEN 1 ELSE count - Limit + 1

\* The sequence number of the message with UID u.
Number(u) == Cardinality({v \in DOMAIN server : v <= u})

\* UIDs of the messages numbered s and up; a range whose start lies above the
\* mailbox means its last message.
FromSequence(s) ==
  {u \in DOMAIN server : Number(u) >= s \/ \A v \in DOMAIN server : v <= u}

\* The UIDs FETCH returns that syncFolderUIDs keeps: the newest page when
\* nothing is cached, else what lies above the cached maximum.
Fresh ==
  IF lastUid = 0
    THEN IF status.count = 0 THEN {} ELSE FromSequence(RecentStart(status.count))
    ELSE {u \in DOMAIN server : u > lastUid}

\* Every unseen envelope of a pass is worth a notification.
MarkIgnored(u, mark) == TRUE

\* Only UIDs above the mark are.
AboveMark(u, mark) == u > mark

\* The initial sweep notifies like any other pass.
InitialToo(first) == TRUE

MayNotify(first) == ~first

\* FETCH and the filters.  The arguments and reads of the pass are dead then.
Fetch ==
  /\ pc = "fetch"
  /\ batch' = Restrict(server, Fresh)
  /\ \E unseen \in SUBSET Fresh :
       news' = {u \in unseen : MayNotify(initial) /\ AboveMark(u, seenMark)}
  /\ pc' = IF Fresh = {} THEN "between" ELSE "store"
  /\ initial' = FALSE /\ status' = NoStatus /\ lastUid' = 0 /\ seenMark' = 0
  /\ UNCHANGED <<serverVars, storeVars, firstRun, stored, history>>

\* The envelopes in the order of the inbox's list.
NewestFirst == Max(DOMAIN batch \ stored)

\* The next envelope of the batch, in the order FETCH returned them.
NextEnvelope == Min(DOMAIN batch \ stored)

\* UpsertEnvelopes writes one envelope after the other, each its own commit.
StoreOne ==
  /\ pc = "store"
  /\ rows' = With(rows, NextEnvelope, batch[NextEnvelope])
  /\ stored' = stored \union {NextEnvelope}
  /\ pc' = IF stored' = DOMAIN batch THEN "mark" ELSE "store"
  /\ UNCHANGED <<serverVars, valid, lastSeen, firstRun, initial, status, lastUid,
                 seenMark, batch, news, history>>

\* SetLastSeenUID only ever raises the mark.
MarkRaised(mark, u) == IF mark < u THEN u ELSE mark

Mark ==
  /\ pc = "mark"
  /\ lastSeen' = MarkRaised(lastSeen, MaxOf(DOMAIN batch))
  /\ pc' = "notify"
  /\ UNCHANGED <<serverVars, rows, valid, firstRun, passVars, history>>

\* The events of the pass and NotifyNewMail.
Notify ==
  /\ pc = "notify"
  /\ notified' = notified \union {batch[u] : u \in news}
  /\ pc' = "between"
  /\ Idle
  /\ UNCHANGED <<serverVars, storeVars, firstRun, removed, before, torn, stops>>

\* The pass ends early: its locals go.
Abort ==
  /\ stops < MaxStops
  /\ stops' = stops + 1
  /\ pc' = "out"
  /\ torn' = (torn \/ pc = "mark" \/ (pc = "store" /\ stored # {}))
  /\ Idle

\* A network call or a statement fails: runOnce returns the error, and after
\* the back-off accountLoop starts over, firstRun as it was.
Fail ==
  /\ pc \notin {"out", "notify"}
  /\ Abort
  /\ UNCHANGED <<serverVars, storeVars, firstRun, notified, removed, before>>

\* The process is killed and started again.  Stop followed by Start (SyncAccount)
\* does the same at the points where the loop looks at its context.
Crash ==
  /\ firstRun' = TRUE
  /\ Abort
  /\ UNCHANGED <<serverVars, storeVars, notified, removed, before>>

SyncStep ==
  \/ Sweep \/ Resync \/ EndCycle \/ Status \/ UpsertFolder \/ ResetFolder \/ Select
  \/ Fetch \/ StoreOne \/ Mark \/ Notify

Next ==
  \/ Arrive \/ Expunge \/ NewEpoch \/ RemoveMessage
  \/ SyncStep \/ Fail \/ Crash

\* Module IdleLoop shows that re-syncs never cease; here that is the fairness
\* of the goroutine's steps.
Spec == Init /\ [][Next]_vars /\ WF_vars(SyncStep)

-----------------------------------------------------------------------------
(* Properties *)

PartialMap(f) == DOMAIN f \subseteq Uid /\ Range(f) \subseteq Msg

TypeOK ==
  /\ PartialMap(server) /\ uidNext \in 1..MaxMsg + 1 /\ epoch \in Epoch
  /\ arrived \in 0..MaxMsg
  /\ PartialMap(rows) /\ valid \in 0..MaxEpoch /\ lastSeen \in 0..MaxMsg
  /\ pc \in {"out", "between", "status", "upsertFolder", "resetFolder", "select",
             "fetch", "store", "mark", "notify"}
  /\ firstRun \in BOOLEAN /\ initial \in BOOLEAN
  /\ status.validity \in 0..MaxEpoch /\ status.count \in 0..MaxMsg
  /\ lastUid \in 0..MaxMsg /\ seenMark \in 0..MaxMsg
  /\ PartialMap(batch) /\ stored \subseteq DOMAIN batch /\ news \subseteq DOMAIN batch
  /\ notified \subseteq Msg /\ removed \subseteq Uid
  /\ before \in 0..MaxMsg /\ torn \in BOOLEAN
  /\ stops \in 0..MaxStops

\* Under one UIDVALIDITY epoch a cached row is the message its UID names on the
\* server.  STATUS, SELECT and FETCH are separate calls, the wipe is two
\* statements, and the process may die between any of them.
RowsMatchServer ==
  valid = epoch =>
    \A u \in DOMAIN rows \intersect DOMAIN server : rows[u] = server[u]

\* Nothing between two cached rows is missing, because an incremental fetch
\* would never look there again; also when a batch was written in part.
NoGapBetweenRows ==
  valid = epoch =>
    \A u \in DOMAIN server \ DOMAIN rows :
      ~\E a, b \in DOMAIN rows : a < u /\ u < b

\* Within one epoch a message is notified at most once, across failed passes,
\* restarts, and a cache that user commands have emptied (which makes the next
\* pass fetch the newest page again).
NotifiedAtMostOnce ==
  [][pc = "notify" => \A u \in news : batch[u] \notin notified]_vars

\* While the mailbox keeps its UIDVALIDITY, a row that a user command removed
\* does not come back, whatever re-sync was under way when it was removed.
RemovedStaysRemoved ==
  [][valid = epoch =>
       \A u \in DOMAIN rows' \ DOMAIN rows : u \notin removed]_vars

\* Mail the account's first sync found in the mailbox is not news: it is never
\* notified, also when deletions empty the cache and the next pass fetches an
\* older page, because last_seen_uid remembers.  Two exceptions: a rebuild of
\* the mailbox (RebuildStaysSilent), and a pass that ended between
\* UpsertEnvelopes and SetLastSeenUID, after which nothing raises the mark.
OldMailIsSilent == torn \/ valid > 1 \/ \A m \in notified : m > before

\* TERMINOLOGY.md: a sync after cache invalidation is an initial sync too and
\* suppresses new-mail notifications.
RebuildStaysSilent == \A m \in notified : m > before

\* However passes fail and epochs change, the store settles: the rows carry the
\* server's epoch, match it, and miss nothing newer than what they hold.
StoreSettles ==
  <>[]( /\ valid = epoch
        /\ \A u \in DOMAIN server :
             \/ u \in DOMAIN rows /\ rows[u] = server[u]
             \/ \E v \in DOMAIN rows : u < v )

-----------------------------------------------------------------------------
(* What is to be notified once it is stored. *)
Cache == INSTANCE CachedFolder WITH box <- server, high <- uidNext - 1, shown <- notified,
           fresh <- {batch[u] : u \in news \intersect stored}

\* The sync implements the cached folder: whatever fails, whoever removes rows and
\* however the mailbox is rebuilt between its calls and commits, the store only ever
\* changes in the ways CachedFolder allows.
ImplementsCache == Cache!Spec

=============================================================================
