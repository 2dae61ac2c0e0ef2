------------------------------ MODULE IdleLoop ------------------------------
(***************************************************************************)
(* The cycle of one account's sync goroutine: Manager.accountLoop and      *)
(* Manager.runOnce of internal/sync/sync.go, over the Session of           *)
(* internal/imap/imap.go, against an IMAP server whose inbox changes while *)
(* the loop is connected.                                                  *)
(*                                                                         *)
(* The module answers one question: can mail sit on the server, announced  *)
(* or about to be announced, while the loop sleeps in IDLE believing that  *)
(* nothing changed?  An untagged EXISTS reaches the client once.  It ends  *)
(* in one of three places: in the SELECT response, in the `changed' flag   *)
(* and `wake' channel of the session, or nowhere because the session died. *)
(*                                                                         *)
(* Abstractions.  Messages are their UIDs.  FETCH and the upsert of its    *)
(* result are one step, as are SELECT and the read of the cached maximum.  *)
(* The initial limit of 200 envelopes exceeds any mailbox of the model.    *)
(* Time is counted in ticks of the coarsest interval that matters, and     *)
(* passes while bodies are prefetched and while the loop waits.  Which     *)
(* messages are notified is the matter of module FolderSync.               *)
(***************************************************************************)
EXTENDS Integers, FiniteSets, Sequences

CONSTANTS
  MaxUid,       \* bound: messages that ever arrive in the inbox
  MaxDrops,     \* bound: connection losses and protocol errors
  FullResync,   \* FullResyncInterval, in ticks
  Reissue,      \* IdleReissueInterval, in ticks
  Poll,         \* PollInterval, in ticks
  MaxResyncs,   \* MaxConsecutiveResyncsBeforeIdle
  FolderLists   \* the folder sequences a server's LIST may return

ASSUME IdleLoopAssumption ==
  /\ MaxUid \in Nat /\ MaxDrops \in Nat /\ MaxResyncs \in Nat
  /\ FullResync \in Nat \ {0} /\ Reissue \in Nat \ {0} /\ Poll \in Nat \ {0}
  /\ FolderLists \subseteq Seq({"inbox", "other"})

VARIABLES
  server,    \* UIDs in the inbox on the server
  arrived,   \* highest UID the server ever assigned
  cache,     \* UIDs of the inbox rows in the local store
  conn,      \* "up" while the session's socket is open
  selected,  \* the selected mailbox, or "none"
  view,      \* UIDs the server has told this session about
  changed,   \* Session.changed
  wake,      \* Session.wake holds its token
  ctx,       \* "live", or "cancelled" by Stop
  capIdle,   \* the server advertises IDLE
  layout,    \* the folders its LIST returns, in order
  drops,     \* failures so far
  pc,        \* where the loop stands
  todo,      \* folders the sweep has still to do; <<>> in the idle loop
  inbox,     \* the sweep met a folder with the inbox role
  exists,    \* EXISTS of the last STATUS of the inbox
  lastUid,   \* MAX(uid) cached when the last re-sync read it
  resyncs,   \* consecutiveResyncs
  outcome,   \* what ended the IDLE wait
  elapsed,   \* ticks since the idle loop began (deadline = FullResync)
  remaining, \* ticks left to the deadline when the wait was decided
  waitLeft,  \* ticks left on the timer of the wait
  ui         \* last sync-state event of the account

mailVars  == <<server, arrived, cache>>
sessVars  == <<conn, selected, view, changed, wake>>
envVars   == <<ctx, capIdle, layout, drops>>
clockVars == <<elapsed, remaining, waitLeft>>
loopVars  == <<pc, todo, inbox, exists, lastUid, resyncs, outcome, ui>>
vars      == <<mailVars, sessVars, envVars, clockVars, loopVars>>

Uid == 1..MaxUid

Steps == {"start", "connect", "status", "select", "fetch", "prefetch",
          "idleEnter", "idleWait", "idleClose", "pollWait", "noop",
          "sleep", "backoff", "exited"}

-----------------------------------------------------------------------------
(* Pure decisions of sync.go *)

\* The drain ignores what it found: a plausible regression of issue #39.
DrainIgnoredAtCap(mailboxChanged, n) ==
  IF ~mailboxChanged \/ n >= MaxResyncs THEN "idle" ELSE "resync"

\* DrainAction: only a clean drain may enter IDLE.
DrainAction(mailboxChanged, n) ==
  IF ~mailboxChanged THEN "idle" ELSE IF n < MaxResyncs THEN "resync" ELSE "endCycle"

\* The re-issue cadence handed to IdleWait without looking at the deadline.
BudgetUncapped(left, reissue) == reissue

\* IdleWaitBudget: the shorter of the cadence and the time to the deadline.
IdleWaitBudget(left, reissue) == IF left < reissue THEN left ELSE reissue

\* IdleTimeoutAction, from the two durations that produced the wait.
IdleTimeoutAction(left, budget) == IF budget >= left THEN "endCycle" ELSE "reissue"

\* m is COALESCE(MAX(uid), 0) over the rows S.
IsMaxUid(m, S) == IF S = {} THEN m = 0 ELSE m \in S /\ \A u \in S : u <= m

\* A re-sync that asks for the newest page only, whatever is cached already.
OnlyNewest(last, n, S) == {u \in S : u > last /\ \A v \in S : v <= u}

\* A fetch that starts one UID too high.
FetchedOffByOne(last, n, S) ==
  IF last = 0 THEN (IF n = 0 THEN {} ELSE S) ELSE {u \in S : u > last + 1}

\* What syncFolderUIDs fetches from the messages S of the session: the newest
\* page by sequence number when nothing is cached (nothing at all when STATUS
\* counted no message), otherwise the UIDs above the cached maximum.
Fetched(last, n, S) ==
  IF last = 0 THEN (IF n = 0 THEN {} ELSE S) ELSE {u \in S : u > last}

-----------------------------------------------------------------------------
Init ==
  /\ server \in {{}, {1}} /\ arrived = Cardinality(server) /\ arrived <= MaxUid
  /\ cache = {}
  /\ conn = "down" /\ selected = "none" /\ view = {}
  /\ changed = FALSE /\ wake = FALSE
  /\ ctx = "live" /\ capIdle \in BOOLEAN /\ drops = 0
  /\ layout \in FolderLists
  /\ pc = "start" /\ todo = <<>> /\ inbox = FALSE
  /\ exists = 0 /\ lastUid = 0 /\ resyncs = 0 /\ outcome = "none"
  /\ elapsed = 0 /\ remaining = 0 /\ waitLeft = 0
  /\ ui = "none"

Cancelled == ctx = "cancelled"
Sweeping  == todo # <<>>
Folder    == IF Sweeping THEN Head(todo) ELSE "inbox"

-----------------------------------------------------------------------------
(* The server, the network, the clock and the user *)

\* A message is delivered to the inbox.
Arrive ==
  /\ arrived < MaxUid
  /\ arrived' = arrived + 1
  /\ server' = server \union {arrived + 1}
  /\ UNCHANGED <<cache, sessVars, envVars, clockVars, loopVars>>

\* A message leaves the inbox on the server: another client deletes it, or a
\* move or delete command of this app runs its server half.
Expunge ==
  /\ \E u \in server : server' = server \ {u}
  /\ UNCHANGED <<arrived, cache, sessVars, envVars, clockVars, loopVars>>

\* A command that drops the row before the server has answered.
AnyRow == cache

\* The rows a command may drop: the server has done its half.
Gone == cache \ server

\* The local half of that command: RemoveMessage drops the row.
RemoveRow ==
  /\ \E u \in Gone : cache' = cache \ {u}
  /\ UNCHANGED <<server, arrived, sessVars, envVars, clockVars, loopVars>>

\* An untagged EXISTS of the selected inbox reaches the unilateral-data
\* handler.  EXPUNGE carries no NumMessages and leaves the flag alone.
Announce ==
  /\ conn = "up" /\ selected = "inbox"
  /\ server \ view # {}
  /\ view' = server
  /\ changed' = TRUE /\ wake' = TRUE
  /\ UNCHANGED <<mailVars, conn, selected, envVars, clockVars, loopVars>>

\* The same for another mailbox, while the sweep has it selected.
AnnounceOther ==
  /\ conn = "up" /\ selected = "other"
  /\ changed' = TRUE /\ wake' = TRUE
  /\ UNCHANGED <<mailVars, conn, selected, view, envVars, clockVars, loopVars>>

\* The connection is lost.
Drop ==
  /\ conn = "up" /\ drops < MaxDrops
  /\ conn' = "down" /\ drops' = drops + 1
  /\ UNCHANGED <<mailVars, selected, view, changed, wake, ctx, capIdle, layout,
                 clockVars, loopVars>>

\* Stop cancels the context of the task.
Cancel ==
  /\ ~Cancelled
  /\ ctx' = "cancelled"
  /\ UNCHANGED <<mailVars, sessVars, capIdle, layout, drops, clockVars, loopVars>>

\* context.AfterFunc(ctx, session.Close) runs in its own goroutine.
CloseOnCancel ==
  /\ Cancelled /\ conn = "up"
  /\ conn' = "down"
  /\ UNCHANGED <<mailVars, selected, view, changed, wake, envVars, clockVars,
                 loopVars>>

\* A tick of the clock: a prefetch takes long, or a timer runs down.
Tick ==
  /\ \/ pc = "prefetch" /\ elapsed < FullResync /\ waitLeft' = waitLeft
     \/ pc \in {"idleWait", "pollWait"} /\ waitLeft > 0 /\ waitLeft' = waitLeft - 1
  /\ elapsed' = elapsed + 1
  /\ UNCHANGED <<mailVars, sessVars, envVars, remaining, loopVars>>

-----------------------------------------------------------------------------
(* The loop *)

Stay(p) == pc' = p /\ UNCHANGED <<ui, outcome>>

\* The loop never looks at its context.
ContextIgnored(p) == p

\* The ctx.Err() checks of accountLoop: go on to p unless cancelled.
UnlessCancelled(p) == IF Cancelled THEN "exited" ELSE p

\* runOnce returns: the deferred Logout closes the session, and its locals go.
Return(p, state) ==
  /\ pc' = p /\ ui' = state
  /\ conn' = "down" /\ selected' = "none" /\ view' = {}
  /\ changed' = FALSE /\ wake' = FALSE
  /\ todo' = <<>> /\ inbox' = FALSE /\ exists' = 0 /\ lastUid' = 0
  /\ resyncs' = 0 /\ outcome' = "none"
  /\ elapsed' = 0 /\ remaining' = 0 /\ waitLeft' = 0

ReturnNil == Return(UnlessCancelled("start"), ui)
ReturnErr == Return(UnlessCancelled("backoff"), IF Cancelled THEN ui ELSE "error")

\* accountLoop: the head of its for, then runOnce reports Syncing.
Start ==
  /\ pc = "start"
  /\ pc' = UnlessCancelled("connect")
  /\ ui' = IF pc' = "connect" THEN "syncing" ELSE ui
  /\ UNCHANGED <<mailVars, sessVars, envVars, clockVars, todo, inbox, exists,
                 lastUid, resyncs, outcome>>

\* The end of the sweep: on to the idle loop, or to a plain poll when no
\* folder had the inbox role.
EndSweep(found) ==
  IF found THEN pc' = "status" /\ elapsed' = 0 /\ resyncs' = 0 /\ UNCHANGED ui
           ELSE pc' = "sleep" /\ ui' = "idle" /\ UNCHANGED <<elapsed, resyncs>>

\* imap.Connect and ListFoldersWithRoles succeed.
Connect ==
  /\ pc = "connect" /\ ~Cancelled
  /\ conn' = "up"
  /\ todo' = layout
  /\ IF layout = <<>> THEN EndSweep(FALSE)
                      ELSE pc' = "status" /\ UNCHANGED <<elapsed, resyncs, ui>>
  /\ UNCHANGED <<mailVars, selected, view, changed, wake, envVars, remaining,
                 waitLeft, inbox, exists, lastUid, outcome>>

\* The dial, the login or LIST fails (always so once cancelled), which costs
\* one of the failures of the run.
ConnectFails ==
  /\ pc = "connect"
  /\ Cancelled \/ drops < MaxDrops
  /\ drops' = IF Cancelled THEN drops ELSE drops + 1
  /\ ReturnErr
  /\ UNCHANGED <<mailVars, ctx, capIdle, layout>>

\* A command on a dead session returns an error.
CommandFails ==
  /\ pc \in {"status", "select", "fetch"} /\ conn = "down"
  /\ ReturnErr
  /\ UNCHANGED <<mailVars, envVars>>

\* STATUS of the folder, and UpsertFolderWithCounts.
Status ==
  /\ pc = "status" /\ conn = "up"
  /\ inbox' = (inbox \/ Folder = "inbox")
  /\ exists' = IF Folder = "inbox" THEN Cardinality(server) ELSE exists
  /\ Stay("select")
  /\ UNCHANGED <<mailVars, sessVars, envVars, clockVars, todo, lastUid, resyncs>>

\* SELECT, whose own EXISTS tells the session of every message without
\* passing through the handler, and FolderSyncState.
Select ==
  /\ pc = "select" /\ conn = "up"
  /\ selected' = Folder
  /\ IF Folder = "inbox"
       THEN /\ view' = server
            /\ \E m \in 0..MaxUid : IsMaxUid(m, cache) /\ lastUid' = m
       ELSE view' = {} /\ UNCHANGED lastUid
  /\ Stay("fetch")
  /\ UNCHANGED <<mailVars, conn, changed, wake, envVars, clockVars, todo, inbox,
                 exists, resyncs>>

\* FETCH, the filter on UIDs, UpsertEnvelopes; then back in runOnce: the next
\* folder of the sweep, the idle loop, or the prefetch.
Fetch ==
  /\ pc = "fetch" /\ conn = "up"
  /\ cache' = IF Folder = "inbox"
                THEN cache \union Fetched(lastUid, exists, view \intersect server)
                ELSE cache
  /\ \/ /\ Cancelled
        /\ ReturnNil
     \/ /\ ~Cancelled /\ ~Sweeping
        /\ Stay("prefetch")
        /\ UNCHANGED <<sessVars, clockVars, todo, inbox, exists, lastUid, resyncs>>
     \/ /\ ~Cancelled /\ Sweeping
        /\ todo' = Tail(todo)
        /\ IF Tail(todo) = <<>>
             THEN EndSweep(inbox)
             ELSE pc' = "status" /\ UNCHANGED <<elapsed, resyncs, ui>>
        /\ UNCHANGED <<sessVars, remaining, waitLeft, inbox, exists, lastUid, outcome>>
  /\ UNCHANGED <<server, arrived, envVars>>

\* sleep(ctx, PollInterval) of an account without an inbox.
Sleep ==
  /\ pc = "sleep"
  /\ ReturnNil
  /\ UNCHANGED <<mailVars, envVars>>

\* The back-off of accountLoop ends, or the context does.
Backoff ==
  /\ pc = "backoff"
  /\ pc' = UnlessCancelled("start")
  /\ UNCHANGED <<mailVars, sessVars, envVars, clockVars, todo, inbox, exists,
                 lastUid, resyncs, outcome, ui>>

\* prefetchMessageBodies has returned (it swallows its errors).  Then, with no
\* network call in between: the deadline, DrainMailboxChanged, DrainAction.
Drain ==
  /\ pc = "prefetch"
  /\ LET act == DrainAction(changed, resyncs) IN
     \/ /\ elapsed >= FullResync \/ act = "endCycle"
        /\ ReturnNil
     \/ /\ elapsed < FullResync /\ act = "resync"
        /\ changed' = FALSE /\ wake' = FALSE
        /\ resyncs' = resyncs + 1
        /\ Stay("status")
        /\ UNCHANGED <<conn, selected, view, clockVars, todo, inbox, exists, lastUid>>
     \/ /\ elapsed < FullResync /\ act = "idle"
        /\ changed' = FALSE /\ wake' = FALSE
        /\ resyncs' = 0
        /\ remaining' = FullResync - elapsed
        /\ ui' = "idle"
        /\ pc' = "idleEnter"
        /\ UNCHANGED <<conn, selected, view, elapsed, waitLeft, todo, inbox, exists,
                       lastUid, outcome>>
  /\ UNCHANGED <<mailVars, envVars>>

Budget == IdleWaitBudget(remaining, Reissue)

\* IdleWait: the server accepts IDLE.  What was piggy-backed on the way in
\* ends the wait at once; otherwise the timer starts.
IdleEnter ==
  /\ pc = "idleEnter" /\ conn = "up" /\ capIdle
  /\ changed' = FALSE /\ wake' = FALSE
  /\ IF changed THEN pc' = "idleClose" /\ outcome' = "newData" /\ UNCHANGED waitLeft
                ELSE pc' = "idleWait" /\ waitLeft' = Budget /\ UNCHANGED outcome
  /\ UNCHANGED <<mailVars, conn, selected, view, envVars, elapsed, remaining, todo,
                 inbox, exists, lastUid, resyncs, ui>>

\* No IDLE capability, or the command could not be sent: pollFallback.
PollEnter ==
  /\ pc = "idleEnter" /\ (~capIdle \/ conn = "down")
  /\ pc' = "pollWait"
  /\ waitLeft' = IF Budget < Poll THEN Budget ELSE Poll
  /\ UNCHANGED <<mailVars, sessVars, envVars, elapsed, remaining, todo, inbox, exists,
                 lastUid, resyncs, outcome, ui>>

\* The wait ends: by the wake channel, by the timer, or because the session
\* is gone, which ends the cycle without an error.
WaitEnds ==
  /\ pc \in {"idleWait", "pollWait"}
  /\ LET next == IF pc = "idleWait" THEN "idleClose" ELSE "noop" IN
     \/ /\ wake
        /\ wake' = FALSE
        /\ pc' = next /\ outcome' = IF pc = "idleWait" THEN "newData" ELSE "timeout"
        /\ UNCHANGED <<conn, selected, view, changed, clockVars, todo, inbox, exists,
                       lastUid, resyncs, ui>>
     \/ /\ waitLeft = 0
        /\ pc' = next /\ outcome' = "timeout"
        /\ UNCHANGED <<sessVars, clockVars, todo, inbox, exists, lastUid, resyncs, ui>>
     \/ /\ conn = "down"
        /\ ReturnNil
  /\ UNCHANGED <<mailVars, envVars>>

\* A re-issue does not report that it works again.
SyncingOnNewDataOnly(o) == IF o = "newData" THEN "syncing" ELSE ui

\* The state both arms of the switch on the outcome report.
StateAfterWait(o) == "syncing"

\* runOnce after IdleWait returned NewData or Timeout on a live session.
AfterWait ==
  IF Cancelled \/ (outcome = "timeout" /\ IdleTimeoutAction(remaining, Budget) = "endCycle")
    THEN ReturnNil
    ELSE /\ pc' = "status" /\ ui' = StateAfterWait(outcome) /\ outcome' = "none"
         /\ remaining' = 0 /\ waitLeft' = 0
         /\ UNCHANGED <<conn, selected, view, elapsed, todo, inbox, exists, lastUid,
                        resyncs>>

\* closeIdle: DONE is answered.  After a wakeup the flag is cleared, because
\* the caller re-syncs anyway; after a timeout it is kept.
IdleClose ==
  /\ pc = "idleClose" /\ conn = "up"
  /\ AfterWait
  /\ IF outcome = "newData" \/ pc' # "status"
       THEN changed' = FALSE /\ wake' = FALSE
       ELSE UNCHANGED <<changed, wake>>
  /\ UNCHANGED <<mailVars, envVars>>

\* DONE meets a dead connection or a NO (benign: SessionGone), or a BAD.
IdleCloseFails ==
  /\ pc = "idleClose"
  /\ \/ /\ conn = "down" /\ ReturnNil
        /\ UNCHANGED drops
     \/ /\ conn = "up" /\ drops < MaxDrops
        /\ ReturnNil \/ ReturnErr
        /\ drops' = drops + 1
  /\ UNCHANGED <<mailVars, ctx, capIdle, layout>>

\* The NOOP that ends a poll, its result ignored.
Noop ==
  /\ pc = "noop"
  /\ AfterWait
  /\ IF pc' # "status" THEN changed' = FALSE /\ wake' = FALSE
                       ELSE UNCHANGED <<changed, wake>>
  /\ UNCHANGED <<mailVars, envVars>>

Exited ==
  /\ pc = "exited"
  /\ UNCHANGED vars

LoopStep ==
  \/ Start \/ Connect \/ ConnectFails \/ CommandFails \/ Status \/ Select \/ Fetch
  \/ Sleep \/ Backoff \/ Drain \/ IdleEnter \/ PollEnter \/ WaitEnds \/ IdleClose
  \/ IdleCloseFails \/ Noop

Environment ==
  \/ Arrive \/ Expunge \/ RemoveRow \/ Announce \/ AnnounceOther \/ Drop \/ Cancel

Next == LoopStep \/ Environment \/ CloseOnCancel \/ Tick \/ Exited

-----------------------------------------------------------------------------
(* Fairness.  The goroutine takes its next step: each network call returns,  *)
(* with an error at the latest when TCP keepalive (set in Connect) gives the *)
(* connection up, the runtime runs AfterFunc callbacks, and time passes.     *)
(* Mail delivery, the server's announcements, losses and the user owe        *)
(* nothing.                                                                  *)
Fairness == WF_vars(LoopStep) /\ WF_vars(CloseOnCancel) /\ WF_vars(Tick)

Spec == Init /\ [][Next]_vars /\ Fairness

-----------------------------------------------------------------------------
(* Properties *)

MailTypeOK ==
  /\ server \subseteq Uid /\ arrived \in 0..MaxUid /\ cache \subseteq Uid
  /\ view \subseteq Uid

FlagTypeOK ==
  changed \in BOOLEAN /\ wake \in BOOLEAN /\ capIdle \in BOOLEAN /\ inbox \in BOOLEAN

CountTypeOK ==
  /\ drops \in 0..MaxDrops /\ resyncs \in 0..MaxResyncs
  /\ exists \in Nat /\ lastUid \in 0..MaxUid
  /\ elapsed \in 0..FullResync /\ remaining \in 0..FullResync /\ waitLeft \in Nat

PlaceTypeOK ==
  /\ conn \in {"up", "down"} /\ selected \in {"none", "inbox", "other"}
  /\ ctx \in {"live", "cancelled"} /\ pc \in Steps
  /\ outcome \in {"none", "newData", "timeout"}
  /\ ui \in {"none", "syncing", "idle", "error"}

FolderTypeOK == layout \in FolderLists /\ todo \in Seq({"inbox", "other"})

TypeOK == MailTypeOK /\ FlagTypeOK /\ CountTypeOK /\ PlaceTypeOK /\ FolderTypeOK

\* Messages the session has been told of that no row records.
Unsynced == (view \intersect server) \ cache

\* The last re-sync fetched nothing at all: no row was cached and STATUS,
\* taken before SELECT, had counted no message.
FetchSkipped == lastUid = 0 /\ exists = 0

\* Once the loop has decided to wait, a message the server has announced to
\* this session and the store lacks has its announcement still pending: the
\* wake token ends the wait, and after a timeout the flag makes the next drain
\* re-sync (the drain-check of issue #39).  The one exception is FetchSkipped,
\* which the run of NoAnnouncedMailStranded shows to be real.
AnnouncedMailIsPending ==
  Unsynced # {} /\ ~FetchSkipped =>
    /\ pc = "idleEnter" => changed
    /\ pc \in {"idleWait", "pollWait"} => wake
    /\ pc = "idleClose" /\ outcome = "timeout" => changed
    /\ pc = "noop" => changed

\* What the header of sync.go claims without exception: no announcement goes
\* unobserved before the loop commits to IDLE.
NoAnnouncedMailStranded ==
  pc = "idleWait" /\ Unsynced # {} => wake

\* An incremental FETCH starts above the highest cached UID, so a message below
\* a cached one that is on the server and not in the store would never be
\* fetched.  No interleaving of deliveries, removals, losses and re-syncs
\* leaves such a gap.
CacheHasNoGap == \A u \in server \ cache, c \in cache : c < u

\* A wait, IDLE or poll, never outlasts the deadline of the full re-sync: the
\* cap of IdleWaitBudget (the time commands take is below a tick).
WaitEndsByDeadline ==
  pc \in {"idleWait", "pollWait"} => elapsed + waitLeft <= FullResync

\* The last sync-state event tells the truth: Idle throughout every wait,
\* Syncing whenever the loop works for the user, Error throughout back-off.
ReportedStateIsTrue ==
  /\ pc \in {"connect", "status", "select", "fetch", "prefetch"} => ui = "syncing"
  /\ pc \in {"idleEnter", "idleWait", "idleClose", "pollWait", "noop", "sleep"} =>
       ui = "idle"
  /\ pc = "backoff" => ui = "error"

-----------------------------------------------------------------------------
(* The inductive invariant behind the invariants above *)

\* UIDs are assigned in order.
Bounds ==
  server \subseteq 1..arrived /\ cache \subseteq 1..arrived /\ view \subseteq 1..arrived

\* What the session has not been told of is newer than all it has been told of.
ViewIsPrefix == \A u \in server \ view, v \in view : v < u

\* Between SELECT and FETCH of the inbox, nothing at or below the cached maximum
\* is missing, also when user commands remove rows meanwhile.
FetchKnows ==
  pc = "fetch" /\ Folder = "inbox" =>
    lastUid <= arrived /\ \A u \in server : u <= lastUid => u \in cache

\* From the FETCH of a re-sync on, an announcement sets the flag and the wake
\* token, and neither is lost before it ends the wait.
Pending ==
  Unsynced # {} /\ ~FetchSkipped =>
    /\ pc \in {"prefetch", "idleEnter", "idleWait", "pollWait"} => changed /\ wake
    /\ pc = "noop" \/ (pc = "idleClose" /\ outcome = "timeout") => changed

\* The time left, as computed before IDLE, is still right when IDLE begins.
RemainingIsTrue == pc = "idleEnter" => remaining = FullResync - elapsed

LoopInv ==
  /\ Bounds /\ ViewIsPrefix /\ FetchKnows /\ CacheHasNoGap
  /\ Pending
  /\ RemainingIsTrue /\ WaitEndsByDeadline

-----------------------------------------------------------------------------
\* A message that stays in the inbox of a server whose folders include it is
\* cached in the end, unless the task is stopped: even one stranded by
\* FetchSkipped is found when IDLE is re-issued or the deadline passes.
MailIsEventuallyCached ==
  \A u \in Uid :
    (u \in server /\ \E i \in DOMAIN layout : layout[i] = "inbox")
      ~> (u \in cache \/ u \notin server \/ Cancelled)

\* Stop's wait for the goroutine is bounded only because a cancelled loop
\* leaves every blocking call (IDLE, poll, sleep, back-off, dial) and returns.
CancelledLoopExits == Cancelled ~> (pc = "exited")

-----------------------------------------------------------------------------
(* The inbox under one UIDVALIDITY, a message being its UID; nothing is notified. *)
Cache == INSTANCE CachedFolder WITH box <- [u \in server |-> u], high <- arrived,
           epoch <- 1, rows <- [u \in cache |-> u], valid <- 1, fresh <- {}, shown <- {}

\* The loop implements the cached folder: whatever it takes for the reason to sync
\* again, and whichever connection it asks, a re-sync adds rows above all others and
\* skips nothing there.
ImplementsCache == Cache!Spec

=============================================================================
