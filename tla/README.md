# A formal model of Cosmic Mail

Cosmic Mail is a desktop mail client: a Go backend (Wails) that keeps one sync
goroutine per account, a SQLite cache, commands called from a Svelte frontend,
and desktop integrations. This directory holds TLA+ modules that model its core
logic, TLC configurations that check small instances, and TLAPS proofs: the sync
core, the message and account commands, the window's list and reader, and the
smaller parts (notifications, theme, downloads, sending, discovery of settings,
shipments, the parts of a message). Two abstract specifications, `LoopRegistry` and
`CachedFolder`, say what the manager and the cache promise; the detailed ones are shown
to implement them.

## Running it

    tlc -workers 2 -config IdleLoop.cfg MCIdleLoop
    tlapm IdleLoopProofs.tla

The module of a run `X.cfg` is `MCX`, except for those `PROJECT.json` names otherwise.
Proofs are in `IdleLoopProofs`, `SyncManagerProofs`, `AccountLifecycleProofs`,
`FolderSyncProofs`, `MessageActionsProofs`, `MailViewProofs`, `PartsProofs` and
`ReadingProofs`.

The runs are named in `PROJECT.json`, with the code lines each definition
models (`map`), a mutation of the code's logic that breaks each property
(`mutants`), the disagreements met (`findings`) and the places in the code that
are hard to test (`hazards`).

## Inventory

| Part (source) | State | Operations | Interacts with |
| --- | --- | --- | --- |
| Idle loop (`internal/sync/sync.go`, accountLoop, runOnce) | firstRun, back-off, consecutive re-syncs, deadline | sweep of all folders, re-sync of the inbox, prefetch, drain, IDLE or poll, back-off | session, store, emitter, notifier, its context |
| Sync manager (`sync.go`, Manager) | `tasks`, `opMu` | Start, Stop, StopAll | commands, tray, shutdown; the goroutines it joins |
| Folder sync (`sync.go`, syncFolderUIDs) | its locals | STATUS, SELECT, FETCH, upsert, mark, notify | session, store |
| IMAP session (`internal/imap`) | connection, selected mailbox, `changed` flag, `wake` channel | Connect, IdleWait, pollFallback, STORE, MOVE, DELETE, FETCH | go-imap's reader goroutine (the unilateral-data handler) |
| Store (`internal/store`) | folders, messages, attachments, shipments | upserts, flags, counts, bodies, deletion | every goroutine, through one mutex and one connection |
| Message commands (`app.go`) | none | MarkRead, MarkFlagged, Move, Archive, Delete, GetMessageBody, SaveAttachment | sessions of their own, store, events |
| Account commands (`app.go`, `internal/accounts`, `internal/oauth`) | accounts.json, keyring, token cache | add, re-authenticate, remove, sync now, startup, shutdown | manager, store |
| Frontend store (`mail.svelte.ts`) | list, selection, folders, search, counts | fetch, page, search, optimistic removal, event handlers | commands and events, both asynchronous |
| Notifier (`internal/notify`) | bus connection, `pending` ids | Show, Batch, handleSignals | sync loops, the notification daemon |
| Theme watcher (`internal/omarchy`, `main.go`, `theme.ts`) | `last`, debounce timer | WatchDir, ReadThemeFrom, GetTheme | two files, the window |
| Attachments (`internal/attachments`, `app.go`) | the downloads directory | SaveAttachment, UniquePath | other saves, other programs |
| Sending (`internal/send`, `app.go`, `ComposeModal.svelte`) | the draft | submit, Build, Send | keyring, the submission server |
| Autoconfig (`internal/autoconfig`) | none | Discover and its chain | web sources, DNS |
| Shipments (`internal/shipments`) | none | Extract, check digits | the store, when a body is cached |
| Mail parsing (`internal/mailparse`) | walk's flags | Parse, walk, ParseBody | the store, the reader |
| Automation bridge (`internal/automation`) | waiters | eval, reply | end-to-end tests only |

What makes them hard, and what makes them correct:

* **Idle loop.** Announcements arrive at any moment on the reader goroutine,
  while the loop talks, prefetches, enters or leaves IDLE; connections die;
  cancellation must get through. Correct when no announced mail is forgotten
  while the loop waits, no message falls below the incremental fetch, waits
  respect the deadline, the reported state is true, mail is cached in the end,
  and a cancelled loop exits.
* **Manager.** Concurrent callers, joins under a mutex, goroutines that may
  hang. Correct when nothing runs untracked and uncancelled, loops of one
  account do not overlap (except after a timed-out join), and calls return.
* **Folder sync.** Autocommitted statements between network calls, failures and
  kills between any two, user commands and UIDVALIDITY changes meanwhile.
  Correct when rows are the server's messages, no gap opens, old mail is not
  announced as new, nothing is announced twice, and the store settles.
* **Message commands.** Network calls between a lookup and a write by row id;
  crashes between the statements of one write; counts and flags written by the
  sync and by commands. Correct when a command acts on the message it was given
  for, its write lands there, flags agree with the server's, and counts and lists
  settle.
* **Account lifecycle.** Lists and credentials read, used later; files saved
  whole; four stores written one after the other. Correct when a listed account
  has its secret and syncs, and an unlisted one leaves no loop, rows or secret.
* **Frontend.** Answers and events out of order. Correct when the list shown is
  of the view shown, agrees with the backend once it is quiet, and the reader
  shows the selected message.
* **Small parts.** Signals before the id they name is stored, two files read
  one after the other, a name looked up and then used, lost replies, a chain of
  slow sources under one budget, remainders of check digits, flags carried
  through nested containers. What makes each correct is the one property its
  module states.

`PROJECT.json` lists 40 hazards at their lines; those a property covers name it.

## The modules

### CachedFolder

The promise of the store about one folder, whoever writes: its rows are a window on the
mailbox. Rows are added above all others and skip nothing there (`Store`), keep their
message, go singly when their message has left (`Remove`) and all together when the
mailbox was numbered anew (`Wipe`, `Adopt`); a message is notified at most once, after
its row was written (`Notify`). Three modules implement it, each in a run and in a
theorem. In FolderSync a step is a statement or call of the pass, a failure, a user's
removal or a rebuild. In IdleLoop it is one of the loop's syncs of the inbox by whatever
reason and connection (a row is its UID; epochs and notices are left out). In
MessageActions each folder is one (`Cache(f)`), while commands remove rows by their ids
alone and the sync stores envelopes it fetched before they did; there a step is the
folder's as long as no id was given away under a command (`reused`, finding 3).

### IdleLoop (MCIdleLoop, IdleLoop.cfg, IdleLoopRace.cfg, IdleLoopProofs)

The goroutine of one account, its session and the server. `pc` is the place in
`runOnce` (`start` to `noop`), or in `accountLoop` (`sleep`, `backoff`,
`exited`); `todo` is what remains of the sweep and is empty in the idle loop.
One action stands for one blocking call with the code up to the next: `Status`,
`Select`, `Fetch`, `Drain` (deadline, DrainMailboxChanged and DrainAction, between
which the code has no blocking call), `IdleEnter` or `PollEnter`, `WaitEnds`
(the select over wake, timer and closed), `IdleClose` or `Noop`.

The environment delivers (`Arrive`) and removes mail (`Expunge`, `RemoveRow`),
announces (`Announce`: the unilateral-data handler sets `changed` and puts the
token into `wake`; `AnnounceOther` while the sweep has another mailbox
selected), drops the connection, cancels the context; `CloseOnCancel` is the
context.AfterFunc that closes the session.

`view` is what the server has told the session; SELECT also extends it, without
the handler. The distinction carries the module's main question: what has been
told, is not stored, and has no flag or token pending, is forgotten for the
length of a wait.

`IdleLoop.cfg`: two messages, one failure, IDLE present or absent, four folder
layouts. Ticks 3/2/1 keep the order of the code's 25 min, 5 min and 60 s and make
a re-issue, a wait cut by the deadline and a short poll all happen;
`MaxResyncs = 1` (5 in the code) makes the cap happen. The proofs cover other
values. `IdleLoopRace.cfg` checks the header comment's claim without its
exception and finds the exception (see Findings).

### LoopRegistry, SyncManager (MCSyncManager, SyncManager.cfg, SyncManagerProofs)

`LoopRegistry` is the promise: an account's next loop is launched only when
every earlier one is gone or was given up on; loops end only when told to.
`SyncManager` is the code: callers stand in `Lock`, `StopTask` or `StopNothing`,
`Join` or `JoinTimeout`, `Spawn` or `Unlock`. `StopAll` goes through the map in
any order, as a Go range does. A goroutine may hang: `LoopExits` has no fairness.
The refinement maps a loop's `phase` from who owns it, whether it runs, was
cancelled, and was given up on. `SyncManager.cfg`: three callers, two accounts,
two starts: enough for a Start to overtake a Stop, a StopAll between both, and
a timed-out join under a second Start.

### FolderSync (MCFolderSync, FolderSync.cfg, FolderSyncRebuild.cfg, FolderSyncProofs)

One folder, the inbox, from STATUS to NotifyNewMail, with one action per
statement that commits on its own: the two statements of a UIDVALIDITY wipe
(`UpsertFolder`, `ResetFolder`), each row of UpsertEnvelopes (`StoreOne`), the
mark (`Mark`). `Fail` is an error return at any point, `Crash` a restart of the
process (or of the task: SyncAccount), which sets `firstRun` again. Rows and the
server's mailbox are functions from UIDs to messages, so that a UID may name
another message after `NewEpoch`. `notified`, `removed`, `before`, `torn` and
`stops` are history.

`FolderSync.cfg`: three messages with a page of one, so that an older page
exists and a fetch can miss messages below it; two epochs; one failure or
restart. `FolderSyncRebuild.cfg` needs two messages, one rebuild, no failure.

`OldMailIsSilent` has two exceptions, both reached by the model. One is the
rebuild. The other, `torn`: a pass that ends between UpsertEnvelopes and
SetLastSeenUID leaves rows cached and the mark low. The next pass finds nothing
new and returns before SetLastSeenUID; once deletions have emptied the cache, the
newest page is fetched again, and old unseen mail in it is above the mark.

### MessageActions (MCMessageActions, MessageActions.cfg, MessageSettles.cfg, MessageActionsProofs)

Commands on one message beside the sync goroutine. A caller goes from `Command`
(the window hands over a row id; `chosen` remembers the message) over `Locate`
(the lookups in the store, up to SELECT) to one server action (`StoreFlag`,
`MoveMessage`, `DeletePermanently`, `FetchBody`) and the writes after it
(`RemoveMessage`; `MarkSeen`, `MarkSiblings`; `CacheBody`). `Abort` ends it
anywhere: an error return, a lost answer, the end of the process; a move may have
copied without expunging, a body write may have committed its first statement.
The sync goroutine is FolderSync coarsened: `SyncStatus`, `SyncCounts`, `SyncFetch`,
`SyncStore`, then, in the inbox, the prefetch of one body. What matters here is what
it holds while a command runs: counts, envelopes, a body.

`\Seen` is a flag of a copy (`serverSeen`: folder and UID). On Gmail all copies of a
message share it (`Copies`); on other servers a copy that an aborted MOVE leaves behind has
a flag of its own. What enters a mailbox brings the flags it had where it came from (`FlaggedIn`).

What a server can do is its `caps`. Without MOVE a move is COPY, STORE \Deleted and an
expunge; without UIDPLUS an expunge takes every message of the folder that has \Deleted
(`Expunged`, `deleted`), whoever set it: another client, or a command that was cut short
after its STORE. ActsOnTheChosen names this as its second exception (`Spared`), the one
docs/ARCHITECTURE.md:499-500 states. RowOutlivesMessage and ImplementsCache need none: what
goes on the server leaves its row behind, as any message another client removes.

On Gmail a message has a Message-ID, shares it with another, or has none (`header`), and
`Siblings` are the rows that have the id of the row marked, as
MarkSeenForMessageIDSiblings finds them: none for a message without, strangers for one
that shares. `Astray` is whom a mark gets wrong so; they join `blurred`.

Row ids are SQLite's (`NewId`). `reused` collects the ids a new row received while a
command held them: the exception of BodyIsTheRowsOwn, ActsOnTheChosen, RowOutlivesMessage,
SeenAgrees and MailReappears (finding 3). `blurred` collects the messages
whose cached flag can end up wrong in ways the code accepts: two marks of one message
at once, a mark cut short after the server took it, an envelope fetched before the
mark and not yet stored, a mark whose UID is gone, copies a mark does not reach for want of
a Message-ID and messages it reaches by a shared one; `foreign` those another client
marked. SeenAgrees holds for all others, and not without `blurred`, against the
architecture document (finding 4). That a body write may commit its first statement
only is in the model too, and nothing repairs it: no property claims otherwise.

`MessageActions.cfg`: two callers (interchangeable, hence the symmetry; no liveness
is checked there), two messages or one with both labels, two events. Two events are
a pair of commands, or one and a failure or another client's change: enough for a client to
mark one message deleted and a command to expunge another. Servers have neither, MOVE or
UIDPLUS (`OneOrNone`; both together are Gmail's, and add nothing elsewhere); two Gmail
messages share a Message-ID, or the first has none (`SharedOrNone`).
`MessageSettles.cfg`: one caller, whose command interleaves with the sync, and servers with
neither or both.

### AccountLifecycle (MCAccountLifecycle, AccountLifecycle.cfg, AccountRemoved.cfg, AccountLifecycleProofs)

The commands that add, re-authenticate, remove and re-sync accounts, over four
stores no transaction spans: accounts.json (`file`), the keyring, the rows and the
manager. Each command is a thread at a place `at` with what it has read so far in `id`
and `list`; each call it makes is an action: `Find`, `Consent` (the browser), `Lookup`,
`StoreSecret`, `Validate` (with its rollback), `Load`, `Save`, `Erase`,
`DeleteAccountData`, and for the manager `StopLoop`, `Join`, `Spawn` under its mutex
`holder`. The command "connect" stands for any command that opens a session (`Refresh`,
`Rotate`: the two ends of AccessToken). `Fail` is a failing statement anywhere,
`Restart` the end of the process and its next start, whose `Boot` is
startConfiguredAccounts. The manager is what LoopRegistry promises: at most one current
loop per account, the others joined or given up on (`lingering`).

The code keeps its promises about accounts except in three cases, which the model
names and the properties exclude. `stale`: a command acted on an account it had found
before the account's removal began (finding 5). `raced`: a Save of a list that had
changed since its Load, which drops an account or brings one back. `halted`: an addition,
a removal, a join or a start was cut short, or the keyring did not delete a secret, which
DeleteSecrets does not report: RemoveAccount (`Erase`) and the rollback of a refused
AddImapAccount (`Validate`) go on as if it had. Outside them, UnlistedHasNothing and
ListedAccountsSync hold; ListedHasSecret needs only `raced`.

`AccountLifecycle.cfg`: two commands of two threads, one fault, one IMAP and two Gmail
ids of one address, so that an account can be removed and added again, and two
sign-ins can meet. With three commands it passes as well (1.7 million states, three
minutes). Deadlock is not checked: commands are bounded, and a user may stop giving them.
`AccountRemoved.cfg`: one Gmail account, two commands, no fault.

### MailView (MCMailView, MailView.cfg, MailViewProofs)

The list and the reader of the window. A handler runs to its next `await` in one
step (`SelectFolder`, `RunSearch`, `LoadMore`, `RemoveMessage`, ...); a call of the
backend is answered in two steps, for each call has a goroutine of its own: the backend
reads or changes its rows (`ServeList`, `ServeRemove`), and any time later, in any order,
the window takes the answer (`TakePage`, `TakeRefresh`, `TakeBody`, `TakeRemove`,
`Reselect`). A sync pass stores a row (`Arrive`) and then tells the window of the message and
that its folder has changed, or fails before it tells anything, as `syncFolderUIDs` may
between its commit and its events (`Announce`). Events are handled in order
(`OnNewMessages`, `OnMessagesUpdated`) -- but only once the window is `listening`: init
subscribes after it has awaited the first page, and what is emitted before is lost
(`MissEvent`). What a
handler remembers across its `await` is in the call's record; `Accepted` are the guards
after it.

The exceptions are history variables. `late`: a folder's answer was under way when a
search began (finding 6). `blur`: since the list was last asked for with no answer under
way, a second answer was asked for while one was, a page was asked for by an offset that is
not the list's length, or a refresh or first page failed; or a change of the folder shown was
never told, or told before the window listened, when no answer that would still show it was
under way (`Unnoticed`, `AskedAgain`). The next refresh that is alone repairs all of these. `rejoined`: a failed removal put the selection back, over the body of the next
message. Rows that come or go under a page's answer are no exception: their folder's event
refreshes the list, if it is sent and heard. Without either half of the last exception TLC
violates ListIsTheView on this instance. `MailView.cfg`: three messages of the inbox and one elsewhere, pages of
one, three deeds of the user, three calls and two events in flight: enough for a page to
answer after two changes of view, for an event to be lost before the first page's answer, for mail to arrive under a page's answer, and for a
removal to meet a refresh.

### The parts (Parts, MCParts, Parts.cfg, BodyHidden.cfg, PartsProofs, ReadingProofs)

Eight modules share no state with the others. `Parts` composes them so that a
behaviour takes one `part` and stays in it: their states add up, and one run checks the
claim of each. `Parts` has the parameters of all; `MCParts` gives values to those that are
records or sequences, `Parts.cfg` to the others. A claim names its exceptions in the module,
and they are behaviours of the code.

Bounds: two sync loops, three notifications, another program and one restart of the daemon;
three versions of a theme's files and three changes; two saves of three attachments, one of
them named as another is numbered, beside up to two files of other programs; three submissions of good and bad addresses; six documents at up to two
sources, four answers to MX and delays below and at the time limit; all messages of up
to two numbers and two links of two parcels; serial numbers with two digits that are not 0;
messages of five parts in containers four deep.

* **Notifier**: `Show` (the call of the daemon) and `Record` (its id goes into `pending`)
  against signals (`HandleSignal`), other programs, a dead bus and a restarted daemon.
  ClickActivates: one click on a notification of ours, one activation; not for a click
  handled between `Show` and `Record` (`early`), nor for an id given twice.
* **ThemeWatcher**: WatchDir from `Add` to the emit, the two reads of the two files, the
  debounce, the window's own first read. ThemeSettles: a watcher at rest knows the theme
  of the files, and the window shows it; `missed` names the changes that fall between the
  window's read and its listening, or before the watcher's first read.
* **Downloads**: UniquePath look by look, then open, then write. SavedIsThere: no file is
  written over, except at a name (`clash`) taken between the look and the open.
* **Outbox**: the dialog, SendMessage, Build and Send, with a server that refuses, answers
  or goes away anywhere. SentAsReported: what was accepted is what is reported, or lost
  its reply; Bcc recipients are in no header.
* **Autoconfig**: the chain of sources under 5 and 12 seconds, SRV records with ports of
  their own. BestAnswerWins: when a discovery is done, its clock is within the budget and
  the best source heard in time has decided; the answer is confident unless it is a guess,
  and for a Gmail address even then (finding 8). That a discovery is ever done is not
  claimed: each step goes on to a later source, of which there are eight. A server
  published for SSL on another port than 465, or for STARTTLS on it, is outside the last
  clause: Send chooses by port.
* **Shipments**, **Checksums**: Extract over classified tokens and links, and the three
  check digits. ShipmentsAreTheMessages: no number shown is wrong, no link of a carrier is
  lost, a number leads to its own link unless its carrier has two (`Ambiguous`).
  TypoIsCaught says exactly which single wrong digits the schemes cannot see (`Blind`).
* **BodyParts**: walk, part by part, over any message of five parts in four containers.
  The reader shows one part (`Shown`): the first of htmlBody, or of textBody when that is
  empty. ReaderFindsEverything: what a message holds is that part, rendered in it or
  listed, or a text that comes after it or was offered as another form of it
  (`Superseded`, by the alternatives each part is `within`). The exceptions are a part with
  a Content-ID (finding 7) and a plain text alone in its alternative, with the texts after
  it (`Lone`, finding 10); and what is shown may be the bytes of an image (finding 9). At
  five parts no text after a lone one is out of reach; at seven parts in containers five
  deep, with three kinds of leaves, one is, and the property holds there too.

`BodyHidden.cfg` checks the comment of Reader.svelte about inline parts.

## What the runs show

| Run | Result |
| --- | --- |
| idle_loop | 304,062 states. The invariants, the refinement and both liveness properties hold. |
| idle_loop_race | Violation: the drain does not see an announcement made by SELECT. |
| sync_manager | 38,960 states. The invariants, the refinement and CallsReturn hold. |
| folder_sync | 1,426,270 states. All properties hold. |
| folder_sync_rebuild | Violation: a rebuilt mailbox is notified as new mail. |
| message_actions | 5,685,701 states. All properties hold. |
| message_settles | 1,556,789 states. Counts and lists settle. |
| account_lifecycle | 196,639 states. All properties hold. |
| account_removed | Violation: a removed account has a loop. |
| mail_view | 6,148,080 states. All properties hold. |
| parts | 5,027,196 states. All properties hold. |
| body_hidden | Violation: a part is neither rendered nor listed. |

The type and inductive invariants are proved and are not part of the runs. The invariants of
MailViewProofs (`CallsInv`, `EventsInv`, `LateInv`, `SettleInv`), those behind SeenAgrees,
`GapInv` and every module's TypeOK were checked with TLC on the same instances as well.

### Findings

1. **An empty inbox's first message can wait for the next re-issue.** The header
   of `sync.go` says no announcement can go unobserved between the drain and IDLE.
   With no row cached, `syncFolderUIDs` fetches by the count of the STATUS before
   SELECT. Counted 0, announced by SELECT, fetched never: the drain is clean.
2. **A UIDVALIDITY change notifies old mail.** `docs/TERMINOLOGY.md` says a sync
   after cache invalidation suppresses notifications. The idle loop never syncs as
   initial, the later sweeps are not initial either, and the wipe sets the mark to 0.
3. **A row id is not stable.** `docs/TERMINOLOGY.md` calls it so. SQLite reuses the
   id of the newest row once it is removed; a command that holds the id then acts on
   the message that got it. ActsOnTheChosen fails without its exception `reused`.
4. **A Gmail folder's next sync does not reconcile flags.** `docs/ARCHITECTURE.md`
   says it does. It fetches only what is above the highest cached UID. SeenAgrees fails
   without its exception `blurred`.
5. **A removed account can keep a loop or a secret.** RemoveAccount's comment says it
   removes both. A command that looked the account up before it, above all a
   re-authentication waiting for the browser, starts the loop afterwards.
6. **Search results can be replaced by a folder's messages.** A comment of
   `mail.svelte.ts` says the list holds results while a search is active. The guards of
   pages and refreshes ask only for the view, which a search does not change.
   ViewShowsItsOwn fails without its exception `late`.
7. **A part with a Content-ID can be out of reach.** Reader.svelte says inline cid images
   already render in the body. `parse.go` marks any part with a Content-ID inline,
   whatever its type and whether or not the HTML refers to it.
8. **A guess can be confident.** The comments of Discover and DiscoverAccountConfig and
   docs/ARCHITECTURE.md call the last step of the chain unconfident. For a Gmail address it
   returns Google's settings as confident. BestAnswerWins fails without this exception.
9. **An image before any text is shown as the text.** `bodyText` takes the first part
   of the list, which walk fills with images too; the message's text is then neither shown
   nor listed. ReaderFindsEverything fails if what is shown must be a text.
10. **A plain text can be hidden by HTML that is no form of it.** A plain text in an
   alternative is in the text body only, and the reader looks at the text body only without
   HTML. Alone in its alternative, beside an HTML part elsewhere, it is neither shown nor
   listed. ReaderFindsEverything fails without its exception `Lone`.

## Fairness

* `IdleLoop`: the goroutine goes on (`WF(LoopStep)`): every network call returns,
  at the latest with the error of TCP keepalive, which `Connect` configures;
  AfterFunc callbacks run; time passes. The server owes no announcement and no
  mail, the network no stability beyond the bound on failures, the user nothing.
* `SyncManager`: `opMu` reaches every waiter (Go's `sync.Mutex` has a starvation
  mode), timers fire. Goroutines owe nothing, so CallsReturn rests on StopTimeout.
* `MessageActions`: a command's calls return (`WF(Proceed(c))`), and the goroutine
  goes on. `SF(SyncStatus("other"))`: between two folders it may take either, but the
  sweep of every full re-sync visits both (module IdleLoop). Nobody owes a command, a
  message or another client's change.
* `AccountLifecycle`: the process starts its loops; a command's calls return
  (`WF(Proceed(c))`), the consent within its five minutes; the mutex reaches every waiter
  (`SF(StopLoop(c))`, as in SyncManager); a cancelled loop exits, which is IdleLoop's
  CancelledLoopExits, or is given up on, which is a fault. Nobody owes a command.
* `FolderSync`: the goroutine goes on. That re-syncs never cease is what IdleLoop
  shows (MailIsEventuallyCached).
* `MailView` and the parts state safety only and assume no fairness: their claims about
  rest (ListIsTheView, ThemeSettles) say what holds whenever nothing is under way.

## What is proved

Every safety property that a passing run checks, invariant, action property or refinement,
is proved for every value of the constants, and so is the type invariant of every module.
The assumptions are the `...Assumption` of IdleLoop, SyncManager, AccountLifecycle,
FolderSync, MessageActions, MailView and Parts (bounds are numbers, durations and pages
positive, null values differ from the real ones, inputs have the shape their source gives
them), which TLC evaluates on the runs. Proofs use the modules as they are run: no definition
is replaced for a run.

**SyncManagerProofs.** `Inductive == TypeOK /\ TrackedLoopIsLive /\ ManagerInv`.
The wanted invariants alone are not inductive: that no untracked loop runs
uncancelled needs to know that a caller between `StopTask` and `Spawn` holds the
mutex (`MutexInv`), that the account has no entry during that time (`CallInv`),
that the task about to be spawned is nobody else's (`FreshInv`), and that a loop
not in the map is cancelled and joined or given up on (`TaskInv`). From it follow
TrackedLoops, UntrackedLoops, Overlap, and Refinement: initial states map to
initial states, every step to a step or a stutter of LoopRegistry. `Spawn` maps
to `Launch`, whose guard is Overlap's content.

**IdleLoopProofs.** `Inductive == TypeOK /\ LoopInv /\ ReportedStateIsTrue`. For
AnnouncedMail, the invariant is carried from the FETCH on: between FETCH and the
wait, what was announced and is not stored has both flag and token (`Pending`).
That FETCH leaves nothing unsynced needs that a row between SELECT and FETCH can
only vanish with its message (`FetchKnows`), and NoGap that UIDs are assigned in
order (`Bounds`) and that what the session was not told is newer than what it was
(`ViewIsPrefix`). Deadline needs that the time left is still right when IDLE is
entered (`RemainingIsTrue`). Refinement follows from NoGap: a `Fetch` that leaves no gap behind adds
rows above all others.

**AccountLifecycleProofs.** `IInv == TypeOK /\ ListedHasSecret /\ AccountInv`. That
a listed account has its secret is not inductive alone. A rollback must not delete
the secret of a listed account: an account being added is not listed and in nobody
else's hands (`AddingInv`), since its id is new (`KnownInv`). A removal must not delete
the secret of an account that is listed again: by its own Save the account is unlisted,
and another Save lists only what was listed, what it brought back (`raced`) or an
account of its own (`ErasingInv`, lemma SaveKeeps). Which command is where is `PlaceInv`.
UnlistedHaveNothing is by `LoopIInv == IInv /\ RemovingInv /\ UnlistedHasNothing`: between
the Stop of a removal and its Save nobody has started the account's loop again, unless the
account is excused (`RemovingInv`). The Save that unlists an account is then the removal's
own (lemma SaveUnlists), and a command that puts something back for an unlisted account is
one that had found it before (`Late`). Where the keyring keeps a secret, in `Erase` or in
`Validate`, the account is in `halted`.

**FolderSyncProofs.** `IInv` joins RowsMatchServer and NoGapBetweenRows with what the
pass's locals still say at each place, though the mailbox and the rows change between its
calls. `RowsInv`: what is cached or was removed was assigned. `FetchInv`: the highest row
may be gone since its UID was read, but what is missing above a row still lies above that
UID, so FETCH asks for all of it. `BatchInv`: what is fetched and not yet written lies
above every row and was never removed, and closes the gap; since StoreOne takes the lowest
first, every prefix of the batch leaves no gap either. From it follow RowsAreTheServers,
Gapless and NoReturn. For NotifiedOnce, `MarkInv` says that a notified message that is
still there is not above the mark and that a batch holds nothing notified as news. The
hard case is a rebuild: NewEpoch gives the messages lower UIDs or the same, never higher
(lemma RenumberedLowers, by counting), so that neither is undone before the wipe sets the
mark to 0 and a new epoch of notices begins. OldMailStaysSilent adds `OldInv`: until the
first cycle has ended nothing is notified and the cache is empty when a page is fetched, so
the first batch holds the highest old UID and its mark lies above all old mail (`OldBelow`);
afterwards a mark only rises. A torn pass and a rebuild are where this ends, and are the
property's exceptions. Refinement adds `TopInv`: what a pass asks for and writes lies above
all rows also when the mailbox was rebuilt under it, where the other invariants say nothing.

**MessageActionsProofs.** `IInv` says of rows (`RowInv`), of what the sync goroutine holds
(`HeldInv`) and of what each command holds (`Holds`) that the pair of folder and UID names
the message it was looked up for, while that is there. Two halves carry it through every
action. UidsKept (lemma ServerStep): no action of the server, a user or another client
gives an assigned UID to another message or brings one back. RowsKept (lemma RowsStep): no
write moves a row to another place or message, and an id given anew while a command holds
it is in `reused`. From them Chosen, Bodies and Outlives follow, for any `caps`: what a plain
EXPUNGE removes besides was deleted before, and a copy that is not removed keeps its flags; the candidates for new row
ids and the n-th lowest UID of a fetch need facts about finite sets (lemma Nth).

Agreement is by `SInv`, which adds what flags need. A row whose flag differs from the server's
has a command that is about to write it (`AgreeInv`, `Pending`), and that command's flag is
what the server has, on Gmail on every copy (`GivenInv`): so its write makes row and server
agree. For this the command must be the only one that marks its message, and its row must
stay (`AloneInv`); whom its mark sends astray must be in `blurred` before it writes
(`MarkerInv`), so that the other rows it flips are the message's own copies, and all of
them; what the sync has fetched and not yet stored must have the server's flags
(`BatchInv`, which is why a mark under a fetch is in `blurred`), and may not be a second row
of a UID (`PlaceInv`). `ArrivedInv` makes a new message a stranger to all of them.

Refinement maps a folder to its rows by UID (`Stored`), which `PlaceInv` makes a function. It
needs `GapInv`: what a folder's rows lack lies above them all, and above the batch that is
about to be stored too, which a removal in between does not change.

**MailViewProofs.** OwnMessages is by `OwnInv`: every answer in flight carries messages of
the view or search it was asked for (`CallsInv`), and while a search is shown no folder's
answer is accepted unless `late` (`LateInv`). ListSettles is by `IInv`, which adds `SettleInv`:
without `blur` at most one answer that the window would take is under way (`Asked`); and
unless something is still to make the window read again (`Behind`: an event that is due, a row
whose event is to come, or a removal from the view that has not ended well), that answer is the backend's present one, a
page is asked for at the end of the list, and the list is the top of the view if the answer
is not to replace it. The steps that change rows (`Arrive`, `ServeRemove`) leave the view
`Behind`. The two that take that away without a refresh, `Announce` when the pass fails and
`MissEvent` before the window listens, set `blur` unless an unanswered call will read the
rows as they are now (lemma UnheardSettles); the others keep the claim. That pages and
removals fit together rests on the lemmas about `Descending`,
`Page` and `RemoveAt`, and those on one about ranks in finite sets (lemma Ranks).
ReaderShowsSelection is inductive: each handler that changes the selection clears the body or
sets `rejoined`, and TakeBody shows a body only if it is still the selection's.

**PartsProofs.** A behaviour of Parts is one of its part, so each theorem is that of one
component. Reporting: the built message is the draft's, which nothing can edit while a
submission runs (`BuiltInv`), and the accepted messages are the replies' (`AcceptedInv`).
ThemeSettling (`ThemeInv`): what the watcher has read is current unless an event waits; the
last theme on its way to the window is what it knows; a window that missed nothing shows the
theme of the files, or what the watcher knows, or the watcher is about to find another.
SavingKeeps (`DownloadInv`): a call that has chosen a path finds it free, and one that writes
has it for itself, except where a name was taken between look and open. ClicksActivate
(`NotifierInv`): an id of ours that a click may still be signalled for is recorded or about
to be (`PendingInv`); a click is signalled once, before the closing (`SignalInv`).
DesktopTypes bounds what grows: the ids of the daemon by the notifications shown, what the
server accepted by the submissions (`NotifierTypes`, `OutboxTypes`, `FileTypes`).

**ReadingProofs.** DiscoveryFindsTheBest (`DiscoveryInv`): at each source, those before it
were late or said nothing (`NoneBefore`), and the clock, which no answer moves past what is
left, is within the budget. ShipmentsFound: what Extract makes of a message,
clause by clause from the definitions of Numbers, Numbered, Captured and Linked, for any
tokens and links. NothingIsHidden (`BodyInv`): every leaf met so far is in a list that the
reader shows or offers, the first of a body list is its lowest, and until a leaf is met every
open container is empty and wants both bodies. That a text of the text list which the reader
does not show was offered as another form of what it shows, or is or follows a `Lone` one,
needs where the alternatives are (`WithinInv`): the parts of one are neighbours, and HTML is
unwanted only after a plain text in an alternative. TypoCaught (`ChecksumInv`): a number is
its original with one digit changed, which changes the sum by the digit's weight times the
difference (lemma OneDigit: the loop's partial sums, compared at the least place where they
would differ otherwise); which products vanish modulo 10 or 11 is SameRemainder, by weights.
TypeInvariance adds what the claims leave open: a discovery stays in its budget and has an
answer just when it is done (`DiscoveryTypes`), a shipment has a carrier and a parcel or a
link (lemma FoundIs), lists hold indexes of parts and containers stay in their bounds
(`BodyTypes`).

**Model-checked only.** Liveness (MailIsEventuallyCached, CancelledLoopExits, CallsReturn,
StoreSettles, CountsSettle, MailReappears, ListedAccountsSync), which is out of the prover's
reach.

## Not modelled

* The automation bridge: compiled only for the end-to-end tests.
* Text processing: decoding, HTML to text, entities, snippets, XML, scanning a body for
  tokens and links, quoting and sanitising. It is data over unbounded input; the models
  take over where its result decides something.
* In the window: folder and unread counts, account and settings calls, sync-state events,
  toasts, layout.
* MarkFlagged, which is the first half of MarkRead on another flag; settings.json, read and
  written whole by one command each; migrations of old schemas and HealCachedSnippets;
  the size limits of the prefetch.
* A UIDVALIDITY change under a command (it is in FolderSync, not in MessageActions): a
  command does not check it, and no document promises that it does.
* Opening links and directories, version strings, build and test servers: pure I/O.

## What could follow

1. The window's counts (`loadFolders` under events) beside MailView.
2. MessageActions with a UIDVALIDITY rebuild, once the code checks it.
3. FolderSync and MessageActions implement CachedFolder each; that MessageActions' coarse
   sync goroutine is FolderSync's with its steps joined would relate them directly.
