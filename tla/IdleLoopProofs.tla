--------------------------- MODULE IdleLoopProofs ---------------------------
(***************************************************************************)
(* Proofs about IdleLoop, for any number of messages and failures, any     *)
(* intervals and any folder lists: types, the four safety invariants, and  *)
(* that the loop implements CachedFolder.                                  *)
(* LoopInv carries the argument; its parts are preserved in four lemmas    *)
(* that follow the four questions (types, gaps in the cache, announced     *)
(* mail, the clock).                                                       *)
(***************************************************************************)
EXTENDS IdleLoop, FiniteSetTheorems, TLAPS

USE DEF vars, mailVars, sessVars, envVars, clockVars, loopVars, Cancelled, Gone, Stay,
        ReturnNil, ReturnErr, Return, UnlessCancelled

\* What the leaves need of the constants.
LEMMA Constants ==
  /\ MaxUid \in Nat /\ MaxDrops \in Nat /\ MaxResyncs \in Nat
  /\ FullResync \in Nat \ {0} /\ Reissue \in Nat \ {0} /\ Poll \in Nat \ {0}
  BY IdleLoopAssumption

\* A mailbox of the model is finite.
LEMMA Counted == \A S : S \subseteq Uid => Cardinality(S) \in Nat
  <1> SUFFICES ASSUME NEW S, S \subseteq Uid PROVE Cardinality(S) \in Nat
    OBVIOUS
  <1>1. IsFiniteSet(Uid)
    BY FS_Interval, Constants DEF Uid
  <1>2. IsFiniteSet(S)
    BY <1>1, FS_Subset
  <1>3. QED
    BY <1>2, FS_CardinalityType

-----------------------------------------------------------------------------
(* Types *)

\* UIDs start at 1: what is there first is what has arrived.
LEMMA MailInit == Init => MailTypeOK /\ Bounds
  <1> SUFFICES ASSUME Init PROVE MailTypeOK /\ Bounds
    OBVIOUS
  <1> USE Constants DEF Init, MailTypeOK, Bounds, Uid
  <1>1. Cardinality({}) = 0 /\ Cardinality({1}) = 1
    BY FS_EmptySet, FS_Singleton
  <1>2. CASE server = {}
    BY <1>1, <1>2
  <1>3. CASE server = {1}
    BY <1>1, <1>3
  <1>4. QED
    BY <1>2, <1>3

\* The initial state has the types.
LEMMA TypeInit == Init => TypeOK
  <1> SUFFICES ASSUME Init PROVE TypeOK
    OBVIOUS
  <1>1. FlagTypeOK
    BY DEF Init, FlagTypeOK
  <1>2. CountTypeOK
    BY Constants DEF Init, CountTypeOK
  <1>3. PlaceTypeOK
    BY DEF Init, PlaceTypeOK, Steps
  <1>4. FolderTypeOK
    BY DEF Init, FolderTypeOK
  <1>5. QED
    BY <1>1, <1>2, <1>3, <1>4, MailInit DEF TypeOK

\* FETCH adds messages of the server to the cache.
LEMMA FetchAdds ==
  Fetch => /\ server' = server /\ arrived' = arrived
           /\ cache' \subseteq cache \union (view \intersect server)
           /\ cache \subseteq cache' /\ view' \in {view, {}}
  BY DEF Fetch, Fetched

\* The steps that touch the mailbox, the cache or what is known of them; every
\* other one leaves the mailbox alone, and is not between SELECT and FETCH or
\* changes nothing there.
LEMMA MailSteps ==
  [Next]_vars =>
    \/ Arrive \/ Expunge \/ RemoveRow \/ Announce \/ Select \/ Fetch
    \/ /\ UNCHANGED mailVars /\ view' \in {view, {}}
       /\ pc' # "fetch" \/ UNCHANGED <<pc, todo, lastUid>>
  <1> SUFFICES ASSUME [Next]_vars,
                      ~(Arrive \/ Expunge \/ RemoveRow \/ Announce \/ Select \/ Fetch)
               PROVE  /\ UNCHANGED mailVars /\ view' \in {view, {}}
                      /\ pc' # "fetch" \/ UNCHANGED <<pc, todo, lastUid>>
    OBVIOUS
  <1>1. CASE AnnounceOther \/ Drop \/ Cancel \/ CloseOnCancel \/ Tick \/ Exited
             \/ UNCHANGED vars
    BY <1>1 DEF AnnounceOther, Drop, Cancel, CloseOnCancel, Tick, Exited
  <1>2. CASE Start \/ Connect \/ ConnectFails \/ CommandFails \/ Status
    BY <1>2 DEF Start, Connect, EndSweep, ConnectFails, CommandFails, Status
  <1>3. CASE Sleep \/ Backoff \/ Drain \/ IdleEnter \/ PollEnter \/ WaitEnds
    BY <1>3 DEF Sleep, Backoff, Drain, IdleEnter, PollEnter, WaitEnds
  <1>4. CASE IdleClose \/ IdleCloseFails \/ Noop
    BY <1>4 DEF IdleClose, IdleCloseFails, Noop, AfterWait
  <1>5. QED
    BY <1>1, <1>2, <1>3, <1>4 DEF Next, LoopStep, Environment

\* Every step keeps the types of the mailbox, the cache and the view.
LEMMA MailTypeStep == MailTypeOK /\ [Next]_vars => MailTypeOK'
  <1> SUFFICES ASSUME MailTypeOK, [Next]_vars PROVE MailTypeOK'
    OBVIOUS
  <1> USE DEF MailTypeOK, Uid
  <1>1. CASE Arrive
    BY <1>1, Constants DEF Arrive
  <1>2. CASE Expunge \/ RemoveRow
    BY <1>2 DEF Expunge, RemoveRow
  <1>3. CASE Announce \/ Select
    BY <1>3 DEF Announce, Select
  <1>4. CASE Fetch
    BY <1>4, FetchAdds
  <1>5. CASE UNCHANGED mailVars /\ view' \in {view, {}}
    BY <1>5
  <1>6. QED
    BY <1>1, <1>2, <1>3, <1>4, <1>5, MailSteps

\* Every step keeps the flags Boolean.
LEMMA FlagTypeStep == FlagTypeOK /\ [Next]_vars => FlagTypeOK'
  BY DEF FlagTypeOK, Next, LoopStep, Environment, Arrive, Expunge, RemoveRow, Announce,
         AnnounceOther, Drop, Cancel, CloseOnCancel, Tick, Exited, Start, Connect,
         EndSweep, ConnectFails, CommandFails, Status, Select, Fetch, Sleep, Backoff,
         Drain, IdleEnter, PollEnter, WaitEnds, AfterWait, IdleClose, IdleCloseFails, Noop

\* The folder the loop works on is one of the model's.
LEMMA FolderType == FolderTypeOK => Folder \in {"inbox", "other"}
  BY DEF FolderTypeOK, Folder, Sweeping

\* The sequences todo may be.
LEMMA FolderSequences ==
  /\ <<>> \in Seq({"inbox", "other"})
  /\ \A q \in Seq({"inbox", "other"}) : q # <<>> => Tail(q) \in Seq({"inbox", "other"})
  OBVIOUS

\* Every step keeps the folders of the sweep.
LEMMA FolderTypeStep == FolderTypeOK /\ [Next]_vars => FolderTypeOK'
  <1> SUFFICES ASSUME FolderTypeOK, [Next]_vars PROVE FolderTypeOK'
    OBVIOUS
  <1>1. \/ layout' = layout /\ (todo' = todo \/ todo' = <<>> \/ todo' = layout)
        \/ Fetch
    BY DEF Next, LoopStep, Environment, Arrive, Expunge, RemoveRow, Announce,
           AnnounceOther, Drop, Cancel, CloseOnCancel, Tick, Exited, Start, Connect,
           EndSweep, ConnectFails, CommandFails, Status, Select, Sleep, Backoff, Drain,
           IdleEnter, PollEnter, WaitEnds, AfterWait, IdleClose, IdleCloseFails, Noop
  <1>2. layout \in Seq({"inbox", "other"})
    BY IdleLoopAssumption DEF FolderTypeOK
  <1>3. CASE layout' = layout /\ (todo' = todo \/ todo' = <<>> \/ todo' = layout)
    BY <1>2, <1>3, FolderSequences, Zenon DEF FolderTypeOK
  <1>4. CASE Fetch
    <2>1. layout' = layout
      BY <1>4 DEF Fetch
    <2>2. todo' = todo \/ todo' = <<>> \/ (todo # <<>> /\ todo' = Tail(todo))
      BY <1>4 DEF Fetch, Sweeping
    <2>3. QED
      BY <2>1, <2>2, FolderSequences, Zenon DEF FolderTypeOK
  <1>5. QED
    BY <1>1, <1>3, <1>4

\* Every step keeps the loop in its places, and the connection, the context and
\* the reported state in theirs.
LEMMA PlaceTypeStep == PlaceTypeOK /\ FolderTypeOK /\ [Next]_vars => PlaceTypeOK'
  <1> SUFFICES ASSUME PlaceTypeOK, FolderTypeOK, [Next]_vars PROVE PlaceTypeOK'
    OBVIOUS
  <1> USE DEF PlaceTypeOK, Steps
  <1>1. CASE Environment \/ CloseOnCancel \/ Tick \/ Exited \/ UNCHANGED vars
    BY <1>1 DEF Environment, Arrive, Expunge, RemoveRow, Announce, AnnounceOther, Drop,
                Cancel, CloseOnCancel, Tick, Exited
  <1>2. CASE Start \/ Sleep \/ Backoff \/ Status \/ ConnectFails \/ CommandFails
    BY <1>2 DEF Start, Status, Sleep, Backoff, ConnectFails, CommandFails
  <1>3. CASE Connect
    BY <1>3 DEF Connect, EndSweep
  <1>4. CASE Select
    BY <1>4, FolderType DEF Select
  <1>5. CASE Fetch
    BY <1>5 DEF Fetch, EndSweep
  <1>6. CASE Drain
    BY <1>6 DEF Drain
  <1>7. CASE IdleEnter \/ PollEnter
    BY <1>7 DEF IdleEnter, PollEnter
  <1>8. CASE WaitEnds
    BY <1>8 DEF WaitEnds
  <1>9. CASE IdleClose
    BY <1>9 DEF IdleClose, AfterWait, StateAfterWait
  <1>10. CASE IdleCloseFails
    BY <1>10 DEF IdleCloseFails
  <1>11. CASE Noop
    BY <1>11 DEF Noop, AfterWait, StateAfterWait
  <1>12. QED
    BY <1>1, <1>2, <1>3, <1>4, <1>5, <1>6, <1>7, <1>8, <1>9, <1>10, <1>11
       DEF Next, LoopStep

\* Every step keeps the counters and the clock in range.  That the clock stays
\* within FullResync rests on the deadline of the waits.
LEMMA CountTypeStep ==
  MailTypeOK /\ CountTypeOK /\ WaitEndsByDeadline /\ [Next]_vars => CountTypeOK'
  <1> SUFFICES ASSUME MailTypeOK, CountTypeOK, WaitEndsByDeadline, [Next]_vars
               PROVE  CountTypeOK'
    OBVIOUS
  <1> USE Constants DEF CountTypeOK
  <1>1. CASE Environment \/ CloseOnCancel \/ Exited \/ UNCHANGED vars
    BY <1>1 DEF Environment, Arrive, Expunge, RemoveRow, Announce, AnnounceOther, Drop,
                Cancel, CloseOnCancel, Exited
  <1>2. CASE Tick
    BY <1>2 DEF Tick, WaitEndsByDeadline
  <1>3. CASE Start \/ Sleep \/ Backoff \/ ConnectFails \/ CommandFails
    BY <1>3 DEF Start, Sleep, Backoff, ConnectFails, CommandFails
  <1>4. CASE Connect
    BY <1>4 DEF Connect, EndSweep
  <1>5. CASE Status
    <2>1. Cardinality(server) \in Nat
      BY Counted DEF MailTypeOK
    <2>2. QED
      BY <1>5, <2>1 DEF Status
  <1>6. CASE Select
    BY <1>6 DEF Select
  <1>7. CASE Fetch
    BY <1>7 DEF Fetch, EndSweep
  <1>8. CASE Drain
    BY <1>8 DEF Drain, DrainAction
  <1>9. CASE IdleEnter \/ PollEnter
    BY <1>9 DEF IdleEnter, PollEnter, Budget, IdleWaitBudget
  <1>10. CASE WaitEnds
    BY <1>10 DEF WaitEnds
  <1>11. CASE IdleClose
    BY <1>11 DEF IdleClose, AfterWait
  <1>12. CASE IdleCloseFails
    BY <1>12 DEF IdleCloseFails
  <1>13. CASE Noop
    BY <1>13 DEF Noop, AfterWait
  <1>14. QED
    BY <1>1, <1>2, <1>3, <1>4, <1>5, <1>6, <1>7, <1>8, <1>9, <1>10, <1>11, <1>12, <1>13
       DEF Next, LoopStep

-----------------------------------------------------------------------------
(* Gaps in the cache *)

\* What CacheHasNoGap needs of the other state.
GapInv == Bounds /\ ViewIsPrefix /\ FetchKnows /\ CacheHasNoGap

\* Initially nothing is cached and nothing was announced.
LEMMA GapInit == Init => GapInv
  BY MailInit DEF Init, GapInv, ViewIsPrefix, FetchKnows, CacheHasNoGap

\* SELECT shows the session the whole mailbox, and reads the cached maximum
\* when no message below it is missing.
LEMMA GapSelect == ASSUME MailTypeOK, CountTypeOK, GapInv, Select PROVE GapInv'
  <1> USE Constants DEF GapInv, MailTypeOK, CountTypeOK, Uid
  <1>1. server' = server /\ arrived' = arrived /\ cache' = cache /\ view' \in {server, {}}
    BY DEF Select
  <1>2. Bounds' /\ ViewIsPrefix' /\ CacheHasNoGap'
    BY <1>1 DEF Bounds, ViewIsPrefix, CacheHasNoGap
  <1>3. Folder' = Folder
    BY DEF Select, Folder, Sweeping
  <1>4. Folder = "inbox" => lastUid' \in 0..MaxUid /\ IsMaxUid(lastUid', cache)
    BY DEF Select
  <1>5. \A u \in server \union cache : u \in Nat /\ 0 < u /\ u <= arrived
    BY DEF Bounds
  <1>6. ASSUME Folder = "inbox", cache = {} PROVE lastUid' = 0
    BY <1>4, <1>6 DEF IsMaxUid
  <1>7. ASSUME Folder = "inbox", cache # {} PROVE lastUid' \in cache
    BY <1>4, <1>7 DEF IsMaxUid
  <1>8. ASSUME Folder = "inbox", NEW u \in server, u <= lastUid' PROVE u \in cache
    <2>1. u \in Nat /\ 0 < u
      BY <1>5
    <2>2. lastUid' # 0
      BY <1>8, <2>1
    <2>3. lastUid' \in cache /\ lastUid' \in Nat
      BY <1>5, <1>6, <1>7, <1>8, <2>2
    <2>4. QED
      BY <1>8, <2>1, <2>3 DEF CacheHasNoGap
  <1>9. Folder = "inbox" => lastUid' <= arrived
    <2>1. arrived \in Nat
      OBVIOUS
    <2>2. CASE cache = {}
      BY <1>6, <2>1, <2>2
    <2>3. CASE cache # {}
      BY <1>5, <1>7, <2>3
    <2>4. QED
      BY <2>2, <2>3
  <1>10. FetchKnows'
    BY <1>1, <1>3, <1>8, <1>9 DEF FetchKnows
  <1>11. QED
    BY <1>2, <1>10

\* The incremental FETCH takes every message of the view that is not cached, or
\* nothing; what the view lacks is newer than what it holds.
LEMMA GapFetch == ASSUME MailTypeOK, CountTypeOK, GapInv, Fetch PROVE GapInv'
  <1> USE Constants DEF GapInv, MailTypeOK, CountTypeOK, Uid
  <1>1. Bounds' /\ ViewIsPrefix'
    BY FetchAdds DEF Bounds, ViewIsPrefix
  <1>2. pc' # "fetch"
    BY DEF Fetch, EndSweep
  <1>3. ASSUME NEW u \in server \ cache', NEW c \in cache' PROVE c < u
    <2>1. CASE c \in cache
      BY <1>3, <2>1, FetchAdds DEF CacheHasNoGap
    <2>2. CASE u \notin view /\ c \in view
      BY <1>3, <2>2 DEF ViewIsPrefix
    <2>3. CASE u \in view /\ c \notin cache
      <3>1. Folder = "inbox" /\ c \in Fetched(lastUid, exists, view \intersect server)
        BY <1>3, <2>3 DEF Fetch
      <3>2. u \notin Fetched(lastUid, exists, view \intersect server) /\ u \notin cache
        BY <1>3, <3>1 DEF Fetch
      <3>3. u <= lastUid /\ lastUid # 0
        BY <1>3, <2>3, <3>1, <3>2 DEF Fetched, Bounds
      <3>4. pc = "fetch"
        BY DEF Fetch
      <3>5. QED
        BY <1>3, <3>1, <3>2, <3>3, <3>4 DEF FetchKnows
    <2>4. c \in cache \union view
      BY <1>3, FetchAdds
    <2>5. QED
      BY <2>1, <2>2, <2>3, <2>4
  <1>4. QED
    BY <1>1, <1>2, <1>3, FetchAdds DEF FetchKnows, CacheHasNoGap

\* Every step keeps the cache without a gap.
LEMMA GapStep == MailTypeOK /\ CountTypeOK /\ GapInv /\ [Next]_vars => GapInv'
  <1> SUFFICES ASSUME MailTypeOK, CountTypeOK, GapInv, [Next]_vars PROVE GapInv'
    OBVIOUS
  <1> USE Constants DEF MailTypeOK, CountTypeOK, Uid
  <1> USE DEF GapInv, Bounds, ViewIsPrefix, FetchKnows, CacheHasNoGap
  <1>1. UNCHANGED todo => Folder' = Folder
    BY DEF Folder, Sweeping
  <1>2. CASE Arrive
    BY <1>1, <1>2 DEF Arrive
  <1>3. CASE Expunge
    BY <1>1, <1>3 DEF Expunge
  <1>4. CASE RemoveRow
    BY <1>1, <1>4 DEF RemoveRow
  <1>5. CASE Announce
    BY <1>1, <1>5 DEF Announce
  <1>6. CASE /\ UNCHANGED mailVars /\ view' \in {view, {}}
             /\ pc' # "fetch" \/ UNCHANGED <<pc, todo, lastUid>>
    BY <1>1, <1>6
  <1>7. QED
    BY <1>2, <1>3, <1>4, <1>5, <1>6, MailSteps, GapSelect, GapFetch

-----------------------------------------------------------------------------
(* Announced mail *)

\* The places where Pending asks for something.
AtRest == {"prefetch", "idleEnter", "idleWait", "idleClose", "pollWait", "noop"}

\* Initially the loop is not at rest.
LEMMA PendingInit == Init => Pending
  BY DEF Init, Pending

\* The steps that matter to Pending; every other one leads to a place where it
\* asks for nothing, or changes nothing it speaks of.
LEMMA RestSteps ==
  [Next]_vars =>
    \/ Arrive \/ Expunge \/ RemoveRow \/ Announce \/ AnnounceOther \/ Fetch \/ Drain
    \/ IdleEnter \/ PollEnter \/ WaitEnds
    \/ pc' \notin AtRest
    \/ UNCHANGED <<mailVars, view, changed, wake, pc, exists, lastUid, outcome>>
  <1> SUFFICES ASSUME [Next]_vars,
                      ~(Arrive \/ Expunge \/ RemoveRow \/ Announce \/ AnnounceOther),
                      ~(Fetch \/ Drain \/ IdleEnter \/ PollEnter \/ WaitEnds)
               PROVE  \/ pc' \notin AtRest
                      \/ UNCHANGED <<mailVars, view, changed, wake, pc, exists, lastUid,
                                     outcome>>
    OBVIOUS
  <1> USE DEF AtRest
  <1>1. CASE Drop \/ Cancel \/ CloseOnCancel \/ Tick \/ Exited \/ UNCHANGED vars
    BY <1>1 DEF Drop, Cancel, CloseOnCancel, Tick, Exited
  <1>2. CASE Start \/ Connect \/ ConnectFails \/ CommandFails \/ Status \/ Select
    BY <1>2 DEF Start, Connect, EndSweep, ConnectFails, CommandFails, Status, Select
  <1>3. CASE Sleep \/ Backoff \/ IdleClose \/ IdleCloseFails \/ Noop
    BY <1>3 DEF Sleep, Backoff, IdleClose, IdleCloseFails, Noop, AfterWait
  <1>4. QED
    BY <1>1, <1>2, <1>3 DEF Next, LoopStep, Environment

\* A re-sync that fetched anything has fetched all the session was told of.
LEMMA FetchSyncs ==
  ASSUME MailTypeOK, CountTypeOK, GapInv, Fetch, pc' \in AtRest
  PROVE  (view' \intersect server') \ cache' = {} \/ (lastUid' = 0 /\ exists' = 0)
  <1> USE Constants DEF MailTypeOK, CountTypeOK, Uid
  <1>1. /\ pc = "fetch" /\ ~Sweeping /\ view' = view /\ server' = server
        /\ lastUid' = lastUid /\ exists' = exists
    BY DEF Fetch, EndSweep, AtRest
  <1>2. Folder = "inbox"
    BY <1>1 DEF Folder
  <1>3. cache' = cache \union Fetched(lastUid, exists, view \intersect server)
    BY <1>2 DEF Fetch
  <1>4. CASE lastUid = 0
    BY <1>1, <1>3, <1>4 DEF Fetched
  <1>5. CASE lastUid # 0
    <2>1. ASSUME NEW u \in view \intersect server PROVE u \in cache'
      <3>1. u \in Nat /\ lastUid \in Nat
        OBVIOUS
      <3>2. CASE u <= lastUid
        BY <1>1, <1>2, <1>3, <3>2 DEF GapInv, FetchKnows
      <3>3. CASE u > lastUid
        BY <1>3, <1>5, <3>3 DEF Fetched
      <3>4. QED
        BY <3>1, <3>2, <3>3
    <2>2. QED
      BY <1>1, <2>1
  <1>6. QED
    BY <1>4, <1>5

\* Every step keeps announcements pending.
LEMMA PendingStep ==
  MailTypeOK /\ CountTypeOK /\ GapInv /\ Pending /\ [Next]_vars => Pending'
  <1> SUFFICES ASSUME MailTypeOK, CountTypeOK, GapInv, Pending, [Next]_vars
               PROVE  Pending'
    OBVIOUS
  <1> USE DEF Pending, Unsynced, FetchSkipped
  <1>1. CASE pc' \notin AtRest
    BY <1>1 DEF AtRest
  <1>2. CASE UNCHANGED <<mailVars, view, changed, wake, pc, exists, lastUid, outcome>>
    BY <1>2
  <1>3. CASE Arrive
    <2>1. arrived + 1 \notin view
      BY Constants DEF MailTypeOK, GapInv, Bounds
    <2>2. Unsynced' = Unsynced
      BY <1>3, <2>1 DEF Arrive
    <2>3. QED
      BY <1>3, <2>2 DEF Arrive
  <1>4. CASE Expunge \/ RemoveRow
    BY <1>4 DEF Expunge, RemoveRow
  <1>5. CASE Announce \/ AnnounceOther
    BY <1>5 DEF Announce, AnnounceOther
  <1>6. CASE Fetch /\ pc' \in AtRest
    BY <1>6, FetchSyncs
  <1>7. CASE Drain /\ pc' \in AtRest
    BY <1>7 DEF Drain, DrainAction, AtRest
  <1>8. CASE IdleEnter
    BY <1>8 DEF IdleEnter
  <1>9. CASE PollEnter
    BY <1>9 DEF PollEnter
  <1>10. CASE WaitEnds /\ pc' \in AtRest
    BY <1>10 DEF WaitEnds, AtRest
  <1>11. QED
    BY <1>1, <1>2, <1>3, <1>4, <1>5, <1>6, <1>7, <1>8, <1>9, <1>10, RestSteps

-----------------------------------------------------------------------------
(* The clock *)

\* Initially no wait is under way.
LEMMA ClockInit == Init => RemainingIsTrue /\ WaitEndsByDeadline
  BY DEF Init, RemainingIsTrue, WaitEndsByDeadline

\* A wait begins with at most the time that is left, and the clock moves only
\* together with the timer.
LEMMA ClockStep ==
  CountTypeOK /\ RemainingIsTrue /\ WaitEndsByDeadline /\ [Next]_vars
    => RemainingIsTrue' /\ WaitEndsByDeadline'
  <1> SUFFICES ASSUME CountTypeOK, RemainingIsTrue, WaitEndsByDeadline, [Next]_vars
               PROVE  RemainingIsTrue' /\ WaitEndsByDeadline'
    OBVIOUS
  <1> USE Constants DEF CountTypeOK, RemainingIsTrue, WaitEndsByDeadline
  <1>1. CASE Environment \/ CloseOnCancel \/ Exited \/ UNCHANGED vars
    BY <1>1 DEF Environment, Arrive, Expunge, RemoveRow, Announce, AnnounceOther, Drop,
                Cancel, CloseOnCancel, Exited
  <1>2. CASE Tick
    BY <1>2 DEF Tick
  <1>3. CASE Start \/ Connect \/ ConnectFails \/ CommandFails \/ Status \/ Select
    BY <1>3 DEF Start, Connect, EndSweep, ConnectFails, CommandFails, Status, Select
  <1>4. CASE Fetch \/ Sleep \/ Backoff
    BY <1>4 DEF Fetch, EndSweep, Sleep, Backoff
  <1>5. CASE Drain
    BY <1>5 DEF Drain
  <1>6. CASE IdleEnter \/ PollEnter
    BY <1>6 DEF IdleEnter, PollEnter, Budget, IdleWaitBudget
  <1>7. CASE WaitEnds
    BY <1>7 DEF WaitEnds
  <1>8. CASE IdleClose \/ IdleCloseFails \/ Noop
    BY <1>8 DEF IdleClose, IdleCloseFails, Noop, AfterWait
  <1>9. QED
    BY <1>1, <1>2, <1>3, <1>4, <1>5, <1>6, <1>7, <1>8 DEF Next, LoopStep

-----------------------------------------------------------------------------
(* The reported state *)

\* Initially nothing is reported, and nothing asked for.
LEMMA ReportInit == Init => ReportedStateIsTrue
  BY DEF Init, ReportedStateIsTrue

\* Every step that enters a place reports the state that goes with it.
LEMMA ReportStep ==
  PlaceTypeOK /\ ReportedStateIsTrue /\ [Next]_vars => ReportedStateIsTrue'
  <1> SUFFICES ASSUME PlaceTypeOK, ReportedStateIsTrue, [Next]_vars
               PROVE  ReportedStateIsTrue'
    OBVIOUS
  <1> USE DEF PlaceTypeOK, Steps, ReportedStateIsTrue
  <1>1. CASE Environment \/ CloseOnCancel \/ Tick \/ Exited \/ UNCHANGED vars
    BY <1>1 DEF Environment, Arrive, Expunge, RemoveRow, Announce, AnnounceOther, Drop,
                Cancel, CloseOnCancel, Tick, Exited
  <1>2. CASE Start \/ ConnectFails \/ CommandFails \/ Status \/ Select
    BY <1>2 DEF Start, ConnectFails, CommandFails, Status, Select
  <1>3. CASE Connect
    BY <1>3 DEF Connect, EndSweep
  <1>4. CASE Fetch
    BY <1>4 DEF Fetch, EndSweep
  <1>5. CASE Sleep \/ Backoff
    BY <1>5 DEF Sleep, Backoff
  <1>6. CASE Drain
    BY <1>6 DEF Drain
  <1>7. CASE IdleEnter \/ PollEnter
    BY <1>7 DEF IdleEnter, PollEnter
  <1>8. CASE WaitEnds
    BY <1>8 DEF WaitEnds
  <1>9. CASE IdleClose \/ IdleCloseFails
    BY <1>9 DEF IdleClose, IdleCloseFails, AfterWait, StateAfterWait
  <1>10. CASE Noop
    BY <1>10 DEF Noop, AfterWait, StateAfterWait
  <1>11. QED
    BY <1>1, <1>2, <1>3, <1>4, <1>5, <1>6, <1>7, <1>8, <1>9, <1>10 DEF Next, LoopStep

-----------------------------------------------------------------------------
(* The refinement of CachedFolder *)

\* The folder's mailbox and rows, and nothing else, matter to the cached folder.
LEMMA CacheUnchanged == UNCHANGED mailVars => UNCHANGED Cache!vars
  BY DEF Cache!vars, Cache!mailbox

\* Initially the mailbox holds what has arrived, and nothing is cached.
LEMMA CacheInit == Init => Cache!Init
  <1> SUFFICES ASSUME Init PROVE Cache!Init
    OBVIOUS
  <1>1. cache = {} /\ arrived \in Nat /\ \A u \in server : u <= arrived
    BY MailInit, Constants DEF Init, MailTypeOK, Bounds
  <1>2. QED
    BY <1>1 DEF Cache!Init

\* A FETCH that adds to a cache without gap, and leaves it so, adds rows above all
\* others and skips nothing.
LEMMA FetchStores ==
  ASSUME MailTypeOK, Bounds, CacheHasNoGap, CacheHasNoGap', Fetch
  PROVE  Cache!Store
  <1>1. /\ server' = server /\ arrived' = arrived /\ cache \subseteq cache'
        /\ cache' \ cache \subseteq server
    BY FetchAdds
  <1>2. server \subseteq 1..arrived /\ cache' \subseteq 1..arrived /\ arrived \in Nat
    BY <1>1 DEF MailTypeOK, Bounds
  <1> DEFINE new == cache' \ cache
  <1>3. \A u \in new, v \in cache : v < u
    BY <1>1 DEF CacheHasNoGap
  <1>4. \A u \in new : u <= arrived
    BY <1>1, <1>2
  <1>5. Cache!SkipsNothing([u \in cache' |-> u], new)
    <2> SUFFICES ASSUME NEW u \in server \ cache', NEW v \in new, u < v PROVE FALSE
      BY DEF Cache!SkipsNothing
    <2>1. v < u
      BY <1>1 DEF CacheHasNoGap
    <2>2. u \in Nat /\ v \in Nat
      BY <1>2
    <2>3. QED
      BY <2>1, <2>2
  <1>6. QED
    BY <1>1, <1>3, <1>4, <1>5
       DEF Cache!Store, Cache!Agree, Cache!SkipsNothing, Cache!Current, Cache!mailbox

\* Each step is one of the cached folder, or none.
LEMMA StepRefines ==
  MailTypeOK /\ Bounds /\ CacheHasNoGap /\ CacheHasNoGap' /\ [Next]_vars
    => [Cache!Next]_(Cache!vars)
  <1> SUFFICES ASSUME MailTypeOK, Bounds, CacheHasNoGap, CacheHasNoGap', [Next]_vars
               PROVE  [Cache!Next]_(Cache!vars)
    OBVIOUS
  <1> USE DEF Cache!Next
  <1>1. CASE Arrive
    <2>1. /\ server' = server \union {arrived + 1} /\ arrived' = arrived + 1
          /\ cache' = cache /\ arrived \in Nat
      BY <1>1 DEF Arrive, MailTypeOK
    <2>2. \A u \in server' \ server : arrived < u /\ u <= arrived'
      BY <2>1
    <2>3. Cache!Change
      BY <2>1, <2>2 DEF Cache!Change, Cache!Agree
    <2>4. QED
      BY <2>3
  <1>2. CASE Expunge
    <2>1. /\ server' \subseteq server /\ arrived' = arrived /\ cache' = cache
          /\ arrived \in Nat
      BY <1>2 DEF Expunge, MailTypeOK
    <2>2. Cache!Change
      BY <2>1 DEF Cache!Change, Cache!Agree
    <2>3. QED
      BY <2>2
  <1>3. CASE RemoveRow
    <2>1. /\ cache' \subseteq cache /\ \A u \in cache \ cache' : u \notin server
          /\ server' = server /\ arrived' = arrived
      BY <1>3 DEF RemoveRow
    <2>2. Cache!Remove
      BY <2>1 DEF Cache!Remove, Cache!Agree, Cache!mailbox
    <2>3. QED
      BY <2>2
  <1>4. CASE Fetch
    BY <1>4, FetchStores
  <1>5. CASE UNCHANGED mailVars
    BY <1>5, CacheUnchanged
  <1>6. QED
    BY <1>1, <1>2, <1>3, <1>4, <1>5, MailSteps DEF Announce, Select

-----------------------------------------------------------------------------
(* The theorems *)

\* Everything that every step preserves.
Inductive == TypeOK /\ LoopInv /\ ReportedStateIsTrue

\* The inductive invariant holds throughout.
THEOREM InductiveInvariance == Spec => []Inductive
  <1>1. Init => Inductive
    BY TypeInit, GapInit, PendingInit, ClockInit, ReportInit
       DEF Inductive, LoopInv, GapInv
  <1>2. Inductive /\ [Next]_vars => Inductive'
    <2> SUFFICES ASSUME Inductive, [Next]_vars PROVE Inductive'
      OBVIOUS
    <2> USE DEF Inductive
    <2>1. TypeOK'
      BY MailTypeStep, FlagTypeStep, CountTypeStep, PlaceTypeStep, FolderTypeStep
         DEF TypeOK, LoopInv
    <2>2. LoopInv'
      BY GapStep, PendingStep, ClockStep DEF TypeOK, LoopInv, GapInv
    <2>3. ReportedStateIsTrue'
      BY ReportStep DEF TypeOK
    <2>4. QED
      BY <2>1, <2>2, <2>3
  <1>3. QED
    BY <1>1, <1>2, PTL DEF Spec

\* The loop's variables keep their types; the clock of a cycle never passes the
\* deadline of the full re-sync while the loop prefetches or waits.
THEOREM TypeInvariance == Spec => []TypeOK
  BY InductiveInvariance, PTL DEF Inductive

\* Whatever is delivered, removed, announced or lost in whatever order, mail that
\* was announced to the session and not fetched keeps its announcement pending
\* while the loop is about to wait or waits, FetchSkipped apart.
THEOREM AnnouncedMail == Spec => []AnnouncedMailIsPending
  <1>1. Inductive => AnnouncedMailIsPending
    BY DEF Inductive, LoopInv, Pending, AnnouncedMailIsPending
  <1>2. QED
    BY <1>1, InductiveInvariance, PTL

\* The incremental FETCH never leaves a message behind below a cached one.
THEOREM NoGap == Spec => []CacheHasNoGap
  <1>1. Inductive => CacheHasNoGap
    BY DEF Inductive, LoopInv
  <1>2. QED
    BY <1>1, InductiveInvariance, PTL

\* No wait, IDLE or poll, outlasts the deadline of the full re-sync.
THEOREM Deadline == Spec => []WaitEndsByDeadline
  <1>1. Inductive => WaitEndsByDeadline
    BY DEF Inductive, LoopInv
  <1>2. QED
    BY <1>1, InductiveInvariance, PTL

\* The last state reported to the UI is the one the loop is in.
THEOREM ReportedState == Spec => []ReportedStateIsTrue
  <1>1. Inductive => ReportedStateIsTrue
    BY DEF Inductive
  <1>2. QED
    BY <1>1, InductiveInvariance, PTL

\* The loop is a cached folder: whatever made it sync again, and however sessions end,
\* each of its steps is one of the folder's or none.
THEOREM Refinement == Spec => ImplementsCache
  <1>1. Init => Cache!Init
    BY CacheInit
  <1>2. Inductive => MailTypeOK /\ Bounds /\ CacheHasNoGap
    BY DEF Inductive, TypeOK, LoopInv
  <1>3. MailTypeOK /\ Bounds /\ CacheHasNoGap /\ CacheHasNoGap' /\ [Next]_vars
          => [Cache!Next]_(Cache!vars)
    BY StepRefines
  <1>4. QED
    BY <1>1, <1>2, <1>3, InductiveInvariance, PTL DEF Spec, ImplementsCache, Cache!Spec

=============================================================================
