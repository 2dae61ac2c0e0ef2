-------------------------- MODULE FolderSyncProofs --------------------------
(***************************************************************************)
(* Proofs about FolderSync, for any number of messages, epochs, failures   *)
(* and any page size: types, RowsMatchServer, NoGapBetweenRows,            *)
(* OldMailIsSilent, RemovedStaysRemoved, NotifiedAtMostOnce, and that it   *)
(* implements CachedFolder.  The invariant says, for each place of the     *)
(* pass, how what it has read still relates to the mailbox and the rows,   *)
(* which change meanwhile.                                                 *)
(***************************************************************************)
EXTENDS FolderSync, FiniteSetTheorems, FunctionTheorems, WellFoundedInduction, TLAPS

USE DEF vars, serverVars, storeVars, passVars, history

\* What the leaves need of the constants.
LEMMA Constants ==
  MaxMsg \in Nat /\ MaxEpoch \in Nat \ {0} /\ Limit \in Nat \ {0} /\ MaxStops \in Nat
  BY FolderSyncAssumption

\* A mapping without entries.
LEMMA EmptyMap == DOMAIN Empty = {}
  BY DEF Empty

\* A set of naturals has a least member, and a greatest if it is bounded.
LEMMA Least ==
  ASSUME NEW S, S \subseteq Nat, S # {}
  PROVE  Min(S) \in S /\ \A y \in S : Min(S) <= y
  <1>1. PICK x \in S : \A y \in S : ~(<<y, x>> \in OpToRel(<, Nat))
    BY NatLessThanWellFounded, WFMin
  <1>2. \A y \in S : x <= y
    <2> SUFFICES ASSUME NEW y \in S, y < x PROVE FALSE
      OBVIOUS
    <2>1. <<y, x>> \in {p \in Nat \X Nat : p[1] < p[2]}
      OBVIOUS
    <2>2. <<y, x>> \in OpToRel(<, Nat)
      BY <2>1, Zenon DEF OpToRel
    <2>3. QED
      BY <1>1, <2>2
  <1>3. QED
    BY <1>2 DEF Min

LEMMA Greatest ==
  ASSUME NEW n \in Nat, NEW S, S \subseteq 0..n, S # {}
  PROVE  Max(S) \in S /\ \A y \in S : y <= Max(S)
  <1> DEFINE T == {t \in 0..n : n - t \in S}
  <1>1. T \subseteq Nat
    OBVIOUS
  <1>2. PICK s \in S : TRUE
    OBVIOUS
  <1>3. n - s \in 0..n /\ n - (n - s) = s
    OBVIOUS
  <1>4. n - s \in T
    BY <1>3
  <1>5. Min(T) \in T /\ \A t \in T : Min(T) <= t
    BY <1>1, <1>4, Least
  <1>6. \A y \in S : y <= n - Min(T)
    <2> SUFFICES ASSUME NEW y \in S PROVE y <= n - Min(T)
      OBVIOUS
    <2>1. y \in 0..n /\ n - y \in 0..n /\ n - (n - y) = y
      OBVIOUS
    <2>2. n - y \in T
      BY <2>1
    <2>3. Min(T) <= n - y /\ Min(T) \in 0..n
      BY <1>5, <2>2
    <2>4. QED
      BY <2>1, <2>3
  <1>7. n - Min(T) \in S
    BY <1>5
  <1>8. QED
    BY <1>6, <1>7 DEF Max
-----------------------------------------------------------------------------
(* The inductive invariant *)

\* UIDs are assigned in the order of arrival, also when the mailbox is rebuilt.
ServerInv ==
  /\ uidNext <= arrived + 1
  /\ \A u \in DOMAIN server : u < uidNext /\ server[u] <= arrived
  /\ \A u, v \in DOMAIN server : u < v => server[u] < server[v]

\* The store never carries an epoch the server has not reached, and rows only
\* once it carries one; a wipe begun leaves none.
EpochInv ==
  /\ valid <= epoch /\ status.validity <= epoch
  /\ pc \in {"upsertFolder", "resetFolder"} => status.validity # 0
  /\ pc \in {"resetFolder", "select", "fetch", "store", "mark", "notify"} => valid # 0
  /\ valid = 0 => DOMAIN rows = {} /\ removed = {}
  /\ pc = "resetFolder" => DOMAIN rows = {}

\* Envelopes are written from Fetch on, until all are.
PlaceInv ==
  /\ pc \notin {"store", "mark", "notify"} => stored = {}
  /\ pc = "store" => stored # DOMAIN batch

\* Between u and what is cached below it nothing cached lies above.
NoGap(S) == \A u \in DOMAIN server \ S : ~\E a, b \in S : a < u /\ u < b

\* What is cached was assigned, what the user removed was and is gone.
RowsInv ==
  valid = epoch =>
    /\ \A u \in DOMAIN rows : u < uidNext
    /\ \A u \in removed : u < uidNext /\ u \notin DOMAIN server

\* When FETCH is asked for what lies above lastUid, a row may have gone since
\* lastUid was read, but what is missing above a row still lies above lastUid.
FetchInv ==
  pc = "fetch" /\ valid = epoch =>
    /\ lastUid < uidNext
    /\ \A u \in DOMAIN rows : u <= lastUid
    /\ \A u \in DOMAIN server \ DOMAIN rows, a \in DOMAIN rows : a < u => u > lastUid

\* The envelopes not yet written lie above all rows, were not removed, and
\* close the gap between them and the rows.
BatchInv ==
  pc = "store" /\ valid = epoch =>
    /\ \A u \in DOMAIN batch : u < uidNext
    /\ \A u \in DOMAIN batch \intersect DOMAIN server : batch[u] = server[u]
    /\ \A u \in stored \intersect DOMAIN server : u \in DOMAIN rows
    /\ \A u \in DOMAIN batch \ stored : u \notin removed /\ \A v \in DOMAIN rows : v < u
    /\ NoGap(DOMAIN rows \union DOMAIN batch)

\* A notified message that is still there is not above the mark, and a
\* renumbering only lowers it; neither is what a pass is about to notify one
\* that was notified.
MarkInv ==
  /\ \A m \in notified : m <= arrived
  /\ \A u \in DOMAIN server : server[u] \in notified => u <= lastSeen
  /\ pc = "fetch" => seenMark = lastSeen
  /\ pc = "notify" => \A u \in DOMAIN batch : u <= lastSeen
  /\ pc \in {"store", "mark", "notify"} =>
       /\ \A u \in DOMAIN batch : batch[u] <= arrived
       /\ \A u \in DOMAIN batch, v \in DOMAIN server : server[v] = batch[u] => v <= u
       /\ \A u \in news : batch[u] \notin notified

IInv ==
  /\ TypeOK /\ ServerInv /\ EpochInv /\ PlaceInv /\ RowsInv /\ FetchInv /\ BatchInv /\ MarkInv
  /\ RowsMatchServer /\ NoGapBetweenRows

-----------------------------------------------------------------------------
(* What the actions that change a mapping do to it *)

LEMMA ArriveMeans ==
  ASSUME Arrive
  PROVE  /\ DOMAIN server' = DOMAIN server \union {uidNext}
         /\ \A u \in DOMAIN server' :
              server'[u] = IF u = uidNext THEN arrived + 1 ELSE server[u]
  <1>1. server' = With(server, uidNext, arrived + 1)
    BY DEF Arrive
  <1>2. QED
    BY <1>1 DEF With

LEMMA ExpungeMeans ==
  ASSUME Expunge
  PROVE  \A u \in DOMAIN server' : u \in DOMAIN server /\ server'[u] = server[u]
  <1>1. PICK x \in DOMAIN server : server' = Without(server, x)
    BY DEF Expunge
  <1>2. QED
    BY <1>1 DEF Without, Restrict

LEMMA RemoveMeans ==
  ASSUME RemoveMessage
  PROVE  \E x \in DOMAIN rows :
           /\ ServerDone(x)
           /\ DOMAIN rows' = DOMAIN rows \ {x}
           /\ \A u \in DOMAIN rows' : rows'[u] = rows[u]
           /\ removed' = removed \union {x}
  <1>1. PICK x \in DOMAIN rows : /\ ServerDone(x) /\ rows' = Without(rows, x)
                                /\ removed' = removed \union {x}
    BY DEF RemoveMessage
  <1>2. QED
    BY <1>1 DEF Without, Restrict

LEMMA FetchMeans ==
  ASSUME Fetch
  PROVE  /\ DOMAIN batch' = Fresh /\ Fresh \subseteq DOMAIN server
         /\ \A u \in Fresh : batch'[u] = server[u]
         /\ news' \subseteq Fresh
  BY DEF Fetch, Fresh, FromSequence, Restrict

\* StoreOne writes the least envelope that is not written.
LEMMA StoreMeans ==
  ASSUME TypeOK, PlaceInv, StoreOne
  PROVE  /\ NextEnvelope \in DOMAIN batch \ stored
         /\ \A u \in DOMAIN batch \ stored : NextEnvelope <= u
         /\ DOMAIN rows' = DOMAIN rows \union {NextEnvelope}
         /\ \A u \in DOMAIN rows' :
              rows'[u] = IF u = NextEnvelope THEN batch[NextEnvelope] ELSE rows[u]
  <1>1. /\ NextEnvelope \in DOMAIN batch \ stored
        /\ \A u \in DOMAIN batch \ stored : NextEnvelope <= u
    <2>1. DOMAIN batch \ stored # {}
      BY DEF StoreOne, PlaceInv, TypeOK
    <2>2. DOMAIN batch \ stored \subseteq Nat
      BY Constants DEF TypeOK, PartialMap, Uid
    <2>3. QED
      BY <2>1, <2>2, Least DEF NextEnvelope
  <1>2. rows' = With(rows, NextEnvelope, batch[NextEnvelope])
    BY DEF StoreOne
  <1>3. QED
    BY <1>1, <1>2 DEF With

-----------------------------------------------------------------------------
(* Types *)

LEMMA PartialMapMeans ==
  ASSUME NEW f
  PROVE  PartialMap(f) <=> \A u \in DOMAIN f : u \in Uid /\ f[u] \in Msg
  BY DEF PartialMap, Range

\* A mailbox of the model is finite.
LEMMA Counted ==
  ASSUME NEW n \in Nat, NEW S, S \subseteq 1..n
  PROVE  IsFiniteSet(S) /\ Cardinality(S) \in 0..n
  <1>1. IsFiniteSet(1..n) /\ Cardinality(1..n) = n
    BY FS_Interval
  <1>2. IsFiniteSet(S) /\ Cardinality(S) <= n
    BY <1>1, FS_Subset
  <1>3. QED
    BY <1>2, FS_CardinalityType

ServerTypeOK == /\ PartialMap(server) /\ uidNext \in 1..MaxMsg + 1 /\ epoch \in Epoch
                /\ arrived \in 0..MaxMsg
StoreTypeOK  == PartialMap(rows) /\ valid \in 0..MaxEpoch /\ lastSeen \in 0..MaxMsg
PassTypeOK ==
  /\ pc \in {"out", "between", "status", "upsertFolder", "resetFolder", "select",
             "fetch", "store", "mark", "notify"}
  /\ firstRun \in BOOLEAN /\ initial \in BOOLEAN
  /\ status.validity \in 0..MaxEpoch /\ status.count \in 0..MaxMsg
  /\ lastUid \in 0..MaxMsg /\ seenMark \in 0..MaxMsg
  /\ PartialMap(batch) /\ stored \subseteq DOMAIN batch /\ news \subseteq DOMAIN batch
HistoryTypeOK ==
  /\ notified \subseteq Msg /\ removed \subseteq Uid
  /\ before \in 0..MaxMsg /\ torn \in BOOLEAN /\ stops \in 0..MaxStops

LEMMA TypeParts == TypeOK <=> ServerTypeOK /\ StoreTypeOK /\ PassTypeOK /\ HistoryTypeOK
  BY DEF TypeOK, ServerTypeOK, StoreTypeOK, PassTypeOK, HistoryTypeOK

LEMMA MaxOfType ==
  ASSUME NEW n \in Nat, NEW S, S \subseteq 1..n
  PROVE  MaxOf(S) \in 0..n /\ \A u \in S : u <= MaxOf(S)
  <1>1. CASE S = {}
    BY <1>1 DEF MaxOf
  <1>2. CASE S # {}
    <2>1. S \subseteq 0..n
      OBVIOUS
    <2>2. Max(S) \in S /\ \A u \in S : u <= Max(S)
      BY <1>2, <2>1, Greatest
    <2>3. QED
      BY <1>2, <2>1, <2>2 DEF MaxOf
  <1>3. QED
    BY <1>1, <1>2

LEMMA MaxOfMember ==
  ASSUME NEW n \in Nat, NEW S, S \subseteq 1..n
  PROVE  IF S = {} THEN MaxOf(S) = 0 ELSE MaxOf(S) \in S
  <1>1. S \subseteq 0..n
    OBVIOUS
  <1>2. QED
    BY <1>1, Greatest DEF MaxOf

\* A mailbox renumbered: as many messages, in the same order.
LEMMA RenumberedMeans ==
  ASSUME TypeOK, ServerInv, NewEpoch
  PROVE  /\ uidNext - 1 \in Nat
         /\ Cardinality(DOMAIN server) \in 0..(uidNext - 1)
         /\ DOMAIN server' = 1..Cardinality(DOMAIN server)
         /\ \A u \in DOMAIN server' : \E v \in DOMAIN server : server'[u] = server[v]
         /\ \A u, v \in DOMAIN server' : u < v => server'[u] < server'[v]
  <1>1. uidNext - 1 \in Nat /\ DOMAIN server \subseteq 1..(uidNext - 1)
    BY Constants DEF TypeOK, PartialMap, Uid, ServerInv
  <1>2. Cardinality(DOMAIN server) \in 0..(uidNext - 1)
    BY <1>1, Counted
  <1>3. QED
    BY <1>1, <1>2 DEF NewEpoch, Renumbered, Range

\* The mailbox keeps its types.
LEMMA ServerTypeStep == TypeOK /\ ServerInv /\ [Next]_vars => ServerTypeOK'
  <1> SUFFICES ASSUME TypeOK, ServerInv, [Next]_vars PROVE ServerTypeOK'
    OBVIOUS
  <1> USE Constants, PartialMapMeans
  <1>1. ServerTypeOK
    BY TypeParts
  <1>2. CASE Arrive
    <2>1. /\ DOMAIN server' = DOMAIN server \union {uidNext}
          /\ \A u \in DOMAIN server' :
               server'[u] = IF u = uidNext THEN arrived + 1 ELSE server[u]
      BY <1>2, ArriveMeans
    <2>2. /\ arrived + 1 \in 1..MaxMsg /\ uidNext \in 1..MaxMsg
          /\ arrived' = arrived + 1 /\ uidNext' = uidNext + 1 /\ epoch' = epoch
      BY <1>1, <1>2 DEF Arrive, ServerTypeOK, ServerInv
    <2>3. \A u \in DOMAIN server' : u \in Uid /\ server'[u] \in Msg
      BY <1>1, <2>1, <2>2 DEF ServerTypeOK, Uid, Msg
    <2>4. QED
      BY <1>1, <2>2, <2>3 DEF ServerTypeOK
  <1>3. CASE Expunge
    BY <1>1, <1>3, ExpungeMeans DEF Expunge, ServerTypeOK
  <1>4. CASE NewEpoch
    BY <1>1, <1>4, RenumberedMeans DEF NewEpoch, ServerTypeOK, Uid, Msg, Epoch
  <1>5. CASE UNCHANGED serverVars
    BY <1>1, <1>5 DEF ServerTypeOK
  <1>6. QED
    BY <1>2, <1>3, <1>4, <1>5 DEF Next, SyncStep, RemoveMessage, Sweep, Resync, EndCycle, Status,
       UpsertFolder, ResetFolder, Select, Fetch, StoreOne, Mark, Notify, Fail, Crash

\* The rows and the mark keep their types.
LEMMA StoreTypeStep == TypeOK /\ PlaceInv /\ [Next]_vars => StoreTypeOK'
  <1> SUFFICES ASSUME TypeOK, PlaceInv, [Next]_vars PROVE StoreTypeOK'
    OBVIOUS
  <1> USE Constants, PartialMapMeans
  <1>1. StoreTypeOK /\ PassTypeOK
    BY TypeParts
  <1>2. CASE RemoveMessage
    <2>1. PartialMap(rows')
      BY <1>1, <1>2, RemoveMeans DEF StoreTypeOK
    <2>2. QED
      BY <1>1, <1>2, <2>1 DEF RemoveMessage, StoreTypeOK
  <1>3. CASE UpsertFolder
    <2>1. rows' = Empty \/ rows' = rows
      BY <1>3 DEF UpsertFolder, RowsAfterWipe
    <2>2. PartialMap(rows')
      BY <1>1, <2>1, EmptyMap DEF StoreTypeOK
    <2>3. QED
      BY <1>1, <1>3, <2>2 DEF UpsertFolder, StoreTypeOK, PassTypeOK
  <1>4. CASE ResetFolder
    BY <1>1, <1>4 DEF ResetFolder, StoreTypeOK, PassTypeOK
  <1>5. CASE StoreOne
    <2>1. PartialMap(rows')
      BY <1>1, <1>5, StoreMeans DEF StoreTypeOK, PassTypeOK
    <2>2. QED
      BY <1>1, <1>5, <2>1 DEF StoreOne, StoreTypeOK
  <1>6. CASE Mark
    <2>1. DOMAIN batch \subseteq 1..MaxMsg
      BY <1>1 DEF PassTypeOK, Uid
    <2>2. MaxOf(DOMAIN batch) \in 0..MaxMsg
      BY <2>1, MaxOfType
    <2>3. QED
      BY <1>1, <1>6, <2>2 DEF Mark, MarkRaised, StoreTypeOK
  <1>7. CASE UNCHANGED storeVars
    BY <1>1, <1>7 DEF StoreTypeOK
  <1>8. QED
    BY <1>2, <1>3, <1>4, <1>5, <1>6, <1>7 DEF Next, SyncStep, Arrive, Expunge, NewEpoch, Sweep,
       Resync, EndCycle, Status, Select, Fetch, Notify, Fail, Crash

\* The pass keeps its types.
LEMMA PassTypeStep == TypeOK /\ PlaceInv /\ [Next]_vars => PassTypeOK'
  <1> SUFFICES ASSUME TypeOK, PlaceInv, [Next]_vars PROVE PassTypeOK'
    OBVIOUS
  <1> USE Constants, PartialMapMeans
  <1>1. ServerTypeOK /\ StoreTypeOK /\ PassTypeOK
    BY TypeParts
  <1>2. CASE Sweep \/ Resync \/ EndCycle
    BY <1>1, <1>2 DEF Sweep, Resync, EndCycle, PassTypeOK
  <1>3. CASE Status
    <2>1. DOMAIN server \subseteq 1..MaxMsg
      BY <1>1 DEF ServerTypeOK, Uid
    <2>2. Cardinality(DOMAIN server) \in 0..MaxMsg
      BY <2>1, Counted
    <2>3. QED
      BY <1>1, <1>3, <2>2 DEF Status, PassTypeOK, ServerTypeOK, Epoch
  <1>4. CASE UpsertFolder \/ ResetFolder \/ Mark
    BY <1>1, <1>4 DEF UpsertFolder, ResetFolder, Mark, PassTypeOK
  <1>5. CASE Select
    <2>1. DOMAIN rows \subseteq 1..MaxMsg
      BY <1>1 DEF StoreTypeOK, Uid
    <2>2. MaxOf(DOMAIN rows) \in 0..MaxMsg
      BY <2>1, MaxOfType
    <2>3. QED
      BY <1>1, <1>5, <2>2 DEF Select, PassTypeOK, StoreTypeOK
  <1>6. CASE Fetch
    <2>1. DOMAIN batch' = Fresh /\ PartialMap(batch')
      BY <1>1, <1>6, FetchMeans DEF ServerTypeOK
    <2>2. news' \subseteq DOMAIN batch' /\ stored' = {}
      BY <1>6, FetchMeans DEF Fetch, PlaceInv
    <2>3. status'.validity = 0 /\ status'.count = 0 /\ lastUid' = 0 /\ seenMark' = 0
      BY <1>6 DEF Fetch, NoStatus
    <2>4. pc' \in {"between", "store"} /\ firstRun' \in BOOLEAN /\ initial' \in BOOLEAN
      BY <1>1, <1>6 DEF Fetch, PassTypeOK
    <2>5. QED
      BY <2>1, <2>2, <2>3, <2>4 DEF PassTypeOK
  <1>7. CASE StoreOne
    <2>1. NextEnvelope \in DOMAIN batch \ stored
      BY <1>7, StoreMeans
    <2>2. QED
      BY <1>1, <1>7, <2>1 DEF StoreOne, PassTypeOK
  <1>8. CASE Notify \/ Fail \/ Crash
    <2>1. /\ status' = NoStatus /\ lastUid' = 0 /\ seenMark' = 0
          /\ batch' = Empty /\ stored' = {} /\ news' = {}
      BY <1>8 DEF Notify, Fail, Crash, Abort, Idle
    <2>2. pc' \in {"between", "out"} /\ firstRun' \in BOOLEAN /\ initial' \in BOOLEAN
      BY <1>1, <1>8 DEF Notify, Fail, Crash, Abort, Idle, PassTypeOK
    <2>3. QED
      <3>1. status'.validity = 0 /\ status'.count = 0
        BY <2>1 DEF NoStatus
      <3>2. PartialMap(batch')
        BY <2>1, EmptyMap
      <3>3. QED
        BY <2>1, <2>2, <3>1, <3>2 DEF PassTypeOK
  <1>9. CASE UNCHANGED <<pc, firstRun, passVars>>
    BY <1>1, <1>9 DEF PassTypeOK
  <1>10. QED
    BY <1>2, <1>3, <1>4, <1>5, <1>6, <1>7, <1>8, <1>9 DEF Next, SyncStep, Arrive, Expunge,
       NewEpoch, RemoveMessage

\* The history keeps its types.
LEMMA HistoryTypeStep == TypeOK /\ [Next]_vars => HistoryTypeOK'
  <1> SUFFICES ASSUME TypeOK, [Next]_vars PROVE HistoryTypeOK'
    OBVIOUS
  <1> USE Constants, PartialMapMeans
  <1>1. ServerTypeOK /\ StoreTypeOK /\ PassTypeOK /\ HistoryTypeOK
    BY TypeParts
  <1>2. CASE RemoveMessage
    BY <1>1, <1>2 DEF RemoveMessage, HistoryTypeOK, StoreTypeOK
  <1>3. CASE Status
    BY <1>1, <1>3 DEF Status, HistoryTypeOK, ServerTypeOK
  <1>4. CASE ResetFolder
    BY <1>1, <1>4 DEF ResetFolder, HistoryTypeOK
  <1>5. CASE Notify
    BY <1>1, <1>5 DEF Notify, HistoryTypeOK, PassTypeOK
  <1>6. CASE Fail \/ Crash
    <2>1. torn' \in BOOLEAN
      BY <1>6, Zenon DEF Fail, Crash, Abort
    <2>2. stops' \in 0..MaxStops
      BY <1>1, <1>6 DEF Fail, Crash, Abort, HistoryTypeOK
    <2>3. QED
      BY <1>1, <1>6, <2>1, <2>2 DEF Fail, Crash, HistoryTypeOK
  <1>7. CASE UNCHANGED history
    BY <1>1, <1>7 DEF HistoryTypeOK
  <1>8. QED
    BY <1>2, <1>3, <1>4, <1>5, <1>6, <1>7 DEF Next, SyncStep, Arrive, Expunge, NewEpoch, Sweep,
       Resync, EndCycle, UpsertFolder, Select, Fetch, StoreOne, Mark

-----------------------------------------------------------------------------
(* The invariant holds at first and is kept *)

LEMMA InductiveInit == Init => IInv
  <1> SUFFICES ASSUME Init PROVE IInv
    OBVIOUS
  <1> USE Constants, EmptyMap DEF Init
  <1>1. PartialMap(Empty)
    BY PartialMapMeans
  <1>2. TypeOK
    <2>1. ServerTypeOK /\ StoreTypeOK
      BY <1>1 DEF ServerTypeOK, StoreTypeOK, Epoch
    <2>2. status.validity = 0 /\ status.count = 0
      BY DEF NoStatus
    <2>3. PassTypeOK
      <3>1. firstRun \in BOOLEAN /\ initial \in BOOLEAN
        BY Zenon
      <3>2. PartialMap(batch) /\ stored \subseteq DOMAIN batch /\ news \subseteq DOMAIN batch
        BY <1>1
      <3>3. 0 \in 0..MaxMsg /\ 0 \in 0..MaxEpoch
        OBVIOUS
      <3>4. lastUid \in 0..MaxMsg /\ seenMark \in 0..MaxMsg
        BY <3>3
      <3>5. pc = "out"
        OBVIOUS
      <3> HIDE DEF Init
      <3>6. QED
        BY <2>2, <3>1, <3>2, <3>3, <3>4, <3>5 DEF PassTypeOK
    <2>4. HistoryTypeOK
      <3>1. torn \in BOOLEAN
        BY Zenon
      <3>2. notified = {} /\ removed = {} /\ before = 0 /\ stops = 0
        OBVIOUS
      <3> HIDE DEF Init
      <3>3. QED
        BY <3>1, <3>2 DEF HistoryTypeOK
    <2>5. QED
      BY <2>1, <2>3, <2>4, TypeParts
  <1>3. ServerInv /\ EpochInv /\ PlaceInv
    BY DEF ServerInv, EpochInv, PlaceInv, NoStatus
  <1>4. RowsInv /\ FetchInv /\ BatchInv /\ MarkInv
    BY DEF RowsInv, FetchInv, BatchInv, MarkInv
  <1>5. RowsMatchServer /\ NoGapBetweenRows
    BY DEF RowsMatchServer, NoGapBetweenRows
  <1>6. QED
    BY <1>2, <1>3, <1>4, <1>5 DEF IInv

\* UIDs keep the order of arrival.
LEMMA ServerStep == TypeOK /\ ServerInv /\ [Next]_vars => ServerInv'
  <1> SUFFICES ASSUME TypeOK, ServerInv, [Next]_vars PROVE ServerInv'
    OBVIOUS
  <1>1. ServerTypeOK
    BY TypeParts
  <1>2. \A u \in DOMAIN server : u \in Nat /\ server[u] \in Nat
    BY <1>1, Constants, PartialMapMeans DEF ServerTypeOK, Uid, Msg
  <1>3. CASE Arrive
    BY <1>1, <1>2, <1>3, ArriveMeans, Constants DEF Arrive, ServerInv, ServerTypeOK
  <1>4. CASE Expunge
    BY <1>4, ExpungeMeans DEF Expunge, ServerInv
  <1>5. CASE NewEpoch
    <2>1. uidNext' <= arrived' + 1 /\ \A u \in DOMAIN server' : u < uidNext'
      BY <1>1, <1>5, RenumberedMeans, Constants DEF NewEpoch, ServerInv, ServerTypeOK
    <2>2. \A u \in DOMAIN server' : server'[u] <= arrived'
      BY <1>5, RenumberedMeans DEF NewEpoch, ServerInv
    <2>3. QED
      BY <1>5, <2>1, <2>2, RenumberedMeans DEF ServerInv
  <1>6. CASE UNCHANGED serverVars
    BY <1>6 DEF ServerInv
  <1>7. QED
    BY <1>3, <1>4, <1>5, <1>6 DEF Next, SyncStep, RemoveMessage, Sweep, Resync, EndCycle, Status,
       UpsertFolder, ResetFolder, Select, Fetch, StoreOne, Mark, Notify, Fail, Crash

\* A wipe goes through both its statements, under the epoch STATUS has told.
LEMMA EpochStep == TypeOK /\ EpochInv /\ [Next]_vars => EpochInv'
  <1> SUFFICES ASSUME TypeOK, EpochInv, [Next]_vars PROVE EpochInv'
    OBVIOUS
  <1>1. valid \in Nat /\ epoch \in Nat \ {0} /\ status.validity \in Nat
    BY Constants DEF TypeOK, Epoch
  <1>2. CASE Arrive \/ Expunge
    BY <1>2 DEF Arrive, Expunge, EpochInv
  <1>3. CASE NewEpoch
    BY <1>1, <1>3 DEF NewEpoch, EpochInv
  <1>4. CASE RemoveMessage
    BY <1>4, RemoveMeans DEF RemoveMessage, EpochInv
  <1>5. CASE Sweep \/ Resync \/ EndCycle
    BY <1>5 DEF Sweep, Resync, EndCycle, EpochInv
  <1>6. CASE Status
    BY <1>1, <1>6 DEF Status, EpochInv
  <1>7. CASE UpsertFolder
    BY <1>1, <1>7, EmptyMap DEF UpsertFolder, Stale, RowsAfterWipe, EpochInv
  <1>8. CASE ResetFolder
    BY <1>1, <1>8 DEF ResetFolder, EpochInv
  <1>9. CASE Select
    BY <1>9 DEF Select, EpochInv
  <1>10. CASE Fetch
    BY <1>1, <1>10 DEF Fetch, NoStatus, EpochInv
  <1>11. CASE StoreOne
    BY <1>11 DEF StoreOne, EpochInv
  <1>12. CASE Mark
    BY <1>12 DEF Mark, EpochInv
  <1>13. CASE Notify \/ Fail \/ Crash
    BY <1>1, <1>13 DEF Notify, Fail, Crash, Abort, Idle, NoStatus, EpochInv
  <1>14. CASE UNCHANGED vars
    BY <1>14 DEF EpochInv
  <1>15. QED
    BY <1>2, <1>3, <1>4, <1>5, <1>6, <1>7, <1>8, <1>9, <1>10, <1>11, <1>12, <1>13, <1>14
       DEF Next, SyncStep

\* A pass writes envelopes only between FETCH and the mark.
LEMMA PlaceStep == TypeOK /\ PlaceInv /\ [Next]_vars => PlaceInv'
  <1> SUFFICES ASSUME TypeOK, PlaceInv, [Next]_vars PROVE PlaceInv'
    OBVIOUS
  <1>1. CASE Fetch
    BY <1>1, FetchMeans DEF Fetch, PlaceInv
  <1>2. CASE StoreOne
    BY <1>2 DEF StoreOne, PlaceInv
  <1>3. CASE Notify \/ Fail \/ Crash
    BY <1>3 DEF Notify, Fail, Crash, Abort, Idle, PlaceInv
  <1>4. CASE Mark
    BY <1>4 DEF Mark, PlaceInv
  <1>5. CASE Sweep \/ Resync \/ EndCycle \/ Status \/ UpsertFolder \/ ResetFolder \/ Select
    BY <1>5 DEF Sweep, Resync, EndCycle, Status, UpsertFolder, ResetFolder, Select, PlaceInv
  <1>6. CASE UNCHANGED <<pc, passVars>>
    BY <1>6 DEF PlaceInv
  <1>7. QED
    BY <1>1, <1>2, <1>3, <1>4, <1>5, <1>6 DEF Next, SyncStep, Arrive, Expunge, NewEpoch,
       RemoveMessage

\* What is cached was assigned, what was removed is gone, and the rows are the
\* server's, as long as the epoch is the same.
LEMMA RowsStep == IInv /\ [Next]_vars => (RowsInv /\ RowsMatchServer)'
  <1> SUFFICES ASSUME IInv, [Next]_vars PROVE (RowsInv /\ RowsMatchServer)'
    OBVIOUS
  <1>1. TypeOK /\ ServerInv /\ EpochInv /\ PlaceInv /\ RowsInv /\ BatchInv /\ RowsMatchServer
    BY DEF IInv
  <1>2. /\ valid \in Nat /\ epoch \in Nat /\ uidNext \in Nat /\ status.validity \in Nat
        /\ DOMAIN server \subseteq Nat /\ DOMAIN rows \subseteq Nat /\ removed \subseteq Nat
    BY <1>1, Constants DEF TypeOK, PartialMap, Uid, Epoch
  <1> USE <1>1, <1>2 DEF RowsInv, RowsMatchServer
  <1>3. CASE Arrive
    BY <1>3, ArriveMeans DEF Arrive
  <1>4. CASE Expunge
    BY <1>4, ExpungeMeans DEF Expunge
  <1>5. CASE NewEpoch
    BY <1>5 DEF NewEpoch, EpochInv
  <1>6. CASE RemoveMessage
    <2>1. PICK x \in DOMAIN rows :
            /\ ServerDone(x)
            /\ DOMAIN rows' = DOMAIN rows \ {x}
            /\ \A u \in DOMAIN rows' : rows'[u] = rows[u]
            /\ removed' = removed \union {x}
      BY <1>6, RemoveMeans
    <2>2. valid = epoch => x \notin DOMAIN server
      BY <2>1 DEF ServerDone, Range
    <2>3. QED
      BY <1>6, <2>1, <2>2 DEF RemoveMessage
  <1>7. CASE UpsertFolder
    BY <1>7, EmptyMap DEF UpsertFolder, Stale, RowsAfterWipe, EpochInv
  <1>8. CASE ResetFolder
    BY <1>8 DEF ResetFolder, EpochInv
  <1>9. CASE StoreOne
    BY <1>9, StoreMeans DEF StoreOne, BatchInv
  <1>10. CASE UNCHANGED <<serverVars, rows, valid, removed>>
    BY <1>10
  <1>11. QED
    BY <1>3, <1>4, <1>5, <1>6, <1>7, <1>8, <1>9, <1>10 DEF Next, SyncStep, Sweep, Resync, EndCycle,
       Status, Select, Fetch, Mark, Notify, Fail, Crash

\* A removal takes no row that is still on the server, so it opens no gap.
LEMMA RemovedIsGone ==
  ASSUME IInv, RemoveMessage, valid = epoch
  PROVE  \E x \in DOMAIN rows :
           /\ x \notin DOMAIN server /\ DOMAIN rows' = DOMAIN rows \ {x}
           /\ removed' = removed \union {x}
  BY RemoveMeans DEF ServerDone, Range, IInv, RowsMatchServer

\* Nothing between two cached rows is missing.
LEMMA GapStep == IInv /\ [Next]_vars => NoGapBetweenRows'
  <1> SUFFICES ASSUME IInv, [Next]_vars PROVE NoGapBetweenRows'
    OBVIOUS
  <1>1. TypeOK /\ ServerInv /\ EpochInv /\ PlaceInv /\ RowsInv /\ BatchInv /\ NoGapBetweenRows
    BY DEF IInv
  <1>2. /\ valid \in Nat /\ epoch \in Nat /\ uidNext \in Nat /\ status.validity \in Nat
        /\ DOMAIN server \subseteq Nat /\ DOMAIN rows \subseteq Nat /\ DOMAIN batch \subseteq Nat
    BY <1>1, Constants DEF TypeOK, PartialMap, Uid, Epoch
  <1> USE <1>1, <1>2 DEF NoGapBetweenRows
  <1>3. CASE Arrive
    BY <1>3, ArriveMeans DEF Arrive, RowsInv
  <1>4. CASE Expunge
    BY <1>4, ExpungeMeans DEF Expunge
  <1>5. CASE NewEpoch
    BY <1>5 DEF NewEpoch, EpochInv
  <1>6. CASE RemoveMessage
    BY <1>6, RemovedIsGone DEF RemoveMessage
  <1>7. CASE UpsertFolder
    BY <1>7, EmptyMap DEF UpsertFolder, Stale, RowsAfterWipe, EpochInv
  <1>8. CASE ResetFolder
    BY <1>8 DEF ResetFolder, EpochInv
  <1>9. CASE StoreOne
    <2> SUFFICES ASSUME valid = epoch, NEW u \in DOMAIN server, u \notin DOMAIN rows',
                        NEW a \in DOMAIN rows', NEW b \in DOMAIN rows', a < u, u < b
                 PROVE  FALSE
      BY <1>9 DEF StoreOne
    <2> DEFINE e == NextEnvelope
    <2>1. /\ e \in DOMAIN batch \ stored /\ \A v \in DOMAIN batch \ stored : e <= v
          /\ DOMAIN rows' = DOMAIN rows \union {e} /\ e \in Nat
      BY <1>9, StoreMeans
    <2>2. \A v \in DOMAIN rows : v < e
      BY <1>9, <2>1 DEF StoreOne, BatchInv
    <2>3. u < e
      BY <2>1, <2>2
    <2>4. u \in DOMAIN batch
      BY <1>9, <2>1 DEF StoreOne, BatchInv, NoGap
    <2>5. u \in stored
      BY <2>1, <2>3, <2>4
    <2>6. QED
      BY <1>9, <2>1, <2>5 DEF StoreOne, BatchInv
  <1>10. CASE UNCHANGED <<serverVars, rows, valid>>
    BY <1>10
  <1>11. QED
    BY <1>3, <1>4, <1>5, <1>6, <1>7, <1>8, <1>9, <1>10 DEF Next, SyncStep, Sweep, Resync, EndCycle,
       Status, Select, Fetch, Mark, Notify, Fail, Crash

\* Between Select and FETCH only the rows of messages that are gone may go.
LEMMA FetchStep == IInv /\ [Next]_vars => FetchInv'
  <1> SUFFICES ASSUME IInv, [Next]_vars PROVE FetchInv'
    OBVIOUS
  <1>1. TypeOK /\ ServerInv /\ EpochInv /\ RowsInv /\ FetchInv /\ NoGapBetweenRows
    BY DEF IInv
  <1>2. /\ valid \in Nat /\ epoch \in Nat /\ uidNext \in Nat /\ lastUid \in Nat
        /\ DOMAIN server \subseteq Nat /\ DOMAIN rows \subseteq Nat
    BY <1>1, Constants DEF TypeOK, PartialMap, Uid, Epoch
  <1> USE <1>1, <1>2 DEF FetchInv
  <1>3. CASE Arrive
    BY <1>3, ArriveMeans DEF Arrive
  <1>4. CASE Expunge
    BY <1>4, ExpungeMeans DEF Expunge
  <1>5. CASE NewEpoch
    BY <1>5 DEF NewEpoch
  <1>6. CASE RemoveMessage
    BY <1>6, RemovedIsGone DEF RemoveMessage
  <1>7. CASE Select
    <2>1. DOMAIN rows \subseteq 1..MaxMsg
      BY DEF TypeOK, PartialMap, Uid
    <2>2. lastUid' = MaxOf(DOMAIN rows) /\ lastUid' \in Nat
          /\ \A u \in DOMAIN rows : u <= lastUid'
      BY <1>7, <2>1, MaxOfType, Constants DEF Select
    <2>3. lastUid' \in DOMAIN rows \/ (DOMAIN rows = {} /\ lastUid' = 0)
      <3>1. IF DOMAIN rows = {} THEN MaxOf(DOMAIN rows) = 0
                                ELSE MaxOf(DOMAIN rows) \in DOMAIN rows
        BY <2>1, MaxOfMember, Constants, Zenon
      <3>2. QED
        BY <2>2, <3>1
    <2>4. valid = epoch => lastUid' < uidNext
      BY <2>3 DEF RowsInv, TypeOK
    <2>5. ASSUME valid = epoch, NEW u \in DOMAIN server \ DOMAIN rows, NEW a \in DOMAIN rows, a < u
          PROVE  u > lastUid'
      BY <2>2, <2>3, <2>5 DEF NoGapBetweenRows
    <2>6. QED
      BY <1>7, <2>2, <2>4, <2>5 DEF Select
  <1>8. CASE pc' # "fetch"
    BY <1>8
  <1>9. CASE UNCHANGED <<serverVars, rows, valid, pc, lastUid>>
    BY <1>9
  <1>10. QED
    BY <1>3, <1>4, <1>5, <1>6, <1>7, <1>8, <1>9 DEF Next, SyncStep, Sweep, Resync, EndCycle,
       Status, UpsertFolder, ResetFolder, Fetch, StoreOne, Mark, Notify, Fail, Crash, Abort

\* FETCH is asked for a page that nothing of the mailbox lies above.
LEMMA FreshIsUpward ==
  ASSUME IInv, pc = "fetch", valid = epoch, NEW a \in Fresh, NEW u \in DOMAIN server, a < u
  PROVE  u \in Fresh
  <1>1. TypeOK
    BY DEF IInv
  <1>2. DOMAIN server \subseteq 1..MaxMsg /\ MaxMsg \in Nat /\ lastUid \in Nat /\ a \in DOMAIN server
    BY <1>1, Constants DEF TypeOK, PartialMap, Uid, Fresh, FromSequence
  <1>3. CASE lastUid # 0
    BY <1>2, <1>3 DEF Fresh
  <1>4. CASE lastUid = 0
    <2> DEFINE A == {v \in DOMAIN server : v <= a}
               U == {v \in DOMAIN server : v <= u}
               s == RecentStart(status.count)
    <2>1. A \subseteq U /\ U \subseteq 1..MaxMsg /\ A \subseteq 1..MaxMsg
      BY <1>2
    <2>2. IsFiniteSet(U) /\ Cardinality(U) \in Nat /\ Cardinality(A) \in Nat
      BY <1>2, <2>1, Counted
    <2>3. Cardinality(A) <= Cardinality(U)
      BY <2>1, <2>2, FS_Subset
    <2>4. Number(a) = Cardinality(A) /\ Number(u) = Cardinality(U)
      BY DEF Number
    <2>5. s \in Int
      BY <1>1, Constants DEF RecentStart, TypeOK
    <2>6. status.count # 0 /\ a \in FromSequence(s)
      BY <1>4 DEF Fresh
    <2>7. ~(u <= a)
      BY <1>2
    <2>8. Number(a) >= s
      BY <2>6, <2>7 DEF FromSequence
    <2>9. Number(u) >= s
      BY <2>2, <2>3, <2>4, <2>5, <2>8
    <2>10. u \in FromSequence(s)
      BY <2>9 DEF FromSequence
    <2>11. QED
      BY <1>4, <2>6, <2>10 DEF Fresh
  <1>5. QED
    BY <1>3, <1>4

\* From FETCH to the mark the batch goes on closing the gap above the rows.
LEMMA BatchStep == IInv /\ [Next]_vars => BatchInv'
  <1> SUFFICES ASSUME IInv, [Next]_vars PROVE BatchInv'
    OBVIOUS
  <1>1. TypeOK /\ ServerInv /\ EpochInv /\ PlaceInv /\ RowsInv /\ FetchInv /\ BatchInv
    BY DEF IInv
  <1>2. /\ valid \in Nat /\ epoch \in Nat /\ uidNext \in Nat /\ lastUid \in Nat
        /\ DOMAIN server \subseteq Nat \ {0} /\ DOMAIN rows \subseteq Nat \ {0}
        /\ DOMAIN batch \subseteq Nat
    BY <1>1, Constants DEF TypeOK, PartialMap, Uid, Epoch
  <1>3. CASE Arrive
    <2> SUFFICES ASSUME pc = "store", valid = epoch PROVE BatchInv'
      BY <1>3 DEF Arrive, BatchInv
    <2>1. /\ DOMAIN server' = DOMAIN server \union {uidNext} /\ uidNext' = uidNext + 1
          /\ \A u \in DOMAIN server : u # uidNext /\ server'[u] = server[u]
          /\ UNCHANGED <<storeVars, batch, stored, removed>>
      BY <1>1, <1>2, <1>3, ArriveMeans DEF Arrive, ServerInv
    <2>2. \A u \in DOMAIN rows \union DOMAIN batch : u < uidNext
      BY <1>1 DEF BatchInv, RowsInv
    <2>3. NoGap(DOMAIN rows \union DOMAIN batch)'
      <3>1. NoGap(DOMAIN rows \union DOMAIN batch)
        BY <1>1 DEF BatchInv
      <3>2. \A b \in DOMAIN rows \union DOMAIN batch : ~(uidNext < b)
        BY <1>2, <2>2
      <3>3. QED
        BY <2>1, <3>1, <3>2 DEF NoGap
    <2>4. \A u \in DOMAIN batch : u < uidNext' /\ u # uidNext
      BY <1>2, <2>1, <2>2
    <2>5. \A u \in stored \intersect DOMAIN server' : u \in DOMAIN rows
      BY <1>1, <2>1, <2>4 DEF BatchInv, TypeOK
    <2>6. QED
      BY <1>1, <2>1, <2>3, <2>4, <2>5 DEF BatchInv
  <1>4. CASE Expunge
    BY <1>1, <1>4, ExpungeMeans DEF Expunge, BatchInv, NoGap
  <1>5. CASE NewEpoch
    BY <1>1, <1>2, <1>5 DEF NewEpoch, EpochInv, BatchInv
  <1>6. CASE RemoveMessage
    <2> SUFFICES ASSUME pc = "store", valid = epoch PROVE BatchInv'
      BY <1>6 DEF RemoveMessage, BatchInv
    <2>1. PICK x \in DOMAIN rows : /\ x \notin DOMAIN server /\ DOMAIN rows' = DOMAIN rows \ {x}
                                  /\ removed' = removed \union {x}
      BY <1>6, RemovedIsGone
    <2>2. /\ UNCHANGED <<batch, stored, server, uidNext, epoch, valid>>
      BY <1>6 DEF RemoveMessage
    <2>3. \A u \in stored \intersect DOMAIN server : u \in DOMAIN rows'
      BY <1>1, <2>1 DEF BatchInv
    <2>4. \A u \in DOMAIN batch \ stored : u \notin removed' /\ \A v \in DOMAIN rows' : v < u
      BY <1>1, <1>2, <2>1 DEF BatchInv
    <2>5. NoGap(DOMAIN rows \union DOMAIN batch)
      BY <1>1 DEF BatchInv
    <2>6. NoGap(DOMAIN rows \union DOMAIN batch)'
      BY <2>1, <2>2, <2>5 DEF NoGap
    <2>7. QED
      BY <1>1, <2>2, <2>3, <2>4, <2>6 DEF BatchInv
  <1>7. CASE Fetch
    <2> SUFFICES ASSUME valid = epoch PROVE BatchInv'
      BY <1>7 DEF Fetch, BatchInv
    <2>1. /\ DOMAIN batch' = Fresh /\ Fresh \subseteq DOMAIN server
          /\ \A u \in Fresh : batch'[u] = server[u]
      BY <1>7, FetchMeans
    <2>2. pc = "fetch" /\ stored' = {} /\ UNCHANGED <<serverVars, storeVars, removed>>
      BY <1>1, <1>7 DEF Fetch, PlaceInv
    <2>3. \A u \in Fresh, v \in DOMAIN rows : v < u
      <3> SUFFICES ASSUME NEW u \in Fresh, NEW v \in DOMAIN rows PROVE v < u
        OBVIOUS
      <3>1. v <= lastUid
        BY <1>1, <2>2 DEF FetchInv
      <3>2. lastUid # 0
        BY <1>2, <3>1
      <3>3. QED
        BY <1>2, <2>1, <3>1, <3>2 DEF Fresh
    <2>4. NoGap(DOMAIN rows \union DOMAIN batch)'
      <3> SUFFICES ASSUME NEW u \in DOMAIN server, u \notin DOMAIN rows, u \notin Fresh,
                          NEW a \in DOMAIN rows \union Fresh, a < u,
                          NEW b \in DOMAIN rows \union Fresh, u < b
                   PROVE  FALSE
        BY <2>1, <2>2 DEF NoGap
      <3>1. a \in DOMAIN rows
        BY <2>2, FreshIsUpward
      <3>2. u > lastUid
        BY <1>1, <2>2, <3>1 DEF FetchInv
      <3>3. lastUid # 0
        BY <1>1, <1>2, <2>2, <3>1 DEF FetchInv
      <3>4. QED
        BY <3>2, <3>3 DEF Fresh
    <2>5. \A u \in Fresh : u < uidNext /\ u \notin removed
      BY <1>1, <2>1 DEF ServerInv, RowsInv
    <2>6. QED
      BY <2>1, <2>2, <2>3, <2>4, <2>5 DEF BatchInv
  <1>8. CASE StoreOne
    <2> SUFFICES ASSUME valid = epoch PROVE BatchInv'
      BY <1>8 DEF StoreOne, BatchInv
    <2> DEFINE e == NextEnvelope
    <2>1. /\ e \in DOMAIN batch \ stored /\ \A v \in DOMAIN batch \ stored : e <= v
          /\ DOMAIN rows' = DOMAIN rows \union {e} /\ e \in Nat
      BY <1>1, <1>2, <1>8, StoreMeans
    <2>2. /\ stored' = stored \union {e} /\ pc = "store"
          /\ UNCHANGED <<serverVars, valid, batch, removed>>
      BY <1>8 DEF StoreOne
    <2>3. \A u \in DOMAIN batch \ stored' : u \notin removed /\ \A v \in DOMAIN rows' : v < u
      BY <1>1, <1>2, <2>1, <2>2 DEF BatchInv
    <2>4. \A u \in stored' \intersect DOMAIN server : u \in DOMAIN rows'
      BY <1>1, <2>1, <2>2 DEF BatchInv
    <2>5. DOMAIN rows' \union DOMAIN batch' = DOMAIN rows \union DOMAIN batch
      BY <2>1, <2>2
    <2>6. NoGap(DOMAIN rows \union DOMAIN batch)'
      BY <1>1, <2>2, <2>5 DEF BatchInv, NoGap
    <2>7. QED
      BY <1>1, <2>2, <2>3, <2>4, <2>6 DEF BatchInv
  <1>9. CASE pc' # "store"
    BY <1>9 DEF BatchInv
  <1>10. CASE UNCHANGED vars
    BY <1>1, <1>10 DEF BatchInv, NoGap
  <1>11. QED
    BY <1>3, <1>4, <1>5, <1>6, <1>7, <1>8, <1>9, <1>10 DEF Next, SyncStep, Sweep, Resync, EndCycle,
       Status, UpsertFolder, ResetFolder, Select, Mark, Notify, Fail, Crash, Abort

\* A message's UID after a rebuild is at most the one it had.
LEMMA RenumberedLowers ==
  ASSUME TypeOK, ServerInv, NewEpoch, NEW u \in DOMAIN server', NEW v \in DOMAIN server,
         server'[u] = server[v]
  PROVE  u <= v
  <1> DEFINE Old(w) == CHOOSE x \in DOMAIN server : server'[w] = server[x]
             f == [w \in 1..u |-> Old(w)]
  <1>1. /\ DOMAIN server \subseteq Nat \ {0} /\ \A x \in DOMAIN server : server[x] \in Nat
        /\ v \in Nat \ {0}
    BY Constants, PartialMapMeans DEF TypeOK, Uid, Msg
  <1>2. Cardinality(DOMAIN server) \in Nat
    BY RenumberedMeans
  <1>3. u \in Nat /\ 1..u \subseteq DOMAIN server'
    BY <1>2, RenumberedMeans
  <1>4. \A w \in 1..u : Old(w) \in DOMAIN server /\ server'[w] = server[Old(w)]
    BY <1>3, RenumberedMeans
  <1>5. \A w \in 1..u : Old(w) \in 1..v
    <2> SUFFICES ASSUME NEW w \in 1..u PROVE Old(w) \in 1..v
      OBVIOUS
    <2>1. w = u \/ w < u
      BY <1>3
    <2>2. server'[w] = server'[u] \/ server'[w] < server'[u]
      BY <1>3, <2>1, RenumberedMeans
    <2>3. ~(server[v] < server[Old(w)])
      BY <1>1, <1>4, <2>2
    <2>4. ~(v < Old(w))
      BY <1>4, <2>3 DEF ServerInv
    <2>5. QED
      BY <1>1, <1>4, <2>4
  <1>6. \A w, x \in 1..u : f[w] = f[x] => w = x
    <2> SUFFICES ASSUME NEW w \in 1..u, NEW x \in 1..u, f[w] = f[x] PROVE w = x
      OBVIOUS
    <2>1. server'[w] = server'[x] /\ server'[w] \in Nat
      BY <1>1, <1>4
    <2>2. ~(w < x) /\ ~(x < w)
      BY <1>3, <2>1, RenumberedMeans
    <2>3. QED
      BY <1>3, <2>2
  <1>7. f \in Injection(1..u, 1..v)
    <2>1. f \in [1..u -> 1..v]
      BY <1>5
    <2> HIDE DEF f
    <2>2. QED
      BY <1>6, <2>1, Fun_IsInj
  <1>8. /\ IsFiniteSet(1..v) /\ Cardinality(1..v) = v /\ Cardinality(1..u) = u
    <2>1. /\ IsFiniteSet(1..v) /\ Cardinality(1..v) = IF 1 > v THEN 0 ELSE v - 1 + 1
      BY <1>1, FS_Interval
    <2>2. Cardinality(1..u) = IF 1 > u THEN 0 ELSE u - 1 + 1
      BY <1>3, FS_Interval
    <2>3. QED
      BY <1>1, <1>3, <2>1, <2>2
  <1>9. Cardinality(1..u) <= Cardinality(1..v)
    BY <1>7, <1>8, FS_Injection
  <1>10. QED
    BY <1>8, <1>9

\* The mark stays above what was notified, and what is about to be is new.
LEMMA MarkStep == IInv /\ [Next]_vars => MarkInv'
  <1> SUFFICES ASSUME IInv, [Next]_vars PROVE MarkInv'
    OBVIOUS
  <1>1. TypeOK /\ ServerInv /\ MarkInv
    BY DEF IInv
  <1>2. /\ arrived \in Nat /\ lastSeen \in Nat /\ notified \subseteq Nat
        /\ DOMAIN server \subseteq Nat /\ \A u \in DOMAIN server : server[u] \in Nat
        /\ DOMAIN batch \subseteq Nat /\ \A u \in DOMAIN batch : batch[u] \in Nat
        /\ news \subseteq DOMAIN batch
    BY <1>1, Constants, PartialMapMeans DEF TypeOK, Uid, Msg
  <1>3. CASE Arrive
    <2>1. /\ DOMAIN server' = DOMAIN server \union {uidNext} /\ arrived' = arrived + 1
          /\ \A u \in DOMAIN server' :
               server'[u] = IF u = uidNext THEN arrived + 1 ELSE server[u]
          /\ UNCHANGED <<storeVars, pc, passVars, history>>
      BY <1>3, ArriveMeans DEF Arrive
    <2>2. \A m \in notified : m <= arrived' /\ m # arrived + 1
      BY <1>1, <1>2, <2>1 DEF MarkInv
    <2>3. \A u \in DOMAIN server' : server'[u] \in notified => u <= lastSeen
      BY <1>1, <2>1, <2>2 DEF MarkInv
    <2>4. ASSUME pc \in {"store", "mark", "notify"}
          PROVE  /\ \A u \in DOMAIN batch : batch[u] <= arrived' /\ batch[u] # arrived + 1
      BY <1>1, <1>2, <2>1, <2>4 DEF MarkInv
    <2>5. ASSUME pc \in {"store", "mark", "notify"}
          PROVE  \A u \in DOMAIN batch, v \in DOMAIN server' : server'[v] = batch[u] => v <= u
      BY <1>1, <2>1, <2>4, <2>5 DEF MarkInv
    <2>6. QED
      BY <1>1, <2>1, <2>2, <2>3, <2>4, <2>5 DEF MarkInv
  <1>4. CASE Expunge
    BY <1>1, <1>4, ExpungeMeans DEF Expunge, MarkInv
  <1>5. CASE NewEpoch
    <2>1. UNCHANGED <<arrived, storeVars, pc, passVars, history>>
      BY <1>5 DEF NewEpoch
    <2>2. \A u \in DOMAIN server' : u \in Nat
      <3>1. Cardinality(DOMAIN server) \in Nat /\ DOMAIN server' = 1..Cardinality(DOMAIN server)
        BY <1>1, <1>5, RenumberedMeans
      <3>2. QED
        BY <3>1
    <2>3. \A u \in DOMAIN server' : \E v \in DOMAIN server : server'[u] = server[v] /\ u <= v
      BY <1>1, <1>5, RenumberedMeans, RenumberedLowers
    <2>4. \A u \in DOMAIN server' : server'[u] \in notified => u <= lastSeen
      BY <1>1, <1>2, <2>2, <2>3 DEF MarkInv
    <2>5. ASSUME pc \in {"store", "mark", "notify"}
          PROVE  \A u \in DOMAIN batch, v \in DOMAIN server' : server'[v] = batch[u] => v <= u
      BY <1>1, <1>2, <2>2, <2>3, <2>5 DEF MarkInv
    <2>6. QED
      BY <1>1, <2>1, <2>4, <2>5 DEF MarkInv
  <1>6. CASE RemoveMessage \/ Sweep \/ Resync \/ EndCycle \/ Status \/ UpsertFolder
    BY <1>1, <1>6 DEF RemoveMessage, Sweep, Resync, EndCycle, Status, UpsertFolder, MarkInv
  <1>7. CASE ResetFolder
    BY <1>7 DEF ResetFolder, MarkInv
  <1>8. CASE Select
    BY <1>1, <1>8 DEF Select, MarkInv
  <1>9. CASE Fetch
    <2>1. /\ DOMAIN batch' = Fresh /\ Fresh \subseteq DOMAIN server
          /\ \A u \in Fresh : batch'[u] = server[u]
      BY <1>9, FetchMeans
    <2>2. /\ pc = "fetch" /\ pc' \in {"between", "store"}
          /\ UNCHANGED <<serverVars, storeVars, history>>
      BY <1>9 DEF Fetch
    <2>3. \A u \in news' : u \in Fresh /\ u > seenMark
      BY <1>9 DEF Fetch, AboveMark
    <2>4. \A u \in news' : server[u] \notin notified
      BY <1>1, <1>2, <2>1, <2>2, <2>3 DEF MarkInv
    <2>5. \A u, v \in DOMAIN server : server[v] = server[u] => v <= u
      BY <1>1, <1>2 DEF ServerInv
    <2>6. \A u \in Fresh : server[u] <= arrived
      BY <1>1, <2>1 DEF ServerInv
    <2>7. QED
      BY <1>1, <2>1, <2>2, <2>3, <2>4, <2>5, <2>6 DEF MarkInv
  <1>10. CASE StoreOne
    BY <1>1, <1>10 DEF StoreOne, MarkInv
  <1>11. CASE Mark
    <2>1. DOMAIN batch \subseteq 1..MaxMsg /\ MaxMsg \in Nat
      BY <1>1, Constants DEF TypeOK, PartialMap, Uid
    <2>2. MaxOf(DOMAIN batch) \in Nat /\ \A u \in DOMAIN batch : u <= MaxOf(DOMAIN batch)
      BY <2>1, MaxOfType
    <2>3. lastSeen' \in Nat /\ lastSeen <= lastSeen' /\ MaxOf(DOMAIN batch) <= lastSeen'
      BY <1>2, <1>11, <2>2 DEF Mark, MarkRaised
    <2>4. /\ pc = "mark" /\ pc' = "notify"
          /\ UNCHANGED <<serverVars, rows, passVars, history>>
      BY <1>11 DEF Mark
    <2>5. \A u \in DOMAIN batch : u <= lastSeen'
      BY <1>2, <2>2, <2>3
    <2>6. \A u \in DOMAIN server : server[u] \in notified => u <= lastSeen'
      BY <1>1, <1>2, <2>3 DEF MarkInv
    <2>7. QED
      BY <1>1, <2>4, <2>5, <2>6 DEF MarkInv
  <1>12. CASE Notify
    <2>1. /\ pc = "notify" /\ pc' = "between" /\ UNCHANGED <<serverVars, storeVars>>
          /\ notified' = notified \union {batch[u] : u \in news}
      BY <1>12 DEF Notify
    <2>2. \A m \in notified' : m <= arrived
      BY <1>1, <1>2, <2>1 DEF MarkInv
    <2>3. ASSUME NEW v \in DOMAIN server, NEW u \in DOMAIN batch, server[v] = batch[u]
          PROVE  v <= lastSeen
      BY <1>1, <1>2, <2>1, <2>3 DEF MarkInv
    <2>4. \A v \in DOMAIN server : server[v] \in notified' => v <= lastSeen
      BY <1>1, <1>2, <2>1, <2>3 DEF MarkInv
    <2>5. QED
      BY <2>1, <2>2, <2>4 DEF MarkInv
  <1>13. CASE Fail \/ Crash
    BY <1>1, <1>13 DEF Fail, Crash, Abort, MarkInv
  <1>14. CASE UNCHANGED vars
    BY <1>1, <1>14 DEF MarkInv
  <1>15. QED
    BY <1>3, <1>4, <1>5, <1>6, <1>7, <1>8, <1>9, <1>10, <1>11, <1>12, <1>13, <1>14
       DEF Next, SyncStep

LEMMA InductiveStep == IInv /\ [Next]_vars => IInv'
  <1> SUFFICES ASSUME IInv, [Next]_vars PROVE IInv'
    OBVIOUS
  <1>1. TypeOK /\ ServerInv /\ EpochInv /\ PlaceInv
    BY DEF IInv
  <1>2. TypeOK'
    <2>1. (TypeOK <=> ServerTypeOK /\ StoreTypeOK /\ PassTypeOK /\ HistoryTypeOK)'
      BY TypeParts, PTL
    <2>2. QED
      BY <1>1, <2>1, ServerTypeStep, StoreTypeStep, PassTypeStep, HistoryTypeStep
  <1>3. ServerInv' /\ EpochInv' /\ PlaceInv'
    BY <1>1, ServerStep, EpochStep, PlaceStep
  <1>4. (RowsInv /\ RowsMatchServer)' /\ NoGapBetweenRows'
    BY RowsStep, GapStep
  <1>5. FetchInv' /\ BatchInv' /\ MarkInv'
    BY FetchStep, BatchStep, MarkStep
  <1>6. QED
    BY <1>2, <1>3, <1>4, <1>5 DEF IInv

-----------------------------------------------------------------------------
(* Old mail *)

\* Mail the first sync found lies at or below u.
OldBelow(u) == \A v \in DOMAIN server : server[v] <= before => v <= u

\* No pass has raised the mark yet: the goroutine is still at its first cycle,
\* which notifies of nothing, and fetches the newest page because no row is written.
Unmarked ==
  /\ firstRun
  /\ pc \notin {"between", "notify"}
  /\ pc \in {"status", "upsertFolder", "resetFolder", "select", "fetch"} => initial
  /\ pc \notin {"store", "mark"} \/ (pc = "store" /\ stored = {}) => DOMAIN rows = {}
  /\ pc = "fetch" => lastUid = 0
  /\ pc \in {"store", "mark"} => news = {} /\ OldBelow(MaxOf(DOMAIN batch))

\* Before the folder's row exists nothing was notified or marked; a wipe begun raises `valid';
\* a mailbox that STATUS found empty has only new mail.  Until a pass is torn or the
\* store has seen a rebuild, the mark lies above the old mail, or is yet to be set.
OldInv ==
  /\ before <= arrived
  /\ valid = 0 => notified = {} /\ Unmarked /\ pc \in {"out", "status", "upsertFolder"}
  /\ pc = "upsertFolder" => valid <= status.validity
  /\ pc = "resetFolder" => valid < status.validity
  /\ pc \in {"upsertFolder", "resetFolder", "select", "fetch"} /\ status.count = 0
       => \A u \in DOMAIN server : server[u] > before
  /\ torn \/ valid > 1 \/
       /\ OldBelow(lastSeen) \/ Unmarked
       /\ pc \in {"store", "mark", "notify"} => \A u \in news : batch[u] > before

\* The mailbox's changes: new mail is none of the old, a rebuild lowers UIDs.
LEMMA MailboxKeeps ==
  ASSUME TypeOK, ServerInv, before <= arrived, Arrive \/ Expunge \/ NewEpoch
  PROVE  /\ before' = before /\ before' <= arrived'
         /\ \A u \in Nat : OldBelow(u) => OldBelow(u)'
         /\ (\A u \in DOMAIN server : server[u] > before)
              => \A u \in DOMAIN server' : server'[u] > before
  <1>1. /\ arrived \in Nat /\ before \in Nat
        /\ DOMAIN server \subseteq Nat /\ \A u \in DOMAIN server : server[u] \in Nat
    BY Constants, PartialMapMeans DEF TypeOK, Uid, Msg
  <1>2. before' = before
    BY DEF Arrive, Expunge, NewEpoch
  <1>3. CASE Arrive
    <2>1. /\ DOMAIN server' = DOMAIN server \union {uidNext} /\ arrived' = arrived + 1
          /\ \A u \in DOMAIN server' :
               server'[u] = IF u = uidNext THEN arrived + 1 ELSE server[u]
      BY <1>3, ArriveMeans DEF Arrive
    <2>2. QED
      BY <1>1, <1>2, <2>1 DEF OldBelow
  <1>4. CASE Expunge
    <2>1. \A u \in DOMAIN server' : u \in DOMAIN server /\ server'[u] = server[u]
      BY <1>4, ExpungeMeans
    <2>2. arrived' = arrived
      BY <1>4 DEF Expunge
    <2>3. QED
      BY <1>2, <2>1, <2>2 DEF OldBelow
  <1>5. CASE NewEpoch
    <2>1. Cardinality(DOMAIN server) \in Nat /\ DOMAIN server' = 1..Cardinality(DOMAIN server)
      BY <1>5, RenumberedMeans
    <2>2. \A u \in DOMAIN server' : \E v \in DOMAIN server : server'[u] = server[v] /\ u <= v
      BY <1>5, RenumberedMeans, RenumberedLowers
    <2>3. arrived' = arrived
      BY <1>5 DEF NewEpoch
    <2>4. QED
      BY <1>1, <1>2, <2>1, <2>2, <2>3 DEF OldBelow
  <1>6. QED
    BY <1>3, <1>4, <1>5

\* The newest page holds the newest message.
LEMMA PageHoldsNewest ==
  ASSUME TypeOK, lastUid = 0, status.count # 0 \/ DOMAIN server = {}
  PROVE  \A u \in DOMAIN server : u <= MaxOf(Fresh)
  <1>1. DOMAIN server \subseteq 1..MaxMsg /\ DOMAIN server \subseteq 0..MaxMsg /\ MaxMsg \in Nat
    BY Constants DEF TypeOK, PartialMap, Uid
  <1> SUFFICES ASSUME NEW u \in DOMAIN server PROVE u <= MaxOf(Fresh)
    OBVIOUS
  <1>2. /\ Max(DOMAIN server) \in DOMAIN server
        /\ \A v \in DOMAIN server : v <= Max(DOMAIN server)
    BY <1>1, Greatest
  <1>3. Max(DOMAIN server) \in Fresh /\ Fresh \subseteq 1..MaxMsg
    BY <1>1, <1>2 DEF Fresh, FromSequence
  <1>4. MaxOf(Fresh) \in 0..MaxMsg /\ \A v \in Fresh : v <= MaxOf(Fresh)
    <2>1. MaxMsg \in Nat /\ Fresh \subseteq 1..MaxMsg
      BY <1>1, <1>3
    <2> HIDE DEF Fresh
    <2>2. QED
      BY <2>1, MaxOfType
  <1>5. QED
    BY <1>1, <1>2, <1>3, <1>4

\* STATUS counts nothing only in an empty mailbox.
LEMMA CountsNone ==
  ASSUME TypeOK, Cardinality(DOMAIN server) = 0
  PROVE  DOMAIN server = {}
  <1>1. DOMAIN server \subseteq 1..MaxMsg /\ MaxMsg \in Nat
    BY Constants DEF TypeOK, PartialMap, Uid
  <1>2. QED
    BY <1>1, Counted, FS_EmptySet

OldIInv == IInv /\ OldInv /\ OldMailIsSilent

LEMMA OldInit == Init => OldInv /\ OldMailIsSilent
  BY EmptyMap DEF Init, OldInv, Unmarked, OldMailIsSilent

\* Every step of the pass, of the mailbox and of the user keeps old mail silent.
LEMMA OldStep == OldIInv /\ [Next]_vars => (OldInv /\ OldMailIsSilent)'
  <1> SUFFICES ASSUME OldIInv, [Next]_vars PROVE (OldInv /\ OldMailIsSilent)'
    OBVIOUS
  <1>1. /\ TypeOK /\ ServerInv /\ EpochInv /\ PlaceInv /\ MarkInv /\ OldInv /\ OldMailIsSilent
    BY DEF OldIInv, IInv
  <1>2. /\ arrived \in Nat /\ before \in Nat /\ lastSeen \in Nat /\ valid \in Nat
        /\ notified \subseteq Nat /\ epoch \in Nat /\ status.validity \in Nat
        /\ status.count \in Nat /\ seenMark \in Nat /\ MaxOf(DOMAIN batch) \in Nat
        /\ DOMAIN server \subseteq Nat /\ \A u \in DOMAIN server : server[u] \in Nat
        /\ DOMAIN batch \subseteq Nat /\ \A u \in DOMAIN batch : batch[u] \in Nat
        /\ news \subseteq DOMAIN batch
    <2>1. DOMAIN batch \subseteq 1..MaxMsg /\ MaxMsg \in Nat
      BY <1>1, Constants DEF TypeOK, PartialMap, Uid
    <2>2. MaxOf(DOMAIN batch) \in Nat
      BY <2>1, MaxOfType
    <2>3. QED
      BY <1>1, <2>2, Constants, PartialMapMeans DEF TypeOK, Uid, Msg, Epoch
  <1>3. CASE Arrive \/ Expunge \/ NewEpoch
    <2>1. /\ before' = before /\ before' <= arrived'
          /\ \A u \in Nat : OldBelow(u) => OldBelow(u)'
          /\ (\A u \in DOMAIN server : server[u] > before)
               => \A u \in DOMAIN server' : server'[u] > before
      BY <1>1, <1>3, MailboxKeeps DEF OldInv
    <2>2. UNCHANGED <<storeVars, pc, firstRun, passVars, history>>
      BY <1>3 DEF Arrive, Expunge, NewEpoch
    <2>3. OldBelow(lastSeen) => OldBelow(lastSeen)'
      BY <1>2, <2>1, <2>2 DEF OldBelow
    <2>4. Unmarked => Unmarked'
      BY <1>2, <2>1, <2>2 DEF OldBelow, Unmarked
    <2>5. OldInv'
      BY <1>1, <2>1, <2>2, <2>3, <2>4 DEF OldInv
    <2>6. QED
      BY <1>1, <2>2, <2>5 DEF OldMailIsSilent
  <1>4. CASE RemoveMessage
    <2>1. DOMAIN rows = {} => DOMAIN rows' = {}
      BY <1>4, RemoveMeans
    <2>2. QED
      BY <1>1, <1>4, <2>1 DEF RemoveMessage, OldInv, OldBelow, Unmarked, OldMailIsSilent
  <1>5. CASE Sweep \/ Resync \/ EndCycle
    BY <1>1, <1>5 DEF Sweep, Resync, EndCycle, OldInv, OldBelow, Unmarked, OldMailIsSilent
  <1>6. CASE Status
    <2>1. /\ valid # 0 => before' = before
          /\ valid = 0 => before' = arrived
          /\ pc = "status" /\ pc' = "upsertFolder" /\ status'.count = Cardinality(DOMAIN server)
          /\ status'.validity = epoch
          /\ UNCHANGED <<serverVars, storeVars, firstRun, initial, lastUid, batch, stored, news,
                         notified, torn>>
      BY <1>6 DEF Status
    <2>2. Unmarked => Unmarked'
      BY <2>1 DEF Unmarked, OldBelow
    <2>3. valid = 0 => Unmarked
      BY <1>1, <2>1 DEF OldInv, Unmarked
    <2>4. QED
      BY <1>1, <1>2, <2>1, <2>2, <2>3, CountsNone DEF EpochInv, OldInv, OldBelow, OldMailIsSilent
  <1>7. CASE UpsertFolder
    <2>1. DOMAIN rows' = DOMAIN rows \/ DOMAIN rows' = {}
      BY <1>7, EmptyMap DEF UpsertFolder, RowsAfterWipe
    <2>2. /\ pc = "upsertFolder" /\ pc' \in {"resetFolder", "select"} /\ valid' >= valid
          /\ valid' # valid => valid = 0
          /\ pc' = "resetFolder" => valid' = valid /\ valid # 0 /\ valid # status.validity
          /\ pc' = "select" => valid' # 0
          /\ UNCHANGED <<serverVars, lastSeen, firstRun, passVars, history>>
      BY <1>1, <1>2, <1>7 DEF UpsertFolder, Stale, EpochInv
    <2>3. Unmarked => Unmarked'
      BY <2>1, <2>2 DEF Unmarked, OldBelow
    <2>4. QED
      BY <1>1, <1>2, <2>1, <2>2, <2>3 DEF OldInv, OldBelow, OldMailIsSilent
  <1>8. CASE ResetFolder
    <2>1. valid' > 1
      BY <1>1, <1>2, <1>8 DEF ResetFolder, EpochInv, OldInv
    <2>2. QED
      BY <1>1, <1>2, <1>8, <2>1 DEF ResetFolder, OldInv, OldMailIsSilent
  <1>9. CASE Select
    <2>1. DOMAIN rows = {} => lastUid' = 0
      BY <1>9 DEF Select, MaxOf
    <2>2. QED
      BY <1>1, <1>9, <2>1 DEF Select, EpochInv, OldInv, OldBelow, Unmarked, OldMailIsSilent
  <1>10. CASE Fetch
    <2>1. /\ DOMAIN batch' = Fresh /\ Fresh \subseteq DOMAIN server
          /\ \A u \in Fresh : batch'[u] = server[u]
      BY <1>10, FetchMeans
    <2>2. /\ pc = "fetch" /\ pc' = IF Fresh = {} THEN "between" ELSE "store"
          /\ UNCHANGED <<serverVars, storeVars, firstRun, stored, history>>
          /\ \A u \in news' : u \in Fresh /\ ~initial /\ u > seenMark
      BY <1>10 DEF Fetch, AboveMark, MayNotify
    <2>3. seenMark = lastSeen /\ valid # 0 /\ stored = {}
      BY <1>1, <2>2 DEF MarkInv, EpochInv, PlaceInv
    <2>4. ASSUME OldBelow(lastSeen)
          PROVE  OldBelow(lastSeen)' /\ \A u \in news' : batch'[u] > before
      BY <1>2, <2>1, <2>2, <2>3, <2>4 DEF OldBelow
    <2>5. ASSUME Unmarked, Fresh # {}
          PROVE  Unmarked'
      <3>1. \A u \in DOMAIN server : u <= MaxOf(Fresh)
        BY <1>1, <2>2, <2>5, PageHoldsNewest DEF Unmarked, Fresh
      <3>2. OldBelow(MaxOf(DOMAIN batch))'
        BY <2>1, <2>2, <3>1 DEF OldBelow
      <3>3. QED
        BY <2>1, <2>2, <2>3, <2>5, <3>2 DEF Unmarked
    <2>6. ASSUME Unmarked, Fresh = {}
          PROVE  OldBelow(lastSeen)'
      <3>1. status.count = 0 \/ DOMAIN server = {}
        <4> SUFFICES ASSUME status.count # 0, NEW u \in DOMAIN server PROVE FALSE
          OBVIOUS
        <4>1. u <= MaxOf(Fresh)
          BY <1>1, <2>2, <2>6, PageHoldsNewest DEF Unmarked
        <4>2. u \in 1..MaxMsg /\ MaxMsg \in Nat
          BY <1>1, Constants DEF TypeOK, PartialMap, Uid
        <4>3. QED
          BY <2>6, <4>1, <4>2 DEF MaxOf
      <3>2. QED
        BY <1>1, <1>2, <2>2, <3>1 DEF OldInv, OldBelow
    <2>7. ASSUME Unmarked PROVE news' = {}
      BY <2>2, <2>7 DEF Unmarked
    <2>8. QED
      BY <1>1, <2>2, <2>3, <2>4, <2>5, <2>6, <2>7 DEF OldInv, OldMailIsSilent
  <1>11. CASE StoreOne
    <2>1. /\ pc = "store" /\ pc' \in {"store", "mark"} /\ stored' # {}
          /\ UNCHANGED <<serverVars, valid, lastSeen, firstRun, initial, batch, news, status,
                         history>>
      BY <1>11 DEF StoreOne
    <2>2. Unmarked => Unmarked'
      BY <2>1 DEF Unmarked, OldBelow
    <2>3. QED
      BY <1>1, <2>1, <2>2 DEF EpochInv, OldInv, OldBelow, OldMailIsSilent
  <1>12. CASE Mark
    <2>1. /\ pc = "mark" /\ pc' = "notify"
          /\ lastSeen' = IF lastSeen < MaxOf(DOMAIN batch) THEN MaxOf(DOMAIN batch)
                                                           ELSE lastSeen
          /\ UNCHANGED <<serverVars, rows, valid, firstRun, passVars, history>>
      BY <1>12 DEF Mark, MarkRaised
    <2>2. OldBelow(lastSeen) \/ Unmarked => OldBelow(lastSeen)'
      BY <1>2, <2>1 DEF OldBelow, Unmarked
    <2>3. QED
      BY <1>1, <2>1, <2>2 DEF EpochInv, OldInv, OldMailIsSilent
  <1>13. CASE Notify
    <2>1. /\ pc = "notify" /\ pc' = "between"
          /\ notified' = notified \union {batch[u] : u \in news}
          /\ UNCHANGED <<serverVars, storeVars, firstRun, before, torn>>
      BY <1>13 DEF Notify
    <2>2. torn \/ valid > 1 \/ (OldBelow(lastSeen) /\ \A u \in news : batch[u] > before)
      BY <1>1, <2>1 DEF OldInv, Unmarked
    <2>3. QED
      BY <1>1, <2>1, <2>2 DEF EpochInv, OldInv, OldBelow, OldMailIsSilent
  <1>14. CASE Fail \/ Crash
    <2>1. /\ pc' = "out" /\ (firstRun' = firstRun \/ firstRun') /\ firstRun \in BOOLEAN
          /\ firstRun => firstRun'
          /\ ~torn' => ~torn /\ pc # "mark" /\ ~(pc = "store" /\ stored # {})
          /\ torn => torn'
          /\ UNCHANGED <<serverVars, storeVars, notified, before>>
      BY <1>1, <1>14 DEF Fail, Crash, Abort, TypeOK
    <2>2. (~torn' \/ pc \notin {"store", "mark"}) /\ Unmarked => Unmarked'
      BY <2>1 DEF Unmarked
    <2>3. QED
      BY <1>1, <2>1, <2>2 DEF EpochInv, OldInv, OldBelow, OldMailIsSilent
  <1>15. CASE UNCHANGED vars
    BY <1>1, <1>15 DEF OldInv, OldBelow, Unmarked, OldMailIsSilent
  <1>16. QED
    BY <1>3, <1>4, <1>5, <1>6, <1>7, <1>8, <1>9, <1>10, <1>11, <1>12, <1>13, <1>14, <1>15
       DEF Next, SyncStep

-----------------------------------------------------------------------------
(* The refinement of CachedFolder *)

\* What a pass reads and writes lies above all rows, also when the mailbox was rebuilt
\* meanwhile; after the last envelope all are written.
TopInv ==
  /\ pc = "fetch" => \A u \in DOMAIN rows : u <= lastUid
  /\ pc = "store" => \A u \in DOMAIN batch \ stored, v \in DOMAIN rows : v < u
  /\ pc \in {"mark", "notify"} => stored = DOMAIN batch

TopIInv == OldIInv /\ TopInv

LEMMA TopInit == Init => TopInv
  BY DEF Init, TopInv

LEMMA TopStep == IInv /\ TopInv /\ [Next]_vars => TopInv'
  <1> SUFFICES ASSUME IInv, TopInv, [Next]_vars PROVE TopInv'
    OBVIOUS
  <1>1. /\ TypeOK /\ PlaceInv
        /\ DOMAIN rows \subseteq 1..MaxMsg /\ DOMAIN server \subseteq 1..MaxMsg
        /\ DOMAIN batch \subseteq 1..MaxMsg /\ MaxMsg \in Nat /\ lastUid \in Nat
    BY Constants DEF IInv, TypeOK, PartialMap, Uid
  <1>2. CASE Arrive \/ Expunge \/ NewEpoch
    BY <1>2 DEF Arrive, Expunge, NewEpoch, TopInv
  <1>3. CASE RemoveMessage
    BY <1>3, RemoveMeans DEF RemoveMessage, TopInv
  <1>4. CASE Sweep \/ Resync \/ EndCycle \/ Status \/ UpsertFolder \/ ResetFolder
    BY <1>4 DEF Sweep, Resync, EndCycle, Status, UpsertFolder, ResetFolder, TopInv
  <1>5. CASE Select
    <2>1. \A u \in DOMAIN rows : u <= MaxOf(DOMAIN rows)
      BY <1>1, MaxOfType
    <2>2. QED
      BY <1>5, <2>1 DEF Select, TopInv
  <1>6. CASE Fetch
    <2>1. DOMAIN batch' = Fresh /\ Fresh \subseteq DOMAIN server
      BY <1>6, FetchMeans
    <2>2. \A u \in Fresh, v \in DOMAIN rows : v < u
      <3>1. \A v \in DOMAIN rows : v <= lastUid /\ v \in 1..MaxMsg
        BY <1>1, <1>6 DEF Fetch, TopInv
      <3>2. CASE lastUid = 0
        BY <1>1, <3>1, <3>2
      <3>3. CASE lastUid # 0
        BY <1>1, <3>1, <3>3 DEF Fresh
      <3>4. QED
        BY <3>2, <3>3
    <2>3. QED
      BY <1>6, <2>1, <2>2 DEF Fetch, TopInv
  <1>7. CASE StoreOne
    <2>1. /\ NextEnvelope \in DOMAIN batch \ stored
          /\ \A u \in DOMAIN batch \ stored : NextEnvelope <= u
          /\ DOMAIN rows' = DOMAIN rows \union {NextEnvelope}
      BY <1>1, <1>7, StoreMeans
    <2>2. \A u \in DOMAIN batch \ stored, v \in DOMAIN rows : v < u
      BY <1>7 DEF StoreOne, TopInv
    <2>3. /\ stored' = stored \union {NextEnvelope} /\ batch' = batch
          /\ pc' = IF stored' = DOMAIN batch THEN "mark" ELSE "store"
      BY <1>7 DEF StoreOne
    <2>4. \A u \in DOMAIN batch \ stored' : NextEnvelope < u
      BY <1>1, <2>1, <2>3
    <2>5. QED
      BY <2>1, <2>2, <2>3, <2>4 DEF TopInv
  <1>8. CASE Mark
    BY <1>8 DEF Mark, TopInv
  <1>9. CASE Notify \/ Fail \/ Crash
    BY <1>9 DEF Notify, Fail, Crash, Abort, TopInv
  <1>10. CASE UNCHANGED vars
    BY <1>10 DEF TopInv
  <1>11. QED
    BY <1>2, <1>3, <1>4, <1>5, <1>6, <1>7, <1>8, <1>9, <1>10 DEF Next, SyncStep

\* The messages stored and to be notified.
Waiting == {batch[u] : u \in news \intersect stored}

\* Outside the places where envelopes are written none waits.
LEMMA NoneWaits ==
  ASSUME stored = {}
  PROVE  Waiting = {}
  BY DEF Waiting

\* The mailbox's own steps.
LEMMA MailboxRefines ==
  ASSUME IInv, Arrive \/ Expunge \/ NewEpoch
  PROVE  Cache!Next
  <1>1. /\ TypeOK /\ ServerInv
        /\ uidNext \in Nat /\ epoch \in Nat /\ DOMAIN server \subseteq Nat
    BY Constants DEF IInv, TypeOK, PartialMap, Uid, Epoch
  <1>2. UNCHANGED <<rows, valid, Waiting, notified>>
    BY DEF Arrive, Expunge, NewEpoch, Waiting
  <1>3. \A u \in DOMAIN server : u < uidNext
    BY <1>1 DEF ServerInv
  <1>4. CASE Arrive
    <2>1. uidNext' = uidNext + 1 /\ epoch' = epoch
      BY <1>4 DEF Arrive
    <2>2. Cache!Agree(server, server')
      BY <1>1, <1>3, <1>4, ArriveMeans DEF Cache!Agree
    <2>3. \A u \in DOMAIN server' \ DOMAIN server : u = uidNext
      BY <1>4, ArriveMeans
    <2>4. /\ uidNext - 1 <= uidNext' - 1
          /\ \A u \in DOMAIN server' \ DOMAIN server : uidNext - 1 < u /\ u <= uidNext' - 1
      BY <1>1, <2>1, <2>3
    <2>5. Cache!Change
      BY <1>2, <2>1, <2>2, <2>4 DEF Cache!Change, Waiting
    <2>6. QED
      BY <2>5 DEF Cache!Next
  <1>5. CASE Expunge
    <2>1. uidNext' = uidNext /\ epoch' = epoch
      BY <1>5 DEF Expunge
    <2>2. Cache!Agree(server, server') /\ DOMAIN server' \ DOMAIN server = {}
      BY <1>5, ExpungeMeans DEF Cache!Agree
    <2>3. Cache!Change
      BY <1>1, <1>2, <2>1, <2>2 DEF Cache!Change, Waiting
    <2>4. QED
      BY <2>3 DEF Cache!Next
  <1>6. CASE NewEpoch
    <2>1. epoch' = epoch + 1 /\ uidNext' = Cardinality(DOMAIN server) + 1
      BY <1>6 DEF NewEpoch
    <2>2. /\ Cardinality(DOMAIN server) \in 0..(uidNext - 1)
          /\ DOMAIN server' = 1..Cardinality(DOMAIN server)
      BY <1>1, <1>6, RenumberedMeans
    <2>3. \A u \in DOMAIN server' : u <= uidNext' - 1
      BY <1>1, <2>1, <2>2
    <2>4. epoch < epoch'
      BY <1>1, <2>1
    <2>5. Cache!Rebuild
      BY <1>2, <2>3, <2>4 DEF Cache!Rebuild, Waiting
    <2>6. QED
      BY <2>5 DEF Cache!Next
  <1>7. QED
    BY <1>4, <1>5, <1>6

\* A user's command removes the row of a message that is gone.
LEMMA RemoveRefines ==
  ASSUME IInv, RemoveMessage
  PROVE  Cache!Remove
  <1>1. PICK x \in DOMAIN rows :
          /\ ServerDone(x)
          /\ DOMAIN rows' = DOMAIN rows \ {x}
          /\ \A u \in DOMAIN rows' : rows'[u] = rows[u]
    BY RemoveMeans
  <1>2. UNCHANGED <<server, uidNext, epoch, valid, Waiting, notified>>
    BY DEF RemoveMessage, Waiting
  <1>3. valid = epoch => x \notin DOMAIN server
    <2> SUFFICES ASSUME valid = epoch, x \in DOMAIN server PROVE FALSE
      OBVIOUS
    <2>1. rows[x] = server[x]
      BY <1>1 DEF IInv, RowsMatchServer
    <2>2. server[x] \in Range(server)
      BY DEF Range
    <2>3. QED
      BY <1>1, <2>1, <2>2 DEF ServerDone
  <1>4. QED
    BY <1>1, <1>2, <1>3 DEF Cache!Remove, Cache!Agree, Cache!Current, Cache!mailbox, Waiting

\* An envelope is written above all rows, and leaves nothing out below it.
LEMMA StoreRefines ==
  ASSUME IInv, TopInv, StoreOne
  PROVE  Cache!Store
  <1> DEFINE x == NextEnvelope
  <1>1. /\ TypeOK /\ PlaceInv
        /\ DOMAIN rows \subseteq Nat /\ DOMAIN server \subseteq Nat
        /\ DOMAIN batch \subseteq Nat /\ uidNext \in Nat
    BY Constants DEF IInv, TypeOK, PartialMap, Uid
  <1>2. /\ x \in DOMAIN batch \ stored
        /\ \A u \in DOMAIN batch \ stored : x <= u
        /\ DOMAIN rows' = DOMAIN rows \union {x}
        /\ \A u \in DOMAIN rows' : rows'[u] = IF u = x THEN batch[x] ELSE rows[u]
    BY <1>1, StoreMeans
  <1>3. /\ pc = "store" /\ stored' = stored \union {x}
        /\ UNCHANGED <<server, uidNext, epoch, valid, batch, news, notified>>
    BY DEF StoreOne
  <1> HIDE DEF x
  <1>4. \A v \in DOMAIN rows : v < x
    BY <1>2, <1>3 DEF TopInv
  <1>5. DOMAIN rows' \ DOMAIN rows = {x}
    BY <1>1, <1>2, <1>4
  <1>6. valid # 0
    BY <1>3 DEF IInv, EpochInv
  <1>7. DOMAIN rows \subseteq DOMAIN rows' /\ Cache!Agree(rows, rows')
    BY <1>1, <1>2, <1>4 DEF Cache!Agree
  <1>8. Waiting' \subseteq Waiting \union {rows'[u] : u \in {x}}
    BY <1>2, <1>3 DEF Waiting
  <1>9. ASSUME valid = epoch
        PROVE  /\ x <= uidNext - 1 /\ (x \in DOMAIN server => rows'[x] = server[x])
               /\ Cache!SkipsNothing(rows', {x})
    <2>1. /\ \A u \in DOMAIN batch : u < uidNext
          /\ \A u \in DOMAIN batch \intersect DOMAIN server : batch[u] = server[u]
          /\ \A u \in stored \intersect DOMAIN server : u \in DOMAIN rows
          /\ NoGap(DOMAIN rows \union DOMAIN batch)
      BY <1>3, <1>9 DEF IInv, BatchInv
    <2>2. x <= uidNext - 1 /\ (x \in DOMAIN server => rows'[x] = server[x])
      BY <1>1, <1>2, <2>1
    <2>3. ASSUME NEW u \in DOMAIN server \ DOMAIN rows', u < x, NEW v \in DOMAIN rows'
          PROVE  u < v
      <3>1. u \notin DOMAIN rows \union DOMAIN batch
        BY <1>1, <1>2, <2>1, <2>3
      <3>2. ~(v < u)
        BY <1>2, <2>1, <2>3, <3>1 DEF NoGap
      <3>3. u # v /\ u \in Nat /\ v \in Nat
        BY <1>1, <1>2, <2>3
      <3>4. QED
        BY <3>2, <3>3
    <2>4. Cache!SkipsNothing(rows', {x})
      BY <2>3 DEF Cache!SkipsNothing
    <2>5. QED
      BY <2>2, <2>4
  <1>10. QED
    BY <1>3, <1>5, <1>6, <1>7, <1>8, <1>9, <1>4
       DEF Cache!Store, Cache!Current, Cache!mailbox, Waiting

\* The steps by which a pass brings the folder's UIDVALIDITY up to date.
LEMMA FolderRefines ==
  ASSUME TopIInv, UpsertFolder \/ ResetFolder
  PROVE  [Cache!Next]_(Cache!vars)
  <1>1. /\ TypeOK /\ PlaceInv /\ EpochInv /\ OldInv
        /\ valid \in Nat /\ epoch \in Nat /\ status.validity \in Nat
    BY Constants DEF TopIInv, OldIInv, IInv, TypeOK, Epoch
  <1>2. UNCHANGED <<server, uidNext, epoch, Waiting>>
    BY DEF UpsertFolder, ResetFolder, Waiting
  <1>3. CASE UpsertFolder /\ Stale
    <2>1. valid < epoch
      BY <1>1, <1>3 DEF UpsertFolder, Stale, OldInv, EpochInv
    <2>2. DOMAIN rows' = {} /\ UNCHANGED <<valid, notified>>
      BY <1>3, EmptyMap DEF UpsertFolder, RowsAfterWipe
    <2>3. Cache!Wipe
      BY <1>2, <2>1, <2>2 DEF Cache!Wipe, Cache!mailbox, Waiting
    <2>4. QED
      BY <2>3 DEF Cache!Next
  <1>4. CASE UpsertFolder /\ ~Stale /\ valid = 0
    <2>1. /\ DOMAIN rows = {} /\ notified = {} /\ 0 < status.validity
          /\ status.validity <= epoch
      BY <1>1, <1>4 DEF UpsertFolder, OldInv, EpochInv
    <2>2. valid' = status.validity /\ UNCHANGED <<rows, notified>>
      BY <1>4 DEF UpsertFolder
    <2>3. Cache!Adopt
      BY <1>2, <1>4, <2>1, <2>2 DEF Cache!Adopt, Cache!mailbox, Waiting
    <2>4. QED
      BY <2>3 DEF Cache!Next
  <1>5. CASE UpsertFolder /\ ~Stale /\ valid # 0
    BY <1>2, <1>5 DEF UpsertFolder, Cache!vars, Cache!mailbox, Waiting
  <1>6. CASE ResetFolder
    <2>1. DOMAIN rows = {} /\ valid < status.validity /\ status.validity <= epoch
      BY <1>1, <1>6 DEF ResetFolder, OldInv, EpochInv
    <2>2. valid' = status.validity /\ notified' = {} /\ UNCHANGED rows
      BY <1>6 DEF ResetFolder
    <2>3. Cache!Adopt
      BY <1>2, <2>1, <2>2 DEF Cache!Adopt, Cache!mailbox, Waiting
    <2>4. QED
      BY <2>3 DEF Cache!Next
  <1>7. QED
    BY <1>3, <1>4, <1>5, <1>6

\* What was stored is notified, or the pass ends before it is.
LEMMA EndRefines ==
  ASSUME TopIInv, Notify \/ Fail \/ Crash
  PROVE  Cache!Next
  <1>1. TypeOK /\ MarkInv
    BY DEF TopIInv, OldIInv, IInv
  <1>2. UNCHANGED <<server, uidNext, epoch, rows, valid>> /\ Waiting' = {}
    BY DEF Notify, Fail, Crash, Abort, Idle, Waiting
  <1>3. CASE Notify
    <2>1. Waiting = {batch[u] : u \in news}
      BY <1>1, <1>3 DEF Notify, TopIInv, TopInv, TypeOK, Waiting
    <2>2. notified' = notified \union Waiting
      BY <1>3, <2>1 DEF Notify
    <2>3. Waiting \intersect notified = {}
      BY <1>1, <1>3, <2>1 DEF Notify, MarkInv
    <2>4. Cache!Notify
      BY <1>2, <2>2, <2>3 DEF Cache!Notify, Cache!mailbox, Waiting
    <2>5. QED
      BY <2>4 DEF Cache!Next
  <1>4. CASE Fail \/ Crash
    <2>1. notified' = notified
      BY <1>4 DEF Fail, Crash
    <2>2. Cache!Forget
      BY <1>2, <2>1 DEF Cache!Forget, Cache!mailbox, Waiting
    <2>3. QED
      BY <2>2 DEF Cache!Next
  <1>5. QED
    BY <1>3, <1>4

\* At first nothing is cached.
LEMMA CacheInit == Init => Cache!Init
  BY EmptyMap DEF Init, Cache!Init

\* Each step is one of the cached folder, or none.
LEMMA StepRefines == TopIInv /\ [Next]_vars => [Cache!Next]_(Cache!vars)
  <1> SUFFICES ASSUME TopIInv, [Next]_vars PROVE [Cache!Next]_(Cache!vars)
    OBVIOUS
  <1>1. IInv /\ TopInv /\ TypeOK /\ PlaceInv
    BY DEF TopIInv, OldIInv, IInv
  <1>2. CASE Arrive \/ Expunge \/ NewEpoch
    BY <1>1, <1>2, MailboxRefines
  <1>3. CASE RemoveMessage
    BY <1>1, <1>3, RemoveRefines DEF Cache!Next
  <1>4. CASE UpsertFolder \/ ResetFolder
    BY <1>4, FolderRefines
  <1>5. CASE Fetch
    <2>1. stored = {} /\ stored' = {}
      BY <1>1, <1>5 DEF Fetch, PlaceInv
    <2>2. Waiting' = Waiting
      BY <2>1 DEF Waiting
    <2>3. UNCHANGED <<server, uidNext, epoch, rows, valid, notified>>
      BY <1>5 DEF Fetch
    <2>4. QED
      BY <2>2, <2>3 DEF Cache!vars, Cache!mailbox, Waiting
  <1>6. CASE StoreOne
    BY <1>1, <1>6, StoreRefines DEF Cache!Next
  <1>7. CASE Notify \/ Fail \/ Crash
    BY <1>7, EndRefines
  <1>8. CASE Sweep \/ Resync \/ EndCycle \/ Status \/ Select \/ Mark \/ UNCHANGED vars
    <2>1. UNCHANGED <<server, uidNext, epoch, rows, valid, notified, batch, stored, news>>
      BY <1>8 DEF Sweep, Resync, EndCycle, Status, Select, Mark
    <2>2. QED
      BY <2>1 DEF Cache!vars, Cache!mailbox
  <1>9. QED
    BY <1>2, <1>3, <1>4, <1>5, <1>6, <1>7, <1>8 DEF Next, SyncStep

-----------------------------------------------------------------------------
(* The theorems *)

\* What syncFolderUIDs has read of the mailbox and the rows stays related to
\* them, whatever arrives, goes, fails or restarts between its calls.
THEOREM InductiveInvariance == Spec => []IInv
  <1>1. Init => IInv
    BY InductiveInit
  <1>2. IInv /\ [Next]_vars => IInv'
    BY InductiveStep
  <1>3. QED
    BY <1>1, <1>2, PTL DEF Spec

\* The server, the store and every local of the pass keep their types.
THEOREM TypeInvariance == Spec => []TypeOK
  <1>1. IInv => TypeOK
    BY DEF IInv
  <1>2. QED
    BY <1>1, InductiveInvariance, PTL

\* Under one UIDVALIDITY epoch a cached row is the message its UID names, though
\* STATUS, SELECT and FETCH are separate calls and a wipe two statements.
THEOREM RowsAreTheServers == Spec => []RowsMatchServer
  <1>1. IInv => RowsMatchServer
    BY DEF IInv
  <1>2. QED
    BY <1>1, InductiveInvariance, PTL

\* No re-sync leaves a message out between two cached rows, where no later
\* fetch would look, though batches are written in part and users remove rows.
THEOREM Gapless == Spec => []NoGapBetweenRows
  <1>1. IInv => NoGapBetweenRows
    BY DEF IInv
  <1>2. QED
    BY <1>1, InductiveInvariance, PTL

\* A re-sync that was under way when the user removed a message does not write
\* its row again.
THEOREM NoReturn == Spec => RemovedStaysRemoved
  <1>1. IInv /\ [Next]_vars =>
          [valid = epoch => \A u \in DOMAIN rows' \ DOMAIN rows : u \notin removed]_vars
    <2> SUFFICES ASSUME IInv, Next, valid = epoch, NEW u \in DOMAIN rows', u \notin DOMAIN rows
                 PROVE  u \notin removed
      OBVIOUS
    <2>1. CASE StoreOne
      <3>1. TypeOK /\ PlaceInv /\ BatchInv
        BY DEF IInv
      <3>2. u \in DOMAIN batch \ stored
        BY <2>1, <3>1, StoreMeans
      <3>3. QED
        BY <2>1, <3>1, <3>2 DEF StoreOne, BatchInv
    <2>2. CASE RemoveMessage
      BY <2>2, RemoveMeans
    <2>3. CASE UpsertFolder
      BY <2>3, EmptyMap DEF UpsertFolder, RowsAfterWipe
    <2>4. CASE UNCHANGED rows
      BY <2>4
    <2>5. QED
      BY <2>1, <2>2, <2>3, <2>4 DEF Next, SyncStep, Arrive, Expunge, NewEpoch, Sweep, Resync,
         EndCycle, Status, ResetFolder, Select, Fetch, Mark, Notify, Fail, Crash
  <1>2. QED
    BY <1>1, InductiveInvariance, PTL DEF Spec, RemovedStaysRemoved

\* Within an epoch a message is notified once, through failed passes, restarts
\* and caches that user commands have emptied.
THEOREM NotifiedOnce == Spec => NotifiedAtMostOnce
  <1>1. IInv /\ [Next]_vars =>
          [pc = "notify" => \A u \in news : batch[u] \notin notified]_vars
    BY DEF IInv, MarkInv
  <1>2. QED
    BY <1>1, InductiveInvariance, PTL DEF Spec, NotifiedAtMostOnce

\* Mail the account's first sync found is never notified, through emptied caches and
\* pages of older mail, unless the mailbox was rebuilt or a pass was torn before its mark.
THEOREM OldMailStaysSilent == Spec => []OldMailIsSilent
  <1>1. Init => OldIInv
    BY InductiveInit, OldInit DEF OldIInv
  <1>2. OldIInv /\ [Next]_vars => OldIInv'
    BY InductiveStep, OldStep DEF OldIInv
  <1>3. OldIInv => OldMailIsSilent
    BY DEF OldIInv
  <1>4. QED
    BY <1>1, <1>2, <1>3, PTL DEF Spec

\* The sync goroutine, the user's commands and the mailbox together are a cached
\* folder: every commit, call, failure and restart is a step of it or none.
THEOREM Refinement == Spec => ImplementsCache
  <1>1. Init => Cache!Init
    BY CacheInit
  <1>2. Init => TopIInv
    BY InductiveInit, OldInit, TopInit DEF TopIInv, OldIInv
  <1>3. TopIInv /\ [Next]_vars => TopIInv'
    BY InductiveStep, OldStep, TopStep DEF TopIInv, OldIInv
  <1>4. TopIInv /\ [Next]_vars => [Cache!Next]_(Cache!vars)
    BY StepRefines
  <1>5. QED
    BY <1>1, <1>2, <1>3, <1>4, PTL DEF Spec, ImplementsCache, Cache!Spec

=============================================================================
