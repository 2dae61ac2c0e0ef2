------------------------- MODULE MessageActionsProofs -------------------------
(***************************************************************************)
(* Proofs about MessageActions, for any number of callers, messages,       *)
(* commands, failures and changes by other clients: types,                 *)
(* BodyIsTheRowsOwn, ActsOnTheChosen, RowOutlivesMessage, SeenAgrees, and  *)
(* that each folder implements CachedFolder.                               *)
(*                                                                         *)
(* The argument has two halves.  An assigned UID never comes to mean       *)
(* another message, nor comes back (UidsKept); and a row never changes its *)
(* place or its message (RowsKept), while an id that gets a new row under  *)
(* a command is in `reused'.                                               *)
(***************************************************************************)
EXTENDS MessageActions, FiniteSetTheorems, FunctionTheorems, WellFoundedInduction, TLAPS

USE DEF vars, account, serverVars, storeVars, syncVars, commandVars, history

-----------------------------------------------------------------------------
(* The inductive invariant *)

RowType == [folder : Folder, uid : Nat \ {0}, msg : Msg, seen : BOOLEAN,
            body : Msg \union {NoMsg}, parts : Msg \union {NoMsg}]
Place   == [folder : Folder, uid : Nat \ {0}]

ServerTypes ==
  /\ gmail \in BOOLEAN /\ caps \subseteq {"MOVE", "UIDPLUS"}
  /\ header \in [Msg -> Msg \union {NoMsg}] /\ arrived \in 0..MaxMsg
  /\ serverSeen \subseteq Folder \X Nat /\ deleted \subseteq Folder \X Nat
  /\ DOMAIN box = Folder /\ uidNext \in [Folder -> Nat \ {0}]
  /\ \A f \in Folder : \A u \in DOMAIN box[f] : u \in 1..(uidNext[f] - 1) /\ box[f][u] \in Msg

StoreTypes ==
  /\ total \in [Folder -> Nat] /\ unread \in [Folder -> Nat]
  /\ \E n \in Nat : DOMAIN rows \subseteq 1..n
  /\ \A i \in DOMAIN rows : rows[i] \in RowType

SyncTypes ==
  /\ syncAt \in {"between", "counts", "fetch", "store", "prefetch", "prefetchCache"}
  /\ syncFolder \in Folder /\ exists \in Nat /\ unseen \in Nat
  /\ \A u \in DOMAIN batch : batch[u] \in [msg : Msg, seen : BOOLEAN]
  /\ syncAt = "prefetchCache" => prefetch \in [id : Nat, msg : Msg]

\* A command that is past its lookups knows the row's folder and UID, and moves
\* to the other folder if it moves.
Located(c) ==
  /\ loc[c] \in Place /\ target[c] \in {"none", OtherFolder(loc[c].folder)}
  /\ target[c] # "none" => op[c] \in {"move", "delete"}

CommandTypes ==
  /\ at \in [Caller -> {"out", "locate", "server", "remove", "seen", "siblings", "cache"}]
  /\ op \in [Caller -> Op \union {"none"}] /\ id \in [Caller -> Nat]
  /\ DOMAIN loc = Caller /\ target \in [Caller -> Folder \union {"none"}]
  /\ wasSeen \in [Caller -> BOOLEAN]
  /\ fetched \in [Caller -> Msg \union {NoMsg}] /\ chosen \in [Caller -> Msg \union {NoMsg}]
  /\ \A c \in Caller : at[c] \notin {"out", "locate"} => Located(c)

\* UID u of folder f was assigned, and is m's while it is there.
Names(f, u, m) == u < uidNext[f] /\ (u \in DOMAIN box[f] => box[f][u] = m)

RowInv == \A i \in DOMAIN rows : Names(rows[i].folder, rows[i].uid, rows[i].msg)

\* What the sync goroutine holds.
HeldInv ==
  /\ syncAt = "store" => \A u \in DOMAIN batch : u \in Nat \ {0} /\ Names(syncFolder, u, batch[u].msg)
  /\ syncAt = "prefetchCache" /\ prefetch.id \in DOMAIN rows =>
       rows[prefetch.id].msg = prefetch.msg

\* What a command holds is the message it was given, unless its id was given away.
Holds(c) ==
  at[c] # "out" /\ id[c] \notin reused =>
    /\ id[c] \in DOMAIN rows => rows[id[c]].msg = chosen[c]
    /\ at[c] # "locate" =>
         /\ Names(loc[c].folder, loc[c].uid, chosen[c])
         /\ id[c] \in DOMAIN rows =>
              rows[id[c]].folder = loc[c].folder /\ rows[id[c]].uid = loc[c].uid
    /\ at[c] = "remove" => ~OnServer(c)
    /\ at[c] = "cache" => fetched[c] = chosen[c]

Types == ServerTypes /\ StoreTypes /\ SyncTypes /\ CommandTypes
IInv  == Types /\ RowInv /\ HeldInv /\ (\A c \in Caller : Holds(c)) /\ BodyIsTheRowsOwn

-----------------------------------------------------------------------------
(* Sets of numbers *)

LEMMA Constants ==
  /\ MaxMsg \in Nat /\ MaxEvents \in Nat /\ NoMsg \notin Msg
  /\ Servers \subseteq SUBSET {"MOVE", "UIDPLUS"} /\ Headers \subseteq [Msg -> Msg \union {NoMsg}]
  BY MessageActionsAssumption

LEMMA Counted ==
  ASSUME NEW n \in Nat, NEW S, S \subseteq 1..n
  PROVE  IsFiniteSet(S) /\ Cardinality(S) \in 0..n
  <1>1. IsFiniteSet(1..n) /\ Cardinality(1..n) = n
    BY FS_Interval
  <1>2. IsFiniteSet(S) /\ Cardinality(S) <= n
    BY <1>1, FS_Subset
  <1>3. QED
    BY <1>2, FS_CardinalityType

\* A bounded set of numbers has a greatest one.
LEMMA HighestBounds ==
  ASSUME NEW n \in Nat, NEW S, S \subseteq 1..n
  PROVE  Highest(S) \in Nat /\ (\A x \in S : x <= Highest(S)) /\ (S # {} => Highest(S) \in S)
  <1>1. CASE S = {}
    BY <1>1 DEF Highest
  <1>2. CASE S # {}
    <2> DEFINE Above(x) == {y \in 1..n : y >= x}
               T == {t \in Nat : n - t \in S}
    <2>1. PICK s \in S : TRUE
      BY <1>2
    <2>2. n - s \in T
      <3>1. s \in 1..n
        BY <2>1
      <3>2. n - s \in Nat /\ n - (n - s) = s
        BY <3>1
      <3>3. QED
        BY <3>2
    <2>3. PICK t \in T : \A r \in T : ~(<<r, t>> \in OpToRel(<, Nat))
      BY <2>2, NatLessThanWellFounded, WFMin
    <2>4. \A x \in S : x <= n - t
      <3> SUFFICES ASSUME NEW x \in S, ~(x <= n - t) PROVE FALSE
        OBVIOUS
      <3>1. x \in 1..n /\ t \in Nat
        OBVIOUS
      <3>2. n - x \in Nat /\ n - (n - x) = x /\ n - x < t
        BY <3>1
      <3>3. n - x \in T
        BY <3>2
      <3>4. <<n - x, t>> \in {q \in Nat \X Nat : q[1] < q[2]}
        BY <3>1, <3>2
      <3>5. <<n - x, t>> \in OpToRel(<, Nat)
        BY <3>4, Zenon DEF OpToRel
      <3>6. QED
        BY <2>3, <3>3, <3>5
    <2>5. n - t \in S
      OBVIOUS
    <2>6. Max(S) \in S /\ \A x \in S : x <= Max(S)
      BY <2>4, <2>5 DEF Max
    <2>7. Highest(S) = Max(S)
      BY <1>2, Zenon DEF Highest
    <2>8. Max(S) \in Nat
      <3>1. \A x \in S : x \in Nat
        OBVIOUS
      <3>2. QED
        BY <2>6, <3>1, Zenon
    <2>9. QED
      BY <2>6, <2>7, <2>8, Zenon
  <1>3. QED
    BY <1>1, <1>2

\* The rank of a member of a set of numbers, its own among the first ones.
LEMMA Ranks ==
  ASSUME NEW n \in Nat, NEW S, S \subseteq 1..n
  PROVE  /\ \A u \in S : Cardinality({v \in S : v <= u}) \in 1..Cardinality(S)
         /\ \A u, w \in S :
              Cardinality({v \in S : v <= u}) = Cardinality({v \in S : v <= w}) => u = w
  <1> DEFINE Below(u) == {v \in S : v <= u}
             T == 1..Cardinality(S)
  <1>1. IsFiniteSet(S) /\ Cardinality(S) \in Nat
    <2>1. IsFiniteSet(S) /\ Cardinality(S) \in 0..n
      BY Counted
    <2>2. QED
      BY <2>1
  <1>2. ASSUME NEW u \in S
        PROVE  IsFiniteSet(Below(u)) /\ Cardinality(Below(u)) \in T
    <2>1. Below(u) \subseteq S /\ Below(u) \subseteq 1..n
      OBVIOUS
    <2>2. IsFiniteSet(Below(u)) /\ Cardinality(Below(u)) \in Nat
      BY <2>1, Counted
    <2>3. Cardinality(Below(u)) <= Cardinality(S)
      BY <1>1, <2>1, FS_Subset
    <2>4. u \in Below(u)
      OBVIOUS
    <2>5. Cardinality(Below(u)) # 0
      BY <2>2, <2>4, FS_EmptySet
    <2>6. QED
      BY <1>1, <2>2, <2>3, <2>5
  <1>3. ASSUME NEW u \in S, NEW v \in S, u < v
        PROVE  Cardinality(Below(u)) # Cardinality(Below(v))
    <2>1. Below(u) \subseteq Below(v)
      <3>1. u \in Nat /\ v \in Nat /\ \A w \in S : w \in Nat
        OBVIOUS
      <3>2. \A w \in S : w <= u => w <= v
        BY <1>3, <3>1
      <3>3. QED
        BY <3>2
    <2>2. v \in Below(v) /\ v \notin Below(u)
      <3>1. u \in Nat /\ v \in Nat
        OBVIOUS
      <3>2. v <= v /\ ~(v <= u)
        BY <1>3, <3>1
      <3>3. QED
        BY <3>2
    <2>3. IsFiniteSet(Below(v))
      BY <1>2
    <2> HIDE DEF Below
    <2>4. QED
      BY <2>1, <2>2, <2>3, FS_Subset
  <1>4. \A u, w \in S : u < w \/ w < u \/ u = w
    <2>1. \A u \in S : u \in Nat
      OBVIOUS
    <2>2. QED
      BY <2>1
  <1> HIDE DEF Below
  <1>5. \A u, w \in S : Cardinality(Below(u)) = Cardinality(Below(w)) => u = w
    BY <1>3, <1>4
  <1>6. QED
    BY <1>2, <1>5 DEF Below

\* Of a set of numbers there is a k-th lowest, for every k up to its size.
LEMMA Nth ==
  ASSUME NEW n \in Nat, NEW S, S \subseteq 1..n, NEW k \in 1..Cardinality(S)
  PROVE  \E u \in S : Cardinality({v \in S : v <= u}) = k
  <1> DEFINE Below(u) == {v \in S : v <= u}
             T == 1..Cardinality(S)
             f == [u \in S |-> Cardinality(Below(u))]
  <1>1. IsFiniteSet(S) /\ Cardinality(S) \in Nat
    <2>1. IsFiniteSet(S) /\ Cardinality(S) \in 0..n
      BY Counted
    <2>2. QED
      BY <2>1
  <1>2. \A u \in S : Cardinality(Below(u)) \in T
    BY Ranks
  <1>3. \A u, v \in S : Cardinality(Below(u)) = Cardinality(Below(v)) => u = v
    BY Ranks
  <1>4. f \in [S -> T]
    BY <1>2
  <1>5. \A u, v \in S : f[u] = f[v] => u = v
    BY <1>3
  <1> HIDE DEF f
  <1>6. f \in Injection(S, T)
    BY <1>4, <1>5, Fun_IsInj
  <1>7. IsFiniteSet(T) /\ Cardinality(T) = Cardinality(S)
    BY <1>1, FS_Interval
  <1>8. f \in Surjection(S, T)
    BY <1>6, <1>7, FS_Injection
  <1>9. PICK u \in S : f[u] = k
    <2>1. \A t \in T : \E s \in S : f[s] = t
      BY <1>8, Fun_SurjectionProperties
    <2>2. QED
      BY <2>1
  <1>10. QED
    BY <1>9 DEF f

-----------------------------------------------------------------------------
(* The mailboxes *)

\* No UID that was assigned before this step names another message after it, or
\* names one again.
UidsKept ==
  /\ \A f \in Folder : uidNext[f] <= uidNext'[f]
  /\ \A f \in Folder : \A u \in DOMAIN box'[f] :
       u < uidNext[f] => u \in DOMAIN box[f] /\ box'[f][u] = box[f][u]

BoxTypes == \A f \in Folder : \A u \in DOMAIN box[f] : u \in 1..(uidNext[f] - 1) /\ box[f][u] \in Msg

\* Messages that enter a folder get its next UID.
Lands ==
  /\ DOMAIN box' = Folder /\ uidNext' \in [Folder -> Nat \ {0}]
  /\ \A f \in Folder : uidNext'[f] \in {uidNext[f], uidNext[f] + 1}
  /\ \A f \in Folder : \A u \in DOMAIN box'[f] :
       \/ u \in DOMAIN box[f] /\ box'[f][u] = box[f][u]
       \/ u = uidNext[f] /\ uidNext'[f] = u + 1 /\ box'[f][u] \in Msg

LEMMA Landing == ServerTypes /\ Lands => UidsKept /\ BoxTypes'
  <1> SUFFICES ASSUME ServerTypes, Lands PROVE UidsKept /\ BoxTypes'
    OBVIOUS
  <1>1. \A f \in Folder : uidNext[f] \in Nat \ {0} /\ uidNext'[f] \in Nat \ {0}
    BY DEF ServerTypes, Lands
  <1>2. \A f \in Folder : uidNext[f] <= uidNext'[f]
    BY <1>1 DEF Lands
  <1>3. ASSUME NEW f \in Folder, NEW u \in DOMAIN box'[f]
        PROVE  /\ u < uidNext[f] => u \in DOMAIN box[f] /\ box'[f][u] = box[f][u]
               /\ u \in 1..(uidNext'[f] - 1) /\ box'[f][u] \in Msg
    <2>1. CASE u \in DOMAIN box[f] /\ box'[f][u] = box[f][u]
      <3>1. u \in 1..(uidNext[f] - 1) /\ box[f][u] \in Msg
        BY <2>1 DEF ServerTypes
      <3>2. QED
        BY <1>1, <1>2, <2>1, <3>1
    <2>2. CASE u = uidNext[f] /\ uidNext'[f] = u + 1 /\ box'[f][u] \in Msg
      BY <1>1, <2>2
    <2>3. QED
      BY <2>1, <2>2 DEF Lands
  <1>4. QED
    BY <1>2, <1>3 DEF UidsKept, BoxTypes

LEMMA EntersMeans ==
  ASSUME NEW f \in Folder, NEW m
  PROVE  \A u \in DOMAIN Enters(box, f, m) :
           \/ u \in DOMAIN box[f] /\ Enters(box, f, m)[u] = box[f][u]
           \/ u = uidNext[f] /\ Enters(box, f, m)[u] = m
  BY DEF Enters, With

LEMMA WithoutMeans ==
  ASSUME NEW g, NEW S
  PROVE  DOMAIN Without(g, S) = DOMAIN g \ S /\ \A x \in DOMAIN g \ S : Without(g, S)[x] = g[x]
  BY DEF Without, Restrict

\* A message leaves a folder.
LEMMA Leaves ==
  ASSUME ServerTypes, NEW f \in Folder, NEW S,
         box' = [box EXCEPT ![f] = Without(@, S)], uidNext' = uidNext
  PROVE  Lands /\ DOMAIN box'[f] = DOMAIN box[f] \ S
  <1>1. DOMAIN box' = Folder /\ box'[f] = Without(box[f], S)
    BY DEF ServerTypes
  <1>2. \A g \in Folder : g # f => box'[g] = box[g]
    BY DEF ServerTypes
  <1>3. DOMAIN box'[f] = DOMAIN box[f] \ S /\ \A u \in DOMAIN box[f] \ S : box'[f][u] = box[f][u]
    <2> DEFINE g == box[f]
    <2>1. DOMAIN Without(g, S) = DOMAIN g \ S /\ \A x \in DOMAIN g \ S : Without(g, S)[x] = g[x]
      BY WithoutMeans
    <2>2. box'[f] = Without(g, S)
      BY <1>1
    <2> HIDE DEF g
    <2>3. DOMAIN box'[f] = DOMAIN g \ S /\ \A x \in DOMAIN g \ S : box'[f][x] = g[x]
      BY <2>1, <2>2
    <2>4. QED
      BY <2>3 DEF g
  <1>4. QED
    BY <1>1, <1>2, <1>3 DEF Lands, ServerTypes

\* The UIDs that leave the source of a move.
Gone(c) == IF "MOVE" \in caps THEN {loc[c].uid} ELSE Expunged(c)

LEMMA GoneHasOwn == ASSUME NEW c \in Caller PROVE loc[c].uid \in Gone(c) /\ loc[c].uid \in Expunged(c)
  BY DEF Gone, Expunged, AllDeleted

\* The mailboxes after the COPY of a move, and after the whole of it.
LEMMA TransferMeans ==
  ASSUME ServerTypes, CommandTypes, NEW c \in Caller, at[c] = "server", target[c] # "none"
  PROVE  /\ loc[c].folder \in Folder /\ target[c] \in Folder /\ target[c] # loc[c].folder
         /\ DOMAIN Copied(c) = Folder /\ DOMAIN Moved(c) = Folder
         /\ \A f \in Folder : f # target[c] => Copied(c)[f] = box[f]
         /\ \A f \in Folder : f # loc[c].folder => Moved(c)[f] = Copied(c)[f]
         /\ OnServer(c) => Found(c) \in Msg /\ Copied(c)[target[c]] = Enters(box, target[c], Found(c))
         /\ ~OnServer(c) => Copied(c) = box
         /\ DOMAIN Moved(c)[loc[c].folder] = DOMAIN box[loc[c].folder] \ Gone(c)
         /\ \A u \in DOMAIN Moved(c)[loc[c].folder] :
              Moved(c)[loc[c].folder][u] = box[loc[c].folder][u]
  <1> DEFINE s == loc[c].folder  t == target[c]
  <1>1. s \in Folder /\ t \in Folder /\ t # s
    BY DEF CommandTypes, Located, Place, OtherFolder, Folder
  <1>2. DOMAIN box = Folder
    BY DEF ServerTypes
  <1>3. /\ DOMAIN Copied(c) = Folder /\ \A f \in Folder : f # t => Copied(c)[f] = box[f]
        /\ OnServer(c) => Copied(c)[t] = Enters(box, t, Found(c))
        /\ ~OnServer(c) => Copied(c) = box
    BY <1>1, <1>2 DEF Copied
  <1>4. OnServer(c) => Found(c) \in Msg
    BY <1>1 DEF OnServer, Found, ServerTypes
  <1>5. Moved(c) = [Copied(c) EXCEPT ![s] = Without(@, Gone(c))]
    BY DEF Moved, Gone
  <1>6. /\ DOMAIN Moved(c) = Folder /\ Moved(c)[s] = Without(box[s], Gone(c))
        /\ \A f \in Folder : f # s => Moved(c)[f] = Copied(c)[f]
    BY <1>1, <1>3, <1>5
  <1>7. DOMAIN Without(box[s], Gone(c)) = DOMAIN box[s] \ Gone(c)
        /\ \A u \in DOMAIN box[s] \ Gone(c) : Without(box[s], Gone(c))[u] = box[s][u]
    BY WithoutMeans
  <1>8. QED
    BY <1>1, <1>3, <1>4, <1>6, <1>7

\* MOVE, or the COPY of a move that is cut short.
LEMMA Transfer ==
  ASSUME ServerTypes, CommandTypes, NEW c \in Caller, at[c] = "server", target[c] # "none",
         box' = Moved(c) \/ box' = Copied(c), uidNext' = NextUids(box')
  PROVE  Lands /\ (box' = Moved(c) => loc[c].uid \notin DOMAIN box'[loc[c].folder])
  <1> DEFINE s == loc[c].folder  t == target[c]
  <1>1. /\ s \in Folder /\ t \in Folder /\ t # s
        /\ DOMAIN Copied(c) = Folder /\ DOMAIN Moved(c) = Folder
        /\ \A f \in Folder : f # t => Copied(c)[f] = box[f]
        /\ \A f \in Folder : f # s => Moved(c)[f] = Copied(c)[f]
        /\ OnServer(c) => Found(c) \in Msg /\ Copied(c)[t] = Enters(box, t, Found(c))
        /\ ~OnServer(c) => Copied(c) = box
        /\ DOMAIN Moved(c)[s] = DOMAIN box[s] \ Gone(c)
        /\ \A u \in DOMAIN Moved(c)[s] : Moved(c)[s][u] = box[s][u]
    BY TransferMeans
  <1>2. ASSUME DOMAIN box' = Folder,
               \A f \in Folder : \A u \in DOMAIN box'[f] :
                 \/ u \in DOMAIN box[f] /\ box'[f][u] = box[f][u]
                 \/ u = uidNext[f] /\ box'[f][u] \in Msg
        PROVE  Lands
    <2>1. /\ uidNext' \in [Folder -> Nat \ {0}]
          /\ \A f \in Folder : uidNext'[f] \in {uidNext[f], uidNext[f] + 1}
          /\ \A f \in Folder : uidNext[f] \in DOMAIN box'[f] => uidNext'[f] = uidNext[f] + 1
      BY DEF NextUids, ServerTypes
    <2>2. QED
      BY <1>2, <2>1 DEF Lands
  <1>3. \A u \in DOMAIN Enters(box, t, Found(c)) :
          \/ u \in DOMAIN box[t] /\ Enters(box, t, Found(c))[u] = box[t][u]
          \/ u = uidNext[t] /\ Enters(box, t, Found(c))[u] = Found(c)
    BY <1>1, EntersMeans
  <1>4. \A u \in DOMAIN Copied(c)[t] :
          \/ u \in DOMAIN box[t] /\ Copied(c)[t][u] = box[t][u]
          \/ u = uidNext[t] /\ Copied(c)[t][u] \in Msg
    BY <1>1, <1>3
  <1>5. DOMAIN box' = Folder /\ \A f \in Folder : f # s /\ f # t => box'[f] = box[f]
    BY <1>1
  <1>6. box'[t] = Copied(c)[t]
    BY <1>1
  <1>7. DOMAIN box'[s] \subseteq DOMAIN box[s] /\ \A u \in DOMAIN box'[s] : box'[s][u] = box[s][u]
    BY <1>1
  <1>8. Lands
    BY <1>2, <1>4, <1>5, <1>6, <1>7
  <1>9. loc[c].uid \in Gone(c)
    BY GoneHasOwn
  <1>10. QED
    BY <1>1, <1>8, <1>9

\* Flags belong to UIDs of folders.
LEMMA FlaggedInType ==
  ASSUME ServerTypes, Lands, NEW S \in SUBSET (Folder \X Nat), NEW b
  PROVE  FlaggedIn(S, box', b) \subseteq Folder \X Nat
  <1>1. \A f \in Folder : DOMAIN box'[f] \subseteq Nat
    BY Landing DEF ServerTypes, Lands, BoxTypes
  <1>2. QED
    BY <1>1 DEF FlaggedIn, ServerTypes

LEMMA CopiesType ==
  ASSUME ServerTypes, NEW f \in Folder, NEW u \in Nat
  PROVE  Copies(f, u) \subseteq Folder \X Nat
  <1>1. \A g \in Folder : DOMAIN box[g] \subseteq Nat
    BY DEF ServerTypes
  <1>2. QED
    BY <1>1 DEF Copies

LEMMA ServerStep == Types /\ [Next]_vars => ServerTypes' /\ UidsKept
  <1> SUFFICES ASSUME Types, [Next]_vars PROVE ServerTypes' /\ UidsKept
    OBVIOUS
  <1>1. ServerTypes /\ CommandTypes
    BY DEF Types
  <1>2. ASSUME Lands, UNCHANGED <<account, arrived>>,
               serverSeen' \subseteq Folder \X Nat, deleted' \subseteq Folder \X Nat
        PROVE  ServerTypes' /\ UidsKept
    <2>1. UidsKept /\ BoxTypes'
      BY <1>1, <1>2, Landing
    <2>2. QED
      BY <1>1, <1>2, <2>1 DEF ServerTypes, Lands, BoxTypes
  <1>3. CASE Arrive
    <2>1. PICK into \in IF gmail THEN {Folder, {"other"}} ELSE {{f} : f \in Folder} :
            /\ arrived + Cardinality(into) <= MaxMsg
            /\ box' = [f \in Folder |->
                         IF f \in into THEN Enters(box, f, arrived + 1) ELSE box[f]]
            /\ uidNext' = [f \in Folder |-> uidNext[f] + IF f \in into THEN 1 ELSE 0]
      BY <1>3 DEF Arrive
    <2>2. IsFiniteSet(Folder)
      <3>1. IsFiniteSet({"inbox"}) /\ Folder = {"inbox"} \union {"other"}
        BY FS_Singleton DEF Folder
      <3>2. QED
        BY <3>1, FS_AddElement
    <2>3. into \subseteq Folder /\ into # {}
      BY <2>1 DEF Folder
    <2>4. Cardinality(into) \in Nat \ {0}
      <3>1. IsFiniteSet(into)
        BY <2>2, <2>3, FS_Subset
      <3>2. QED
        BY <2>3, <3>1, FS_EmptySet, FS_CardinalityType
    <2>5. arrived + 1 \in Msg /\ arrived' = arrived + 1
         /\ UNCHANGED <<account, serverSeen, deleted>>
      BY <1>1, <1>3, <2>1, <2>4, Constants DEF Arrive, ServerTypes, Msg
    <2>6. ASSUME NEW f \in Folder, NEW u \in DOMAIN box'[f]
          PROVE  \/ u \in DOMAIN box[f] /\ box'[f][u] = box[f][u]
                 \/ u = uidNext[f] /\ uidNext'[f] = u + 1 /\ box'[f][u] \in Msg
      <3>1. CASE f \in into
        <4>1. box'[f] = Enters(box, f, arrived + 1) /\ uidNext'[f] = uidNext[f] + 1
          BY <2>1, <3>1
        <4>2. \A v \in DOMAIN Enters(box, f, arrived + 1) :
                \/ v \in DOMAIN box[f] /\ Enters(box, f, arrived + 1)[v] = box[f][v]
                \/ v = uidNext[f] /\ Enters(box, f, arrived + 1)[v] = arrived + 1
          BY EntersMeans
        <4>3. QED
          BY <2>5, <4>1, <4>2
      <3>2. CASE f \notin into
        BY <2>1, <3>2
      <3>3. QED
        BY <3>1, <3>2
    <2>7. /\ DOMAIN box' = Folder /\ uidNext' \in [Folder -> Nat \ {0}]
          /\ \A f \in Folder : uidNext'[f] \in {uidNext[f], uidNext[f] + 1}
      BY <1>1, <2>1 DEF ServerTypes
    <2>8. Lands
      BY <2>6, <2>7 DEF Lands
    <2>9. UidsKept /\ BoxTypes'
      BY <1>1, <2>8, Landing
    <2>10. QED
      BY <1>1, <2>5, <2>7, <2>9, Constants DEF ServerTypes, BoxTypes, Msg
  <1>4. CASE OtherClient
    <2>0. UNCHANGED <<account, uidNext, arrived>>
      BY <1>4 DEF OtherClient
    <2>1. CASE /\ \E f \in Folder : \E u \in DOMAIN box[f] : box' = [box EXCEPT ![f] = Without(@, {u})]
               /\ serverSeen' = FlaggedIn(serverSeen, box', FALSE)
               /\ deleted' = FlaggedIn(deleted, box', FALSE)
      <3>1. PICK f \in Folder : \E u \in DOMAIN box[f] : box' = [box EXCEPT ![f] = Without(@, {u})]
        BY <2>1
      <3>2. PICK u \in DOMAIN box[f] : box' = [box EXCEPT ![f] = Without(@, {u})]
        BY <3>1
      <3>3. Lands
        BY <1>1, <2>0, <3>2, Leaves
      <3>4. serverSeen' \subseteq Folder \X Nat /\ deleted' \subseteq Folder \X Nat
        BY <1>1, <2>1, <3>3, FlaggedInType DEF ServerTypes
      <3>5. QED
        BY <1>2, <2>0, <3>3, <3>4
    <2>2. CASE /\ UNCHANGED <<box, deleted>>
               /\ \E f \in Folder : \E u \in DOMAIN box[f] :
                    serverSeen' \in {serverSeen \ Copies(f, u), serverSeen \union Copies(f, u)}
      <3>0. PICK f \in Folder : \E u \in DOMAIN box[f] :
              serverSeen' \in {serverSeen \ Copies(f, u), serverSeen \union Copies(f, u)}
        BY <2>2
      <3>1. PICK u \in DOMAIN box[f] :
              serverSeen' \in {serverSeen \ Copies(f, u), serverSeen \union Copies(f, u)}
        BY <3>0
      <3>2. Copies(f, u) \subseteq Folder \X Nat
        BY <1>1, CopiesType DEF ServerTypes
      <3>3. serverSeen' \subseteq Folder \X Nat
        BY <1>1, <3>1, <3>2 DEF ServerTypes
      <3>4. QED
        BY <1>1, <1>2, <2>0, <2>2, <3>3 DEF Lands, ServerTypes
    <2>3. CASE /\ UNCHANGED <<box, serverSeen>>
               /\ \E f \in Folder : \E u \in DOMAIN box[f] :
                    deleted' \in {deleted \ {<<f, u>>}, deleted \union {<<f, u>>}}
      <3>0. PICK f \in Folder : \E u \in DOMAIN box[f] :
              deleted' \in {deleted \ {<<f, u>>}, deleted \union {<<f, u>>}}
        BY <2>3
      <3>1. PICK u \in DOMAIN box[f] : deleted' \in {deleted \ {<<f, u>>}, deleted \union {<<f, u>>}}
        BY <3>0
      <3>2. <<f, u>> \in Folder \X Nat
        BY <1>1 DEF ServerTypes
      <3>3. deleted' \subseteq Folder \X Nat
        BY <1>1, <3>1, <3>2 DEF ServerTypes
      <3>4. QED
        BY <1>1, <1>2, <2>0, <2>3, <3>3 DEF Lands, ServerTypes
    <2>4. QED
      BY <1>4, <2>1, <2>2, <2>3 DEF OtherClient
  <1>5. ASSUME NEW c \in Caller, StoreFlag(c)
        PROVE  ServerTypes' /\ UidsKept
    <2>1. Located(c)
      BY <1>1, <1>5 DEF CommandTypes, StoreFlag
    <2>2. serverSeen' \subseteq Folder \X Nat
      <3>1. FoundCopies(c) \subseteq Folder \X Nat
        BY <1>1, <2>1, CopiesType DEF FoundCopies, Located, Place
      <3>2. QED
        BY <1>1, <1>5, <3>1 DEF StoreFlag, ServerTypes
    <2>3. Lands /\ UNCHANGED <<account, arrived, deleted>>
      BY <1>1, <1>5 DEF StoreFlag, Lands, ServerTypes
    <2>4. deleted' \subseteq Folder \X Nat
      BY <1>1, <2>3 DEF ServerTypes
    <2>5. QED
      BY <1>2, <2>2, <2>3, <2>4
  <1>6. ASSUME NEW c \in Caller, MoveMessage(c)
        PROVE  ServerTypes' /\ UidsKept
    <2>1. Lands
      BY <1>1, <1>6, Transfer DEF MoveMessage
    <2>2. serverSeen' \subseteq Folder \X Nat /\ deleted' \subseteq Folder \X Nat
      BY <1>1, <1>6, <2>1, FlaggedInType DEF MoveMessage, ServerTypes
    <2>3. QED
      BY <1>2, <1>6, <2>1, <2>2 DEF MoveMessage
  <1>7. ASSUME NEW c \in Caller, DeletePermanently(c)
        PROVE  ServerTypes' /\ UidsKept
    <2>1. loc[c].folder \in Folder
      BY <1>1, <1>7 DEF DeletePermanently, CommandTypes, Located, Place
    <2>2. Lands
      BY <1>1, <1>7, <2>1, Leaves DEF DeletePermanently
    <2>3. serverSeen' \subseteq Folder \X Nat /\ deleted' \subseteq Folder \X Nat
      BY <1>1, <1>7, <2>2, FlaggedInType DEF DeletePermanently, ServerTypes
    <2>4. QED
      BY <1>2, <1>7, <2>2, <2>3 DEF DeletePermanently
  <1>8. ASSUME NEW c \in Caller, Abort(c)
        PROVE  ServerTypes' /\ UidsKept
    <2>0. UNCHANGED <<account, arrived>>
      BY <1>8 DEF Abort
    <2>1. ASSUME at[c] = "server" PROVE OwnCopy(c) \subseteq Folder \X Nat
      BY <1>1, <2>1 DEF CommandTypes, Located, Place, OwnCopy
    <2>2. CASE UNCHANGED <<box, uidNext, serverSeen, deleted>>
      BY <1>1, <1>2, <2>0, <2>2 DEF Lands, ServerTypes
    <2>3. CASE /\ at[c] = "server" /\ UNCHANGED <<box, uidNext, serverSeen>>
               /\ deleted' = deleted \union OwnCopy(c)
      <3>1. Lands /\ serverSeen' \subseteq Folder \X Nat /\ deleted' \subseteq Folder \X Nat
        BY <1>1, <2>1, <2>3 DEF Lands, ServerTypes
      <3>2. QED
        BY <1>2, <2>0, <3>1
    <2>4. CASE /\ at[c] = "server" /\ target[c] # "none"
               /\ box' = Copied(c) /\ uidNext' = NextUids(box')
               /\ serverSeen' = FlaggedIn(serverSeen, box', FoundSeen(c))
               /\ \E stored \in {{}, OwnCopy(c)} :
                    deleted' = FlaggedIn(deleted, box', FoundDeleted(c)) \union stored
      <3>1. Lands
        BY <1>1, <2>4, Transfer
      <3>2. serverSeen' \subseteq Folder \X Nat /\ FlaggedIn(deleted, box', FoundDeleted(c)) \subseteq Folder \X Nat
        BY <1>1, <2>4, <3>1, FlaggedInType DEF ServerTypes
      <3>3. deleted' \subseteq Folder \X Nat
        BY <2>1, <2>4, <3>2
      <3>4. QED
        BY <1>2, <2>0, <3>1, <3>2, <3>3
    <2>5. QED
      BY <1>8, <2>2, <2>3, <2>4 DEF Abort
  <1>9. CASE UNCHANGED serverVars
    BY <1>1, <1>2, <1>9 DEF Lands, ServerTypes
  <1>10. QED
    BY <1>3, <1>4, <1>5, <1>6, <1>7, <1>8, <1>9 DEF Next, SyncStep, SyncStatus, SyncCounts,
       SyncFetch, SyncStore, PrefetchFetch, PrefetchCache, Command, Proceed, Locate, FetchBody,
       CacheBody, RemoveMessage, MarkSeen, MarkSiblings

-----------------------------------------------------------------------------
(* The rows *)

\* A row keeps its place and its message; a new one is an envelope of the
\* batch, and its id is marked if a command holds it.
RowsKept ==
  \A i \in DOMAIN rows' :
    \/ /\ i \in DOMAIN rows
       /\ rows'[i].folder = rows[i].folder /\ rows'[i].uid = rows[i].uid
       /\ rows'[i].msg = rows[i].msg
    \/ /\ i \notin DOMAIN rows /\ syncAt = "store"
       /\ \E u \in DOMAIN batch :
            rows'[i].folder = syncFolder /\ rows'[i].uid = u /\ rows'[i].msg = batch[u].msg
       /\ rows'[i].body = NoMsg
       /\ \A c \in Caller : id[c] = i => i \in reused'

\* A body is written to one row.
LEMMA Writes ==
  ASSUME StoreTypes, NEW i, NEW m \in Msg \union {NoMsg},
         rows' = WithBody(i, m) \/ rows' = WithBodyOnly(i, m)
  PROVE  /\ DOMAIN rows' = DOMAIN rows
         /\ \A j \in DOMAIN rows :
              /\ rows'[j] \in RowType
              /\ rows'[j].folder = rows[j].folder /\ rows'[j].uid = rows[j].uid
              /\ rows'[j].msg = rows[j].msg
              /\ rows'[j].seen = rows[j].seen
              /\ rows'[j].body = IF j = i THEN m ELSE rows[j].body
  <1>1. CASE i \notin DOMAIN rows
    BY <1>1 DEF WithBody, WithBodyOnly, StoreTypes
  <1>2. CASE i \in DOMAIN rows
    <2>1. rows[i] \in RowType
      BY <1>2 DEF StoreTypes
    <2>2. CASE rows' = WithBody(i, m)
      <3> DEFINE r == [rows[i] EXCEPT !.body = m, !.parts = m]
      <3>1. /\ r \in RowType /\ r.body = m
            /\ r.folder = rows[i].folder /\ r.uid = rows[i].uid /\ r.msg = rows[i].msg
            /\ r.seen = rows[i].seen
        BY <2>1 DEF RowType
      <3>2. /\ DOMAIN rows' = DOMAIN rows
            /\ \A j \in DOMAIN rows : rows'[j] = IF j = i THEN r ELSE rows[j]
        BY <1>2, <2>2 DEF WithBody
      <3> HIDE DEF r
      <3>3. QED
        BY <3>1, <3>2 DEF StoreTypes
    <2>3. CASE rows' = WithBodyOnly(i, m)
      <3> DEFINE r == [rows[i] EXCEPT !.body = m]
      <3>1. /\ r \in RowType /\ r.body = m
            /\ r.folder = rows[i].folder /\ r.uid = rows[i].uid /\ r.msg = rows[i].msg
            /\ r.seen = rows[i].seen
        BY <2>1 DEF RowType
      <3>2. /\ DOMAIN rows' = DOMAIN rows
            /\ \A j \in DOMAIN rows : rows'[j] = IF j = i THEN r ELSE rows[j]
        BY <1>2, <2>3 DEF WithBodyOnly
      <3> HIDE DEF r
      <3>3. QED
        BY <3>1, <3>2 DEF StoreTypes
    <2>4. QED
      BY <2>2, <2>3
  <1>3. QED
    BY <1>1, <1>2

\* The rows a pass adds.
LEMMA Stores ==
  ASSUME Types, HeldInv, SyncStore
  PROVE  /\ \E n \in Nat : DOMAIN rows' \subseteq 1..n
         /\ DOMAIN rows \subseteq DOMAIN rows'
         /\ \A i \in DOMAIN rows : rows'[i] = rows[i]
         /\ \A i \in DOMAIN rows' \ DOMAIN rows :
              /\ rows'[i] \in RowType /\ rows'[i].body = NoMsg
              /\ \E u \in DOMAIN batch :
                   /\ rows'[i].folder = syncFolder /\ rows'[i].uid = u /\ rows'[i].msg = batch[u].msg
                   /\ rows'[i].seen = batch[u].seen
              /\ \A c \in Caller : id[c] = i => i \in reused'
         /\ \A i, j \in DOMAIN rows' \ DOMAIN rows : rows'[i].uid = rows'[j].uid => i = j
  <1> DEFINE h == Highest(DOMAIN rows)
             K == 1..Cardinality(DOMAIN batch)
             new == {NewId(k) : k \in K}
             U(i) == NthUid(i - h)
             row(i) == [folder |-> syncFolder, uid |-> U(i), msg |-> batch[U(i)].msg,
                        seen |-> batch[U(i)].seen, body |-> NoMsg, parts |-> NoMsg]
  <1>1. /\ rows' = [i \in DOMAIN rows \union new |-> IF i \in new THEN row(i) ELSE rows[i]]
        /\ reused' = reused \union {i \in new : \E c \in Caller : id[c] = i}
        /\ syncAt = "store"
    BY DEF SyncStore
  <1>2. PICK n \in Nat : DOMAIN rows \subseteq 1..n
    BY DEF Types, StoreTypes
  <1>3. h \in Nat /\ \A i \in DOMAIN rows : i \in Nat /\ i <= h
    <2>1. h \in Nat /\ \A i \in DOMAIN rows : i <= h
      BY <1>2, HighestBounds
    <2>2. QED
      BY <1>2, <2>1
  <1>4. uidNext[syncFolder] \in Nat /\ DOMAIN batch \subseteq 1..uidNext[syncFolder]
    BY <1>1 DEF Types, ServerTypes, SyncTypes, HeldInv, Names
  <1>5. Cardinality(DOMAIN batch) \in Nat
    <2>1. Cardinality(DOMAIN batch) \in 0..uidNext[syncFolder]
      BY <1>4, Counted
    <2>2. QED
      BY <1>4, <2>1
  <1>6. ASSUME NEW i \in new
        PROVE  /\ i \in Nat /\ h < i /\ i <= h + Cardinality(DOMAIN batch)
               /\ i - h \in K /\ U(i) \in DOMAIN batch
    <2>1. PICK k \in K : i = NewId(k)
      OBVIOUS
    <2>2. i = h + k /\ k \in Nat
      BY <1>3, <1>5, <2>1 DEF NewId
    <2>3. i - h = k
      BY <1>3, <2>2
    <2>4. \E u \in DOMAIN batch : Cardinality({v \in DOMAIN batch : v <= u}) = k
      BY <1>4, Nth
    <2>5. NthUid(k) \in DOMAIN batch
      BY <2>4 DEF NthUid
    <2>6. QED
      BY <1>3, <1>5, <2>2, <2>3, <2>5
  <1>6a. ASSUME NEW i \in new
         PROVE  Cardinality({v \in DOMAIN batch : v <= U(i)}) = i - h
    <2>1. PICK k \in K : k = i - h
      BY <1>6
    <2>2. \E u \in DOMAIN batch : Cardinality({v \in DOMAIN batch : v <= u}) = k
      BY <1>4, Nth
    <2>3. QED
      BY <2>1, <2>2 DEF NthUid
  <1>7. new \intersect DOMAIN rows = {}
    BY <1>3, <1>6
  <1>8. ASSUME NEW i \in new
        PROVE  row(i) \in RowType
    <2>1. /\ batch[U(i)] \in [msg : Msg, seen : BOOLEAN] /\ U(i) \in Nat \ {0} /\ syncFolder \in Folder
      BY <1>1, <1>6 DEF Types, SyncTypes, HeldInv
    <2> HIDE DEF U
    <2>2. QED
      BY <2>1 DEF RowType
  <1>9. \E N \in Nat : DOMAIN rows' \subseteq 1..N
    <2>1. h + Cardinality(DOMAIN batch) \in Nat
      BY <1>3, <1>5
    <2>2. DOMAIN rows' = DOMAIN rows \union new
      BY <1>1
    <2> HIDE DEF h, new
    <2>3. \A i \in DOMAIN rows : i \in 1..(h + Cardinality(DOMAIN batch))
      BY <1>2, <1>3, <1>5
    <2>4. \A i \in new : i \in 1..(h + Cardinality(DOMAIN batch))
      BY <1>3, <1>5, <1>6
    <2>5. QED
      BY <2>1, <2>2, <2>3, <2>4
  <1> HIDE DEF U, new
  <1>10. ASSUME NEW i \in DOMAIN rows' \ DOMAIN rows
         PROVE  /\ rows'[i] \in RowType /\ rows'[i].body = NoMsg
                /\ \E u \in DOMAIN batch :
                     /\ rows'[i].folder = syncFolder /\ rows'[i].uid = u /\ rows'[i].msg = batch[u].msg
                     /\ rows'[i].seen = batch[u].seen
                /\ \A c \in Caller : id[c] = i => i \in reused'
    <2>1. i \in new /\ rows'[i] = row(i)
      BY <1>1
    <2>2. U(i) \in DOMAIN batch
      BY <1>6, <2>1
    <2>3. QED
      BY <1>1, <1>8, <2>1, <2>2
  <1>11. ASSUME NEW i \in DOMAIN rows' \ DOMAIN rows, NEW j \in DOMAIN rows' \ DOMAIN rows,
                rows'[i].uid = rows'[j].uid
         PROVE  i = j
    <2>1. i \in new /\ j \in new /\ U(i) = U(j)
      BY <1>1, <1>11
    <2>2. i - h = j - h
      BY <1>6a, <2>1
    <2>3. i \in Nat /\ j \in Nat /\ h \in Nat
      BY <1>3, <1>6, <2>1
    <2> HIDE DEF h
    <2>4. QED
      BY <2>2, <2>3
  <1>12. QED
    BY <1>1, <1>7, <1>9, <1>10, <1>11

\* Only the flags of rows change.
OnlySeen ==
  /\ DOMAIN rows' = DOMAIN rows
  /\ \A i \in DOMAIN rows :
       /\ rows'[i] \in RowType
       /\ rows'[i].folder = rows[i].folder /\ rows'[i].uid = rows[i].uid
       /\ rows'[i].msg = rows[i].msg /\ rows'[i].body = rows[i].body

LEMMA Marked ==
  ASSUME NEW r \in RowType, NEW b \in BOOLEAN
  PROVE  LET q == [r EXCEPT !.seen = b] IN
           /\ q \in RowType /\ q.folder = r.folder /\ q.uid = r.uid /\ q.msg = r.msg
           /\ q.body = r.body
  BY DEF RowType

LEMMA MarkSeenMeans ==
  ASSUME StoreTypes, NEW c \in Caller, MarkSeen(c)
  PROVE  OnlySeen
  <1> DEFINE b == (op[c] = "read")
             r == rows[id[c]]
             q == [r EXCEPT !.seen = b]
  <1>1. b \in BOOLEAN
    BY Zenon
  <1>2. CASE UNCHANGED rows
    BY <1>2 DEF OnlySeen, StoreTypes
  <1>3. CASE HasRow(c) /\ rows' = [rows EXCEPT ![id[c]].seen = b]
    <2>1. r \in RowType
      BY <1>3 DEF HasRow, StoreTypes
    <2>2. /\ q \in RowType /\ q.folder = r.folder /\ q.uid = r.uid /\ q.msg = r.msg
          /\ q.body = r.body
      BY <1>1, <2>1, Marked
    <2>3. /\ DOMAIN rows' = DOMAIN rows
          /\ \A i \in DOMAIN rows : rows'[i] = IF i = id[c] THEN q ELSE rows[i]
      BY <1>3 DEF HasRow
    <2> HIDE DEF q
    <2>4. QED
      BY <2>2, <2>3 DEF OnlySeen, StoreTypes
  <1>4. QED
    BY <1>2, <1>3 DEF MarkSeen

LEMMA MarkSiblingsMeans ==
  ASSUME StoreTypes, NEW c \in Caller, MarkSiblings(c)
  PROVE  OnlySeen
  <1> DEFINE b == (op[c] = "read")
             S == Siblings(c)
             q(i) == [rows[i] EXCEPT !.seen = b]
  <1>1. b \in BOOLEAN
    BY Zenon
  <1>2. /\ DOMAIN rows' = DOMAIN rows
        /\ \A i \in DOMAIN rows : rows'[i] = IF i \in S THEN q(i) ELSE rows[i]
    BY DEF MarkSiblings
  <1>3. ASSUME NEW i \in DOMAIN rows
        PROVE  /\ q(i) \in RowType /\ q(i).folder = rows[i].folder /\ q(i).uid = rows[i].uid
               /\ q(i).msg = rows[i].msg /\ q(i).body = rows[i].body
    <2>1. rows[i] \in RowType
      BY DEF StoreTypes
    <2>2. QED
      BY <1>1, <2>1, Marked
  <1> HIDE DEF q, S
  <1>4. QED
    BY <1>2, <1>3 DEF OnlySeen, StoreTypes

\* Counts stay numbers, floored at 0.
LEMMA AdjustedType ==
  ASSUME NEW c \in Caller, NEW n \in Nat, NEW d \in Nat
  PROVE  Adjusted(c, n, d) \in Nat
  BY DEF Adjusted

LEMMA DecType ==
  ASSUME NEW n \in Nat
  PROVE  Dec(n) \in Nat
  BY DEF Dec

LEMMA CountTypes ==
  Types /\ [Next]_vars => total' \in [Folder -> Nat] /\ unread' \in [Folder -> Nat]
  <1> SUFFICES ASSUME Types, [Next]_vars
               PROVE  total' \in [Folder -> Nat] /\ unread' \in [Folder -> Nat]
    OBVIOUS
  <1>1. /\ total \in [Folder -> Nat] /\ unread \in [Folder -> Nat]
        /\ \E n \in Nat : DOMAIN rows \subseteq 1..n
        /\ exists \in Nat /\ unseen \in Nat /\ CommandTypes
    BY DEF Types, StoreTypes, SyncTypes
  <1>2. CASE SyncCounts
    BY <1>1, <1>2 DEF SyncCounts, UnreadCount
  <1>3. ASSUME NEW c \in Caller, RemoveMessage(c)
        PROVE  total' \in [Folder -> Nat] /\ unread' \in [Folder -> Nat]
    <2> DEFINE left(f)   == HasRow(c) /\ Row(c).folder = f
               landed(f) == IF target[c] = f THEN 1 ELSE 0
    <2>1. /\ total' = [f \in Folder |-> (IF left(f) THEN Dec(total[f]) ELSE total[f]) + landed(f)]
          /\ unread' = [f \in Folder |->
                          (IF left(f) /\ ~Row(c).seen THEN Dec(unread[f]) ELSE unread[f])
                            + IF wasSeen[c] THEN 0 ELSE landed(f)]
      BY <1>3 DEF RemoveMessage
    <2>2. \A f \in Folder : /\ total[f] \in Nat /\ unread[f] \in Nat /\ landed(f) \in Nat
                            /\ Dec(total[f]) \in Nat /\ Dec(unread[f]) \in Nat
      BY <1>1, DecType
    <2> HIDE DEF left, landed
    <2>3. QED
      BY <2>1, <2>2
  <1>4. ASSUME NEW c \in Caller, MarkSeen(c)
        PROVE  total' \in [Folder -> Nat] /\ unread' \in [Folder -> Nat]
    <2>1. \A n \in Nat : Adjusted(c, n, 1) \in Nat
      BY AdjustedType
    <2>2. loc[c].folder \in Folder
      BY <1>1, <1>4 DEF MarkSeen, CommandTypes, Located, Place
    <2>3. unread' = [unread EXCEPT ![loc[c].folder] = Adjusted(c, @, 1)] \/ unread' = unread
      BY <1>4 DEF MarkSeen
    <2>4. QED
      BY <1>1, <1>4, <2>1, <2>2, <2>3 DEF MarkSeen
  <1>5. ASSUME NEW c \in Caller, MarkSiblings(c)
        PROVE  total' \in [Folder -> Nat] /\ unread' \in [Folder -> Nat]
    <2> DEFINE S(f) == {i \in Siblings(c) : rows[i].folder = f}
    <2>1. PICK n \in Nat : DOMAIN rows \subseteq 1..n
      BY <1>1
    <2>2. \A f \in Folder : S(f) \subseteq 1..n
      BY <2>1 DEF Siblings
    <2>3. \A f \in Folder : Cardinality(S(f)) \in 0..n
      BY <2>1, <2>2, Counted
    <2> HIDE DEF S
    <2>4. \A f \in Folder : Adjusted(c, unread[f], Cardinality(S(f))) \in Nat
      <3> SUFFICES ASSUME NEW f \in Folder
                   PROVE  Adjusted(c, unread[f], Cardinality(S(f))) \in Nat
        OBVIOUS
      <3>1. unread[f] \in Nat /\ Cardinality(S(f)) \in Nat
        BY <1>1, <2>1, <2>3
      <3>2. QED
        BY <3>1, AdjustedType
    <2> USE DEF S
    <2>5. unread' = [f \in Folder |-> Adjusted(c, unread[f], Cardinality(S(f)))] /\ total' = total
      BY <1>5 DEF MarkSiblings
    <2>6. QED
      BY <1>1, <2>4, <2>5
  <1>6. CASE UNCHANGED <<total, unread>>
    BY <1>1, <1>6
  <1>7. QED
    BY <1>2, <1>3, <1>4, <1>5, <1>6 DEF Next, SyncStep, Arrive, OtherClient, SyncStatus,
       SyncFetch, SyncStore, PrefetchFetch, PrefetchCache, Command, Proceed, Locate, StoreFlag,
       MoveMessage, DeletePermanently, FetchBody, CacheBody, Abort

\* The rows keep their types, their places and their messages.
LEMMA RowsStep ==
  Types /\ HeldInv /\ [Next]_vars =>
    RowsKept /\ (\E n \in Nat : DOMAIN rows' \subseteq 1..n) /\ \A i \in DOMAIN rows' : rows'[i] \in RowType
  <1> DEFINE Goal == /\ RowsKept /\ (\E n \in Nat : DOMAIN rows' \subseteq 1..n)
                     /\ \A i \in DOMAIN rows' : rows'[i] \in RowType
  <1> SUFFICES ASSUME Types, HeldInv, [Next]_vars PROVE Goal
    OBVIOUS
  <1>1. StoreTypes /\ CommandTypes /\ SyncTypes
    BY DEF Types
  <1>2. CASE SyncStore
    <2>1. /\ \E n \in Nat : DOMAIN rows' \subseteq 1..n
          /\ \A i \in DOMAIN rows : rows'[i] = rows[i]
          /\ \A i \in DOMAIN rows' \ DOMAIN rows : rows'[i] \in RowType
      BY <1>2, Stores
    <2>2. \A i \in DOMAIN rows' \ DOMAIN rows :
            /\ rows'[i].body = NoMsg
            /\ \E u \in DOMAIN batch :
                 rows'[i].folder = syncFolder /\ rows'[i].uid = u /\ rows'[i].msg = batch[u].msg
            /\ \A c \in Caller : id[c] = i => i \in reused'
      BY <1>2, Stores
    <2>3. syncAt = "store"
      BY <1>2 DEF SyncStore
    <2>4. RowsKept
      BY <2>1, <2>2, <2>3 DEF RowsKept
    <2>5. \A i \in DOMAIN rows' : rows'[i] \in RowType
      BY <1>1, <2>1 DEF StoreTypes
    <2>6. QED
      BY <2>1, <2>4, <2>5
  <1>3. ASSUME NEW i, NEW m \in Msg \union {NoMsg}, rows' = WithBody(i, m) \/ rows' = WithBodyOnly(i, m)
        PROVE  Goal
    BY <1>1, <1>3, Writes DEF RowsKept, StoreTypes
  <1>4. CASE OnlySeen
    BY <1>1, <1>4 DEF OnlySeen, RowsKept, StoreTypes
  <1>5. CASE UNCHANGED rows
    BY <1>1, <1>5 DEF RowsKept, StoreTypes
  <1>6. CASE PrefetchCache
    <2>1. prefetch.msg \in Msg \union {NoMsg}
      BY <1>1, <1>6 DEF PrefetchCache, SyncTypes
    <2>2. rows' = WithBody(prefetch.id, prefetch.msg) \/ rows' = WithBodyOnly(prefetch.id, prefetch.msg)
      BY <1>6 DEF PrefetchCache
    <2>3. QED
      BY <1>3, <2>1, <2>2
  <1>7. ASSUME NEW c \in Caller, CacheBody(c)
        PROVE  Goal
    BY <1>1, <1>3, <1>7 DEF CacheBody, CommandTypes
  <1>8. ASSUME NEW c \in Caller, RemoveMessage(c)
        PROVE  Goal
    <2>1. CASE rows' = Dropped(c)
      <3>1. DOMAIN rows' = DOMAIN rows \ {id[c]} /\ \A i \in DOMAIN rows' : rows'[i] = rows[i]
        <4>1. /\ DOMAIN Without(rows, {id[c]}) = DOMAIN rows \ {id[c]}
              /\ \A x \in DOMAIN rows \ {id[c]} : Without(rows, {id[c]})[x] = rows[x]
          BY WithoutMeans
        <4>2. QED
          BY <2>1, <4>1 DEF Dropped
      <3>2. QED
        BY <1>1, <3>1 DEF RowsKept, StoreTypes
    <2>2. QED
      BY <1>5, <1>8, <2>1 DEF RemoveMessage
  <1>9. ASSUME NEW c \in Caller, Abort(c)
        PROVE  Goal
    <2>1. rows' = rows \/ rows' = WithBodyOnly(id[c], fetched[c])
      BY <1>9 DEF Abort
    <2>2. QED
      BY <1>1, <1>3, <1>5, <2>1 DEF CommandTypes
  <1>10. ASSUME NEW c \in Caller, MarkSeen(c) \/ MarkSiblings(c)
         PROVE  Goal
    BY <1>1, <1>4, <1>10, MarkSeenMeans, MarkSiblingsMeans
  <1> HIDE DEF Goal
  <1>11. QED
    BY <1>2, <1>5, <1>6, <1>7, <1>8, <1>9, <1>10 DEF Next, SyncStep, Arrive, OtherClient,
       SyncStatus, SyncCounts, SyncFetch, PrefetchFetch, Command, Proceed, Locate, StoreFlag,
       MoveMessage, DeletePermanently, FetchBody

-----------------------------------------------------------------------------
(* Types of what the goroutine and the commands hold *)

LEMMA SyncTypesStep == Types /\ [Next]_vars => SyncTypes'
  <1> SUFFICES ASSUME Types, [Next]_vars PROVE SyncTypes'
    OBVIOUS
  <1>1. ServerTypes /\ StoreTypes /\ SyncTypes
    BY DEF Types
  <1>2. ASSUME NEW f \in Folder, SyncStatus(f)
        PROVE  SyncTypes'
    <2>1. uidNext[f] - 1 \in Nat /\ DOMAIN box[f] \subseteq 1..(uidNext[f] - 1)
      BY <1>1 DEF ServerTypes
    <2>2. UnseenIn(f) \subseteq 1..(uidNext[f] - 1)
      BY <2>1 DEF UnseenIn
    <2>3. /\ Cardinality(DOMAIN box[f]) \in 0..(uidNext[f] - 1)
          /\ Cardinality(UnseenIn(f)) \in 0..(uidNext[f] - 1)
      BY <2>1, <2>2, Counted
    <2>4. Cardinality(DOMAIN box[f]) \in Nat /\ Cardinality(UnseenIn(f)) \in Nat
      BY <2>1, <2>3
    <2>5. QED
      BY <1>1, <1>2, <2>4 DEF SyncStatus, SyncTypes
  <1>3. CASE SyncCounts
    BY <1>1, <1>3 DEF SyncCounts, SyncTypes
  <1>4. CASE SyncFetch
    <2> DEFINE e(u) == [msg |-> box[syncFolder][u], seen |-> <<syncFolder, u>> \in serverSeen]
    <2>1. \A u \in Fresh(syncFolder) : e(u) \in [msg : Msg, seen : BOOLEAN]
      <3> SUFFICES ASSUME NEW u \in Fresh(syncFolder) PROVE e(u) \in [msg : Msg, seen : BOOLEAN]
        OBVIOUS
      <3>1. box[syncFolder][u] \in Msg
        BY <1>1 DEF Fresh, ServerTypes, SyncTypes
      <3>2. (<<syncFolder, u>> \in serverSeen) \in BOOLEAN
        OBVIOUS
      <3>3. QED
        BY <3>1, <3>2
    <2>2. batch' = [u \in Fresh(syncFolder) |-> e(u)]
      BY <1>4 DEF SyncFetch
    <2> HIDE DEF e
    <2>3. \A u \in DOMAIN batch' : batch'[u] \in [msg : Msg, seen : BOOLEAN]
      BY <2>1, <2>2
    <2>4. QED
      BY <1>1, <1>4, <2>3 DEF SyncFetch, AfterStore, SyncTypes
  <1>5. CASE SyncStore
    <2>1. DOMAIN batch' = {}
      BY <1>5 DEF SyncStore, Empty
    <2>2. QED
      BY <1>1, <1>5, <2>1 DEF SyncStore, AfterStore, SyncTypes
  <1>6. CASE PrefetchFetch
    <2>1. CASE syncAt' = "between"
      BY <1>1, <1>6, <2>1 DEF PrefetchFetch, SyncTypes
    <2>2. CASE syncAt' = "prefetchCache"
      <3>1. PICK i \in DOMAIN rows :
              /\ rows[i].uid \in DOMAIN box["inbox"]
              /\ prefetch' = [id |-> i, msg |-> box["inbox"][rows[i].uid]]
        BY <1>6, <2>2 DEF PrefetchFetch, PrefetchSelected
      <3>2. i \in Nat /\ box["inbox"][rows[i].uid] \in Msg
        BY <1>1, <3>1 DEF StoreTypes, ServerTypes, Folder
      <3>3. prefetch' \in [id : Nat, msg : Msg]
        BY <3>1, <3>2
      <3>4. QED
        BY <1>1, <1>6, <2>2, <3>3 DEF PrefetchFetch, SyncTypes
    <2>3. QED
      BY <1>6, <2>1, <2>2 DEF PrefetchFetch
  <1>7. CASE PrefetchCache
    BY <1>1, <1>7 DEF PrefetchCache, SyncTypes
  <1>8. CASE UNCHANGED syncVars
    BY <1>1, <1>8 DEF SyncTypes
  <1>9. QED
    BY <1>2, <1>3, <1>4, <1>5, <1>6, <1>7, <1>8 DEF Next, SyncStep, Arrive, OtherClient, Command,
       Proceed, Locate, StoreFlag, MoveMessage, DeletePermanently, FetchBody, CacheBody,
       RemoveMessage, MarkSeen, MarkSiblings, Abort

LEMMA CommandTypesStep == Types /\ [Next]_vars => CommandTypes'
  <1> SUFFICES ASSUME Types, [Next]_vars PROVE CommandTypes'
    OBVIOUS
  <1>1. ServerTypes /\ StoreTypes /\ CommandTypes
    BY DEF Types
  <1>2. ASSUME NEW c \in Caller, Return(c)
        PROVE  CommandTypes'
    BY <1>1, <1>2 DEF Return, Goto, CommandTypes, Located
  <1>3. ASSUME NEW c \in Caller, NEW o \in Op, NEW i \in DOMAIN rows, Command(c, o, i)
        PROVE  CommandTypes'
    <2>1. rows[i].msg \in Msg /\ i \in Nat
      BY <1>1 DEF StoreTypes, RowType
    <2>2. QED
      BY <1>1, <1>3, <2>1 DEF Command, Goto, CommandTypes, Located
  <1>4. ASSUME NEW c \in Caller, Locate(c), ~Settled(c)
        PROVE  CommandTypes'
    <2> DEFINE l == [folder |-> Row(c).folder, uid |-> Row(c).uid]
               t == IF op[c] = "move" \/ (op[c] = "delete" /\ ~IsTrash(Row(c).folder))
                      THEN OtherFolder(Row(c).folder) ELSE "none"
    <2>1. Row(c) \in RowType
      BY <1>1, <1>4 DEF Settled, HasRow, Row, StoreTypes
    <2>2. l \in Place /\ OtherFolder(Row(c).folder) \in Folder
      BY <2>1 DEF RowType, Place, OtherFolder, Folder
    <2>3. l.folder = Row(c).folder
      OBVIOUS
    <2>4. (target'[c] # "none" /\ Row(c).seen) \in BOOLEAN
      BY Zenon
    <2>5. /\ loc' = [loc EXCEPT ![c] = l] /\ target' = [target EXCEPT ![c] = t]
          /\ wasSeen' = [wasSeen EXCEPT ![c] = target'[c] # "none" /\ Row(c).seen]
          /\ at' = [at EXCEPT ![c] = "server"]
          /\ UNCHANGED <<op, id, fetched, chosen>>
      BY <1>4 DEF Locate, Goto
    <2>6. t \in {"none", OtherFolder(l.folder)} /\ (t # "none" => op[c] \in {"move", "delete"})
      BY <2>3
    <2> HIDE DEF l, t
    <2>7. wasSeen' \in [Caller -> BOOLEAN]
      BY <1>1, <2>4, <2>5 DEF CommandTypes
    <2>8. target' \in [Caller -> Folder \union {"none"}]
      BY <1>1, <2>2, <2>3, <2>5, <2>6 DEF CommandTypes
    <2>9. \A d \in Caller : at'[d] \notin {"out", "locate"} => Located(d)'
      BY <1>1, <2>2, <2>5, <2>6 DEF CommandTypes, Located
    <2>10. QED
      BY <1>1, <2>5, <2>7, <2>8, <2>9 DEF CommandTypes
  <1>5. ASSUME NEW c \in Caller, StoreFlag(c) \/ MoveMessage(c) \/ DeletePermanently(c) \/ MarkSeen(c)
        PROVE  CommandTypes'
    BY <1>1, <1>5 DEF StoreFlag, MoveMessage, DeletePermanently, MarkSeen, Goto, CommandTypes, Located
  <1>6. ASSUME NEW c \in Caller, FetchBody(c), OnServer(c)
        PROVE  CommandTypes'
    <2>1. Found(c) \in Msg
      BY <1>1, <1>6 DEF FetchBody, OnServer, Found, ServerTypes, CommandTypes, Located, Place
    <2>2. QED
      BY <1>1, <1>6, <2>1 DEF FetchBody, Goto, CommandTypes, Located
  <1>7. CASE UNCHANGED commandVars
    BY <1>1, <1>7 DEF CommandTypes, Located
  <1>8. ASSUME NEW c \in Caller, Proceed(c)
        PROVE  CommandTypes'
    BY <1>2, <1>4, <1>5, <1>6, <1>8 DEF Proceed, Locate, FetchBody, CacheBody, RemoveMessage,
       MarkSiblings
  <1>9. QED
    BY <1>2, <1>3, <1>7, <1>8 DEF Next, SyncStep, Arrive, OtherClient, SyncStatus, SyncCounts,
       SyncFetch, SyncStore, PrefetchFetch, PrefetchCache, Abort

-----------------------------------------------------------------------------
(* The invariant is kept *)

\* What a UID was assigned to it keeps naming.
LEMMA NamesKept ==
  ASSUME ServerTypes, ServerTypes', UidsKept
  PROVE  \A f \in Folder, u \in Nat : \A m : Names(f, u, m) =>
           u < uidNext'[f] /\ (u \in DOMAIN box'[f] => box'[f][u] = m)
  <1> SUFFICES ASSUME NEW f \in Folder, NEW u \in Nat, NEW m, Names(f, u, m)
               PROVE  u < uidNext'[f] /\ (u \in DOMAIN box'[f] => box'[f][u] = m)
    OBVIOUS
  <1>1. uidNext[f] \in Nat /\ uidNext'[f] \in Nat /\ uidNext[f] <= uidNext'[f] /\ u < uidNext[f]
    BY DEF ServerTypes, UidsKept, Names
  <1>2. u < uidNext'[f]
    BY <1>1
  <1>3. QED
    BY <1>1, <1>2 DEF UidsKept, Names

LEMMA TypesStep == Types /\ HeldInv /\ [Next]_vars => Types'
  BY ServerStep, CountTypes, RowsStep, SyncTypesStep, CommandTypesStep DEF Types, StoreTypes

\* A row's UID names its message while it is there.
LEMMA RowStep == IInv /\ [Next]_vars => RowInv'
  <1> SUFFICES ASSUME IInv, [Next]_vars, NEW i \in DOMAIN rows'
               PROVE  Names(rows[i].folder, rows[i].uid, rows[i].msg)'
    BY DEF RowInv
  <1>1. Types /\ RowInv /\ HeldInv /\ ServerTypes /\ StoreTypes /\ SyncTypes
    BY DEF IInv, Types
  <1>2. ServerTypes' /\ UidsKept /\ RowsKept
    BY <1>1, ServerStep, RowsStep
  <1>3. \A f \in Folder, u \in Nat : \A m : Names(f, u, m) =>
          u < uidNext'[f] /\ (u \in DOMAIN box'[f] => box'[f][u] = m)
    BY <1>1, <1>2, NamesKept
  <1>4. CASE /\ i \in DOMAIN rows
             /\ rows'[i].folder = rows[i].folder /\ rows'[i].uid = rows[i].uid
             /\ rows'[i].msg = rows[i].msg
    <2>1. rows[i].folder \in Folder /\ rows[i].uid \in Nat
      BY <1>1, <1>4 DEF StoreTypes, RowType
    <2>2. Names(rows[i].folder, rows[i].uid, rows[i].msg)
      BY <1>1, <1>4 DEF RowInv
    <2>3. QED
      BY <1>3, <1>4, <2>1, <2>2 DEF Names
  <1>5. CASE /\ syncAt = "store"
             /\ \E u \in DOMAIN batch :
                  rows'[i].folder = syncFolder /\ rows'[i].uid = u /\ rows'[i].msg = batch[u].msg
    <2>1. PICK u \in DOMAIN batch :
            rows'[i].folder = syncFolder /\ rows'[i].uid = u /\ rows'[i].msg = batch[u].msg
      BY <1>5
    <2>2. syncFolder \in Folder /\ u \in Nat /\ Names(syncFolder, u, batch[u].msg)
      BY <1>1, <1>5 DEF HeldInv, SyncTypes
    <2>3. QED
      BY <1>3, <2>1, <2>2 DEF Names
  <1>6. QED
    BY <1>2, <1>4, <1>5 DEF RowsKept

\* So does what the sync goroutine holds.
LEMMA HeldStep == IInv /\ [Next]_vars => HeldInv'
  <1> SUFFICES ASSUME IInv, [Next]_vars PROVE HeldInv'
    OBVIOUS
  <1>1. Types /\ RowInv /\ HeldInv /\ ServerTypes /\ StoreTypes /\ SyncTypes
    BY DEF IInv, Types
  <1>2. ServerTypes' /\ UidsKept /\ RowsKept
    BY <1>1, ServerStep, RowsStep
  <1>3. \A f \in Folder, u \in Nat : \A m : Names(f, u, m) =>
          u < uidNext'[f] /\ (u \in DOMAIN box'[f] => box'[f][u] = m)
    BY <1>1, <1>2, NamesKept
  <1>4. CASE UNCHANGED syncVars
    <2>1. ASSUME syncAt = "store", NEW u \in DOMAIN batch
          PROVE  u \in Nat \ {0} /\ Names(syncFolder, u, batch[u].msg)'
      <3>1. u \in Nat \ {0} /\ Names(syncFolder, u, batch[u].msg) /\ syncFolder \in Folder
        BY <1>1, <2>1 DEF HeldInv, SyncTypes
      <3>2. QED
        BY <1>3, <1>4, <3>1 DEF Names
    <2>2. ASSUME syncAt = "prefetchCache", prefetch.id \in DOMAIN rows'
          PROVE  rows'[prefetch.id].msg = prefetch.msg
      BY <1>1, <1>2, <2>2 DEF RowsKept, HeldInv
    <2>3. QED
      BY <1>4, <2>1, <2>2 DEF HeldInv
  <1>5. CASE SyncFetch
    <2>1. ASSUME NEW u \in DOMAIN batch'
          PROVE  u \in Nat \ {0} /\ Names(syncFolder, u, batch[u].msg)'
      <3>1. u \in DOMAIN box[syncFolder] /\ batch'[u].msg = box[syncFolder][u] /\ syncFolder \in Folder
        BY <1>1, <1>5 DEF SyncFetch, Fresh, SyncTypes
      <3>2. u \in 1..(uidNext[syncFolder] - 1) /\ uidNext[syncFolder] \in Nat
        BY <1>1, <3>1 DEF ServerTypes
      <3>3. UNCHANGED <<box, uidNext, syncFolder>>
        BY <1>5 DEF SyncFetch
      <3>4. QED
        BY <3>1, <3>2, <3>3 DEF Names
    <2>2. syncAt' # "prefetchCache"
      BY <1>5 DEF SyncFetch, AfterStore
    <2>3. QED
      BY <2>1, <2>2 DEF HeldInv
  <1>6. CASE PrefetchFetch
    <2>1. syncAt' # "store"
      BY <1>6 DEF PrefetchFetch
    <2>2. ASSUME syncAt' = "prefetchCache"
          PROVE  rows'[prefetch'.id].msg = prefetch'.msg
      <3>1. PICK i \in DOMAIN rows :
              /\ rows[i].folder = "inbox" /\ rows[i].uid \in DOMAIN box["inbox"]
              /\ prefetch' = [id |-> i, msg |-> box["inbox"][rows[i].uid]]
        BY <1>6, <2>2 DEF PrefetchFetch, PrefetchSelected
      <3>2. box["inbox"][rows[i].uid] = rows[i].msg
        BY <1>1, <3>1 DEF RowInv, Names
      <3>3. rows' = rows
        BY <1>6 DEF PrefetchFetch
      <3>4. QED
        BY <3>1, <3>2, <3>3
    <2>3. QED
      BY <2>1, <2>2 DEF HeldInv
  <1>7. CASE syncAt' \notin {"store", "prefetchCache"}
    BY <1>7 DEF HeldInv
  <1>8. QED
    BY <1>4, <1>5, <1>6, <1>7 DEF Next, SyncStep, SyncStatus, SyncCounts, SyncStore, AfterStore,
       PrefetchCache, Arrive, OtherClient, Command, Proceed, Locate, StoreFlag, MoveMessage,
       DeletePermanently, FetchBody, CacheBody, RemoveMessage, MarkSeen, MarkSiblings, Abort

\* A command goes on with the row and the location it had.
Keeps(c) == id'[c] = id[c] /\ loc'[c] = loc[c] /\ chosen'[c] = chosen[c]

\* Another command's step, or nobody's.
Elsewhere(c) == Keeps(c) /\ at'[c] = at[c] /\ fetched'[c] = fetched[c]

LEMMA MarkedStay == [Next]_vars => reused \subseteq reused'
  BY DEF Next, SyncStep, SyncStatus, SyncCounts, SyncFetch, SyncStore, PrefetchFetch, PrefetchCache,
     Arrive, OtherClient, Command, Proceed, Locate, StoreFlag, MoveMessage, DeletePermanently,
     FetchBody, CacheBody, RemoveMessage, MarkSeen, MarkSiblings, Abort

\* What a command knows stays true whatever happens.
LEMMA KnownStays ==
  ASSUME IInv, [Next]_vars, NEW c \in Caller, Keeps(c), at[c] # "out", id[c] \notin reused'
  PROVE  /\ id'[c] \in DOMAIN rows' => rows'[id'[c]].msg = chosen'[c]
         /\ at[c] # "locate" =>
              /\ Names(loc[c].folder, loc[c].uid, chosen[c])'
              /\ id'[c] \in DOMAIN rows' =>
                   rows'[id'[c]].folder = loc'[c].folder /\ rows'[id'[c]].uid = loc'[c].uid
              /\ ~OnServer(c) => ~OnServer(c)'
  <1>1. Types /\ HeldInv /\ Holds(c) /\ ServerTypes /\ CommandTypes
    BY DEF IInv, Types
  <1>2. ServerTypes' /\ UidsKept /\ RowsKept /\ id[c] \notin reused
    BY <1>1, ServerStep, RowsStep, MarkedStay
  <1>3. \A f \in Folder, u \in Nat : \A m : Names(f, u, m) =>
          u < uidNext'[f] /\ (u \in DOMAIN box'[f] => box'[f][u] = m)
    BY <1>1, <1>2, NamesKept
  <1>4. ASSUME id[c] \in DOMAIN rows'
        PROVE  /\ id[c] \in DOMAIN rows /\ rows'[id[c]].msg = rows[id[c]].msg
               /\ rows'[id[c]].folder = rows[id[c]].folder /\ rows'[id[c]].uid = rows[id[c]].uid
    BY <1>2, <1>4 DEF RowsKept
  <1>5. id[c] \in DOMAIN rows' => rows'[id[c]].msg = chosen[c]
    BY <1>1, <1>2, <1>4 DEF Holds
  <1>6. ASSUME at[c] # "locate"
        PROVE  /\ Names(loc[c].folder, loc[c].uid, chosen[c])'
               /\ id[c] \in DOMAIN rows' =>
                    rows'[id[c]].folder = loc[c].folder /\ rows'[id[c]].uid = loc[c].uid
               /\ ~OnServer(c) => ~OnServer(c)'
    <2>1. Names(loc[c].folder, loc[c].uid, chosen[c])
      BY <1>1, <1>2, <1>6 DEF Holds
    <2>2. loc[c].folder \in Folder /\ loc[c].uid \in Nat
      BY <1>1, <1>6 DEF CommandTypes, Located, Place
    <2>3. loc'[c] = loc[c] /\ chosen'[c] = chosen[c]
      BY DEF Keeps
    <2>4. Names(loc[c].folder, loc[c].uid, chosen[c])'
      BY <1>3, <2>1, <2>2, <2>3 DEF Names
    <2>5. ~OnServer(c) => ~OnServer(c)'
      BY <1>2, <2>1, <2>2, <2>3 DEF OnServer, Names, UidsKept
    <2>6. QED
      BY <1>1, <1>2, <1>4, <1>6, <2>4, <2>5 DEF Holds
  <1>7. QED
    BY <1>5, <1>6 DEF Keeps

LEMMA ElsewhereHolds ==
  ASSUME IInv, [Next]_vars, NEW c \in Caller, Elsewhere(c)
  PROVE  Holds(c)'
  <1> SUFFICES ASSUME at[c] # "out", id[c] \notin reused' PROVE Holds(c)'
    BY DEF Holds, Elsewhere, Keeps
  <1>1. Holds(c) /\ id[c] \notin reused
    BY MarkedStay DEF IInv
  <1>2. Keeps(c) /\ at'[c] = at[c] /\ fetched'[c] = fetched[c]
    BY DEF Elsewhere
  <1>3. at[c] = "remove" => ~OnServer(c)'
    BY <1>1, <1>2, KnownStays DEF Holds
  <1>4. at[c] = "cache" => fetched'[c] = chosen'[c]
    BY <1>1, <1>2 DEF Holds, Keeps
  <1>5. QED
    BY <1>2, <1>3, <1>4, KnownStays DEF Holds

\* A command's own steps.
LEMMA OwnStepHolds ==
  ASSUME IInv, [Next]_vars, NEW c \in Caller,
         \/ \E o \in Op, i \in DOMAIN rows : Command(c, o, i)
         \/ Proceed(c) \/ Abort(c)
  PROVE  Holds(c)'
  <1>1. Types /\ RowInv /\ HeldInv /\ Holds(c) /\ ServerTypes /\ StoreTypes /\ CommandTypes
    BY DEF IInv, Types
  <1>2. CASE Return(c)
    BY <1>1, <1>2 DEF Return, Goto, CommandTypes, Holds
  <1>3. ASSUME NEW o \in Op, NEW i \in DOMAIN rows, Command(c, o, i)
        PROVE  Holds(c)'
    BY <1>1, <1>3 DEF Command, Goto, CommandTypes, Holds
  <1>4. CASE Locate(c) /\ ~Settled(c)
    <2>1. /\ at[c] = "locate" /\ at'[c] = "server" /\ UNCHANGED <<rows, box, uidNext, id, chosen, reused>>
          /\ loc'[c] = [folder |-> rows[id[c]].folder, uid |-> rows[id[c]].uid]
      BY <1>1, <1>4 DEF Locate, Goto, Row, CommandTypes
    <2>2. id[c] \in DOMAIN rows
      BY <1>4 DEF Settled, HasRow
    <2>3. Names(rows[id[c]].folder, rows[id[c]].uid, rows[id[c]].msg)
      BY <1>1, <2>2 DEF RowInv
    <2>4. loc'[c].folder = rows[id[c]].folder /\ loc'[c].uid = rows[id[c]].uid
      BY <2>1
    <2>5. id[c] \notin reused => chosen[c] = rows[id[c]].msg
      BY <1>1, <2>1, <2>2 DEF Holds
    <2>6. id[c] \notin reused => Names(loc[c].folder, loc[c].uid, chosen[c])'
      BY <2>1, <2>3, <2>4, <2>5 DEF Names
    <2>7. QED
      BY <2>1, <2>4, <2>5, <2>6 DEF Holds
  <1>5. ASSUME Keeps(c), at[c] \notin {"out", "locate"}, at'[c] \notin {"out", "locate"},
               at'[c] = "remove" => ~OnServer(c)',
               at'[c] = "cache" => id[c] \in reused \/ fetched'[c] = chosen'[c]
        PROVE  Holds(c)'
    <2> SUFFICES ASSUME id[c] \notin reused' PROVE Holds(c)'
      BY <1>5 DEF Holds, Keeps
    <2>1. id[c] \notin reused
      BY MarkedStay
    <2>2. QED
      BY <1>5, <2>1, KnownStays DEF Holds
  <1>6. CASE StoreFlag(c)
    BY <1>1, <1>5, <1>6 DEF StoreFlag, Goto, CommandTypes, Keeps
  <1>7. CASE MarkSeen(c)
    BY <1>1, <1>5, <1>7 DEF MarkSeen, Goto, CommandTypes, Keeps
  <1>8. CASE MoveMessage(c)
    <2>1. loc[c].uid \notin DOMAIN box'[loc[c].folder]
      BY <1>1, <1>8, Transfer DEF MoveMessage
    <2>2. ~OnServer(c)'
      BY <1>8, <2>1 DEF MoveMessage, OnServer
    <2>3. QED
      BY <1>1, <1>5, <1>8, <2>2 DEF MoveMessage, Goto, CommandTypes, Keeps
  <1>9. CASE DeletePermanently(c)
    <2>1. loc[c].folder \in Folder
      BY <1>1, <1>9 DEF DeletePermanently, CommandTypes, Located, Place
    <2>2. DOMAIN box'[loc[c].folder] = DOMAIN box[loc[c].folder] \ Expunged(c)
      BY <1>1, <1>9, <2>1, Leaves DEF DeletePermanently
    <2>3. ~OnServer(c)'
      BY <1>9, <2>2, GoneHasOwn DEF DeletePermanently, OnServer
    <2>4. QED
      BY <1>1, <1>5, <1>9, <2>3 DEF DeletePermanently, Goto, CommandTypes, Keeps
  <1>10. CASE FetchBody(c) /\ OnServer(c)
    <2>1. id[c] \notin reused => Found(c) = chosen[c]
      BY <1>1, <1>10 DEF FetchBody, Holds, Names, OnServer, Found
    <2>2. /\ at[c] = "server" /\ at'[c] = "cache" /\ fetched'[c] = Found(c) /\ Keeps(c)
      BY <1>1, <1>10 DEF FetchBody, Return, Goto, CommandTypes, Keeps
    <2>3. QED
      BY <1>5, <2>1, <2>2 DEF Keeps
  <1>11. CASE Abort(c)
    BY <1>2, <1>11 DEF Abort
  <1>12. CASE Proceed(c)
    BY <1>2, <1>4, <1>6, <1>7, <1>8, <1>9, <1>10, <1>12 DEF Proceed, Locate, FetchBody,
       CacheBody, RemoveMessage, MarkSiblings
  <1>13. QED
    BY <1>3, <1>11, <1>12

LEMMA HoldsStep == IInv /\ [Next]_vars => (\A c \in Caller : Holds(c))'
  <1> SUFFICES ASSUME IInv, [Next]_vars, NEW c \in Caller PROVE Holds(c)'
    OBVIOUS
  <1>1. CASE UNCHANGED commandVars
    BY <1>1, ElsewhereHolds DEF Elsewhere, Keeps
  <1>2. ASSUME NEW d \in Caller, d # c,
               \/ \E o \in Op, i \in DOMAIN rows : Command(d, o, i)
               \/ Proceed(d) \/ Abort(d)
        PROVE  Holds(c)'
    <2>1. CommandTypes
      BY DEF IInv, Types
    <2>2. Elsewhere(c)
      BY <1>2, <2>1 DEF Proceed, Command, Locate, StoreFlag, MoveMessage, DeletePermanently,
         FetchBody, CacheBody, RemoveMessage, MarkSeen, MarkSiblings, Abort, Return, Goto,
         CommandTypes, Elsewhere, Keeps
    <2>3. QED
      BY <2>2, ElsewhereHolds
  <1>3. QED
    BY <1>1, <1>2, OwnStepHolds DEF Next, SyncStep, SyncStatus, SyncCounts, SyncFetch, SyncStore,
       PrefetchFetch, PrefetchCache, Arrive, OtherClient

\* A body is written to a row of its message.
LEMMA BodyStep == IInv /\ [Next]_vars => BodyIsTheRowsOwn'
  <1> SUFFICES ASSUME IInv, [Next]_vars PROVE BodyIsTheRowsOwn'
    OBVIOUS
  <1>1. /\ Types /\ HeldInv /\ StoreTypes /\ SyncTypes /\ CommandTypes /\ BodyIsTheRowsOwn
        /\ reused \subseteq reused'
    BY MarkedStay DEF IInv, Types
  <1>2. CASE SyncStore
    BY <1>1, <1>2, Stores DEF BodyIsTheRowsOwn
  <1>3. ASSUME NEW i, NEW m \in Msg \union {NoMsg}, rows' = WithBody(i, m) \/ rows' = WithBodyOnly(i, m),
               i \in DOMAIN rows \ reused => rows[i].msg = m
        PROVE  BodyIsTheRowsOwn'
    <2>1. /\ DOMAIN rows' = DOMAIN rows
          /\ \A j \in DOMAIN rows : /\ rows'[j].msg = rows[j].msg
                                    /\ rows'[j].body = IF j = i THEN m ELSE rows[j].body
      BY <1>1, <1>3, Writes
    <2>2. QED
      BY <1>1, <1>3, <2>1 DEF BodyIsTheRowsOwn
  <1>4. CASE OnlySeen
    BY <1>1, <1>4 DEF OnlySeen, BodyIsTheRowsOwn
  <1>5. CASE UNCHANGED rows
    BY <1>1, <1>5 DEF BodyIsTheRowsOwn
  <1>6. CASE PrefetchCache
    <2>1. prefetch.msg \in Msg \union {NoMsg}
      BY <1>1, <1>6 DEF PrefetchCache, SyncTypes
    <2>2. rows' = WithBody(prefetch.id, prefetch.msg) \/ rows' = WithBodyOnly(prefetch.id, prefetch.msg)
      BY <1>6 DEF PrefetchCache
    <2>3. prefetch.id \in DOMAIN rows => rows[prefetch.id].msg = prefetch.msg
      BY <1>1, <1>6 DEF PrefetchCache, HeldInv
    <2>4. QED
      BY <1>3, <2>1, <2>2, <2>3
  <1>7. ASSUME NEW c \in Caller, at[c] = "cache",
               rows' = WithBody(id[c], fetched[c]) \/ rows' = WithBodyOnly(id[c], fetched[c])
        PROVE  BodyIsTheRowsOwn'
    <2>1. id[c] \in DOMAIN rows \ reused => rows[id[c]].msg = fetched[c]
      BY <1>7 DEF IInv, Holds
    <2>2. fetched[c] \in Msg \union {NoMsg}
      BY <1>1 DEF CommandTypes
    <2>3. QED
      BY <1>3, <1>7, <2>1, <2>2
  <1>8. ASSUME NEW c \in Caller, RemoveMessage(c)
        PROVE  BodyIsTheRowsOwn'
    <2>1. CASE rows' = Dropped(c)
      <3>1. /\ DOMAIN Without(rows, {id[c]}) = DOMAIN rows \ {id[c]}
            /\ \A x \in DOMAIN rows \ {id[c]} : Without(rows, {id[c]})[x] = rows[x]
        BY WithoutMeans
      <3>2. DOMAIN rows' = DOMAIN rows \ {id[c]} /\ \A x \in DOMAIN rows' : rows'[x] = rows[x]
        BY <2>1, <3>1 DEF Dropped
      <3>3. QED
        BY <1>1, <3>2 DEF BodyIsTheRowsOwn
    <2>2. QED
      BY <1>5, <1>8, <2>1 DEF RemoveMessage
  <1>9. ASSUME NEW c \in Caller, CacheBody(c) \/ Abort(c)
        PROVE  BodyIsTheRowsOwn'
    BY <1>5, <1>7, <1>9 DEF CacheBody, Abort
  <1>10. ASSUME NEW c \in Caller, MarkSeen(c) \/ MarkSiblings(c)
         PROVE  BodyIsTheRowsOwn'
    BY <1>1, <1>4, <1>10, MarkSeenMeans, MarkSiblingsMeans
  <1>11. QED
    BY <1>2, <1>5, <1>6, <1>8, <1>9, <1>10 DEF Next, SyncStep, Arrive, OtherClient,
       SyncStatus, SyncCounts, SyncFetch, PrefetchFetch, Command, Proceed, Locate, StoreFlag,
       MoveMessage, DeletePermanently, FetchBody

LEMMA InductiveStep == IInv /\ [Next]_vars => IInv'
  <1> SUFFICES ASSUME IInv, [Next]_vars PROVE IInv'
    OBVIOUS
  <1>1. Types'
    BY TypesStep DEF IInv
  <1>2. QED
    BY <1>1, RowStep, HeldStep, HoldsStep, BodyStep DEF IInv

LEMMA InductiveInit == Init => IInv
  <1> SUFFICES ASSUME Init PROVE IInv
    OBVIOUS
  <1>1. DOMAIN Empty = {}
    BY DEF Empty
  <1>2. ServerTypes
    <2>1. caps \subseteq {"MOVE", "UIDPLUS"} /\ header \in [Msg -> Msg \union {NoMsg}]
      BY Constants DEF Init
    <2>2. QED
      BY <1>1, <2>1, Constants DEF Init, ServerTypes, Folder
  <1>3. StoreTypes
    <2>1. DOMAIN rows = {}
      BY <1>1 DEF Init
    <2>2. DOMAIN rows \subseteq 1..0
      BY <2>1
    <2>3. total \in [Folder -> Nat] /\ unread \in [Folder -> Nat]
      BY DEF Init
    <2>4. QED
      BY <2>1, <2>2, <2>3 DEF StoreTypes
  <1>4. SyncTypes
    BY <1>1 DEF Init, SyncTypes, Folder
  <1>5. CommandTypes
    <2>1. wasSeen \in [Caller -> BOOLEAN]
      BY DEF Init
    <2>2. QED
      BY <2>1 DEF Init, CommandTypes
  <1>6. RowInv /\ HeldInv /\ BodyIsTheRowsOwn
    BY <1>1 DEF Init, RowInv, HeldInv, BodyIsTheRowsOwn
  <1>7. \A c \in Caller : Holds(c)
    BY DEF Init, Holds
  <1>8. QED
    BY <1>2, <1>3, <1>4, <1>5, <1>6, <1>7 DEF IInv, Types

\* A row vanishes with its message, unless its id was given away.
LEMMA Vanishes ==
  ASSUME IInv, Next, NEW i \in DOMAIN rows, i \notin DOMAIN rows', i \notin reused
  PROVE  rows[i].uid \notin DOMAIN box[rows[i].folder]
  <1>1. Types /\ HeldInv /\ StoreTypes /\ SyncTypes /\ CommandTypes
    BY DEF IInv, Types
  <1>2. ASSUME NEW c \in Caller, RemoveMessage(c)
        PROVE  rows[i].uid \notin DOMAIN box[rows[i].folder]
    <2>1. HasRow(c) /\ rows' = Dropped(c)
      BY <1>2 DEF RemoveMessage
    <2>2. DOMAIN Without(rows, {id[c]}) = DOMAIN rows \ {id[c]}
      BY WithoutMeans
    <2>3. i = id[c]
      BY <2>1, <2>2 DEF Dropped
    <2>4. /\ at[c] = "remove" /\ ~OnServer(c)
          /\ rows[i].folder = loc[c].folder /\ rows[i].uid = loc[c].uid
      BY <1>2, <2>3 DEF RemoveMessage, IInv, Holds
    <2>5. QED
      BY <2>4 DEF OnServer
  <1>3. CASE SyncStore
    BY <1>1, <1>3, Stores
  <1>4. ASSUME NEW j, NEW m \in Msg \union {NoMsg}, rows' = WithBody(j, m) \/ rows' = WithBodyOnly(j, m)
        PROVE  FALSE
    BY <1>1, <1>4, Writes
  <1>5. CASE PrefetchCache
    BY <1>1, <1>4, <1>5 DEF PrefetchCache, SyncTypes
  <1>6. ASSUME NEW c \in Caller, CacheBody(c) \/ Abort(c)
        PROVE  FALSE
    BY <1>1, <1>4, <1>6 DEF CacheBody, Abort, CommandTypes
  <1>7. ASSUME NEW c \in Caller, MarkSeen(c) \/ MarkSiblings(c)
        PROVE  FALSE
    BY <1>1, <1>7, MarkSeenMeans, MarkSiblingsMeans DEF OnlySeen
  <1>8. QED
    BY <1>2, <1>3, <1>5, <1>6, <1>7 DEF Next, SyncStep, Arrive, OtherClient, SyncStatus,
       SyncCounts, SyncFetch, PrefetchFetch, Command, Proceed, Locate, StoreFlag,
       MoveMessage, DeletePermanently, FetchBody

-----------------------------------------------------------------------------
(* Cached flags: the inductive invariant of SeenAgrees *)

\* A message whose flag is promised.
Trusted(m) == m \notin blurred \union foreign

\* A command that marks is past no other step than its own, and has a message; once it
\* marked, nothing is promised of the messages that its mark sends astray.
MarkerInv ==
  \A c \in Caller :
    /\ at[c] \in {"seen", "siblings"} => op[c] \in Marks /\ Astray(chosen[c]) \subseteq blurred
    /\ op[c] \in Marks =>
         /\ at[c] \in {"locate", "server", "seen", "siblings"} /\ chosen[c] \in Msg
         /\ at[c] # "locate" => target[c] = "none"

\* Nothing is about a message that has yet to arrive.
ArrivedInv ==
  /\ \A f \in Folder : \A u \in DOMAIN box[f] : box[f][u] \in 1..arrived
  /\ \A i \in DOMAIN rows : rows[i].msg \in 1..arrived
  /\ syncAt = "store" => \A u \in DOMAIN batch : batch[u].msg \in 1..arrived
  /\ \A c \in Caller : chosen[c] \in Msg => chosen[c] \in 1..arrived

\* No UID of a folder has two rows, and what is fetched lies above all of them.
PlaceInv ==
  /\ \A i, j \in DOMAIN rows : rows[i].folder = rows[j].folder /\ rows[i].uid = rows[j].uid => i = j
  /\ syncAt = "store" =>
       \A u \in DOMAIN batch, i \in DOMAIN rows : rows[i].folder = syncFolder => rows[i].uid < u

\* A command that marks a message whose flag is promised is alone with it, and
\* its row stays.
AloneInv ==
  /\ \A c, d \in Caller : c # d /\ op[c] \in Marks /\ chosen[d] = chosen[c] => chosen[c] \in blurred
  /\ reused = {} => \A c \in Caller : op[c] \in Marks /\ Trusted(chosen[c]) => id[c] \in DOMAIN rows

\* The copy that the command marks, on Gmail all of them.
MarkedCopy(c, f, u) ==
  /\ u \in DOMAIN box[f] /\ box[f][u] = chosen[c]
  /\ gmail \/ loc[c] = [folder |-> f, uid |-> u]

\* Until it returns, the server has the flag the command gave.
GivenInv ==
  reused = {} =>
    \A c \in Caller : at[c] \in {"seen", "siblings"} /\ Trusted(chosen[c]) =>
      \A f \in Folder, u \in Nat : MarkedCopy(c, f, u) => (<<f, u>> \in serverSeen <=> op[c] = "read")

\* The envelopes under way have the server's flags.
BatchInv ==
  syncAt = "store" /\ reused = {} =>
    \A u \in DOMAIN batch : u \in DOMAIN box[syncFolder] /\ Trusted(batch[u].msg) =>
      (batch[u].seen <=> <<syncFolder, u>> \in serverSeen)

\* The command has yet to mark row i: its own, then on Gmail the siblings.
Pending(c, i) ==
  /\ chosen[c] = rows[i].msg
  /\ \/ at[c] = "seen" /\ (gmail \/ i = id[c])
     \/ at[c] = "siblings" /\ gmail /\ i # id[c]

\* A row's flag is the server's, or a command has yet to mark it.
AgreeInv ==
  reused = {} =>
    \A i \in DOMAIN rows :
      rows[i].uid \in DOMAIN box[rows[i].folder] /\ Trusted(rows[i].msg) =>
        \/ rows[i].seen <=> <<rows[i].folder, rows[i].uid>> \in serverSeen
        \/ \E c \in Caller : Pending(c, i)

SInv == /\ IInv /\ MarkerInv /\ ArrivedInv /\ PlaceInv /\ AloneInv
        /\ GivenInv /\ BatchInv /\ AgreeInv

-----------------------------------------------------------------------------
(* Cached flags: what a step does to the server *)

\* A UID keeps its flag, save when a command or another client marks its
\* message; a new UID has a new message or one that a command moves.
Serves ==
  \A f \in Folder : \A u \in DOMAIN box'[f] :
    \/ /\ u \in DOMAIN box[f] /\ box'[f][u] = box[f][u]
       /\ \/ <<f, u>> \in serverSeen' <=> <<f, u>> \in serverSeen
          \/ box[f][u] \in foreign'
          \/ \E c \in Caller : StoreFlag(c) /\ OnServer(c) /\ <<f, u>> \in FoundCopies(c)
    \/ /\ u = uidNext[f]
       /\ \/ box'[f][u] = arrived + 1 /\ arrived' = arrived + 1
          \/ \E c \in Caller : /\ at[c] = "server" /\ target[c] # "none" /\ OnServer(c)
                               /\ box'[f][u] = Found(c)

\* A mailbox whose flags are kept.
LEMMA FlaggedInKeeps ==
  ASSUME NEW S, NEW b, NEW f \in Folder, NEW u \in DOMAIN box'[f], u \in DOMAIN box[f]
  PROVE  <<f, u>> \in FlaggedIn(S, box', b) <=> <<f, u>> \in S
  <1> DEFINE new == UNION {{g} \X (DOMAIN box'[g] \ DOMAIN box[g]) : g \in Folder}
             old == {p \in S : p[2] \in DOMAIN box'[p[1]]}
  <1>1. <<f, u>> \notin new
    OBVIOUS
  <1>2. <<f, u>> \in old <=> <<f, u>> \in S
    OBVIOUS
  <1>3. FlaggedIn(S, box', b) = old \union IF b THEN new ELSE {}
    BY DEF FlaggedIn
  <1> HIDE DEF new, old
  <1>4. QED
    BY <1>1, <1>2, <1>3

\* MOVE and COPY: what is new is the command's message.
LEMMA TransferBrings ==
  ASSUME Types, NEW c \in Caller, at[c] = "server", target[c] # "none",
         box' = Moved(c) \/ box' = Copied(c), NEW f \in Folder, NEW u \in DOMAIN box'[f]
  PROVE  \/ u \in DOMAIN box[f] /\ box'[f][u] = box[f][u]
         \/ u = uidNext[f] /\ f = target[c] /\ OnServer(c) /\ box'[f][u] = Found(c)
  <1> DEFINE s == loc[c].folder  t == target[c]
  <1>1. ServerTypes /\ CommandTypes
    BY DEF Types
  <1>2. /\ s \in Folder /\ t \in Folder /\ t # s
        /\ \A g \in Folder : g # t => Copied(c)[g] = box[g]
        /\ \A g \in Folder : g # s => Moved(c)[g] = Copied(c)[g]
        /\ OnServer(c) => Copied(c)[t] = Enters(box, t, Found(c))
        /\ ~OnServer(c) => Copied(c) = box
        /\ DOMAIN Moved(c)[s] = DOMAIN box[s] \ Gone(c)
        /\ \A v \in DOMAIN Moved(c)[s] : Moved(c)[s][v] = box[s][v]
    BY <1>1, TransferMeans
  <1>3. CASE f = t
    <2>1. box'[f] = Copied(c)[t]
      BY <1>2, <1>3
    <2>2. CASE OnServer(c)
      BY <1>2, <1>3, <2>1, <2>2, EntersMeans
    <2>3. CASE ~OnServer(c)
      BY <1>2, <1>3, <2>1, <2>3
    <2>4. QED
      BY <2>2, <2>3
  <1>4. CASE f = s
    BY <1>2, <1>4
  <1>5. CASE f # s /\ f # t
    BY <1>2, <1>5
  <1>6. QED
    BY <1>3, <1>4, <1>5

LEMMA TransferServes ==
  ASSUME Types, NEW c \in Caller, at[c] = "server", target[c] # "none",
         box' = Moved(c) \/ box' = Copied(c), serverSeen' = FlaggedIn(serverSeen, box', FoundSeen(c))
  PROVE  Serves
  <1>1. SUFFICES ASSUME NEW f \in Folder, NEW u \in DOMAIN box'[f]
                 PROVE  \/ /\ u \in DOMAIN box[f] /\ box'[f][u] = box[f][u]
                           /\ <<f, u>> \in serverSeen' <=> <<f, u>> \in serverSeen
                        \/ u = uidNext[f] /\ OnServer(c) /\ box'[f][u] = Found(c)
    BY DEF Serves
  <1>2. CASE u \in DOMAIN box[f] /\ box'[f][u] = box[f][u]
    <2>1. <<f, u>> \in serverSeen' <=> <<f, u>> \in serverSeen
      BY <1>2, FlaggedInKeeps
    <2>2. QED
      BY <1>2, <2>1
  <1>3. QED
    BY <1>2, TransferBrings

\* Messages leave a folder.
LEMMA LeavesOnly ==
  ASSUME ServerTypes, NEW f \in Folder, NEW S, box' = [box EXCEPT ![f] = Without(@, S)],
         NEW g \in Folder, NEW u \in DOMAIN box'[g]
  PROVE  u \in DOMAIN box[g] /\ box'[g][u] = box[g][u]
  <1> DEFINE h == box[f]
  <1>1. DOMAIN Without(h, S) = DOMAIN h \ S /\ \A x \in DOMAIN h \ S : Without(h, S)[x] = h[x]
    BY WithoutMeans
  <1>2. box'[g] = IF g = f THEN Without(h, S) ELSE box[g]
    BY DEF ServerTypes
  <1> HIDE DEF h
  <1>3. CASE g = f
    <2>1. u \in DOMAIN h /\ box'[g][u] = h[u]
      BY <1>1, <1>2, <1>3
    <2>2. QED
      BY <1>3, <2>1 DEF h
  <1>4. QED
    BY <1>2, <1>3

LEMMA LeavesServes ==
  ASSUME ServerTypes, NEW f \in Folder, NEW S,
         box' = [box EXCEPT ![f] = Without(@, S)], serverSeen' = FlaggedIn(serverSeen, box', FALSE)
  PROVE  Serves
  <1>1. SUFFICES ASSUME NEW g \in Folder, NEW u \in DOMAIN box'[g]
                 PROVE  /\ u \in DOMAIN box[g] /\ box'[g][u] = box[g][u]
                        /\ <<g, u>> \in serverSeen' <=> <<g, u>> \in serverSeen
    BY DEF Serves
  <1>2. u \in DOMAIN box[g] /\ box'[g][u] = box[g][u]
    BY LeavesOnly
  <1>3. QED
    BY <1>2, FlaggedInKeeps

LEMMA CopiesMean ==
  ASSUME ServerTypes, NEW f \in Folder, NEW u \in DOMAIN box[f],
         NEW g \in Folder, NEW v \in DOMAIN box[g]
  PROVE  <<g, v>> \in Copies(f, u) <=>
           (g = f /\ v = u) \/ (gmail /\ box[g][v] = box[f][u])
  <1>1. <<g, v>> \in UNION {{h} \X DOMAIN box[h] : h \in Folder}
    OBVIOUS
  <1>2. QED
    BY <1>1 DEF Copies

LEMMA ServesStep == IInv /\ [Next]_vars => Serves
  <1> SUFFICES ASSUME IInv, [Next]_vars PROVE Serves
    OBVIOUS
  <1>1. Types /\ ServerTypes /\ CommandTypes
    BY DEF IInv, Types
  <1>2. CASE Arrive
    <2>1. PICK into \in IF gmail THEN {Folder, {"other"}} ELSE {{f} : f \in Folder} :
            box' = [f \in Folder |->
                      IF f \in into THEN Enters(box, f, arrived + 1) ELSE box[f]]
      BY <1>2 DEF Arrive
    <2>2. ASSUME NEW f \in Folder, NEW u \in DOMAIN box'[f]
          PROVE  \/ u \in DOMAIN box[f] /\ box'[f][u] = box[f][u]
                 \/ u = uidNext[f] /\ box'[f][u] = arrived + 1
      BY <2>1, <2>2, EntersMeans
    <2>3. QED
      BY <1>2, <2>2 DEF Arrive, Serves
  <1>3. CASE OtherClient
    <2>1. CASE /\ \E f \in Folder : \E u \in DOMAIN box[f] :
                    box' = [box EXCEPT ![f] = Without(@, {u})]
               /\ serverSeen' = FlaggedIn(serverSeen, box', FALSE)
      BY <1>1, <2>1, LeavesServes
    <2>2. ASSUME NEW f \in Folder, NEW u \in DOMAIN box[f], box' = box,
                 serverSeen' = IF <<f, u>> \in serverSeen THEN serverSeen \ Copies(f, u)
                                                          ELSE serverSeen \union Copies(f, u),
                 foreign' = foreign \union {box[f][u]}
          PROVE  Serves
      <3>1. SUFFICES ASSUME NEW g \in Folder, NEW v \in DOMAIN box[g]
                     PROVE  \/ <<g, v>> \in serverSeen' <=> <<g, v>> \in serverSeen
                            \/ box[g][v] \in foreign'
        BY <2>2 DEF Serves
      <3>2. CASE <<g, v>> \in Copies(f, u)
        <4>1. box[g][v] = box[f][u]
          BY <1>1, <3>2, CopiesMean
        <4>2. QED
          BY <2>2, <4>1
      <3>3. CASE <<g, v>> \notin Copies(f, u)
        BY <2>2, <3>3
      <3>4. QED
        BY <3>2, <3>3
    <2>3. CASE UNCHANGED <<box, serverSeen>>
      BY <2>3 DEF Serves
    <2>4. QED
      BY <1>3, <2>1, <2>2, <2>3 DEF OtherClient
  <1>4. ASSUME NEW c \in Caller, StoreFlag(c)
        PROVE  Serves
    BY <1>4 DEF StoreFlag, Serves
  <1>5. ASSUME NEW c \in Caller, MoveMessage(c)
        PROVE  Serves
    BY <1>1, <1>5, TransferServes DEF MoveMessage
  <1>6. ASSUME NEW c \in Caller, DeletePermanently(c)
        PROVE  Serves
    <2>1. loc[c].folder \in Folder
      BY <1>1, <1>6 DEF DeletePermanently, CommandTypes, Located, Place
    <2>2. QED
      BY <1>1, <1>6, <2>1, LeavesServes DEF DeletePermanently
  <1>7. CASE UNCHANGED <<box, serverSeen>>
    BY <1>7 DEF Serves
  <1>8. ASSUME NEW c \in Caller, Abort(c)
        PROVE  Serves
    BY <1>1, <1>7, <1>8, TransferServes DEF Abort
  <1>9. QED
    BY <1>2, <1>3, <1>4, <1>5, <1>6, <1>7, <1>8 DEF Next, SyncStep, SyncStatus, SyncCounts,
       SyncFetch, SyncStore, PrefetchFetch, PrefetchCache, Command, Proceed, Locate, FetchBody,
       CacheBody, RemoveMessage, MarkSeen, MarkSiblings

-----------------------------------------------------------------------------
(* Cached flags: what a step does to the rows *)

\* A row keeps its place, its message and its flag, save the flag that a command
\* marks; a new row is an envelope of the batch.
RowFlags ==
  \A i \in DOMAIN rows' :
    \/ /\ i \in DOMAIN rows
       /\ rows'[i].folder = rows[i].folder /\ rows'[i].uid = rows[i].uid
       /\ rows'[i].msg = rows[i].msg
       /\ \/ rows'[i].seen = rows[i].seen
          \/ \E c \in Caller : /\ (MarkSeen(c) /\ i = id[c]) \/ (MarkSiblings(c) /\ i \in Siblings(c))
                               /\ rows'[i].seen <=> op[c] = "read"
    \/ /\ i \notin DOMAIN rows /\ SyncStore /\ rows'[i].folder = syncFolder
       /\ \E u \in DOMAIN batch :
            rows'[i].uid = u /\ rows'[i].msg = batch[u].msg /\ rows'[i].seen = batch[u].seen

\* The command's own row gets the flag.
LEMMA MarkSeenFlags ==
  ASSUME StoreTypes, NEW c \in Caller, MarkSeen(c)
  PROVE  /\ \A i \in DOMAIN rows : i # id[c] => rows'[i] = rows[i]
         /\ HasRow(c) => (rows'[id[c]].seen <=> op[c] = "read")
  <1> DEFINE b == (op[c] = "read")
             r == rows[id[c]]
             q == [r EXCEPT !.seen = b]
  <1>1. b \in BOOLEAN
    BY Zenon
  <1>2. \/ HasRow(c) /\ rows' = [rows EXCEPT ![id[c]].seen = b]
        \/ rows' = rows /\ ~(HasRow(c) /\ Row(c).seen # b)
    BY Zenon DEF MarkSeen
  <1>3. CASE HasRow(c) /\ rows' = [rows EXCEPT ![id[c]].seen = b]
    <2>1. /\ DOMAIN rows' = DOMAIN rows
          /\ \A i \in DOMAIN rows : rows'[i] = IF i = id[c] THEN q ELSE rows[i]
      BY <1>3 DEF HasRow
    <2>2. r \in RowType
      BY <1>3 DEF HasRow, StoreTypes
    <2> HIDE DEF b
    <2>3. q.seen = b
      BY <1>1, <2>2 DEF RowType
    <2>4. rows'[id[c]].seen = b
      BY <1>3, <2>1, <2>3 DEF HasRow
    <2>5. HasRow(c) => (rows'[id[c]].seen <=> op[c] = "read")
      BY <2>4, Zenon DEF b
    <2> HIDE DEF q
    <2>6. QED
      BY <2>1, <2>5
  <1>4. CASE rows' = rows /\ ~(HasRow(c) /\ Row(c).seen # b)
    <2>1. HasRow(c) => rows'[id[c]].seen = b
      BY <1>4, Zenon DEF Row
    <2>2. QED
      BY <1>4, <2>1, Zenon DEF b
  <1>5. QED
    BY <1>2, <1>3, <1>4

\* On Gmail the other rows of its message do, if it has a Message-ID.
LEMMA MarkSiblingsFlags ==
  ASSUME StoreTypes, NEW c \in Caller, MarkSiblings(c)
  PROVE  /\ \A i \in DOMAIN rows : i \notin Siblings(c) => rows'[i] = rows[i]
         /\ \A i \in Siblings(c) : rows'[i].seen <=> op[c] = "read"
         /\ gmail /\ HasRow(c) /\ header[Row(c).msg] # NoMsg =>
              \A i \in DOMAIN rows \ {id[c]} :
                rows[i].msg = Row(c).msg => (rows'[i].seen <=> op[c] = "read")
  <1> DEFINE b == (op[c] = "read")
             S == Siblings(c)
             q(i) == [rows[i] EXCEPT !.seen = b]
  <1>1. b \in BOOLEAN
    BY Zenon
  <1>2. /\ DOMAIN rows' = DOMAIN rows
        /\ \A i \in DOMAIN rows : rows'[i] = IF i \in S THEN q(i) ELSE rows[i]
    BY DEF MarkSiblings
  <1>3. S \subseteq DOMAIN rows
    BY DEF Siblings
  <1>4. ASSUME NEW i \in S
        PROVE  rows'[i].seen <=> op[c] = "read"
    <2>1. rows[i] \in RowType /\ rows'[i] = q(i)
      BY <1>2, <1>3 DEF StoreTypes
    <2> HIDE DEF b
    <2>2. q(i).seen = b
      BY <1>1, <2>1 DEF RowType
    <2>3. rows'[i].seen = b
      BY <2>1, <2>2
    <2>4. QED
      BY <2>3, Zenon DEF b
  <1>5. ASSUME gmail, HasRow(c), header[Row(c).msg] # NoMsg, NEW i \in DOMAIN rows \ {id[c]}, rows[i].msg = Row(c).msg
        PROVE  rows'[i].seen <=> op[c] = "read"
    <2>1. CASE i \in S
      BY <1>4, <2>1
    <2>2. CASE i \notin S
      <3>1. rows[i].seen = b
        BY <1>5, <2>2, Zenon DEF Siblings
      <3>2. rows'[i] = rows[i]
        BY <1>2, <2>2
      <3>3. QED
        BY <3>1, <3>2, Zenon DEF b
    <2>3. QED
      BY <2>1, <2>2
  <1> HIDE DEF q
  <1>6. QED
    BY <1>2, <1>4, <1>5

LEMMA RowFlagsStep == IInv /\ [Next]_vars => RowFlags
  <1> SUFFICES ASSUME IInv, [Next]_vars PROVE RowFlags
    OBVIOUS
  <1>1. Types /\ HeldInv /\ StoreTypes /\ CommandTypes /\ SyncTypes
    BY DEF IInv, Types
  <1>2. CASE SyncStore
    <2>1. \A i \in DOMAIN rows : rows'[i] = rows[i]
      BY <1>1, <1>2, Stores
    <2>2. \A i \in DOMAIN rows' \ DOMAIN rows : \E u \in DOMAIN batch :
            /\ rows'[i].folder = syncFolder /\ rows'[i].uid = u /\ rows'[i].msg = batch[u].msg
            /\ rows'[i].seen = batch[u].seen
      BY <1>1, <1>2, Stores
    <2>3. QED
      BY <1>2, <2>1, <2>2 DEF RowFlags
  <1>3. ASSUME NEW i, NEW m \in Msg \union {NoMsg}, rows' = WithBody(i, m) \/ rows' = WithBodyOnly(i, m)
        PROVE  RowFlags
    BY <1>1, <1>3, Writes DEF RowFlags
  <1>4. CASE UNCHANGED rows
    BY <1>4 DEF RowFlags
  <1>5. CASE PrefetchCache
    <2>1. prefetch.msg \in Msg \union {NoMsg}
      BY <1>1, <1>5 DEF PrefetchCache, SyncTypes
    <2>2. QED
      BY <1>3, <1>5, <2>1 DEF PrefetchCache
  <1>6. ASSUME NEW c \in Caller, RemoveMessage(c)
        PROVE  RowFlags
    <2>1. CASE rows' = Dropped(c)
      <3>1. /\ DOMAIN Without(rows, {id[c]}) = DOMAIN rows \ {id[c]}
            /\ \A x \in DOMAIN rows \ {id[c]} : Without(rows, {id[c]})[x] = rows[x]
        BY WithoutMeans
      <3>2. DOMAIN rows' = DOMAIN rows \ {id[c]} /\ \A i \in DOMAIN rows' : rows'[i] = rows[i]
        BY <2>1, <3>1 DEF Dropped
      <3>3. QED
        BY <3>2 DEF RowFlags
    <2>2. QED
      BY <1>4, <1>6, <2>1 DEF RemoveMessage
  <1>7. ASSUME NEW c \in Caller, CacheBody(c) \/ Abort(c)
        PROVE  RowFlags
    BY <1>1, <1>3, <1>4, <1>7 DEF CacheBody, Abort, CommandTypes
  <1>8. ASSUME NEW c \in Caller, MarkSeen(c)
        PROVE  RowFlags
    <2>1. OnlySeen
      BY <1>1, <1>8, MarkSeenMeans
    <2>2. /\ \A i \in DOMAIN rows : i # id[c] => rows'[i] = rows[i]
          /\ HasRow(c) => (rows'[id[c]].seen <=> op[c] = "read")
      BY <1>1, <1>8, MarkSeenFlags
    <2>3. \A i \in DOMAIN rows :
            \/ rows'[i].seen = rows[i].seen
            \/ i = id[c] /\ (rows'[i].seen <=> op[c] = "read")
      BY <2>2 DEF HasRow
    <2>4. ASSUME NEW i \in DOMAIN rows, i = id[c], rows'[i].seen <=> op[c] = "read"
          PROVE  \E d \in Caller : /\ (MarkSeen(d) /\ i = id[d]) \/ (MarkSiblings(d) /\ i \in Siblings(d))
                                   /\ rows'[i].seen <=> op[d] = "read"
      BY <1>8, <2>4, Zenon
    <2> HIDE DEF MarkSeen
    <2>5. QED
      BY <2>1, <2>3, <2>4 DEF RowFlags, OnlySeen
  <1>9. ASSUME NEW c \in Caller, MarkSiblings(c)
        PROVE  RowFlags
    <2>1. OnlySeen
      BY <1>1, <1>9, MarkSiblingsMeans
    <2>2. /\ \A i \in DOMAIN rows : i \notin Siblings(c) => rows'[i] = rows[i]
          /\ \A i \in Siblings(c) : rows'[i].seen <=> op[c] = "read"
      BY <1>1, <1>9, MarkSiblingsFlags
    <2>3. QED
      BY <1>9, <2>1, <2>2 DEF RowFlags, OnlySeen
  <1>10. QED
    BY <1>2, <1>4, <1>5, <1>6, <1>7, <1>8, <1>9 DEF Next, SyncStep, Arrive, OtherClient,
       SyncStatus, SyncCounts, SyncFetch, PrefetchFetch, Command, Proceed, Locate, StoreFlag,
       MoveMessage, DeletePermanently, FetchBody

-----------------------------------------------------------------------------
(* Cached flags: the commands *)

\* A command is not the one that steps.
Still(c) == Elsewhere(c) /\ op'[c] = op[c] /\ target'[c] = target[c]

Own(c) == (\E o \in Op, i \in DOMAIN rows : Command(c, o, i)) \/ Proceed(c) \/ Abort(c)

LEMMA OthersStill ==
  ASSUME CommandTypes, NEW c \in Caller, NEW d \in Caller, c # d, Own(d)
  PROVE  Still(c)
  BY DEF Own, Proceed, Command, Locate, StoreFlag, MoveMessage, DeletePermanently, FetchBody,
     CacheBody, RemoveMessage, MarkSeen, MarkSiblings, Abort, Return, Goto, CommandTypes,
     Elsewhere, Keeps, Still

LEMMA StepOf == [Next]_vars => (\E d \in Caller : Own(d)) \/ UNCHANGED commandVars
  BY DEF Own, Next, SyncStep, SyncStatus, SyncCounts, SyncFetch, SyncStore, PrefetchFetch,
     PrefetchCache, Arrive, OtherClient

LEMMA StillOrOwn ==
  ASSUME CommandTypes, [Next]_vars, NEW c \in Caller
  PROVE  Still(c) \/ Own(c)
  <1>1. CASE UNCHANGED commandVars
    BY <1>1 DEF Still, Elsewhere, Keeps
  <1>2. QED
    BY <1>1, StepOf, OthersStill

LEMMA HistoryGrows ==
  [Next]_vars => reused \subseteq reused' /\ blurred \subseteq blurred' /\ foreign \subseteq foreign'
                 /\ gmail' = gmail /\ header' = header
  <1> DEFINE P == reused \subseteq reused' /\ blurred \subseteq blurred' /\ foreign \subseteq foreign'
                  /\ gmail' = gmail /\ header' = header
  <1>1. ASSUME Arrive \/ OtherClient PROVE P
    BY <1>1 DEF Arrive, OtherClient
  <1>2. ASSUME SyncStep PROVE P
    BY <1>2 DEF SyncStep, SyncStatus, SyncCounts, SyncFetch, SyncStore, PrefetchFetch, PrefetchCache
  <1>3. ASSUME NEW c \in Caller, NEW o \in Op, NEW i \in DOMAIN rows, Command(c, o, i) PROVE P
    BY <1>3 DEF Command
  <1>4. ASSUME NEW c \in Caller, Proceed(c) PROVE P
    BY <1>4 DEF Proceed, Locate, StoreFlag, MoveMessage, DeletePermanently, FetchBody, CacheBody,
       RemoveMessage, MarkSeen, MarkSiblings
  <1>5. ASSUME NEW c \in Caller, Abort(c) PROVE P
    BY <1>5 DEF Abort
  <1>6. ASSUME UNCHANGED vars PROVE P
    BY <1>6
  <1>7. QED
    BY <1>1, <1>2, <1>3, <1>4, <1>5, <1>6 DEF Next

\* Message-IDs stay.
LEMMA AstrayKept ==
  ASSUME [Next]_vars, NEW c \in Caller, chosen'[c] = chosen[c]
  PROVE  Astray(chosen[c])' = Astray(chosen[c])
  BY HistoryGrows DEF Astray

\* What a command's own step is.
LEMMA OwnSteps ==
  ASSUME NEW c \in Caller, Own(c)
  PROVE  \/ \E o \in Op, i \in DOMAIN rows : Command(c, o, i)
         \/ Return(c)
         \/ Locate(c) /\ ~Settled(c)
         \/ StoreFlag(c) \/ MarkSeen(c)
         \/ MoveMessage(c) \/ DeletePermanently(c) \/ (FetchBody(c) /\ OnServer(c))
  <1>1. CASE Abort(c)
    BY <1>1 DEF Abort
  <1>2. CASE Locate(c)
    BY <1>2 DEF Locate
  <1>3. CASE FetchBody(c)
    BY <1>3 DEF FetchBody
  <1>4. CASE CacheBody(c) \/ RemoveMessage(c) \/ MarkSiblings(c)
    BY <1>4 DEF CacheBody, RemoveMessage, MarkSiblings
  <1>5. QED
    BY <1>1, <1>2, <1>3, <1>4, Zenon DEF Own, Proceed

LEMMA MarkerStep == SInv /\ [Next]_vars => MarkerInv'
  <1> SUFFICES ASSUME SInv, [Next]_vars, NEW c \in Caller
               PROVE  /\ at'[c] \in {"seen", "siblings"} =>
                           op'[c] \in Marks /\ Astray(chosen[c])' \subseteq blurred'
                      /\ op'[c] \in Marks =>
                           /\ at'[c] \in {"locate", "server", "seen", "siblings"} /\ chosen'[c] \in Msg
                           /\ at'[c] # "locate" => target'[c] = "none"
    BY DEF MarkerInv
  <1>1. StoreTypes /\ CommandTypes /\ MarkerInv /\ blurred \subseteq blurred'
    BY HistoryGrows DEF SInv, IInv, Types
  <1>2. CASE Still(c)
    <2>1. chosen'[c] = chosen[c] /\ at'[c] = at[c] /\ op'[c] = op[c] /\ target'[c] = target[c]
      BY <1>2 DEF Still, Elsewhere, Keeps
    <2>2. Astray(chosen[c])' = Astray(chosen[c])
      BY <2>1, AstrayKept
    <2>3. QED
      BY <1>1, <2>1, <2>2 DEF MarkerInv
  <1>3. CASE \E o \in Op, i \in DOMAIN rows : Command(c, o, i)
    <2>1. PICK o \in Op, i \in DOMAIN rows : Command(c, o, i)
      BY <1>3
    <2>2. rows[i].msg \in Msg
      BY <1>1 DEF StoreTypes, RowType
    <2>3. at'[c] = "locate" /\ chosen'[c] = rows[i].msg
      BY <1>1, <2>1 DEF Command, Goto, CommandTypes
    <2>4. QED
      BY <2>2, <2>3
  <1>4. CASE Return(c)
    BY <1>1, <1>4 DEF Return, Goto, CommandTypes, Marks
  <1>5. CASE Locate(c) /\ ~Settled(c)
    <2>1. /\ op' = op /\ chosen' = chosen /\ at'[c] = "server"
          /\ op[c] \in Marks => target'[c] = "none"
      BY <1>1, <1>5 DEF Locate, Goto, CommandTypes, Marks
    <2>2. QED
      BY <1>1, <2>1 DEF MarkerInv
  <1>6. CASE StoreFlag(c) \/ MarkSeen(c)
    <2>1. /\ chosen' = chosen /\ op' = op /\ target' = target /\ at'[c] \in {"seen", "siblings"}
          /\ op[c] \in Marks /\ at[c] # "locate"
      BY <1>1, <1>6 DEF StoreFlag, MarkSeen, Goto, CommandTypes, MarkerInv
    <2>2. Astray(chosen[c])' = Astray(chosen[c])
      BY <2>1, AstrayKept
    <2>3. Astray(chosen[c]) \subseteq blurred'
      <3>1. CASE StoreFlag(c)
        BY <3>1 DEF StoreFlag
      <3>2. CASE MarkSeen(c)
        BY <1>1, <3>2 DEF MarkSeen, MarkerInv
      <3>3. QED
        BY <1>6, <3>1, <3>2
    <2>4. QED
      BY <1>1, <2>1, <2>2, <2>3 DEF MarkerInv
  <1>7. CASE MoveMessage(c) \/ DeletePermanently(c) \/ (FetchBody(c) /\ OnServer(c))
    <2>1. op[c] \notin Marks
      BY <1>1, <1>7 DEF MoveMessage, DeletePermanently, FetchBody, MarkerInv, Marks
    <2>2. op' = op /\ at'[c] \in {"remove", "cache"}
      BY <1>1, <1>7 DEF MoveMessage, DeletePermanently, FetchBody, Return, Goto, CommandTypes
    <2>3. QED
      BY <2>1, <2>2
  <1>8. QED
    BY <1>1, <1>2, <1>3, <1>4, <1>5, <1>6, <1>7, StillOrOwn, OwnSteps

\* A message enters a folder when it arrives or from where it was.
LEMMA ArrivedStep == SInv /\ [Next]_vars => ArrivedInv'
  <1> SUFFICES ASSUME SInv, [Next]_vars PROVE ArrivedInv'
    OBVIOUS
  <1>1. /\ IInv /\ Types /\ ServerTypes /\ StoreTypes /\ SyncTypes /\ CommandTypes /\ ArrivedInv
        /\ Serves /\ RowFlags
    BY ServesStep, RowFlagsStep DEF SInv, IInv, Types
  <1>2. arrived \in Nat /\ arrived' \in {arrived, arrived + 1}
    <2>1. arrived \in Nat
      BY <1>1, Constants DEF ServerTypes
    <2>2. QED
      BY <2>1 DEF Next, SyncStep, SyncStatus, SyncCounts, SyncFetch, SyncStore, PrefetchFetch,
         PrefetchCache, Arrive, OtherClient, Command, Proceed, Locate, StoreFlag, MoveMessage,
         DeletePermanently, FetchBody, CacheBody, RemoveMessage, MarkSeen, MarkSiblings, Abort
  <1>3. \A m \in 1..arrived : m \in 1..arrived'
    BY <1>2
  <1>4. ASSUME NEW f \in Folder, NEW u \in DOMAIN box'[f]
        PROVE  box'[f][u] \in 1..arrived'
    <2>1. CASE u \in DOMAIN box[f] /\ box'[f][u] = box[f][u]
      BY <1>1, <1>3, <2>1 DEF ArrivedInv
    <2>2. CASE box'[f][u] = arrived + 1 /\ arrived' = arrived + 1
      BY <1>2, <2>2
    <2>3. ASSUME NEW c \in Caller, at[c] = "server", OnServer(c), box'[f][u] = Found(c)
          PROVE  box'[f][u] \in 1..arrived'
      <3>1. loc[c].folder \in Folder
        BY <1>1, <2>3 DEF CommandTypes, Located, Place
      <3>2. Found(c) \in 1..arrived
        BY <1>1, <2>3, <3>1 DEF ArrivedInv, OnServer, Found
      <3>3. QED
        BY <1>3, <2>3, <3>2
    <2>4. QED
      BY <1>1, <2>1, <2>2, <2>3 DEF Serves
  <1>5. ASSUME NEW i \in DOMAIN rows'
        PROVE  rows'[i].msg \in 1..arrived'
    <2>1. CASE i \in DOMAIN rows /\ rows'[i].msg = rows[i].msg
      BY <1>1, <1>3, <2>1 DEF ArrivedInv
    <2>2. CASE SyncStore /\ \E u \in DOMAIN batch : rows'[i].msg = batch[u].msg
      BY <1>1, <1>3, <2>2 DEF ArrivedInv, SyncStore
    <2>3. QED
      BY <1>1, <2>1, <2>2 DEF RowFlags
  <1>6. ASSUME syncAt' = "store", NEW u \in DOMAIN batch'
        PROVE  batch'[u].msg \in 1..arrived'
    <2>1. CASE SyncFetch
      <3>1. u \in DOMAIN box[syncFolder] /\ batch'[u].msg = box[syncFolder][u] /\ syncFolder \in Folder
        BY <1>1, <2>1 DEF SyncFetch, Fresh, SyncTypes
      <3>2. QED
        BY <1>1, <1>3, <3>1 DEF ArrivedInv
    <2>2. CASE UNCHANGED <<syncAt, batch>>
      BY <1>1, <1>3, <1>6, <2>2 DEF ArrivedInv
    <2>3. QED
      BY <1>6, <2>1, <2>2 DEF Next, SyncStep, SyncStatus, SyncCounts, SyncStore, PrefetchFetch,
         PrefetchCache, AfterStore, Arrive, OtherClient, Command, Proceed, Locate, StoreFlag,
         MoveMessage, DeletePermanently, FetchBody, CacheBody, RemoveMessage, MarkSeen,
         MarkSiblings, Abort
  <1>7. ASSUME NEW c \in Caller, chosen'[c] \in Msg
        PROVE  chosen'[c] \in 1..arrived'
    <2>1. CASE chosen'[c] = chosen[c]
      BY <1>1, <1>3, <1>7, <2>1 DEF ArrivedInv
    <2>2. ASSUME NEW o \in Op, NEW i \in DOMAIN rows, Command(c, o, i)
          PROVE  chosen'[c] \in 1..arrived'
      BY <1>1, <1>3, <2>2 DEF Command, CommandTypes, ArrivedInv
    <2>3. CASE chosen'[c] = NoMsg
      BY <1>7, <2>3, Constants
    <2>4. QED
      <3>1. CASE Return(c)
        BY <1>1, <2>3, <3>1 DEF Return, CommandTypes
      <3>2. QED
        BY <1>1, <2>1, <2>2, <3>1, StillOrOwn DEF Still, Elsewhere, Keeps, Own, Proceed, Locate,
           StoreFlag, MoveMessage, DeletePermanently, FetchBody, CacheBody, RemoveMessage,
           MarkSeen, MarkSiblings, Abort
  <1>8. QED
    BY <1>4, <1>5, <1>6, <1>7 DEF ArrivedInv

\* A pass fetches above the highest UID of the folder's rows.
LEMMA PlaceStep == IInv /\ PlaceInv /\ [Next]_vars => PlaceInv'
  <1> SUFFICES ASSUME IInv, PlaceInv, [Next]_vars PROVE PlaceInv'
    OBVIOUS
  <1>1. /\ IInv /\ Types /\ HeldInv /\ RowInv /\ ServerTypes /\ StoreTypes /\ SyncTypes /\ PlaceInv
        /\ RowFlags
    BY RowFlagsStep DEF IInv, Types
  <1>2. CASE SyncStore
    <2>1. syncAt' # "store"
      BY <1>2 DEF SyncStore, AfterStore
    <2>2. \A i \in DOMAIN rows : rows'[i] = rows[i]
      BY <1>1, <1>2, Stores
    <2>3. \A i, j \in DOMAIN rows' \ DOMAIN rows : rows'[i].uid = rows'[j].uid => i = j
      BY <1>1, <1>2, Stores
    <2>4. \A i \in DOMAIN rows' \ DOMAIN rows : rows'[i].folder = syncFolder /\ rows'[i].uid \in DOMAIN batch
      BY <1>1, <1>2, Stores
    <2>5. \A u \in DOMAIN batch, i \in DOMAIN rows : rows[i].folder = syncFolder => rows[i].uid # u
      <3>1. \A i \in DOMAIN rows : rows[i].uid \in Nat
        BY <1>1 DEF StoreTypes, RowType
      <3>2. QED
        BY <1>1, <1>2, <3>1 DEF PlaceInv, SyncStore
    <2>6. \A i, j \in DOMAIN rows : rows[i].folder = rows[j].folder /\ rows[i].uid = rows[j].uid => i = j
      BY <1>1 DEF PlaceInv
    <2>7. QED
      BY <2>1, <2>2, <2>3, <2>4, <2>5, <2>6 DEF PlaceInv
  <1>3. CASE ~SyncStore
    <2>1. \A i \in DOMAIN rows' :
            i \in DOMAIN rows /\ rows'[i].folder = rows[i].folder /\ rows'[i].uid = rows[i].uid
      BY <1>1, <1>3 DEF RowFlags
    <2>2. \A i, j \in DOMAIN rows' :
            rows'[i].folder = rows'[j].folder /\ rows'[i].uid = rows'[j].uid => i = j
      BY <1>1, <2>1 DEF PlaceInv
    <2>3. CASE SyncFetch
      <3>1. \A u \in DOMAIN batch' : u \in DOMAIN box[syncFolder] /\ u > Highest(CachedUids(syncFolder))
        BY <2>3 DEF SyncFetch, Fresh
      <3>2. uidNext[syncFolder] \in Nat /\ CachedUids(syncFolder) \subseteq 1..uidNext[syncFolder]
        BY <1>1 DEF CachedUids, RowInv, Names, StoreTypes, RowType, ServerTypes, SyncTypes
      <3>3. /\ Highest(CachedUids(syncFolder)) \in Nat
            /\ \A x \in CachedUids(syncFolder) : x <= Highest(CachedUids(syncFolder))
        BY <3>2, HighestBounds
      <3>4. UNCHANGED <<rows, syncFolder>>
        BY <2>3 DEF SyncFetch
      <3>5. ASSUME NEW u \in DOMAIN batch', NEW i \in DOMAIN rows, rows[i].folder = syncFolder
            PROVE  rows[i].uid < u
        <4>1. rows[i].uid \in CachedUids(syncFolder)
          BY <3>5 DEF CachedUids
        <4>2. rows[i].uid \in Nat /\ rows[i].uid <= Highest(CachedUids(syncFolder))
          BY <3>2, <3>3, <4>1
        <4>3. u \in Nat
          BY <1>1, <3>1 DEF ServerTypes, SyncTypes
        <4>4. QED
          BY <3>1, <3>3, <4>2, <4>3
      <3>6. QED
        BY <2>2, <3>4, <3>5 DEF PlaceInv
    <2>4. CASE UNCHANGED <<syncAt, syncFolder, batch>>
      BY <1>1, <2>1, <2>2, <2>4 DEF PlaceInv
    <2>5. CASE syncAt' # "store"
      BY <2>2, <2>5 DEF PlaceInv
    <2>6. QED
      BY <1>3, <2>3, <2>4, <2>5 DEF Next, SyncStep, SyncStatus, SyncCounts, PrefetchFetch,
         PrefetchCache, AfterStore, Arrive, OtherClient, Command, Proceed, Locate, StoreFlag,
         MoveMessage, DeletePermanently, FetchBody, CacheBody, RemoveMessage, MarkSeen,
         MarkSiblings, Abort
  <1>4. QED
    BY <1>2, <1>3

-----------------------------------------------------------------------------
(* What a command does on the server *)

\* A command finds its own message, and any other message's copy is not the one it found.
LEMMA OwnPlace ==
  ASSUME IInv, NEW c \in Caller, at[c] = "server", id[c] \notin reused
  PROVE  /\ OnServer(c) => Found(c) = chosen[c]
         /\ \A f \in Folder : \A u \in DOMAIN box[f] :
              box[f][u] # chosen[c] =>
                /\ ~(f = loc[c].folder /\ u = loc[c].uid)
                /\ <<f, u>> \notin OwnCopy(c)
                /\ OnServer(c) => <<f, u>> \notin FoundCopies(c)
  <1>1. ServerTypes /\ Located(c) /\ Names(loc[c].folder, loc[c].uid, chosen[c])
    BY DEF IInv, Types, CommandTypes, Holds
  <1>2. OnServer(c) => Found(c) = chosen[c]
    BY <1>1 DEF Names, OnServer, Found
  <1>3. ASSUME NEW f \in Folder, NEW u \in DOMAIN box[f], box[f][u] # chosen[c]
        PROVE  /\ ~(f = loc[c].folder /\ u = loc[c].uid)
               /\ <<f, u>> \notin OwnCopy(c)
               /\ OnServer(c) => <<f, u>> \notin FoundCopies(c)
    <2>1. ~(f = loc[c].folder /\ u = loc[c].uid)
      BY <1>1, <1>3 DEF Names
    <2>2. <<f, u>> \notin OwnCopy(c)
      BY <2>1 DEF OwnCopy
    <2>3. ASSUME OnServer(c) PROVE <<f, u>> \notin FoundCopies(c)
      <3>1. loc[c].folder \in Folder /\ loc[c].uid \in DOMAIN box[loc[c].folder]
        BY <1>1, <2>3 DEF Located, Place, OnServer
      <3>2. box[f][u] # box[loc[c].folder][loc[c].uid]
        BY <1>2, <1>3, <2>3 DEF Found
      <3>3. QED
        BY <1>1, <2>1, <3>1, <3>2, CopiesMean DEF FoundCopies
    <2>4. QED
      BY <2>1, <2>2, <2>3
  <1>4. QED
    BY <1>2, <1>3

\* A copy that stays is spared.
LEMMA StaysSpared ==
  ASSUME IInv, NEW c \in Caller, at[c] = "server", id[c] \notin reused,
         NEW f \in Folder, NEW u \in DOMAIN box[f], box[f][u] # chosen[c],
         u \in DOMAIN box'[f], box'[f][u] = box[f][u], NEW b, NEW d,
         serverSeen' = FlaggedIn(serverSeen, box', b),
         NEW stored \in {{}, OwnCopy(c)}, deleted' = FlaggedIn(deleted, box', d) \union stored
  PROVE  Spared(c, f, u)
  <1>1. <<f, u>> \notin stored
    BY OwnPlace
  <1>2. <<f, u>> \in serverSeen' <=> <<f, u>> \in serverSeen
    BY FlaggedInKeeps
  <1>3. <<f, u>> \in FlaggedIn(deleted, box', d) <=> <<f, u>> \in deleted
    BY FlaggedInKeeps
  <1>4. QED
    BY <1>1, <1>2, <1>3 DEF Spared

\* A copy that goes with a move, beside the command's own.
LEMMA TransferTakes ==
  ASSUME IInv, NEW c \in Caller, at[c] = "server", target[c] # "none", id[c] \notin reused,
         box' = Moved(c) \/ box' = Copied(c),
         NEW f \in Folder, NEW u \in DOMAIN box[f], box[f][u] # chosen[c], u \notin DOMAIN box'[f]
  PROVE  Spared(c, f, u)
  <1> DEFINE s == loc[c].folder  t == target[c]
  <1>1. ServerTypes /\ CommandTypes /\ op[c] \in {"move", "delete"}
    BY DEF IInv, Types, CommandTypes, Located
  <1>2. /\ s \in Folder /\ t \in Folder /\ t # s
        /\ \A g \in Folder : g # t => Copied(c)[g] = box[g]
        /\ \A g \in Folder : g # s => Moved(c)[g] = Copied(c)[g]
        /\ OnServer(c) => Copied(c)[t] = Enters(box, t, Found(c))
        /\ ~OnServer(c) => Copied(c) = box
        /\ DOMAIN Moved(c)[s] = DOMAIN box[s] \ Gone(c)
    BY <1>1, TransferMeans
  <1>3. DOMAIN box[t] \subseteq DOMAIN Enters(box, t, Found(c))
    BY DEF Enters, With
  <1>4. DOMAIN box[t] \subseteq DOMAIN Copied(c)[t]
    BY <1>2, <1>3
  <1>5. u \in DOMAIN Copied(c)[f]
    BY <1>2, <1>4
  <1>6. box' = Moved(c) /\ f = s /\ u \in Gone(c)
    BY <1>2, <1>5
  <1>7. u # loc[c].uid
    BY <1>6, OwnPlace
  <1>8. "MOVE" \notin caps /\ "UIDPLUS" \notin caps /\ <<f, u>> \in deleted
    BY <1>6, <1>7 DEF Gone, Expunged, AllDeleted
  <1>9. QED
    BY <1>1, <1>6, <1>8 DEF Spared

\* The step in which a command leaves the server.
LEMMA ActsStep ==
  ASSUME IInv, [Next]_vars, NEW c \in Caller, NEW f \in Folder,
         at[c] = "server", at'[c] # "server", id[c] \notin reused
  PROVE  /\ \A u \in DOMAIN box[f] : box[f][u] # chosen[c] => Spared(c, f, u)
         /\ \A u \in DOMAIN box'[f] \ DOMAIN box[f] : box'[f][u] = chosen[c]
  <1>1. Types /\ ServerTypes /\ CommandTypes
    BY DEF IInv, Types
  <1>2. ASSUME UNCHANGED box, deleted' \in {deleted, deleted \union OwnCopy(c)},
               \/ UNCHANGED serverSeen
               \/ /\ OnServer(c)
                  /\ serverSeen' \in {serverSeen \union FoundCopies(c), serverSeen \ FoundCopies(c)}
        PROVE  /\ \A u \in DOMAIN box[f] : box[f][u] # chosen[c] => Spared(c, f, u)
               /\ \A u \in DOMAIN box'[f] \ DOMAIN box[f] : box'[f][u] = chosen[c]
    <2>1. ASSUME NEW u \in DOMAIN box[f], box[f][u] # chosen[c]
          PROVE  Spared(c, f, u)
      <3>1. <<f, u>> \notin OwnCopy(c) /\ (OnServer(c) => <<f, u>> \notin FoundCopies(c))
        BY <2>1, OwnPlace
      <3>2. <<f, u>> \in deleted' <=> <<f, u>> \in deleted
        BY <1>2, <3>1
      <3>3. <<f, u>> \in serverSeen' <=> <<f, u>> \in serverSeen
        BY <1>2, <3>1
      <3>4. QED
        BY <1>2, <3>2, <3>3 DEF Spared
    <2>2. QED
      BY <1>2, <2>1
  <1>3. ASSUME target[c] # "none", box' = Moved(c) \/ box' = Copied(c),
               serverSeen' = FlaggedIn(serverSeen, box', FoundSeen(c)),
               \E stored \in {{}, OwnCopy(c)} :
                 deleted' = FlaggedIn(deleted, box', FoundDeleted(c)) \union stored
        PROVE  /\ \A u \in DOMAIN box[f] : box[f][u] # chosen[c] => Spared(c, f, u)
               /\ \A u \in DOMAIN box'[f] \ DOMAIN box[f] : box'[f][u] = chosen[c]
    <2>1. ASSUME NEW u \in DOMAIN box[f], box[f][u] # chosen[c], u \in DOMAIN box'[f]
          PROVE  Spared(c, f, u)
      <3>1. u # uidNext[f]
        BY <1>1 DEF ServerTypes
      <3>2. box'[f][u] = box[f][u]
        BY <1>1, <1>3, <2>1, <3>1, TransferBrings
      <3>3. QED
        BY <1>3, <2>1, <3>2, StaysSpared
    <2>2. ASSUME NEW u \in DOMAIN box[f], box[f][u] # chosen[c], u \notin DOMAIN box'[f]
          PROVE  Spared(c, f, u)
      BY <1>3, <2>2, TransferTakes
    <2>3. ASSUME NEW u \in DOMAIN box'[f] \ DOMAIN box[f]
          PROVE  box'[f][u] = chosen[c]
      BY <1>1, <1>3, TransferBrings, OwnPlace
    <2>4. QED
      BY <2>1, <2>2, <2>3
  <1>4. CASE StoreFlag(c)
    BY <1>2, <1>4 DEF StoreFlag
  <1>5. CASE FetchBody(c)
    BY <1>2, <1>5 DEF FetchBody
  <1>6. CASE MoveMessage(c)
    BY <1>3, <1>6 DEF MoveMessage
  <1>7. CASE DeletePermanently(c)
    <2>1. /\ box' = [box EXCEPT ![loc[c].folder] = Without(@, Expunged(c))]
          /\ serverSeen' = FlaggedIn(serverSeen, box', FALSE)
          /\ deleted' = FlaggedIn(deleted, box', FALSE) \union {}
          /\ op[c] = "delete" /\ target[c] = "none" /\ loc[c].folder \in Folder
      BY <1>1, <1>7 DEF DeletePermanently, CommandTypes, Located, Place
    <2>2. \A u \in DOMAIN box'[f] : u \in DOMAIN box[f] /\ box'[f][u] = box[f][u]
      BY <1>1, <2>1, LeavesOnly
    <2>3. ASSUME NEW u \in DOMAIN box[f], box[f][u] # chosen[c], u \in DOMAIN box'[f]
          PROVE  Spared(c, f, u)
      BY <2>1, <2>2, <2>3, StaysSpared
    <2>4. ASSUME NEW u \in DOMAIN box[f], box[f][u] # chosen[c], u \notin DOMAIN box'[f]
          PROVE  Spared(c, f, u)
      <3>1. box'[f] = IF f = loc[c].folder THEN Without(box[f], Expunged(c)) ELSE box[f]
        BY <1>1, <2>1 DEF ServerTypes
      <3>2. f = loc[c].folder /\ u \in Expunged(c)
        <4> DEFINE g == box[f]  S == Expunged(c)
        <4>1. DOMAIN Without(g, S) = DOMAIN g \ S
          BY WithoutMeans
        <4> HIDE DEF S
        <4>2. u \in DOMAIN g /\ (f = loc[c].folder => u \notin DOMAIN Without(g, S)) /\ f = loc[c].folder
          BY <2>4, <3>1 DEF S
        <4> HIDE DEF g
        <4>3. f = loc[c].folder /\ u \in S
          BY <4>1, <4>2
        <4>4. QED
          BY <4>3 DEF S
      <3>3. u # loc[c].uid
        BY <2>4, <3>2, OwnPlace
      <3>4. "UIDPLUS" \notin caps /\ <<f, u>> \in deleted
        BY <3>2, <3>3 DEF Expunged, AllDeleted
      <3>5. QED
        BY <2>1, <2>4, <3>2, <3>4 DEF Spared
    <2>5. QED
      BY <2>2, <2>3, <2>4
  <1>8. CASE Abort(c)
    <2>1. CASE UNCHANGED <<box, serverSeen>> /\ deleted' \in {deleted, deleted \union OwnCopy(c)}
      BY <1>2, <2>1
    <2>2. CASE /\ target[c] # "none" /\ box' = Copied(c)
               /\ serverSeen' = FlaggedIn(serverSeen, box', FoundSeen(c))
               /\ \E stored \in {{}, OwnCopy(c)} :
                    deleted' = FlaggedIn(deleted, box', FoundDeleted(c)) \union stored
      BY <1>3, <2>2
    <2>3. QED
      BY <1>8, <2>1, <2>2 DEF Abort
  <1>9. Own(c)
    BY <1>1, StillOrOwn DEF Still, Elsewhere
  <1>10. QED
    BY <1>4, <1>5, <1>6, <1>7, <1>8, <1>9 DEF Own, Proceed, Command, Locate, CacheBody,
       RemoveMessage, MarkSeen, MarkSiblings

-----------------------------------------------------------------------------
(* Cached flags: the invariant is kept *)

\* A marking command is not one that moves, deletes or fetches.
LEMMA MarkersOnly ==
  ASSUME CommandTypes, MarkerInv, NEW c \in Caller, op[c] \in Marks
  PROVE  ~MoveMessage(c) /\ ~DeletePermanently(c) /\ ~FetchBody(c) /\ ~RemoveMessage(c)
  BY DEF MarkerInv, MoveMessage, DeletePermanently, FetchBody, RemoveMessage, Marks

\* A command that marks goes on with its row, location and message.
LEMMA MarkerGoesOn ==
  ASSUME CommandTypes, MarkerInv, [Next]_vars, NEW c \in Caller, op'[c] \in Marks
  PROVE  \/ \E o \in Op, i \in DOMAIN rows : Command(c, o, i)
         \/ /\ op'[c] = op[c] /\ id'[c] = id[c] /\ chosen'[c] = chosen[c]
            /\ \/ Still(c)
               \/ Locate(c) /\ at'[c] = "server"
               \/ StoreFlag(c) /\ loc' = loc /\ at'[c] = "seen"
               \/ MarkSeen(c) /\ loc' = loc /\ at'[c] = "siblings"
  <1>1. CASE Still(c)
    BY <1>1 DEF Still, Elsewhere, Keeps
  <1>2. ~Return(c)
    BY DEF Return, Marks, CommandTypes
  <1>3. CASE Locate(c) /\ ~Settled(c)
    BY <1>3 DEF Locate, Goto, CommandTypes
  <1>4. CASE StoreFlag(c) \/ MarkSeen(c)
    BY <1>4 DEF StoreFlag, MarkSeen, Goto, CommandTypes
  <1>5. CASE MoveMessage(c) \/ DeletePermanently(c) \/ (FetchBody(c) /\ OnServer(c))
    <2>1. op[c] \notin Marks
      BY <1>5, MarkersOnly
    <2>2. op'[c] = op[c]
      BY <1>5 DEF MoveMessage, DeletePermanently, FetchBody, Return, Goto
    <2>3. QED
      BY <2>1, <2>2
  <1>6. QED
    BY <1>1, <1>2, <1>3, <1>4, <1>5, StillOrOwn, OwnSteps

\* A second command on a message that is marked blurs it, and only a command on
\* the same message removes the row.
LEMMA AloneStep == SInv /\ [Next]_vars => AloneInv'
  <1> SUFFICES ASSUME SInv, [Next]_vars PROVE AloneInv'
    OBVIOUS
  <1>1. /\ IInv /\ Types /\ StoreTypes /\ CommandTypes /\ MarkerInv /\ MarkerInv' /\ AloneInv
        /\ blurred \subseteq blurred' /\ foreign \subseteq foreign' /\ reused \subseteq reused'
    BY MarkerStep, HistoryGrows DEF SInv, IInv, Types
  <1>2. ASSUME NEW c \in Caller, NEW d \in Caller, c # d, op'[c] \in Marks, chosen'[d] = chosen'[c]
        PROVE  chosen'[c] \in blurred'
    <2>1. chosen'[c] \in Msg
      BY <1>1, <1>2 DEF MarkerInv
    <2>2. ASSUME NEW o \in Op, NEW i \in DOMAIN rows, Command(c, o, i)
          PROVE  chosen'[c] \in blurred'
      <3>1. o \in Marks /\ chosen'[c] = rows[i].msg /\ chosen[d] = rows[i].msg
        BY <1>1, <1>2, <2>2 DEF Command, CommandTypes
      <3>2. Overlaps(o, rows[i].msg)
        BY <3>1 DEF Overlaps
      <3>3. QED
        BY <2>2, <3>1, <3>2 DEF Command
    <2>3. ASSUME NEW o \in Op, NEW i \in DOMAIN rows, Command(d, o, i)
          PROVE  chosen'[c] \in blurred'
      <3>1. op[c] \in Marks /\ chosen'[d] = rows[i].msg /\ chosen[c] = rows[i].msg
        BY <1>1, <1>2, <2>3 DEF Command, CommandTypes
      <3>2. Overlaps(o, rows[i].msg)
        BY <3>1 DEF Overlaps
      <3>3. QED
        BY <1>2, <2>3, <3>1, <3>2 DEF Command
    <2>4. chosen'[d] = chosen[d] \/ \E o \in Op, i \in DOMAIN rows : Command(d, o, i)
      <3>1. ~Return(d)
        BY <1>1, <1>2, <2>1, Constants DEF Return, CommandTypes
      <3>2. QED
        BY <1>1, <3>1, StillOrOwn, OwnSteps DEF Still, Elsewhere, Keeps, Locate, StoreFlag, MarkSeen,
           MoveMessage, DeletePermanently, FetchBody
    <2>5. CASE op'[c] = op[c] /\ chosen'[c] = chosen[c] /\ chosen'[d] = chosen[d]
      BY <1>1, <1>2, <2>5 DEF AloneInv
    <2>6. QED
      BY <1>1, <1>2, <2>2, <2>3, <2>4, <2>5, MarkerGoesOn
  <1>3. ASSUME reused' = {}, NEW c \in Caller, op'[c] \in Marks, Trusted(chosen[c])'
        PROVE  id'[c] \in DOMAIN rows'
    <2>1. ASSUME NEW o \in Op, NEW i \in DOMAIN rows, Command(c, o, i)
          PROVE  id'[c] \in DOMAIN rows'
      BY <1>1, <2>1 DEF Command, CommandTypes
    <2>2. CASE op'[c] = op[c] /\ id'[c] = id[c] /\ chosen'[c] = chosen[c]
      <3>1. id[c] \in DOMAIN rows /\ Trusted(chosen[c]) /\ op[c] \in Marks
        BY <1>1, <1>3, <2>2 DEF AloneInv, Trusted
      <3>2. ASSUME id[c] \notin DOMAIN rows'
            PROVE  FALSE
        <4>1. PICK d \in Caller : RemoveMessage(d) /\ id[d] = id[c]
          <5>1. ASSUME NEW d \in Caller, RemoveMessage(d)
                PROVE  id[d] = id[c]
            <6>1. DOMAIN Without(rows, {id[d]}) = DOMAIN rows \ {id[d]}
              BY WithoutMeans
            <6>2. QED
              BY <3>1, <3>2, <5>1, <6>1 DEF RemoveMessage, Dropped
          <5>2. CASE SyncStore
            BY <1>1, <3>1, <3>2, <5>2, Stores DEF IInv
          <5>3. ASSUME NEW j, NEW m \in Msg \union {NoMsg},
                       rows' = WithBody(j, m) \/ rows' = WithBodyOnly(j, m)
                PROVE  FALSE
            BY <1>1, <3>1, <3>2, <5>3, Writes
          <5>4. CASE PrefetchCache
            BY <1>1, <5>3, <5>4 DEF PrefetchCache, SyncTypes, Types
          <5>5. ASSUME NEW d \in Caller, CacheBody(d) \/ Abort(d)
                PROVE  FALSE
            BY <1>1, <3>1, <3>2, <5>3, <5>5 DEF CacheBody, Abort, CommandTypes
          <5>6. ASSUME NEW d \in Caller, MarkSeen(d) \/ MarkSiblings(d)
                PROVE  FALSE
            BY <1>1, <3>1, <3>2, <5>6, MarkSeenMeans, MarkSiblingsMeans DEF OnlySeen
          <5>7. QED
            BY <3>1, <3>2, <5>1, <5>2, <5>4, <5>5, <5>6 DEF Next, SyncStep, Arrive, OtherClient,
               SyncStatus, SyncCounts, SyncFetch, PrefetchFetch, Command, Proceed, Locate,
               StoreFlag, MoveMessage, DeletePermanently, FetchBody
        <4>2. d # c
          BY <1>1, <3>1, <4>1, MarkersOnly
        <4>3. at[d] = "remove" /\ at[c] # "out" /\ reused = {}
          BY <1>1, <1>3, <3>1, <4>1 DEF RemoveMessage, MarkerInv
        <4>4. rows[id[c]].msg = chosen[d] /\ rows[id[c]].msg = chosen[c]
          BY <1>1, <3>1, <4>1, <4>3 DEF IInv, Holds
        <4>5. chosen[c] \in blurred
          BY <1>1, <3>1, <4>2, <4>4 DEF AloneInv
        <4>6. QED
          BY <3>1, <4>5 DEF Trusted
      <3>3. QED
        BY <2>2, <3>2
    <2>3. QED
      BY <1>1, <1>3, <2>1, <2>2, MarkerGoesOn
  <1>4. QED
    BY <1>2, <1>3 DEF AloneInv

\* What a command finds on the server is its message.
LEMMA Finds ==
  ASSUME IInv, reused = {}, NEW c \in Caller, at[c] = "server", OnServer(c)
  PROVE  Found(c) = chosen[c]
  BY DEF IInv, Holds, Names, OnServer, Found

\* The copies of it are those of its message, elsewhere than on Gmail the one.
LEMMA FoundCopiesMean ==
  ASSUME IInv, reused = {}, NEW c \in Caller, at[c] = "server", OnServer(c),
         NEW f \in Folder, NEW u \in DOMAIN box[f]
  PROVE  <<f, u>> \in FoundCopies(c) <=> MarkedCopy(c, f, u)
  <1>1. /\ ServerTypes /\ loc[c] \in Place /\ loc[c].folder \in Folder
        /\ Found(c) = box[loc[c].folder][loc[c].uid] /\ loc[c].uid \in DOMAIN box[loc[c].folder]
    BY DEF IInv, Types, CommandTypes, Located, Place, OnServer, Found
  <1>2. <<f, u>> \in FoundCopies(c) <=>
          \/ f = loc[c].folder /\ u = loc[c].uid
          \/ gmail /\ box[f][u] = Found(c)
    BY <1>1, CopiesMean DEF FoundCopies
  <1>3. loc[c] = [folder |-> f, uid |-> u] <=> f = loc[c].folder /\ u = loc[c].uid
    BY <1>1 DEF Place
  <1>4. QED
    BY <1>1, <1>2, <1>3, Finds DEF MarkedCopy

LEMMA GivenStep == SInv /\ [Next]_vars => GivenInv'
  <1> SUFFICES ASSUME SInv, [Next]_vars, reused' = {}, NEW c \in Caller,
                      at'[c] \in {"seen", "siblings"}, Trusted(chosen[c])',
                      NEW f \in Folder, NEW u \in Nat, MarkedCopy(c, f, u)'
               PROVE  <<f, u>> \in serverSeen' <=> op'[c] = "read"
    BY DEF GivenInv
  <1>1. /\ IInv /\ Types /\ ServerTypes /\ CommandTypes /\ MarkerInv /\ MarkerInv' /\ ArrivedInv
        /\ AloneInv /\ GivenInv /\ Serves /\ reused = {}
        /\ blurred \subseteq blurred' /\ foreign \subseteq foreign' /\ gmail' = gmail
    BY MarkerStep, ServesStep, HistoryGrows DEF SInv, IInv, Types
  <1>2. op'[c] \in Marks
    BY <1>1 DEF MarkerInv
  <1>3. ~(\E o \in Op, i \in DOMAIN rows : Command(c, o, i)) /\ ~(Locate(c) /\ at'[c] = "server")
    BY <1>1 DEF Command, Goto, CommandTypes
  <1>4. op'[c] = op[c] /\ chosen'[c] = chosen[c] /\ loc'[c] = loc[c]
    BY <1>1, <1>2, <1>3, MarkerGoesOn DEF Still, Elsewhere, Keeps
  <1>5. /\ u \in DOMAIN box'[f] /\ box'[f][u] = chosen[c]
        /\ gmail \/ loc[c] = [folder |-> f, uid |-> u]
    BY <1>1, <1>4 DEF MarkedCopy
  <1>6. CASE StoreFlag(c)
    <2>1. OnServer(c)
      BY <1>1, <1>4, <1>6 DEF StoreFlag, Trusted
    <2>2. box' = box /\ at[c] = "server"
      BY <1>6 DEF StoreFlag
    <2>3. <<f, u>> \in FoundCopies(c)
      BY <1>1, <1>5, <2>1, <2>2, FoundCopiesMean DEF MarkedCopy
    <2>4. serverSeen' = IF op[c] = "read" THEN serverSeen \union FoundCopies(c)
                                           ELSE serverSeen \ FoundCopies(c)
      BY <1>6, <2>1 DEF StoreFlag
    <2>5. QED
      BY <1>4, <2>3, <2>4
  <1>7. CASE ~StoreFlag(c)
    <2>1. at[c] \in {"seen", "siblings"} /\ Trusted(chosen[c])
      <3>1. at[c] \in {"seen", "siblings"}
        BY <1>1, <1>2, <1>3, <1>7, MarkerGoesOn DEF Still, Elsewhere, MarkSeen
      <3>2. QED
        BY <1>1, <1>4, <3>1 DEF Trusted
    <2>2. op[c] \in Marks
      BY <1>2, <1>4
    <2>3. ASSUME NEW d \in Caller, at[d] = "server"
          PROVE  chosen[d] # chosen[c]
      <3>1. d # c
        BY <2>1, <2>3
      <3>2. QED
        BY <1>1, <2>1, <2>2, <3>1 DEF AloneInv, Trusted
    <2>4. ASSUME NEW d \in Caller, at[d] = "server", OnServer(d)
          PROVE  box'[f][u] # Found(d)
      BY <1>1, <1>5, <2>3, <2>4, Finds
    <2>5. chosen[c] # arrived + 1
      <3>1. chosen[c] \in 1..arrived
        BY <1>1, <2>2 DEF ArrivedInv, MarkerInv
      <3>2. arrived \in Nat
        BY <1>1, Constants DEF ServerTypes
      <3>3. QED
        BY <3>1, <3>2
    <2>6. u \in DOMAIN box[f] /\ box'[f][u] = box[f][u]
      BY <1>1, <1>5, <2>4, <2>5 DEF Serves
    <2>7. box[f][u] \notin foreign'
      BY <1>4, <1>5, <2>6 DEF Trusted
    <2>8. ASSUME NEW d \in Caller, StoreFlag(d), OnServer(d), <<f, u>> \in FoundCopies(d)
          PROVE  FALSE
      <3>1. at[d] = "server"
        BY <2>8 DEF StoreFlag
      <3>2. box[f][u] = chosen[d]
        BY <1>1, <2>6, <2>8, <3>1, FoundCopiesMean DEF MarkedCopy
      <3>3. QED
        BY <1>5, <2>3, <2>6, <3>1, <3>2
    <2>9. u # uidNext[f]
      BY <1>1, <2>6 DEF ServerTypes
    <2>10. <<f, u>> \in serverSeen' <=> <<f, u>> \in serverSeen
      BY <1>1, <1>5, <2>6, <2>7, <2>8, <2>9 DEF Serves
    <2>11. MarkedCopy(c, f, u)
      BY <1>5, <2>6 DEF MarkedCopy
    <2>12. <<f, u>> \in serverSeen <=> op[c] = "read"
      BY <1>1, <2>1, <2>11 DEF GivenInv
    <2>13. QED
      BY <1>4, <2>10, <2>12
  <1>8. QED
    BY <1>6, <1>7

\* A UID that was assigned keeps its flag, or its message is no longer promised,
\* or a command marks it.
LEMMA FlagKept ==
  ASSUME IInv, Serves, reused = {}, NEW f \in Folder, NEW u \in DOMAIN box'[f], NEW m,
         Names(f, u, m), m \notin foreign'
  PROVE  /\ u \in DOMAIN box[f] /\ box'[f][u] = m /\ box[f][u] = m
         /\ \/ <<f, u>> \in serverSeen' <=> <<f, u>> \in serverSeen
            \/ \E c \in Caller : StoreFlag(c) /\ OnServer(c) /\ chosen[c] = m /\ MarkedCopy(c, f, u)
  <1>1. u # uidNext[f]
    BY DEF Names, IInv, Types, ServerTypes
  <1>2. u \in DOMAIN box[f] /\ box'[f][u] = box[f][u] /\ box[f][u] = m
    BY <1>1 DEF Serves, Names
  <1>3. ASSUME NEW c \in Caller, StoreFlag(c), OnServer(c), <<f, u>> \in FoundCopies(c)
        PROVE  chosen[c] = m /\ MarkedCopy(c, f, u)
    <2>1. MarkedCopy(c, f, u)
      BY <1>2, <1>3, FoundCopiesMean DEF StoreFlag
    <2>2. QED
      BY <1>2, <2>1 DEF MarkedCopy
  <1>4. QED
    BY <1>1, <1>2, <1>3 DEF Serves

LEMMA BatchStep == SInv /\ [Next]_vars => BatchInv'
  <1> SUFFICES ASSUME SInv, [Next]_vars, syncAt' = "store", reused' = {}, NEW u \in DOMAIN batch',
                      u \in DOMAIN box'[syncFolder'], Trusted(batch[u].msg)'
               PROVE  batch'[u].seen <=> <<syncFolder', u>> \in serverSeen'
    BY DEF BatchInv
  <1>1. /\ IInv /\ Types /\ SyncTypes /\ HeldInv /\ BatchInv /\ Serves /\ reused = {}
        /\ blurred \subseteq blurred' /\ foreign \subseteq foreign'
    BY ServesStep, HistoryGrows DEF SInv, IInv, Types
  <1>2. CASE SyncFetch
    <2>1. /\ batch' = [v \in Fresh(syncFolder) |->
                         [msg |-> box[syncFolder][v], seen |-> <<syncFolder, v>> \in serverSeen]]
          /\ UNCHANGED <<serverSeen, syncFolder>>
      BY <1>2 DEF SyncFetch
    <2>2. u \in Fresh(syncFolder) /\ batch'[u].seen = (<<syncFolder, u>> \in serverSeen)
      BY <2>1, Zenon
    <2>3. QED
      BY <2>1, <2>2, Zenon
  <1>3. CASE UNCHANGED <<syncAt, syncFolder, batch>>
    <2>1. syncFolder \in Folder /\ u \in Nat /\ Names(syncFolder, u, batch[u].msg)
      BY <1>1, <1>3 DEF SyncTypes, HeldInv
    <2>2. /\ u \in DOMAIN box[syncFolder]
          /\ \/ <<syncFolder, u>> \in serverSeen' <=> <<syncFolder, u>> \in serverSeen
             \/ \E c \in Caller : StoreFlag(c) /\ OnServer(c) /\ chosen[c] = batch[u].msg
      BY <1>1, <1>3, <2>1, FlagKept DEF Trusted
    <2>3. ASSUME NEW c \in Caller, StoreFlag(c), OnServer(c), chosen[c] = batch[u].msg
          PROVE  FALSE
      <3>1. Found(c) = chosen[c]
        BY <1>1, <2>3, Finds DEF StoreFlag
      <3>2. chosen[c] \in blurred'
        BY <1>3, <2>3, <3>1 DEF StoreFlag
      <3>3. QED
        BY <1>3, <2>3, <3>2 DEF Trusted
    <2>4. <<syncFolder, u>> \in serverSeen' <=> <<syncFolder, u>> \in serverSeen
      BY <2>2, <2>3
    <2>5. batch[u].seen <=> <<syncFolder, u>> \in serverSeen
      BY <1>1, <1>3, <2>2 DEF BatchInv, Trusted
    <2>6. QED
      BY <1>3, <2>4, <2>5
  <1>4. QED
    BY <1>2, <1>3 DEF Next, SyncStep, SyncStatus, SyncCounts, SyncStore, PrefetchFetch,
       PrefetchCache, AfterStore, Arrive, OtherClient, Command, Proceed, Locate, StoreFlag,
       MoveMessage, DeletePermanently, FetchBody, CacheBody, RemoveMessage, MarkSeen,
       MarkSiblings, Abort

\* Once a command has marked a row, the row has the flag it gave the server.
LEMMA MarksAsGiven ==
  ASSUME SInv, [Next]_vars, reused = {}, NEW c \in Caller, NEW i \in DOMAIN rows, i \in DOMAIN rows',
         rows[i].uid \in DOMAIN box[rows[i].folder], Trusted(rows[i].msg),
         rows'[i].seen <=> op[c] = "read",
         \/ MarkSeen(c) /\ i = id[c]
         \/ MarkSiblings(c) /\ gmail /\ chosen[c] = rows[i].msg
  PROVE  rows'[i].seen <=> <<rows[i].folder, rows[i].uid>> \in serverSeen
  <1> DEFINE f == rows[i].folder  u == rows[i].uid
  <1>1. /\ IInv /\ StoreTypes /\ CommandTypes /\ RowInv /\ GivenInv /\ Holds(c)
        /\ f \in Folder /\ u \in Nat
    BY DEF SInv, IInv, Types, StoreTypes, RowType
  <1>2. at[c] \in {"seen", "siblings"}
    BY DEF MarkSeen, MarkSiblings
  <1>3. box[f][u] = rows[i].msg
    BY <1>1 DEF RowInv, Names
  <1>4. chosen[c] = rows[i].msg
    BY <1>1, <1>2 DEF Holds
  <1>5. gmail \/ loc[c] = [folder |-> f, uid |-> u]
    <2>1. CASE i = id[c]
      <3>1. loc[c] \in Place /\ f = loc[c].folder /\ u = loc[c].uid
        BY <1>1, <1>2, <2>1 DEF Holds, CommandTypes, Located
      <3>2. QED
        BY <3>1 DEF Place
    <2>2. QED
      BY <2>1
  <1>6. MarkedCopy(c, f, u)
    BY <1>3, <1>4, <1>5 DEF MarkedCopy
  <1>7. <<f, u>> \in serverSeen <=> op[c] = "read"
    BY <1>1, <1>2, <1>4, <1>6 DEF GivenInv
  <1>8. QED
    BY <1>7

\* A command that is to mark a row goes on to it, marks it, or gives up its
\* message's promise.
LEMMA PendingGoesOn ==
  ASSUME SInv, [Next]_vars, reused = {}, NEW c \in Caller, NEW i \in DOMAIN rows, i \in DOMAIN rows',
         rows'[i].msg = rows[i].msg,
         rows[i].uid \in DOMAIN box[rows[i].folder], Trusted(rows[i].msg), Trusted(rows[i].msg)',
         Pending(c, i)
  PROVE  \/ Pending(c, i)'
         \/ rows'[i].seen <=> <<rows[i].folder, rows[i].uid>> \in serverSeen
  <1>1. /\ IInv /\ StoreTypes /\ CommandTypes /\ MarkerInv /\ AloneInv /\ Holds(c) /\ gmail' = gmail
    BY HistoryGrows DEF SInv, IInv, Types
  <1>2. chosen[c] = rows[i].msg /\ at[c] \in {"seen", "siblings"}
    BY DEF Pending
  <1>3. op[c] \in Marks /\ id[c] \in DOMAIN rows /\ rows[id[c]].msg = chosen[c]
    BY <1>1, <1>2 DEF MarkerInv, AloneInv, Holds
  <1>4. CASE Still(c)
    BY <1>1, <1>4 DEF Still, Elsewhere, Keeps, Pending
  <1>5. CASE Abort(c)
    BY <1>2, <1>5 DEF Abort, Trusted
  <1>6. CASE MarkSeen(c)
    <2>1. CASE i = id[c]
      <3>1. rows'[i].seen <=> op[c] = "read"
        BY <1>1, <1>3, <1>6, <2>1, MarkSeenFlags DEF HasRow
      <3>2. QED
        BY <1>6, <2>1, <3>1, MarksAsGiven
    <2>2. CASE i # id[c]
      <3>1. at[c] = "seen" /\ at'[c] = "siblings" /\ chosen' = chosen /\ id' = id
        BY <1>1, <1>6 DEF MarkSeen, Goto, CommandTypes
      <3>2. QED
        BY <1>1, <2>2, <3>1 DEF Pending
    <2>3. QED
      BY <2>1, <2>2
  <1>7. CASE MarkSiblings(c)
    <2>1. gmail /\ i # id[c]
      BY <1>7 DEF MarkSiblings, Pending
    <2>2. header[rows[i].msg] # NoMsg
      <3>1. rows[i].msg \notin Astray(chosen[c])
        BY <1>1, <1>2 DEF MarkerInv, Trusted
      <3>2. QED
        BY <1>2, <2>1, <3>1 DEF Astray
    <2>3. rows'[i].seen <=> op[c] = "read"
      BY <1>1, <1>2, <1>3, <1>7, <2>1, <2>2, MarkSiblingsFlags DEF HasRow, Row
    <2>4. QED
      BY <1>2, <1>7, <2>1, <2>3, MarksAsGiven
  <1>8. QED
    BY <1>1, <1>2, <1>3, <1>4, <1>5, <1>6, <1>7, StillOrOwn DEF Own, Proceed, Command, Locate,
       StoreFlag, MoveMessage, DeletePermanently, FetchBody, CacheBody, RemoveMessage

LEMMA AgreeStep == SInv /\ [Next]_vars => AgreeInv'
  <1> SUFFICES ASSUME SInv, [Next]_vars, reused' = {}, NEW i \in DOMAIN rows',
                      rows'[i].uid \in DOMAIN box'[rows'[i].folder], Trusted(rows[i].msg)'
               PROVE  \/ rows'[i].seen <=> <<rows'[i].folder, rows'[i].uid>> \in serverSeen'
                      \/ \E c \in Caller : Pending(c, i)'
    BY DEF AgreeInv
  <1>1. /\ IInv /\ Types /\ StoreTypes /\ CommandTypes /\ RowInv /\ MarkerInv /\ PlaceInv /\ AloneInv
        /\ BatchInv /\ AgreeInv /\ Serves /\ RowFlags /\ reused = {}
        /\ blurred \subseteq blurred' /\ foreign \subseteq foreign' /\ gmail' = gmail
    BY ServesStep, RowFlagsStep, HistoryGrows DEF SInv, IInv, Types
  <1>2. CASE i \notin DOMAIN rows
    <2>1. SyncStore /\ rows'[i].folder = syncFolder
      BY <1>1, <1>2 DEF RowFlags
    <2>2. PICK u \in DOMAIN batch :
            rows'[i].uid = u /\ rows'[i].msg = batch[u].msg /\ rows'[i].seen = batch[u].seen
      BY <1>1, <1>2 DEF RowFlags
    <2>3. syncAt = "store" /\ UNCHANGED <<box, serverSeen, blurred, foreign>>
      BY <2>1 DEF SyncStore
    <2>4. batch[u].seen <=> <<syncFolder, u>> \in serverSeen
      BY <1>1, <2>1, <2>2, <2>3 DEF BatchInv, Trusted
    <2>5. QED
      BY <2>1, <2>2, <2>3, <2>4
  <1>3. CASE i \in DOMAIN rows
    <2> DEFINE f == rows[i].folder  u == rows[i].uid  m == rows[i].msg
    <2>1. rows'[i].folder = f /\ rows'[i].uid = u /\ rows'[i].msg = m
      BY <1>1, <1>3 DEF RowFlags
    <2>2. f \in Folder /\ u \in Nat /\ Names(f, u, m)
      BY <1>1, <1>3 DEF StoreTypes, RowType, RowInv
    <2>3. Trusted(m) /\ m \notin foreign'
      BY <1>1, <2>1 DEF Trusted
    <2>4. /\ u \in DOMAIN box[f] /\ box[f][u] = m
          /\ \/ <<f, u>> \in serverSeen' <=> <<f, u>> \in serverSeen
             \/ \E c \in Caller : StoreFlag(c) /\ OnServer(c) /\ chosen[c] = m /\ MarkedCopy(c, f, u)
      BY <1>1, <2>1, <2>2, <2>3, FlagKept
    <2>5. ASSUME NEW c \in Caller, StoreFlag(c), OnServer(c), chosen[c] = m, MarkedCopy(c, f, u)
          PROVE  Pending(c, i)'
      <3>1. at[c] = "server" /\ op[c] \in Marks /\ at'[c] = "seen" /\ UNCHANGED <<chosen, id, rows>>
        BY <1>1, <2>5 DEF StoreFlag, Goto, CommandTypes
      <3>2. id[c] \in DOMAIN rows
        BY <1>1, <2>3, <2>5, <3>1 DEF AloneInv
      <3>3. ASSUME ~gmail PROVE i = id[c]
        <4>1. loc[c] = [folder |-> f, uid |-> u]
          BY <2>5, <3>3 DEF MarkedCopy
        <4>2. rows[id[c]].folder = f /\ rows[id[c]].uid = u
          BY <1>1, <3>1, <3>2, <4>1 DEF IInv, Holds
        <4>3. QED
          BY <1>1, <1>3, <3>2, <4>2 DEF PlaceInv
      <3>4. QED
        BY <1>1, <2>1, <2>5, <3>1, <3>3 DEF Pending
    <2>6. CASE <<f, u>> \in serverSeen' <=> <<f, u>> \in serverSeen
      <3>1. CASE \E c \in Caller : Pending(c, i)
        <4>1. PICK c \in Caller : Pending(c, i)
          BY <3>1
        <4>2. \/ Pending(c, i)'
              \/ rows'[i].seen <=> <<f, u>> \in serverSeen
          BY <1>1, <1>3, <2>1, <2>3, <2>4, <4>1, PendingGoesOn
        <4>3. QED
          BY <2>1, <2>6, <4>2
      <3>2. CASE rows[i].seen <=> <<f, u>> \in serverSeen
        <4>1. CASE rows'[i].seen = rows[i].seen
          BY <2>1, <2>6, <3>2, <4>1
        <4>2. ASSUME NEW c \in Caller, rows'[i].seen <=> op[c] = "read",
                     (MarkSeen(c) /\ i = id[c]) \/ (MarkSiblings(c) /\ i \in Siblings(c))
              PROVE  rows'[i].seen <=> <<f, u>> \in serverSeen
          <5>1. ASSUME MarkSiblings(c), i \in Siblings(c)
                PROVE  gmail /\ chosen[c] = m
            <6>1. /\ gmail /\ id[c] \in DOMAIN rows /\ header[rows[id[c]].msg] # NoMsg
                  /\ header[m] = header[rows[id[c]].msg]
              BY <5>1 DEF Siblings, HasRow, Row
            <6>2. at[c] = "siblings"
              BY <5>1 DEF MarkSiblings
            <6>3. chosen[c] = rows[id[c]].msg
              BY <1>1, <6>1, <6>2 DEF IInv, Holds
            <6>4. m \in Msg /\ m \notin Astray(chosen[c])
              BY <1>1, <1>3, <2>3, <6>2 DEF MarkerInv, Trusted, StoreTypes, RowType
            <6>5. QED
              BY <6>1, <6>3, <6>4 DEF Astray
          <5>2. QED
            BY <1>1, <1>3, <2>3, <2>4, <4>2, <5>1, MarksAsGiven
        <4>3. QED
          BY <1>1, <1>3, <2>1, <2>6, <4>1, <4>2 DEF RowFlags
      <3>3. QED
        BY <1>1, <1>3, <2>3, <2>4, <3>1, <3>2 DEF AgreeInv
    <2>7. QED
      BY <2>4, <2>5, <2>6
  <1>4. QED
    BY <1>2, <1>3

LEMMA SeenInit == Init => SInv
  <1> SUFFICES ASSUME Init PROVE SInv
    OBVIOUS
  <1>1. DOMAIN Empty = {}
    BY DEF Empty
  <1>2. MarkerInv /\ AloneInv /\ GivenInv
    BY <1>1 DEF Init, MarkerInv, AloneInv, GivenInv, Marks
  <1>3. ArrivedInv
    BY <1>1, Constants DEF Init, ArrivedInv
  <1>4. PlaceInv /\ BatchInv /\ AgreeInv
    BY <1>1 DEF Init, PlaceInv, BatchInv, AgreeInv
  <1>5. QED
    BY <1>2, <1>3, <1>4, InductiveInit DEF SInv

-----------------------------------------------------------------------------
(* The refinement of CachedFolder: no folder has a gap below a cached UID *)

\* No UID of folder f that S lacks is below one of S.
NoGap(f, S) == \A u \in DOMAIN box[f] \ S, v \in S : v < u

\* What a later pass has to find lies above all rows, and above all that is about
\* to be stored.
GapInv ==
  reused = {} =>
    /\ \A f \in Folder : NoGap(f, CachedUids(f))
    /\ syncAt = "store" => NoGap(syncFolder, CachedUids(syncFolder) \union DOMAIN batch)

\* All that the refinement rests on.
CacheInv == IInv /\ PlaceInv /\ GapInv

\* The cached UIDs are those of the folder's rows.
LEMMA CachedMeans ==
  \A f, u : u \in CachedUids(f) <=> \E i \in DOMAIN rows : rows[i].folder = f /\ rows[i].uid = u
  BY DEF CachedUids

\* Cached UIDs were assigned.
LEMMA CachedTypes ==
  ASSUME IInv, NEW f \in Folder
  PROVE  uidNext[f] \in Nat \ {0} /\ CachedUids(f) \subseteq 1..(uidNext[f] - 1)
  <1>1. uidNext[f] \in Nat \ {0}
    BY DEF IInv, Types, ServerTypes
  <1>2. ASSUME NEW u \in CachedUids(f) PROVE u \in 1..(uidNext[f] - 1)
    <2>1. PICK i \in DOMAIN rows : rows[i].folder = f /\ rows[i].uid = u
      BY CachedMeans
    <2>2. u \in Nat \ {0}
      BY <2>1 DEF IInv, Types, StoreTypes, RowType
    <2>3. u < uidNext[f]
      BY <2>1 DEF IInv, RowInv, Names
    <2>4. QED
      BY <1>1, <2>2, <2>3
  <1>3. QED
    BY <1>1, <1>2

\* A number above none is no higher than one of them.
LEMMA HighestIn ==
  ASSUME NEW n \in Nat, NEW S, S \subseteq 1..n, NEW u \in Nat, u > 0, ~(u > Highest(S))
  PROVE  Highest(S) \in S /\ u <= Highest(S)
  <1>1. Highest(S) \in Nat /\ (S # {} => Highest(S) \in S)
    BY HighestBounds
  <1>2. S # {}
    <2>1. S = {} => Highest(S) = 0
      BY DEF Highest
    <2>2. QED
      BY <2>1
  <1>3. QED
    BY <1>1, <1>2

\* A UID a step leaves without a row was there before, and without a row, if it was
\* assigned before: a row that goes has lost its message.
LEMMA Uncached ==
  ASSUME IInv, [Next]_vars, ~SyncStore, reused = {}, NEW f \in Folder,
         NEW u \in DOMAIN box'[f] \ CachedUids(f)', u < uidNext[f]
  PROVE  u \in DOMAIN box[f] \ CachedUids(f)
  <1>1. u \in DOMAIN box[f]
    BY ServerStep DEF IInv, UidsKept
  <1>2. ASSUME u \in CachedUids(f) PROVE FALSE
    <2>1. PICK i \in DOMAIN rows : rows[i].folder = f /\ rows[i].uid = u
      BY <1>2, CachedMeans
    <2>2. CASE i \in DOMAIN rows'
      <3>1. rows'[i].folder = f /\ rows'[i].uid = u
        BY <2>1, <2>2, RowFlagsStep DEF RowFlags
      <3>2. u \in CachedUids(f)'
        BY <2>2, <3>1 DEF CachedUids
      <3>3. QED
        BY <3>2
    <2>3. CASE i \notin DOMAIN rows'
      <3>1. Next
        BY <2>1, <2>3
      <3>2. QED
        BY <1>1, <2>1, <2>3, <3>1, Vanishes
    <2>4. QED
      BY <2>2, <2>3
  <1>3. QED
    BY <1>1, <1>2

\* Only a store adds rows.
LEMMA CachedFall ==
  ASSUME IInv, [Next]_vars, ~SyncStore, NEW f \in Folder
  PROVE  CachedUids(f)' \subseteq CachedUids(f)
  <1>1. ASSUME NEW u \in CachedUids(f)' PROVE u \in CachedUids(f)
    <2>1. PICK i \in DOMAIN rows' : rows'[i].folder = f /\ rows'[i].uid = u
      BY DEF CachedUids
    <2>2. i \in DOMAIN rows /\ rows[i].folder = f /\ rows[i].uid = u
      BY <2>1, RowFlagsStep DEF RowFlags
    <2>3. QED
      BY <2>2, CachedMeans
  <1>2. QED
    BY <1>1

\* Every envelope of the batch gets a row.
LEMMA StoresAll ==
  ASSUME IInv, SyncStore
  PROVE  \A u \in DOMAIN batch : \E i \in DOMAIN rows' \ DOMAIN rows :
           rows'[i].folder = syncFolder /\ rows'[i].uid = u
  <1> DEFINE h == Highest(DOMAIN rows)
             K == 1..Cardinality(DOMAIN batch)
             new == {NewId(k) : k \in K}
             rank(u) == Cardinality({v \in DOMAIN batch : v <= u})
  <1>1. /\ DOMAIN rows' = DOMAIN rows \union new
        /\ \A i \in new : rows'[i].folder = syncFolder /\ rows'[i].uid = NthUid(i - h)
    BY DEF SyncStore
  <1>2. PICK n \in Nat : DOMAIN rows \subseteq 1..n
    BY DEF IInv, Types, StoreTypes
  <1>3. h \in Nat /\ \A i \in DOMAIN rows : i <= h
    BY <1>2, HighestBounds
  <1>4. uidNext[syncFolder] \in Nat /\ DOMAIN batch \subseteq 1..uidNext[syncFolder]
    BY DEF SyncStore, IInv, Types, ServerTypes, SyncTypes, HeldInv, Names
  <1>5. /\ \A u \in DOMAIN batch : rank(u) \in K
        /\ \A u, w \in DOMAIN batch : rank(u) = rank(w) => u = w
    BY <1>4, Ranks
  <1>6. Cardinality(DOMAIN batch) \in Nat
    <2>1. Cardinality(DOMAIN batch) \in 0..uidNext[syncFolder]
      BY <1>4, Counted
    <2>2. QED
      BY <1>4, <2>1
  <1> SUFFICES ASSUME NEW u \in DOMAIN batch
               PROVE  \E i \in DOMAIN rows' \ DOMAIN rows :
                        rows'[i].folder = syncFolder /\ rows'[i].uid = u
    OBVIOUS
  <1> DEFINE k == rank(u)
  <1>7. k \in K /\ NewId(k) \in new
    BY <1>5
  <1>8. NewId(k) = h + k
    BY DEF NewId
  <1>9. NthUid(k) = u
    <2>1. \A w \in DOMAIN batch : rank(w) = k => w = u
      BY <1>5
    <2> HIDE DEF k
    <2>2. rank(u) = k
      BY DEF k
    <2>3. QED
      BY <2>1, <2>2 DEF NthUid
  <1>10. NewId(k) - h = k /\ NewId(k) \notin DOMAIN rows
    <2> HIDE DEF h, k
    <2>1. k \in Nat /\ k > 0 /\ NewId(k) = h + k
      BY <1>6, <1>7, <1>8
    <2>2. ~(h + k <= h) /\ (h + k) - h = k
      BY <1>3, <2>1
    <2>3. QED
      BY <1>3, <2>1, <2>2
  <1> HIDE DEF h, k, new
  <1>11. QED
    BY <1>1, <1>7, <1>9, <1>10

\* The cached UIDs after a store are those before and the batch's.
LEMMA CachedGrow ==
  ASSUME IInv, SyncStore, NEW f \in Folder
  PROVE  CachedUids(f)' = CachedUids(f) \union IF f = syncFolder THEN DOMAIN batch ELSE {}
  <1> DEFINE new == IF f = syncFolder THEN DOMAIN batch ELSE {}
  <1>1. /\ DOMAIN rows \subseteq DOMAIN rows' /\ \A i \in DOMAIN rows : rows'[i] = rows[i]
        /\ \A i \in DOMAIN rows' \ DOMAIN rows :
             rows'[i].folder = syncFolder /\ rows'[i].uid \in DOMAIN batch
    BY Stores DEF IInv
  <1>2. ASSUME NEW u \in CachedUids(f)' PROVE u \in CachedUids(f) \union new
    <2>1. PICK i \in DOMAIN rows' : rows'[i].folder = f /\ rows'[i].uid = u
      BY DEF CachedUids
    <2>2. CASE i \in DOMAIN rows
      BY <1>1, <2>1, <2>2, CachedMeans
    <2>3. CASE i \notin DOMAIN rows
      BY <1>1, <2>1, <2>3
    <2>4. QED
      BY <2>2, <2>3
  <1>3. ASSUME NEW u \in CachedUids(f) PROVE u \in CachedUids(f)'
    <2>1. PICK i \in DOMAIN rows : rows[i].folder = f /\ rows[i].uid = u
      BY CachedMeans
    <2>2. i \in DOMAIN rows' /\ rows'[i].folder = f /\ rows'[i].uid = u
      BY <1>1, <2>1
    <2>3. QED
      BY <2>2 DEF CachedUids
  <1>4. ASSUME NEW u \in new PROVE u \in CachedUids(f)'
    <2>1. f = syncFolder /\ u \in DOMAIN batch
      OBVIOUS
    <2>2. PICK i \in DOMAIN rows' \ DOMAIN rows : rows'[i].folder = syncFolder /\ rows'[i].uid = u
      BY <2>1, StoresAll
    <2>3. QED
      BY <2>1, <2>2 DEF CachedUids
  <1> HIDE DEF new
  <1>5. CachedUids(f)' = CachedUids(f) \union new
    BY <1>2, <1>3, <1>4
  <1>6. QED
    BY <1>5 DEF new

\* A set without a gap has none after the step, when no member is added.
LEMMA GapKept ==
  ASSUME IInv, [Next]_vars, ~SyncStore, reused = {}, NEW f \in Folder, NEW S,
         S \subseteq 1..(uidNext[f] - 1),
         NoGap(f, CachedUids(f) \union S)
  PROVE  NoGap(f, CachedUids(f) \union S)'
  <1> SUFFICES ASSUME NEW u \in DOMAIN box'[f], u \notin CachedUids(f)', u \notin S,
                      NEW v \in CachedUids(f)' \union S
               PROVE  v < u
    BY DEF NoGap
  <1>1. v \in CachedUids(f) \union S /\ v \in Nat /\ v < uidNext[f] /\ uidNext[f] \in Nat
    <2>1. uidNext[f] \in Nat /\ CachedUids(f) \subseteq 1..(uidNext[f] - 1)
      BY CachedTypes
    <2>2. v \in CachedUids(f) \union S
      BY CachedFall
    <2>3. \A w \in 1..(uidNext[f] - 1) : w \in Nat /\ w < uidNext[f]
      BY <2>1
    <2>4. QED
      BY <2>1, <2>2, <2>3
  <1>2. u \in Nat
    BY TypesStep DEF IInv, Types, ServerTypes
  <1>3. CASE u < uidNext[f]
    BY <1>1, <1>3, Uncached DEF NoGap
  <1>4. CASE ~(u < uidNext[f])
    BY <1>1, <1>2, <1>4
  <1>5. QED
    BY <1>3, <1>4

\* No pass, no command and no other client opens a gap.
LEMMA GapStep == CacheInv /\ [Next]_vars => GapInv'
  <1> SUFFICES ASSUME CacheInv, [Next]_vars, reused' = {}
               PROVE  /\ \A f \in Folder : NoGap(f, CachedUids(f))'
                      /\ syncAt' = "store" =>
                           NoGap(syncFolder, CachedUids(syncFolder) \union DOMAIN batch)'
    BY DEF GapInv
  <1>1. /\ IInv /\ reused = {} /\ syncFolder \in Folder
        /\ \A f \in Folder : NoGap(f, CachedUids(f))
        /\ syncAt = "store" => NoGap(syncFolder, CachedUids(syncFolder) \union DOMAIN batch)
    BY MarkedStay DEF CacheInv, GapInv, IInv, Types, SyncTypes
  <1>2. CASE SyncStore
    <2>1. syncAt = "store" /\ syncAt' # "store" /\ box' = box
      BY <1>2 DEF SyncStore, AfterStore
    <2>2. \A f \in Folder : NoGap(f, CachedUids(f)')
      BY <1>1, <1>2, <2>1, CachedGrow
    <2>3. QED
      BY <2>1, <2>2 DEF NoGap
  <1>3. CASE ~SyncStore
    <2>1. ASSUME NEW f \in Folder PROVE NoGap(f, CachedUids(f))'
      <3>1. CachedUids(f) \union {} = CachedUids(f) /\ {} \subseteq 1..(uidNext[f] - 1)
        OBVIOUS
      <3>2. NoGap(f, CachedUids(f) \union {})'
        BY <1>1, <1>3, <3>1, GapKept
      <3>3. QED
        BY <3>2 DEF NoGap
    <2>2. CASE SyncFetch
      <3>1. UNCHANGED <<box, rows, syncFolder>> /\ DOMAIN batch' = Fresh(syncFolder)
        BY <2>2 DEF SyncFetch
      <3>2. CachedUids(syncFolder)' = CachedUids(syncFolder)
        BY <3>1 DEF CachedUids
      <3>3. ASSUME NEW u \in DOMAIN box[syncFolder] \ (CachedUids(syncFolder) \union Fresh(syncFolder))
            PROVE  FALSE
        <4> DEFINE h == Highest(CachedUids(syncFolder))
        <4>1. uidNext[syncFolder] - 1 \in Nat /\ CachedUids(syncFolder) \subseteq 1..(uidNext[syncFolder] - 1)
          <5>1. uidNext[syncFolder] \in Nat \ {0}
                /\ CachedUids(syncFolder) \subseteq 1..(uidNext[syncFolder] - 1)
            BY <1>1, CachedTypes
          <5>2. QED
            BY <5>1
        <4>2. u \in Nat /\ u > 0
          <5>1. uidNext[syncFolder] \in Nat /\ u \in 1..(uidNext[syncFolder] - 1)
            BY <1>1 DEF IInv, Types, ServerTypes
          <5>2. QED
            BY <5>1
        <4>3. ~(u > h)
          BY <3>3 DEF Fresh
        <4>4. h \in CachedUids(syncFolder) /\ u <= h
          BY <4>1, <4>2, <4>3, HighestIn
        <4>5. h < u
          BY <1>1, <4>4 DEF NoGap
        <4>6. h \in Nat
          BY <4>1, <4>4
        <4> HIDE DEF h
        <4>7. QED
          BY <4>2, <4>4, <4>5, <4>6
      <3>4. QED
        BY <2>1, <3>1, <3>2, <3>3 DEF NoGap
    <2>3. CASE UNCHANGED <<syncAt, syncFolder, batch>>
      <3>1. ASSUME syncAt = "store" PROVE NoGap(syncFolder, CachedUids(syncFolder) \union DOMAIN batch)'
        <4>1. DOMAIN batch \subseteq 1..(uidNext[syncFolder] - 1)
          <5>1. uidNext[syncFolder] \in Nat
            BY <1>1 DEF IInv, Types, ServerTypes
          <5>2. \A u \in DOMAIN batch : u \in Nat \ {0} /\ u < uidNext[syncFolder]
            BY <1>1, <3>1 DEF IInv, HeldInv, Names
          <5>3. QED
            BY <5>1, <5>2
        <4>2. PICK f \in Folder : f = syncFolder
          BY <1>1
        <4>3. PICK S : S = DOMAIN batch
          OBVIOUS
        <4>4. S \subseteq 1..(uidNext[f] - 1) /\ NoGap(f, CachedUids(f) \union S)
          BY <1>1, <3>1, <4>1, <4>2, <4>3
        <4>5. NoGap(f, CachedUids(f) \union S)'
          BY <1>1, <1>3, <4>4, GapKept
        <4>6. QED
          BY <2>3, <4>2, <4>3, <4>5 DEF NoGap
      <3>2. QED
        BY <2>1, <2>3, <3>1
    <2>4. CASE syncAt' # "store"
      BY <2>1, <2>4
    <2>5. QED
      BY <1>3, <2>2, <2>3, <2>4 DEF Next, SyncStep, SyncStatus, SyncCounts, PrefetchFetch,
         PrefetchCache, AfterStore, Arrive, OtherClient, Command, Proceed, Locate, StoreFlag,
         MoveMessage, DeletePermanently, FetchBody, CacheBody, RemoveMessage, MarkSeen,
         MarkSiblings, Abort
  <1>4. QED
    BY <1>2, <1>3

-----------------------------------------------------------------------------
(* The refinement of CachedFolder: each step is one of the folder or none *)

\* The message cached under a UID is that of the one row that has it.
StoredIs ==
  \A f \in Folder :
    /\ DOMAIN Stored(f) = CachedUids(f)
    /\ \A i \in DOMAIN rows : rows[i].folder = f => Stored(f)[rows[i].uid] = rows[i].msg

LEMMA StoredMeans == PlaceInv => StoredIs
  <1> SUFFICES ASSUME PlaceInv, NEW f \in Folder, NEW i \in DOMAIN rows, rows[i].folder = f
               PROVE  Stored(f)[rows[i].uid] = rows[i].msg
    BY DEF Stored, StoredIs
  <1>1. rows[i].uid \in CachedUids(f)
    BY CachedMeans
  <1>2. \A j \in DOMAIN rows : rows[j].folder = f /\ rows[j].uid = rows[i].uid => j = i
    BY DEF PlaceInv
  <1>3. RowOf(f, rows[i].uid) = i
    BY <1>2 DEF RowOf
  <1>4. QED
    BY <1>1, <1>3 DEF Stored

\* The same after a step.
LEMMA StoredMeansNext == PlaceInv' => StoredIs'
  BY StoredMeans, PTL

\* A UID that stays cached keeps its message.
LEMMA StoredKept ==
  ASSUME CacheInv, CacheInv', [Next]_vars, NEW f \in Folder
  PROVE  Cache(f)!Agree(Stored(f), Stored(f)')
  <1> SUFFICES ASSUME NEW u \in CachedUids(f), u \in CachedUids(f)'
               PROVE  Stored(f)[u] = Stored(f)'[u]
    BY StoredMeans, StoredMeansNext DEF CacheInv, StoredIs, Cache!Agree
  <1>1. PICK i \in DOMAIN rows' : rows'[i].folder = f /\ rows'[i].uid = u
    BY DEF CachedUids
  <1>2. PICK j \in DOMAIN rows : rows[j].folder = f /\ rows[j].uid = u
    BY CachedMeans
  <1>3. Stored(f)'[u] = rows'[i].msg /\ Stored(f)[u] = rows[j].msg
    BY <1>1, <1>2, StoredMeans, StoredMeansNext DEF CacheInv, StoredIs
  <1>4. RowFlags
    BY RowFlagsStep DEF CacheInv
  <1>5. CASE i \in DOMAIN rows
    <2>1. rows[i].folder = f /\ rows[i].uid = u /\ rows'[i].msg = rows[i].msg
      BY <1>1, <1>4, <1>5 DEF RowFlags
    <2>2. i = j
      BY <1>2, <1>5, <2>1 DEF CacheInv, PlaceInv
    <2>3. QED
      BY <1>3, <2>1, <2>2
  <1>6. CASE i \notin DOMAIN rows
    <2>1. SyncStore /\ f = syncFolder /\ u \in DOMAIN batch
      BY <1>1, <1>4, <1>6 DEF RowFlags
    <2>2. u < u
      BY <1>2, <2>1 DEF CacheInv, PlaceInv, SyncStore
    <2>3. u \in Nat
      BY <1>2 DEF CacheInv, IInv, Types, StoreTypes, RowType
    <2>4. QED
      BY <2>2, <2>3
  <1>7. QED
    BY <1>5, <1>6

\* A step that leaves the rows alone is at most a change of the mailbox.
LEMMA ChangeRefines ==
  ASSUME CacheInv, CacheInv', [Next]_vars, UNCHANGED rows, NEW f \in Folder
  PROVE  Cache(f)!Change
  <1>1. Stored(f)' = Stored(f)
    BY DEF Stored, RowOf, CachedUids
  <1>2. /\ uidNext[f] \in Nat /\ uidNext'[f] \in Nat /\ uidNext[f] <= uidNext'[f]
        /\ \A u \in DOMAIN box'[f] : u \in 1..(uidNext'[f] - 1)
    BY ServerStep DEF CacheInv, IInv, Types, ServerTypes, UidsKept
  <1>3. \A u \in DOMAIN box'[f] : u < uidNext[f] => u \in DOMAIN box[f] /\ box'[f][u] = box[f][u]
    BY ServerStep DEF CacheInv, IInv, UidsKept
  <1>4. \A u \in DOMAIN box[f] : u \in Nat /\ u < uidNext[f]
    BY <1>2 DEF CacheInv, IInv, Types, ServerTypes
  <1>5. Cache(f)!Agree(box[f], box'[f])
    BY <1>3, <1>4 DEF Cache!Agree
  <1>6. ASSUME NEW u \in DOMAIN box'[f] \ DOMAIN box[f]
        PROVE  uidNext[f] - 1 < u /\ u <= uidNext'[f] - 1
    <2>1. ~(u < uidNext[f])
      BY <1>3
    <2>2. QED
      BY <1>2, <2>1
  <1>7. uidNext[f] - 1 <= uidNext'[f] - 1
    BY <1>2
  <1>8. QED
    BY <1>1, <1>5, <1>6, <1>7 DEF Cache!Change

\* Rows that go have lost their messages.
LEMMA RemoveRefines ==
  ASSUME CacheInv, CacheInv', [Next]_vars, ~SyncStore, UNCHANGED <<box, uidNext>>,
         reused = {}, NEW f \in Folder
  PROVE  Cache(f)!Remove
  <1>1. DOMAIN Stored(f) = CachedUids(f) /\ DOMAIN Stored(f)' = CachedUids(f)'
    BY StoredMeans, StoredMeansNext DEF CacheInv, StoredIs
  <1>2. CachedUids(f)' \subseteq CachedUids(f)
    BY CachedFall DEF CacheInv
  <1>3. ASSUME NEW u \in CachedUids(f) \ CachedUids(f)', u \in DOMAIN box[f]
        PROVE  FALSE
    <2>1. u < uidNext[f]
      <3>1. uidNext[f] \in Nat /\ CachedUids(f) \subseteq 1..(uidNext[f] - 1)
        BY CachedTypes DEF CacheInv
      <3>2. \A v \in 1..(uidNext[f] - 1) : v < uidNext[f]
        BY <3>1
      <3>3. QED
        BY <3>1, <3>2
    <2>2. u \notin CachedUids(f)
      BY <1>3, <2>1, Uncached DEF CacheInv
    <2>3. QED
      BY <2>2
  <1>4. QED
    BY <1>1, <1>2, <1>3, StoredKept DEF Cache!Remove, Cache!Current, Cache!mailbox

\* What a pass stores lies above all rows and skips nothing.
LEMMA StoreRefines ==
  ASSUME CacheInv, CacheInv', [Next]_vars, SyncStore, reused' = {}, NEW f \in Folder
  PROVE  Cache(f)!Store
  <1> DEFINE new == CachedUids(f)' \ CachedUids(f)
  <1>1. DOMAIN Stored(f) = CachedUids(f) /\ DOMAIN Stored(f)' = CachedUids(f)'
    BY StoredMeans, StoredMeansNext DEF CacheInv, StoredIs
  <1>2. CachedUids(f) \subseteq CachedUids(f)' /\ new \subseteq IF f = syncFolder THEN DOMAIN batch ELSE {}
    BY CachedGrow DEF CacheInv
  <1>3. UNCHANGED <<box, uidNext>> /\ syncAt = "store"
    BY DEF SyncStore
  <1>4. ASSUME NEW u \in new, NEW v \in CachedUids(f) PROVE v < u
    <2>1. PICK i \in DOMAIN rows : rows[i].folder = f /\ rows[i].uid = v
      BY CachedMeans
    <2>2. f = syncFolder /\ u \in DOMAIN batch
      BY <1>2
    <2>3. QED
      BY <1>3, <2>1, <2>2 DEF CacheInv, PlaceInv
  <1>5. \A u \in CachedUids(f)' : u <= uidNext[f] - 1
    <2>1. uidNext[f] \in Nat
      BY DEF CacheInv, IInv, Types, ServerTypes
    <2>2. ASSUME NEW u \in CachedUids(f)' PROVE u \in Nat /\ u < uidNext[f]
      <3>1. PICK i \in DOMAIN rows' : rows'[i].folder = f /\ rows'[i].uid = u
        BY DEF CachedUids
      <3>2. u < uidNext'[f]
        BY <3>1 DEF CacheInv, IInv, RowInv, Names
      <3>3. u \in Nat
        BY <3>1 DEF CacheInv, IInv, Types, StoreTypes, RowType
      <3>4. QED
        BY <1>3, <3>2, <3>3
    <2>3. QED
      BY <2>1, <2>2
  <1>6. ASSUME NEW u \in new, u \in DOMAIN box[f] PROVE Stored(f)'[u] = box[f][u]
    <2>1. PICK i \in DOMAIN rows' : rows'[i].folder = f /\ rows'[i].uid = u
      BY DEF CachedUids
    <2>2. Stored(f)'[u] = rows'[i].msg
      BY <2>1, StoredMeansNext DEF CacheInv, StoredIs
    <2>3. u \in DOMAIN box'[f] => box'[f][u] = rows'[i].msg
      BY <2>1 DEF CacheInv, IInv, RowInv, Names
    <2>4. QED
      BY <1>3, <1>6, <2>2, <2>3
  <1>7. ASSUME NEW u \in DOMAIN box[f] \ CachedUids(f)', NEW v \in new, u < v PROVE FALSE
    <2>1. v < u
      BY <1>3 DEF CacheInv, GapInv, NoGap
    <2>2. u \in Nat
      BY DEF CacheInv, IInv, Types, ServerTypes
    <2>3. v \in Nat
      BY <1>2, <1>3 DEF CacheInv, IInv, HeldInv
    <2>4. QED
      BY <1>7, <2>1, <2>2, <2>3
  <1>8. Cache(f)!SkipsNothing(Stored(f)', DOMAIN Stored(f)' \ DOMAIN Stored(f))
    BY <1>1, <1>7 DEF Cache!SkipsNothing
  <1> HIDE DEF new
  <1>9. new = DOMAIN Stored(f)' \ DOMAIN Stored(f)
    BY <1>1 DEF new
  <1>10. \A u \in new : u <= uidNext[f] - 1
    BY <1>5 DEF new
  <1>11. QED
    BY <1>1, <1>2, <1>3, <1>4, <1>6, <1>8, <1>9, <1>10, StoredKept
       DEF Cache!Store, Cache!Current, Cache!mailbox

\* As long as no id was given away, each step is one of every folder or none.
LEMMA StepRefines ==
  CacheInv /\ CacheInv' /\ [Next]_vars =>
    [reused' = {} => \A f \in Folder : [Cache(f)!Next]_(Cache(f)!vars)]_vars
  <1> SUFFICES ASSUME CacheInv, CacheInv', [Next]_vars, reused' = {}, NEW f \in Folder
               PROVE  Cache(f)!Next
    OBVIOUS
  <1>1. reused = {}
    BY MarkedStay
  <1>2. \/ SyncStore
        \/ UNCHANGED rows
        \/ ~SyncStore /\ UNCHANGED <<box, uidNext>>
    BY ZenonT(60)
       DEF Next, SyncStep, SyncStatus, SyncCounts, SyncFetch, PrefetchFetch, PrefetchCache, Arrive,
       OtherClient, Command, Proceed, Locate, StoreFlag, MoveMessage, DeletePermanently, FetchBody,
       CacheBody, RemoveMessage, MarkSeen, MarkSiblings, Abort
  <1>3. QED
    BY <1>1, <1>2, ChangeRefines, RemoveRefines, StoreRefines DEF Cache!Next

\* Initially no folder has a message or a row.
LEMMA CacheInit == Init => CacheInv /\ \A f \in Folder : Cache(f)!Init
  <1> SUFFICES ASSUME Init PROVE CacheInv /\ \A f \in Folder : Cache(f)!Init
    OBVIOUS
  <1>1. DOMAIN Empty = {}
    BY DEF Empty
  <1>2. \A f \in Folder : DOMAIN box[f] = {} /\ CachedUids(f) = {} /\ DOMAIN Stored(f) = {}
    BY <1>1 DEF Init, CachedUids, Stored
  <1>3. PlaceInv /\ GapInv
    BY <1>1, <1>2 DEF Init, PlaceInv, GapInv, NoGap
  <1>4. \A f \in Folder : Cache(f)!Init
    BY <1>2 DEF Cache!Init
  <1>5. QED
    BY <1>3, <1>4, InductiveInit DEF CacheInv

-----------------------------------------------------------------------------
(* The theorems *)

\* What the commands and the sync goroutine have looked up stays true of the
\* message it was looked up for, across every call of the server.
THEOREM InductiveInvariance == Spec => []IInv
  BY InductiveInit, InductiveStep, PTL DEF Spec

\* The server's, the store's and the commands' variables keep their types; no
\* count falls below zero.
THEOREM TypeInvariance == Spec => []TypeOK
  <1>1. IInv => TypeOK
    <2> SUFFICES ASSUME IInv PROVE TypeOK
      OBVIOUS
    <2>1. ServerTypes /\ StoreTypes /\ SyncTypes /\ CommandTypes
      BY DEF IInv, Types
    <2>2. /\ gmail \in BOOLEAN /\ caps \subseteq {"MOVE", "UIDPLUS"}
          /\ header \in [Msg -> Msg \union {NoMsg}]
          /\ arrived \in 0..MaxMsg /\ serverSeen \union deleted \subseteq Folder \X Nat
          /\ \A f \in Folder :
               /\ DOMAIN box[f] \subseteq 1..(uidNext[f] - 1) /\ Range(box[f]) \subseteq Msg
               /\ uidNext[f] \in Nat \ {0} /\ total[f] \in Nat /\ unread[f] \in Nat
      BY <2>1 DEF ServerTypes, StoreTypes, Range
    <2>3. DOMAIN rows \subseteq Nat \ {0}
      BY <2>1 DEF StoreTypes
    <2>4. \A i \in DOMAIN rows : IsRow(rows[i])
      BY <2>1 DEF StoreTypes, RowType, IsRow
    <2>5. \A u \in DOMAIN batch : batch[u].msg \in Msg /\ batch[u].seen \in BOOLEAN
      BY <2>1 DEF SyncTypes
    <2>6. \A c \in Caller :
            /\ at[c] \in {"out", "locate", "server", "remove", "seen", "siblings", "cache"}
            /\ op[c] \in Op \union {"none"} /\ id[c] \in Nat
            /\ target[c] \in Folder \union {"none"} /\ wasSeen[c] \in BOOLEAN
            /\ fetched[c] \in Msg \union {NoMsg} /\ chosen[c] \in Msg \union {NoMsg}
      BY <2>1 DEF CommandTypes
    <2>7. QED
      BY <2>1, <2>2, <2>3, <2>4, <2>5, <2>6 DEF TypeOK, SyncTypes
  <1>2. QED
    BY <1>1, InductiveInvariance, PTL

\* A cached body is its row's own, whatever mailbox was selected and whatever
\* happened to the row meanwhile, unless its id was given away.
THEOREM Bodies == Spec => []BodyIsTheRowsOwn
  <1>1. IInv => BodyIsTheRowsOwn
    BY DEF IInv
  <1>2. QED
    BY <1>1, InductiveInvariance, PTL

\* What a command does on the server it does to the message the user chose, unless its
\* id was given away: every other one keeps its place and its flags, or had \Deleted
\* already and goes with a plain EXPUNGE; and nothing else enters a folder.
THEOREM Chosen == Spec => ActsOnTheChosen
  <1>1. IInv /\ [Next]_vars =>
          [\A c \in Caller, f \in Folder :
             at[c] = "server" /\ at'[c] # "server" /\ id[c] \notin reused =>
               /\ \A u \in DOMAIN box[f] : box[f][u] # chosen[c] => Spared(c, f, u)
               /\ \A u \in DOMAIN box'[f] \ DOMAIN box[f] : box'[f][u] = chosen[c]]_vars
    BY ActsStep
  <1>2. QED
    BY <1>1, InductiveInvariance, PTL DEF Spec, ActsOnTheChosen

\* A row is removed only after its message has left the folder: what the window
\* takes off the list is never still where it was.
THEOREM Outlives == Spec => RowOutlivesMessage
  <1>1. IInv /\ [Next]_vars =>
          [\A i \in DOMAIN rows \ DOMAIN rows' :
             i \in reused \/ rows[i].uid \notin DOMAIN box[rows[i].folder]]_vars
    BY Vanishes
  <1>2. QED
    BY <1>1, InductiveInvariance, PTL DEF Spec, RowOutlivesMessage

\* When no command is marking, every row has the flag its copy has on the
\* server, save the messages the property names, in every interleaving of any
\* number of commands, sync passes and other clients.
THEOREM Agreement == Spec => []SeenAgrees
  <1>1. SInv /\ [Next]_vars => SInv'
    <2> SUFFICES ASSUME SInv, [Next]_vars PROVE SInv'
      OBVIOUS
    <2>1. QED
      BY InductiveStep, MarkerStep, ArrivedStep, PlaceStep, AloneStep, GivenStep, BatchStep, AgreeStep DEF SInv
  <1>2. SInv => SeenAgrees
    <2> SUFFICES ASSUME SInv, Quiet, reused = {}, NEW i \in DOMAIN rows,
                        rows[i].uid \in DOMAIN box[rows[i].folder],
                        rows[i].msg \notin blurred \union foreign
                 PROVE  rows[i].seen <=> <<rows[i].folder, rows[i].uid>> \in serverSeen
      BY DEF SeenAgrees
    <2>1. \A c \in Caller : ~Pending(c, i)
      BY DEF SInv, MarkerInv, Quiet, Pending
    <2>2. QED
      BY <2>1 DEF SInv, AgreeInv, Trusted
  <1>3. QED
    BY <1>1, <1>2, SeenInit, PTL DEF Spec

\* Each folder is a cached folder: commands that remove rows by their ids alone, and
\* a store of what was fetched before they did, leave every row its message, skip no
\* message and drop no row whose message is there, as long as no id was given away.
THEOREM Refinement == Spec => ImplementsCache
  <1>1. CacheInv /\ [Next]_vars => CacheInv'
    BY InductiveStep, PlaceStep, GapStep DEF CacheInv
  <1>2. QED
    BY <1>1, CacheInit, StepRefines, PTL DEF Spec, ImplementsCache
=============================================================================
