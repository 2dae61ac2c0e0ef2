---------------------------- MODULE MailViewProofs ----------------------------
(***************************************************************************)
(* What the list and the reader show, for any folders, any mail, any number *)
(* of calls in flight and any order of their answers.                      *)
(***************************************************************************)
EXTENDS MailView, TLAPS, SequenceTheorems, FiniteSetTheorems, FunctionTheorems

-----------------------------------------------------------------------------
(* Sequences *)

\* A call leaves the calls in flight: the others keep their order.
LEMMA Removal ==
  ASSUME NEW S, NEW s \in Seq(S), NEW i \in DOMAIN s
  PROVE  /\ RemoveAt(s, i) \in Seq(S)
         /\ Len(RemoveAt(s, i)) = Len(s) - 1
         /\ \A j \in 1..(Len(s) - 1) : RemoveAt(s, i)[j] = s[IF j < i THEN j ELSE j + 1]
  <1> DEFINE a == SubSeq(s, 1, i - 1)
             b == SubSeq(s, i + 1, Len(s))
  <1>1. i \in 1..Len(s) /\ Len(s) \in Nat /\ i - 1 \in Int /\ i + 1 \in Int
    OBVIOUS
  <1>2. /\ a \in Seq(S) /\ Len(a) = i - 1
        /\ \A j \in 1..(i - 1) : a[j] = s[j]
    <2>1. \A j \in 1..(i - 1) : s[j] \in S
      BY <1>1
    <2>2. /\ a \in Seq(S)
          /\ Len(a) = IF 1 <= i - 1 THEN i - 1 - 1 + 1 ELSE 0
          /\ \A j \in 1..(i - 1 - 1 + 1) : a[j] = s[1 + j - 1]
      BY <1>1, <2>1, SubSeqProperties
    <2>3. QED
      BY <1>1, <2>2
  <1>3. /\ b \in Seq(S) /\ Len(b) = Len(s) - i
        /\ \A j \in 1..(Len(s) - i) : b[j] = s[i + j]
    <2>1. \A j \in (i + 1)..Len(s) : s[j] \in S
      BY <1>1
    <2>2. /\ b \in Seq(S)
          /\ Len(b) = IF i + 1 <= Len(s) THEN Len(s) - (i + 1) + 1 ELSE 0
          /\ \A j \in 1..(Len(s) - (i + 1) + 1) : b[j] = s[i + 1 + j - 1]
      BY <1>1, <2>1, SubSeqProperties
    <2>3. /\ Len(s) - (i + 1) + 1 = Len(s) - i
          /\ ~(i + 1 <= Len(s)) => Len(s) - i = 0
          /\ \A j \in 1..(Len(s) - i) : i + 1 + j - 1 = i + j
      BY <1>1
    <2> HIDE DEF b
    <2>4. QED
      BY <2>2, <2>3
  <1>4. /\ a \o b \in Seq(S) /\ Len(a \o b) = Len(a) + Len(b)
        /\ \A j \in 1..(Len(a) + Len(b)) :
             (a \o b)[j] = IF j <= Len(a) THEN a[j] ELSE b[j - Len(a)]
    BY <1>2, <1>3, ConcatProperties
  <1>5. RemoveAt(s, i) = a \o b
    BY DEF RemoveAt
  <1>6. ASSUME NEW j \in 1..(Len(s) - 1)
        PROVE  (a \o b)[j] = s[IF j < i THEN j ELSE j + 1]
    <2> HIDE DEF a, b
    <2>1. CASE j < i
      <3>1. j \in 1..(i - 1) /\ j \in 1..(Len(a) + Len(b)) /\ j <= Len(a)
        BY <1>1, <1>2, <1>3, <2>1
      <3>2. QED
        BY <1>2, <1>4, <2>1, <3>1
    <2>2. CASE ~(j < i)
      <3>1. j - (i - 1) \in 1..(Len(s) - i) /\ j \in 1..(Len(a) + Len(b)) /\ ~(j <= Len(a))
        <4>1. j - (i - 1) \in 1..(Len(s) - i) /\ ~(j <= i - 1)
          BY <1>1, <2>2
        <4>2. Len(a) + Len(b) = Len(s) - 1 /\ Len(a) = i - 1
          BY <1>1, <1>2, <1>3
        <4>3. QED
          BY <4>1, <4>2
      <3>2. j - Len(a) = j - (i - 1) /\ i + (j - (i - 1)) = j + 1
        BY <1>1, <1>2
      <3>3. (a \o b)[j] = b[j - Len(a)]
        BY <1>4, <3>1
      <3>4. b[j - (i - 1)] = s[i + (j - (i - 1))]
        BY <1>3, <3>1
      <3>5. QED
        BY <2>2, <3>2, <3>3, <3>4
    <2>3. QED
      BY <2>1, <2>2
  <1>7. QED
    <2> HIDE DEF a, b
    <2>1. Len(a) + Len(b) = Len(s) - 1
      BY <1>1, <1>2, <1>3
    <2>2. QED
      BY <1>4, <1>5, <1>6, <2>1

\* Among finitely many members, each with a set of its own that it is in, some
\* set has k elements for every k up to their number, if no two have equally many.
LEMMA Ranks ==
  ASSUME NEW S, IsFiniteSet(S), NEW side \in [S -> SUBSET S],
         \A m \in S : m \in side[m],
         \A m, n \in S : m # n => Cardinality(side[m]) # Cardinality(side[n]),
         NEW k \in 1..Cardinality(S)
  PROVE  \E m \in S : Cardinality(side[m]) = k
  <1> DEFINE T == 1..Cardinality(S)
             f == [m \in S |-> Cardinality(side[m])]
  <1>1. Cardinality(S) \in Nat
    BY FS_CardinalityType
  <1>2. ASSUME NEW m \in S PROVE Cardinality(side[m]) \in T
    <2>1. IsFiniteSet(side[m]) /\ Cardinality(side[m]) <= Cardinality(S)
      BY FS_Subset
    <2>2. Cardinality(side[m]) \in Nat
      BY <2>1, FS_CardinalityType
    <2>3. Cardinality(side[m]) # 0
      BY <2>1, FS_EmptySet
    <2>4. QED
      BY <1>1, <2>1, <2>2, <2>3
  <1>3. f \in [S -> T]
    BY <1>2
  <1>4. \A m, n \in S : f[m] = f[n] => m = n
    OBVIOUS
  <1> HIDE DEF f
  <1>5. f \in Injection(S, T)
    BY <1>3, <1>4, Fun_IsInj
  <1>6. IsFiniteSet(T) /\ Cardinality(T) = Cardinality(S)
    BY <1>1, FS_Interval
  <1>7. f \in Surjection(S, T)
    BY <1>5, <1>6, FS_Injection
  <1>8. PICK m \in S : f[m] = k
    <2>1. \A t \in T : \E s \in S : f[s] = t
      BY <1>7, Fun_SurjectionProperties
    <2>2. QED
      BY <2>1
  <1>9. QED
    BY <1>8 DEF f

\* The numbers of a finite set, from the largest or the smallest, make a
\* sequence as long as the set is large, of its members.
LEMMA InOrder ==
  ASSUME NEW S, IsFiniteSet(S), S \subseteq Nat
  PROVE  /\ Descending(S) \in Seq(S) /\ Len(Descending(S)) = Cardinality(S)
         /\ Ascending(S) \in Seq(S) /\ Len(Ascending(S)) = Cardinality(S)
  <1> DEFINE above == [m \in S |-> {n \in S : n >= m}]
             below == [m \in S |-> {n \in S : n <= m}]
             c     == Cardinality(S)
             Down(k) == CHOOSE m \in S : Cardinality({n \in S : n >= m}) = k
             Up(k) == CHOOSE m \in S : Cardinality({n \in S : n <= m}) = k
  <1>1. c \in Nat
    BY FS_CardinalityType
  <1>2. /\ above \in [S -> SUBSET S] /\ \A m \in S : m \in above[m]
        /\ below \in [S -> SUBSET S] /\ \A m \in S : m \in below[m]
    OBVIOUS
  <1>3. ASSUME NEW m \in S, NEW n \in S, m < n
        PROVE  /\ Cardinality(above[m]) # Cardinality(above[n])
               /\ Cardinality(below[m]) # Cardinality(below[n])
    <2>1. /\ m \in Nat /\ n \in Nat /\ \A x \in S : x \in Nat
          /\ ~(m >= n) /\ ~(n <= m)
      BY <1>3
    <2>1a. \A x \in S : (x >= n => x >= m) /\ (x <= m => x <= n)
      BY <1>3, <2>1
    <2>2. above[n] \subseteq above[m] /\ m \in above[m] /\ m \notin above[n]
      BY <1>2, <2>1, <2>1a
    <2>3. below[m] \subseteq below[n] /\ n \in below[n] /\ n \notin below[m]
      BY <1>2, <2>1, <2>1a
    <2>4. IsFiniteSet(above[m]) /\ IsFiniteSet(below[n])
      BY <1>2, FS_Subset
    <2> HIDE DEF above, below
    <2>5. QED
      BY <2>2, <2>3, <2>4, FS_Subset
  <1>4. /\ \A m, n \in S : m # n => Cardinality(above[m]) # Cardinality(above[n])
        /\ \A m, n \in S : m # n => Cardinality(below[m]) # Cardinality(below[n])
    <2>1. \A m, n \in S : m # n => (m < n \/ n < m)
      OBVIOUS
    <2> HIDE DEF above, below
    <2>2. QED
      BY <1>3, <2>1
  <1>5. ASSUME NEW k \in 1..c PROVE Down(k) \in S /\ Up(k) \in S
    <2> HIDE DEF above, below
    <2>1. k \in 1..Cardinality(S)
      BY DEF c
    <2>2. \E m \in S : Cardinality(above[m]) = k
      <3>1. above \in [S -> SUBSET S]
        BY <1>2
      <3>2. \A m \in S : m \in above[m]
        BY <1>2
      <3>3. \A m, n \in S : m # n => Cardinality(above[m]) # Cardinality(above[n])
        BY <1>4
      <3>4. QED
        BY <2>1, <3>1, <3>2, <3>3, Ranks, ZenonT(60)
    <2>3. \E m \in S : Cardinality(below[m]) = k
      <3>1. below \in [S -> SUBSET S]
        BY <1>2
      <3>2. \A m \in S : m \in below[m]
        BY <1>2
      <3>3. \A m, n \in S : m # n => Cardinality(below[m]) # Cardinality(below[n])
        BY <1>4
      <3>4. QED
        BY <2>1, <3>1, <3>2, <3>3, Ranks, ZenonT(60)
    <2>4. QED
      BY <2>2, <2>3 DEF above, below
  <1>6. Descending(S) = [k \in 1..c |-> Down(k)] /\ Ascending(S) = [k \in 1..c |-> Up(k)]
    BY DEF Descending, Ascending
  <1> HIDE DEF c, Down, Up
  <1>7. Descending(S) \in [1..c -> S] /\ Ascending(S) \in [1..c -> S]
    BY <1>5, <1>6
  <1>8. ASSUME NEW s \in [1..c -> S] PROVE s \in Seq(S) /\ Len(s) = c
    BY <1>1
  <1>9. QED
    BY <1>7, <1>8 DEF c

\* A part of a sequence.
LEMMA Part ==
  ASSUME NEW T, NEW s \in Seq(T), NEW from \in Nat, NEW limit \in Nat
  PROVE  /\ Page(s, from, limit) \in Seq(T)
         /\ \A j \in DOMAIN Page(s, from, limit) :
              from + j \in DOMAIN s /\ Page(s, from, limit)[j] = s[from + j]
  <1> DEFINE to == IF from + limit < Len(s) THEN from + limit ELSE Len(s)
  <1>1. Len(s) \in Nat /\ to \in Int /\ from + 1 \in Int /\ to <= Len(s)
    OBVIOUS
  <1>2. Page(s, from, limit) = SubSeq(s, from + 1, to)
    BY DEF Page
  <1> HIDE DEF to
  <1>3. \A i \in (from + 1)..to : i \in 1..Len(s) /\ s[i] \in T
    BY <1>1
  <1>4. /\ SubSeq(s, from + 1, to) \in Seq(T)
        /\ Len(SubSeq(s, from + 1, to)) = IF from + 1 <= to THEN to - (from + 1) + 1 ELSE 0
        /\ \A i \in 1..(to - (from + 1) + 1) : SubSeq(s, from + 1, to)[i] = s[from + 1 + i - 1]
    BY <1>1, <1>3, SubSeqProperties
  <1>5. ASSUME NEW j \in DOMAIN SubSeq(s, from + 1, to)
        PROVE  from + j \in 1..Len(s) /\ SubSeq(s, from + 1, to)[j] = s[from + j]
    <2>1. j \in 1..Len(SubSeq(s, from + 1, to))
      BY <1>4
    <2>2. /\ j \in 1..(to - (from + 1) + 1) /\ from + j \in (from + 1)..to
          /\ from + 1 + j - 1 = from + j
      BY <1>1, <1>4, <2>1
    <2>3. QED
      BY <1>3, <1>4, <2>2
  <1>6. QED
    BY <1>2, <1>4, <1>5

\* What is dropped from a sequence leaves its other members.
LEMMA Rest ==
  ASSUME NEW T, NEW s \in Seq(T), NEW m
  PROVE  /\ Dropped(s, m) \in Seq(T)
         /\ \A j \in DOMAIN Dropped(s, m) : \E i \in DOMAIN s : Dropped(s, m)[j] = s[i]
  <1> DEFINE K == {i \in DOMAIN s : s[i] # m}
             kept == Ascending(K)
  <1>1. IsFiniteSet(K) /\ K \subseteq Nat
    <2>1. IsFiniteSet(1..Len(s)) /\ K \subseteq 1..Len(s)
      BY FS_Interval
    <2>2. QED
      BY <2>1, FS_Subset
  <1>2. Dropped(s, m) = [k \in DOMAIN kept |-> s[kept[k]]]
    BY DEF Dropped
  <1>3. kept \in Seq(K) /\ K \subseteq DOMAIN s
    BY <1>1, InOrder
  <1> HIDE DEF K, kept
  <1>4. \A k \in DOMAIN kept : kept[k] \in DOMAIN s
    BY <1>3
  <1>5. [k \in DOMAIN kept |-> s[kept[k]]] \in Seq(T)
    BY <1>3, <1>4
  <1>6. QED
    BY <1>2, <1>4, <1>5

\* The rows of a view are rows the view shows; what a search finds is found.
LEMMA RowsOf ==
  ASSUME rows \subseteq Msg, NEW v
  PROVE  /\ Rows(v) \in Seq({m \in Msg : Shows(v, Home[m])})
         /\ Found \in Seq(Msg \intersect Hits)
  <1> DEFINE A == {m \in rows : Shows(v, Home[m])}
             B == rows \intersect Hits
  <1>1. IsFiniteSet(Msg) /\ \A m \in Msg : m \in Nat
    BY FS_Interval, MailViewAssumption DEF Msg
  <1>2. IsFiniteSet(rows) /\ A \subseteq rows /\ B \subseteq rows
    BY <1>1, FS_Subset
  <1>3. IsFiniteSet(A) /\ IsFiniteSet(B) /\ A \subseteq Nat /\ B \subseteq Nat
    BY <1>1, <1>2, FS_Subset
  <1>4. Descending(A) \in Seq(A) /\ Ascending(B) \in Seq(B)
    BY <1>3, InOrder
  <1>5. A \subseteq {m \in Msg : Shows(v, Home[m])} /\ B \subseteq Msg \intersect Hits
    BY <1>2
  <1>6. Rows(v) = Descending(A) /\ Found = Ascending(B)
    BY DEF Rows, Found
  <1> HIDE DEF A, B
  <1>7. QED
    BY <1>4, <1>5, <1>6, SeqMonotonic

-----------------------------------------------------------------------------
(* The invariant *)

(* A call holds what its operation needs, and the answer it may carry is   *)
(* its view's own.                                                         *)
CallOK(c) ==
  /\ c.op \in RefreshOps => ~c.search
  /\ c.op # "more" => c.from = 0
  /\ c.op \in PageOps => c.limit = PageLimit
  /\ c.op \in {"body", "remove", "reselect", "restore"} => c.msg \in Msg
  /\ \A j \in DOMAIN c.rows :
       IF c.search THEN c.rows[j] \in Hits ELSE Shows(c.view, Home[c.rows[j]])
CallsInv == \A i \in DOMAIN calls : CallOK(calls[i])

(* Where mail has come, the folder's other event is right behind.          *)
EventsInv ==
  \A k \in DOMAIN events : events[k].event = "new" =>
    /\ events[k].msg \in Msg /\ events[k].folder = Home[events[k].msg]
    /\ k + 1 \in DOMAIN events /\ events[k + 1] = Updated(events[k].folder)

(* Calls of the list whose answer the view takes when no search is active. *)
Asked == {i \in DOMAIN calls : calls[i].op \in ListOps /\ Accepted(calls[i], view, FALSE)}

LateInv == searching /\ ~late => Asked = {}

Types == TypeOK /\ CallsInv /\ EventsInv
OwnInv == Types /\ LateInv /\ ViewShowsItsOwn

(* The view will be read again: an event will see to it, or mail whose     *)
(* event is to come, or a removal that ends in an event or fails.  If the  *)
(* event is never sent, or lost, the step that loses it answers for it.    *)
EventDue == \E k \in DOMAIN events : events[k].event = "updated" /\ Shows(view, events[k].folder)
Leaving(c, v) == c.op = "remove" /\ Shows(v, Home[c.msg]) /\ ~(c.done /\ c.ok)
MailDue == \E m \in arriving : Shows(view, Home[m])
Behind == EventDue \/ MailDue \/ \E i \in DOMAIN calls : Leaving(calls[i], view)

(* The list is the newest part of the view.                                *)
AtTheTop ==
  /\ Len(list) <= Len(Rows(view))
  /\ list = SubSeq(Rows(view), 1, Len(list))
  /\ Len(list) < Len(Rows(view)) => hasMore

(* One answer is under way at most; if nothing is to come after it, it is  *)
(* the view's, and the list is if it is not replaced.                      *)
AnswersHold == \A i \in Asked : calls[i].done /\ calls[i].ok =>
                 calls[i].rows = Page(Rows(view), calls[i].from, calls[i].limit)
MoreHolds   == \A i \in Asked : calls[i].op = "more" => calls[i].from = Len(list)
ListHolds   == (\A i \in Asked : calls[i].op = "more") => AtTheTop
SettleInv ==
  ~searching /\ ~blur =>
    /\ \A i, j \in Asked : i = j
    /\ ~Behind => AnswersHold /\ MoreHolds /\ ListHolds
IInv == OwnInv /\ SettleInv

-----------------------------------------------------------------------------
(* Calls and events *)

\* What the proofs use of the assumption on the constants.
LEMMA Constants ==
  /\ PageLimit \in Nat \ {0} /\ Inboxes \subseteq Folder /\ NoMsg \notin Msg
  /\ \A m \in Msg : m \in Nat /\ Home[m] \in Folder
  BY MailViewAssumption DEF Msg

\* What the window asks for is a call, and nothing is answered yet.
LEMMA ListCallOK ==
  ASSUME NEW op \in ListOps, NEW v \in View, NEW s \in BOOLEAN, NEW from \in Nat,
         NEW limit \in Nat, NEW m \in Msg \union {NoMsg},
         op \in RefreshOps => ~s, op # "more" => from = 0,
         op \in PageOps => limit = PageLimit, op = "restore" => m \in Msg
  PROVE  ListCall(op, v, s, from, limit, m) \in Call
         /\ CallOK(ListCall(op, v, s, from, limit, m))
  <1>1. ListCall(op, v, s, from, limit, m) \in Call
    BY DEF ListCall, Call
  <1>2. ListCall(op, v, s, from, limit, m).rows = <<>> /\ DOMAIN <<>> = {}
    BY DEF ListCall
  <1>3. QED
    BY <1>1, <1>2 DEF ListCall, CallOK, ListOps, PageOps, RefreshOps

\* A call about one message is a call and holds what its operation needs.
LEMMA MsgCallOK ==
  ASSUME NEW op \in {"body", "remove", "reselect"}, NEW m \in Msg
  PROVE  MsgCall(op, m) \in Call /\ CallOK(MsgCall(op, m))
  <1>1. MsgCall(op, m) \in Call
    BY DEF MsgCall, Call, View
  <1>2. MsgCall(op, m).rows = <<>> /\ DOMAIN <<>> = {}
    BY DEF MsgCall
  <1>3. QED
    BY <1>1, <1>2 DEF MsgCall, CallOK, PageOps, RefreshOps

\* A call more, a call less, a call answered: the others stay what they are.
LEMMA CallMore ==
  ASSUME calls \in Seq(Call), NEW c \in Call, calls' = Append(calls, c)
  PROVE  /\ calls' \in Seq(Call)
         /\ DOMAIN calls' = DOMAIN calls \union {Len(calls) + 1} /\ Len(calls) + 1 \notin DOMAIN calls
         /\ calls'[Len(calls) + 1] = c
         /\ \A j \in DOMAIN calls : calls'[j] = calls[j]
  OBVIOUS

\* When a call is taken, the others are those there were, moved up.
LEMMA CallLess ==
  ASSUME calls \in Seq(Call), NEW i \in DOMAIN calls, calls' = RemoveAt(calls, i)
  PROVE  /\ calls' \in Seq(Call)
         /\ \A j \in DOMAIN calls' :
              /\ (IF j < i THEN j ELSE j + 1) \in DOMAIN calls \ {i}
              /\ calls'[j] = calls[IF j < i THEN j ELSE j + 1]
         /\ \A k \in DOMAIN calls \ {i} :
              /\ (IF k < i THEN k ELSE k - 1) \in DOMAIN calls'
              /\ calls'[IF k < i THEN k ELSE k - 1] = calls[k]
  <1>1. /\ calls' \in Seq(Call) /\ Len(calls') = Len(calls) - 1
        /\ \A j \in 1..(Len(calls) - 1) : calls'[j] = calls[IF j < i THEN j ELSE j + 1]
    BY Removal
  <1>2. i \in 1..Len(calls) /\ Len(calls) \in Nat /\ DOMAIN calls = 1..Len(calls)
        /\ DOMAIN calls' = 1..(Len(calls) - 1)
    BY <1>1
  <1>3. ASSUME NEW j \in DOMAIN calls'
        PROVE  /\ (IF j < i THEN j ELSE j + 1) \in DOMAIN calls \ {i}
               /\ calls'[j] = calls[IF j < i THEN j ELSE j + 1]
    BY <1>1, <1>2
  <1>4. ASSUME NEW k \in DOMAIN calls \ {i}
        PROVE  /\ (IF k < i THEN k ELSE k - 1) \in DOMAIN calls'
               /\ calls'[IF k < i THEN k ELSE k - 1] = calls[k]
    <2>1. CASE k < i
      <3>1. k \in 1..(Len(calls) - 1)
        BY <1>2, <2>1
      <3>2. QED
        BY <1>1, <1>2, <2>1, <3>1
    <2>2. CASE ~(k < i)
      <3>1. k - 1 \in 1..(Len(calls) - 1) /\ ~(k - 1 < i) /\ k - 1 + 1 = k
        BY <1>2, <2>2
      <3>2. calls'[k - 1] = calls[IF k - 1 < i THEN k - 1 ELSE k - 1 + 1]
        BY <1>1, <3>1
      <3>3. QED
        BY <1>2, <2>2, <3>1, <3>2
    <2>3. QED
      BY <2>1, <2>2
  <1>5. QED
    BY <1>1, <1>3, <1>4

\* When a call is answered, the others stay as they are.
LEMMA CallAnswered ==
  ASSUME calls \in Seq(Call), NEW i \in DOMAIN calls, NEW d \in BOOLEAN, NEW o \in BOOLEAN,
         NEW r \in Seq(Msg),
         calls' = [calls EXCEPT ![i].done = d, ![i].ok = o, ![i].rows = r]
  PROVE  /\ calls' \in Seq(Call) /\ DOMAIN calls' = DOMAIN calls
         /\ \A j \in DOMAIN calls \ {i} : calls'[j] = calls[j]
         /\ calls'[i] = [calls[i] EXCEPT !.done = d, !.ok = o, !.rows = r]
  <1> DEFINE c == [calls[i] EXCEPT !.done = d, !.ok = o, !.rows = r]
  <1>1. calls[i] \in Call
    OBVIOUS
  <1>2. c \in Call
    BY <1>1 DEF Call
  <1>3. calls' = [calls EXCEPT ![i] = c]
    OBVIOUS
  <1> HIDE DEF c
  <1>4. QED
    BY <1>2, <1>3, ExceptSeq DEF c

\* One more call that is well-formed; one call less.
LEMMA CallsMore ==
  ASSUME calls \in Seq(Call), CallsInv, NEW c \in Call, CallOK(c), calls' = Append(calls, c)
  PROVE  calls' \in Seq(Call) /\ CallsInv'
  BY CallMore DEF CallsInv

LEMMA CallsLess ==
  ASSUME calls \in Seq(Call), CallsInv, NEW i \in DOMAIN calls, calls' = RemoveAt(calls, i)
  PROVE  calls' \in Seq(Call) /\ CallsInv'
  BY CallLess DEF CallsInv

\* An event about a folder is added.
LEMMA EventMore ==
  ASSUME events \in Seq(Event), EventsInv, NEW f \in Folder, events' = Append(events, Updated(f))
  PROVE  /\ events' \in Seq(Event) /\ EventsInv'
         /\ \A k \in DOMAIN events : k \in DOMAIN events' /\ events'[k] = events[k]
         /\ Len(events) + 1 \in DOMAIN events' /\ events'[Len(events) + 1] = Updated(f)
  <1>1. Updated(f) \in Event /\ Updated(f).event = "updated"
    BY DEF Updated, Event
  <1>2. /\ events' \in Seq(Event) /\ Len(events') = Len(events) + 1
        /\ \A k \in 1..Len(events) : events'[k] = events[k]
        /\ events'[Len(events) + 1] = Updated(f)
    BY <1>1
  <1>3. DOMAIN events = 1..Len(events) /\ DOMAIN events' = 1..(Len(events) + 1) /\ Len(events) \in Nat
    BY <1>2
  <1>4. EventsInv'
    BY <1>1, <1>2, <1>3 DEF EventsInv
  <1>5. QED
    BY <1>2, <1>3, <1>4

\* The events of one command: one folder, or two.
LEMMA EventsMore ==
  ASSUME events \in Seq(Event), EventsInv, NEW f \in Folder,
         NEW g \in Folder \union {Unified},
         events' = events \o (<<Updated(f)>>
                    \o (IF g = Unified THEN <<>> ELSE <<Updated(g)>>))
  PROVE  /\ events' \in Seq(Event) /\ EventsInv'
         /\ \A k \in DOMAIN events : k \in DOMAIN events' /\ events'[k] = events[k]
         /\ Len(events) + 1 \in DOMAIN events' /\ events'[Len(events) + 1] = Updated(f)
  <1> DEFINE told == <<Updated(f)>> \o (IF g = Unified THEN <<>> ELSE <<Updated(g)>>)
             n    == Len(events)
  <1>1. Updated(f) \in Event /\ Updated(f).event = "updated"
    BY DEF Updated, Event
  <1>2. g # Unified => Updated(g) \in Event /\ Updated(g).event = "updated"
    BY DEF Updated, Event
  <1>3. /\ told \in Seq(Event) /\ Len(told) \in {1, 2}
        /\ told[1] = Updated(f)
        /\ \A j \in 1..Len(told) : told[j].event = "updated"
    <2>1. CASE g = Unified
      BY <1>1, <2>1
    <2>2. CASE g # Unified
      <3>1. told = <<Updated(f)>> \o <<Updated(g)>>
        BY <2>2
      <3>2. QED
        BY <1>1, <1>2, <2>2, <3>1
    <2>3. QED
      BY <2>1, <2>2
  <1> HIDE DEF told
  <1>4. events' = events \o told /\ n \in Nat /\ DOMAIN events = 1..n
    BY DEF told
  <1>5. /\ events' \in Seq(Event) /\ Len(events') = n + Len(told)
        /\ \A k \in 1..(n + Len(told)) :
             events'[k] = IF k <= n THEN events[k] ELSE told[k - n]
    BY <1>3, <1>4, ConcatProperties
  <1> HIDE DEF n
  <1>6. DOMAIN events' = 1..(n + Len(told))
    BY <1>5
  <1>7. \A k \in 1..n : k \in DOMAIN events' /\ events'[k] = events[k]
    BY <1>3, <1>4, <1>5, <1>6
  <1>8. \A k \in DOMAIN events' : k \notin 1..n => events'[k].event = "updated"
    <2> SUFFICES ASSUME NEW k \in 1..(n + Len(told)), k \notin 1..n PROVE events'[k].event = "updated"
      BY <1>6
    <2>1. ~(k <= n) /\ k - n \in 1..Len(told)
      BY <1>3, <1>4
    <2>2. QED
      BY <1>3, <1>5, <2>1
  <1>9. n + 1 \in 1..(n + Len(told)) /\ ~(n + 1 <= n) /\ n + 1 - n = 1
    BY <1>3, <1>4
  <1>10. EventsInv'
    <2> SUFFICES ASSUME NEW k \in DOMAIN events', events'[k].event = "new"
        PROVE  /\ events'[k].msg \in Msg /\ events'[k].folder = Home[events'[k].msg]
               /\ k + 1 \in DOMAIN events' /\ events'[k + 1] = Updated(events'[k].folder)
      BY DEF EventsInv
    <2>1. k \in 1..n
      BY <1>8
    <2>2. events'[k] = events[k]
      BY <1>7, <2>1
    <2>3. /\ events[k].msg \in Msg /\ events[k].folder = Home[events[k].msg]
          /\ k + 1 \in 1..n /\ events[k + 1] = Updated(events[k].folder)
      BY <1>4, <2>1, <2>2 DEF EventsInv
    <2>4. QED
      BY <1>7, <2>2, <2>3
  <1>11. QED
    BY <1>4, <1>5, <1>6, <1>7, <1>9, <1>10, <1>3 DEF n

\* Mail comes with two events.
LEMMA EventsOfMail ==
  ASSUME events \in Seq(Event), EventsInv, NEW m \in Msg,
         events' = events \o <<New(m), Updated(Home[m])>>
  PROVE  /\ events' \in Seq(Event) /\ EventsInv'
         /\ \A k \in DOMAIN events : k \in DOMAIN events' /\ events'[k] = events[k]
         /\ Len(events) + 2 \in DOMAIN events' /\ events'[Len(events) + 2] = Updated(Home[m])
  <1> DEFINE n == Len(events)
  <1>1. /\ Home[m] \in Folder
        /\ New(m) \in Event /\ New(m).msg = m /\ New(m).folder = Home[m]
        /\ Updated(Home[m]) \in Event /\ Updated(Home[m]).event = "updated"
    BY Constants DEF New, Updated, Event
  <1>2. /\ events' \in Seq(Event) /\ Len(events') = n + 2
        /\ \A k \in 1..n : events'[k] = events[k]
        /\ events'[n + 1] = New(m) /\ events'[n + 2] = Updated(Home[m])
    BY <1>1
  <1>3. n \in Nat /\ DOMAIN events = 1..n /\ DOMAIN events' = 1..(n + 2)
    BY <1>2
  <1> HIDE DEF n
  <1>4. EventsInv'
    <2> SUFFICES ASSUME NEW k \in DOMAIN events', events'[k].event = "new"
        PROVE  /\ events'[k].msg \in Msg /\ events'[k].folder = Home[events'[k].msg]
               /\ k + 1 \in DOMAIN events' /\ events'[k + 1] = Updated(events'[k].folder)
      BY DEF EventsInv
    <2>1. CASE k \in 1..n
      <3>1. /\ events'[k] = events[k]
            /\ events[k].msg \in Msg /\ events[k].folder = Home[events[k].msg]
            /\ k + 1 \in 1..n /\ events[k + 1] = Updated(events[k].folder)
        BY <1>2, <1>3, <2>1 DEF EventsInv
      <3>2. QED
        BY <1>2, <1>3, <3>1
    <2>2. CASE k = n + 1
      <3>1. k + 1 = n + 2 /\ n + 2 \in 1..(n + 2)
        BY <1>3, <2>2
      <3>2. QED
        BY <1>1, <1>2, <1>3, <2>2, <3>1
    <2>3. CASE k = n + 2
      BY <1>1, <1>2, <2>3
    <2>4. QED
      BY <1>3, <2>1, <2>2, <2>3
  <1>5. QED
    BY <1>2, <1>3, <1>4 DEF n

\* An event is handled.
LEMMA EventLess ==
  ASSUME events \in Seq(Event), EventsInv, events # <<>>, events' = Tail(events)
  PROVE  /\ events' \in Seq(Event) /\ EventsInv'
         /\ Head(events) \in Event /\ 1 \in DOMAIN events /\ Head(events) = events[1]
         /\ \A k \in DOMAIN events' : k + 1 \in DOMAIN events /\ events'[k] = events[k + 1]
         /\ \A k \in DOMAIN events \ {1} : k - 1 \in DOMAIN events' /\ events'[k - 1] = events[k]
  <1>1. /\ Head(events) \in Event /\ Head(events) = events[1]
        /\ events' \in Seq(Event) /\ Len(events') = Len(events) - 1
        /\ \A k \in 1..Len(events') : events'[k] = events[k + 1]
        /\ Len(events) \in Nat \ {0}
    BY HeadTailProperties, EmptySeq
  <1>2. /\ DOMAIN events = 1..Len(events) /\ DOMAIN events' = 1..(Len(events) - 1)
        /\ 1 \in DOMAIN events
    BY <1>1
  <1>3. \A k \in DOMAIN events' : k + 1 \in DOMAIN events /\ events'[k] = events[k + 1]
    BY <1>1, <1>2
  <1>4. ASSUME NEW k \in DOMAIN events \ {1}
        PROVE  k - 1 \in DOMAIN events' /\ events'[k - 1] = events[k]
    <2>1. k - 1 \in 1..(Len(events) - 1) /\ k - 1 + 1 = k
      BY <1>1, <1>2
    <2>2. QED
      BY <1>2, <1>3, <2>1
  <1>5. EventsInv'
    <2> SUFFICES ASSUME NEW k \in DOMAIN events', events'[k].event = "new"
        PROVE  /\ events'[k].msg \in Msg /\ events'[k].folder = Home[events'[k].msg]
               /\ k + 1 \in DOMAIN events' /\ events'[k + 1] = Updated(events'[k].folder)
      BY DEF EventsInv
    <2>1. k + 1 \in DOMAIN events /\ events'[k] = events[k + 1] /\ k \in Nat
      BY <1>2, <1>3
    <2>2. /\ events[k + 1].msg \in Msg /\ events[k + 1].folder = Home[events[k + 1].msg]
          /\ k + 1 + 1 \in DOMAIN events /\ events[k + 1 + 1] = Updated(events[k + 1].folder)
      BY <2>1 DEF EventsInv
    <2>3. k + 1 + 1 \in DOMAIN events \ {1} /\ k + 1 + 1 - 1 = k + 1
      BY <2>1, <2>2
    <2>4. k + 1 \in DOMAIN events' /\ events'[k + 1] = events[k + 1 + 1]
      BY <1>4, <2>3
    <2>5. QED
      BY <2>1, <2>2, <2>4
  <1>6. QED
    BY <1>1, <1>2, <1>3, <1>4, <1>5

-----------------------------------------------------------------------------
(* Types *)

USE DEF vars, backVars, feedVars, listVars, readVars, navVars

LEMMA TypesInit == Init => Types
  <1> SUFFICES ASSUME Init PROVE Types
    OBVIOUS
  <1> DEFINE c == ListCall("page", Unified, FALSE, 0, PageLimit, NoMsg)
  <1>1. c \in Call /\ CallOK(c)
    <2>1. "page" \in ListOps /\ "page" \notin RefreshOps /\ Unified \in View /\ PageLimit \in Nat
      BY Constants DEF ListOps, PageOps, RefreshOps, View
    <2>2. QED
      BY <2>1, ListCallOK
  <1>2. calls = <<c>>
    BY DEF Init
  <1> HIDE DEF c
  <1>3. calls \in Seq(Call) /\ CallsInv
    BY <1>1, <1>2 DEF CallsInv
  <1>4. events = <<>> /\ events \in Seq(Event) /\ DOMAIN events = {}
    BY DEF Init
  <1>5. EventsInv
    BY <1>4 DEF EventsInv
  <1>6. rows \subseteq Msg /\ user \in 0..MaxUser /\ view \in View /\ list \in Seq(Msg)
    BY MailViewAssumption DEF Init, Msg, View
  <1>7. QED
    BY <1>3, <1>4, <1>5, <1>6 DEF Types, TypeOK, Init

LEMMA DoesOK == ASSUME TypeOK, Does PROVE user' \in 0..MaxUser
  <1>1. user \in Int /\ user < MaxUser /\ 0 <= user /\ user' = user + 1 /\ MaxUser \in Nat
    BY MailViewAssumption DEF TypeOK, Does
  <1>2. QED
    BY <1>1

\* Every way to another view, folder or search keeps the types.
LEMMA EnterTypes ==
  ASSUME Types, NEW v \in View, NEW s \in BOOLEAN, Enter(v, s), late' \in BOOLEAN
  PROVE  Types'
  <1> DEFINE c == ListCall("page", v, s, 0, PageLimit, NoMsg)
  <1>1. c \in Call /\ CallOK(c)
    <2>1. "page" \in ListOps /\ "page" \notin RefreshOps /\ PageLimit \in Nat
      BY Constants DEF ListOps, PageOps, RefreshOps
    <2>2. QED
      BY <2>1, ListCallOK
  <1>2. calls' = Append(calls, c)
    BY DEF Enter
  <1> HIDE DEF c
  <1>3. calls' \in Seq(Call) /\ CallsInv'
    BY <1>1, <1>2, CallsMore DEF Types, TypeOK
  <1>4. user' \in 0..MaxUser
    BY DoesOK DEF Types, Enter
  <1>5. blur' \in BOOLEAN
    BY DEF Enter, Overlap
  <1>6. EventsInv'
    BY DEF Types, EventsInv, Enter
  <1>7. /\ list' \in Seq(Msg) /\ offset' \in Nat /\ view' \in View /\ searching' \in BOOLEAN
        /\ loading' \in BOOLEAN /\ rejoined' \in BOOLEAN
        /\ selected' \in Msg \union {NoMsg} /\ body' \in Msg \union {NoMsg}
    <2>1. /\ list' = <<>> /\ offset' = 0 /\ view' = v /\ searching' = s
          /\ loading' = TRUE /\ rejoined' = FALSE /\ selected' = NoMsg /\ body' = NoMsg
      BY Zenon DEF Enter, Deselect
    <2>2. loading' \in BOOLEAN /\ rejoined' \in BOOLEAN
      BY <2>1, Zenon
    <2>3. list' \in Seq(Msg) /\ offset' \in Nat
      BY <2>1
    <2>4. QED
      BY <2>1, <2>2, <2>3, Zenon
  <1>8. UNCHANGED <<rows, gone, arriving, listening, events, hasMore>>
    BY DEF Enter
  <1>9. QED
    BY <1>3, <1>4, <1>5, <1>6, <1>7, <1>8 DEF Types, TypeOK

LEMMA NavigationTypes ==
  ASSUME Types, SelectUnified \/ RunSearch \/ ClearSearch \/ (\E f \in Folder : SelectFolder(f))
  PROVE  Types'
  <1>1. CASE SelectUnified
    BY <1>1, EnterTypes DEF SelectUnified, View
  <1>2. CASE RunSearch
    <2>1. view \in View /\ Enter(view, TRUE) /\ late' \in BOOLEAN
      BY <1>2 DEF RunSearch, Types, TypeOK, Overlap
    <2>2. QED
      BY <2>1, EnterTypes
  <1>3. CASE ClearSearch
    BY <1>3, EnterTypes DEF ClearSearch, Types, TypeOK
  <1>4. CASE \E f \in Folder : SelectFolder(f)
    BY <1>4, EnterTypes DEF SelectFolder, View
  <1>5. QED
    BY <1>1, <1>2, <1>3, <1>4

LEMMA LoadMoreTypes == Types /\ LoadMore => Types'
  <1> SUFFICES ASSUME Types, LoadMore PROVE Types'
    OBVIOUS
  <1> DEFINE c == ListCall("more", view, searching, offset + PageLimit, PageLimit, NoMsg)
  <1>1. offset + PageLimit \in Nat
    BY Constants DEF Types, TypeOK
  <1>2. c \in Call /\ CallOK(c)
    <2>1. "more" \in ListOps /\ "more" \notin RefreshOps /\ PageLimit \in Nat
      BY Constants DEF ListOps, PageOps, RefreshOps
    <2>2. QED
      BY <1>1, <2>1, ListCallOK DEF Types, TypeOK
  <1>3. calls' = Append(calls, c)
    BY DEF LoadMore
  <1> HIDE DEF c
  <1>4. calls' \in Seq(Call) /\ CallsInv'
    BY <1>2, <1>3, CallsMore DEF Types, TypeOK
  <1>5. user' \in 0..MaxUser
    BY DoesOK DEF Types, LoadMore
  <1>6. blur' \in BOOLEAN
    BY DEF LoadMore, Overlap
  <1>7. EventsInv'
    BY DEF Types, EventsInv, LoadMore
  <1>8. QED
    BY <1>1, <1>4, <1>5, <1>6, <1>7 DEF Types, TypeOK, LoadMore

LEMMA SelectMessageTypes ==
  ASSUME Types, NEW m \in Msg, SelectMessage(m) PROVE Types'
  <1>1. MsgCall("body", m) \in Call /\ CallOK(MsgCall("body", m))
    BY MsgCallOK
  <1>2. calls' \in Seq(Call) /\ CallsInv'
    BY <1>1, CallsMore DEF Types, TypeOK, SelectMessage
  <1>3. user' \in 0..MaxUser
    BY DoesOK DEF Types, SelectMessage
  <1>4. EventsInv'
    BY DEF Types, EventsInv, SelectMessage
  <1>5. QED
    BY <1>2, <1>3, <1>4 DEF Types, TypeOK, SelectMessage

LEMMA MarkTypes == ASSUME Types, NEW m \in Msg, Mark(m) PROVE Types'
  <1>1. events' \in Seq(Event) /\ EventsInv'
    BY EventMore, Constants DEF Types, TypeOK, Mark
  <1>2. user' \in 0..MaxUser
    BY DoesOK DEF Types, Mark
  <1>3. CallsInv'
    BY DEF Types, CallsInv, Mark
  <1>4. QED
    BY <1>1, <1>2, <1>3 DEF Types, TypeOK, Mark

\* The message selected after a removal is of the list, or there is none.
LEMMA NextIsListed ==
  ASSUME TypeOK, NEW m, Contains(list, m) PROVE NextOf(m) \in Msg \union {NoMsg}
  <1> DEFINE at == CHOOSE i \in DOMAIN list : list[i] = m
  <1>1. list \in Seq(Msg) /\ Len(list) \in Nat /\ DOMAIN list = 1..Len(list)
    BY DEF TypeOK
  <1>2. at \in DOMAIN list
    BY <1>1 DEF Contains
  <1>3. NextOf(m) = IF at < Len(list) THEN list[at + 1] ELSE IF at > 1 THEN list[at - 1] ELSE NoMsg
    BY DEF NextOf
  <1> HIDE DEF at
  <1>4. QED
    BY <1>1, <1>2, <1>3

\* The calls after a removal was asked for: the next message is read, or not.
LEMMA RemovalCalls ==
  ASSUME Types, NEW m \in Msg, RemoveMessage(m)
  PROVE  /\ calls' \in Seq(Call) /\ CallsInv'
         /\ \A j \in DOMAIN calls : j \in DOMAIN calls' /\ calls'[j] = calls[j]
         /\ \A j \in DOMAIN calls' : j \notin DOMAIN calls =>
              calls'[j].op \in {"body", "remove"}
         /\ \E j \in DOMAIN calls' : calls'[j] = MsgCall("remove", m)
  <1> DEFINE next  == NextOf(m)
             reads == selected = m /\ next # NoMsg /\ next # m
             d     == calls \o (IF reads THEN <<MsgCall("body", next)>> ELSE <<>>)
             r     == MsgCall("remove", m)
             b     == MsgCall("body", next)
  <1>1. calls' = d \o <<r>> /\ next \in Msg \union {NoMsg}
    BY NextIsListed DEF RemoveMessage, Types
  <1>2. r \in Call /\ CallOK(r) /\ r.op = "remove"
    BY MsgCallOK DEF MsgCall
  <1>3. next \in Msg => b \in Call /\ CallOK(b) /\ b.op = "body"
    BY MsgCallOK DEF MsgCall
  <1>4. calls \in Seq(Call) /\ CallsInv
    BY DEF Types, TypeOK
  <1>5. reads => next \in Msg
    BY <1>1
  <1>6. d = calls \/ (d = calls \o <<b>> /\ next \in Msg)
    <2>1. CASE reads
      BY <1>5, <2>1
    <2>2. CASE ~reads
      BY <1>4, <2>2
    <2>3. QED
      BY <2>1, <2>2
  <1> HIDE DEF next, reads, d, r, b
  <1>7. /\ d \in Seq(Call) /\ \A j \in DOMAIN d : CallOK(d[j])
        /\ \A j \in DOMAIN calls : j \in DOMAIN d /\ d[j] = calls[j]
        /\ \A j \in DOMAIN d : j \notin DOMAIN calls => d[j].op = "body"
    <2>1. CASE d = calls
      BY <1>4, <2>1 DEF CallsInv
    <2>2. CASE d = calls \o <<b>> /\ next \in Msg
      BY <1>3, <1>4, <2>2 DEF CallsInv
    <2>3. QED
      BY <1>6, <2>1, <2>2
  <1>8. calls' \in Seq(Call) /\ CallsInv'
    BY <1>1, <1>2, <1>7 DEF CallsInv
  <1>9. /\ \A j \in DOMAIN d : j \in DOMAIN calls' /\ calls'[j] = d[j]
        /\ \A j \in DOMAIN calls' : j \notin DOMAIN d => calls'[j] = r
        /\ Len(d) + 1 \in DOMAIN calls' /\ calls'[Len(d) + 1] = r
    BY <1>1, <1>2, <1>7
  <1>10. QED
    BY <1>2, <1>7, <1>8, <1>9 DEF r

LEMMA RemoveMessageTypes ==
  ASSUME Types, NEW m \in Msg, RemoveMessage(m) PROVE Types'
  <1>1. calls' \in Seq(Call) /\ CallsInv'
    BY RemovalCalls
  <1>2. list' \in Seq(Msg)
    BY Rest DEF Types, TypeOK, RemoveMessage
  <1>3. selected' \in Msg \union {NoMsg} /\ body' \in Msg \union {NoMsg} /\ rejoined' \in BOOLEAN
    <2>1. CASE selected = m
      BY <2>1, NextIsListed DEF Types, TypeOK, RemoveMessage
    <2>2. CASE selected # m
      BY <2>2 DEF Types, TypeOK, RemoveMessage
    <2>3. QED
      BY <2>1, <2>2
  <1>4. user' \in 0..MaxUser
    BY DoesOK DEF Types, RemoveMessage
  <1>5. EventsInv'
    BY DEF Types, EventsInv, RemoveMessage
  <1>6. QED
    BY <1>1, <1>2, <1>3, <1>4, <1>5 DEF Types, TypeOK, RemoveMessage

LEMMA ArriveTypes == ASSUME Types, NEW m \in Msg, Arrive(m) PROVE Types'
  <1>1. CallsInv' /\ EventsInv'
    BY DEF Types, CallsInv, EventsInv, Arrive
  <1>2. QED
    BY <1>1 DEF Types, TypeOK, Arrive

LEMMA AnnounceTypes == ASSUME Types, NEW m \in Msg, Announce(m) PROVE Types'
  <1>1. events' \in Seq(Event) /\ EventsInv'
    <2>1. CASE UNCHANGED events
      BY <2>1 DEF Types, TypeOK, EventsInv
    <2>2. CASE events' = events \o <<New(m), Updated(Home[m])>>
      BY <2>2, EventsOfMail DEF Types, TypeOK
    <2>3. QED
      BY <2>1, <2>2 DEF Announce
  <1>2. CallsInv'
    BY DEF Types, CallsInv, Announce
  <1>3. blur' \in BOOLEAN
    <2>1. blur' = blur \/ blur' = (blur \/ Unnoticed(Home[m]))
      BY Zenon DEF Announce
    <2>2. QED
      BY <2>1, Zenon DEF Types, TypeOK
  <1>4. arriving' \subseteq Msg
    BY DEF Types, TypeOK, Announce
  <1>5. UNCHANGED <<rows, gone, listening, list, hasMore, loading, selected, body, rejoined,
                    view, searching, offset, late, calls, user>>
    BY DEF Announce
  <1>6. QED
    BY <1>1, <1>2, <1>3, <1>4, <1>5 DEF Types, TypeOK

\* An answer holds what its view shows when it is read.
LEMMA AnswerIsOwn ==
  ASSUME Types, NEW c \in Call
  PROVE  /\ AnswerOf(c) \in Seq(Msg)
         /\ \A j \in DOMAIN AnswerOf(c) : IF c.search THEN AnswerOf(c)[j] \in Hits
                                          ELSE Shows(c.view, Home[AnswerOf(c)[j]])
  <1>1. c.from \in Nat /\ c.limit \in Nat /\ rows \subseteq Msg
    BY DEF Call, Types, TypeOK
  <1>2. CASE c.search
    <2> DEFINE A == Msg \intersect Hits
    <2>1. AnswerOf(c) = Page(Found, c.from, c.limit) /\ Found \in Seq(A)
      BY <1>1, <1>2, RowsOf DEF AnswerOf
    <2>2. AnswerOf(c) \in Seq(A)
      <3> HIDE DEF A
      <3>1. Page(Found, c.from, c.limit) \in Seq(A)
        BY <1>1, <2>1, Part
      <3>2. QED
        BY <2>1, <3>1, Zenon
    <2>3. AnswerOf(c) \in Seq(Msg) /\ \A j \in DOMAIN AnswerOf(c) : AnswerOf(c)[j] \in A
      <3> HIDE DEF A
      <3>1. \A j \in DOMAIN AnswerOf(c) : AnswerOf(c)[j] \in A
        BY <2>2
      <3>2. A \subseteq Msg
        BY DEF A
      <3>3. QED
        BY <2>2, <3>1, <3>2, SeqMonotonic
    <2>4. QED
      BY <1>2, <2>3
  <1>3. CASE ~c.search
    <2> DEFINE A == {m \in Msg : Shows(c.view, Home[m])}
    <2>1. AnswerOf(c) = Page(Rows(c.view), c.from, c.limit) /\ Rows(c.view) \in Seq(A)
      BY <1>1, <1>3, RowsOf DEF AnswerOf
    <2>2. AnswerOf(c) \in Seq(A)
      <3> HIDE DEF A
      <3>1. Page(Rows(c.view), c.from, c.limit) \in Seq(A)
        BY <1>1, <2>1, Part
      <3>2. QED
        BY <2>1, <3>1, Zenon
    <2>3. AnswerOf(c) \in Seq(Msg) /\ \A j \in DOMAIN AnswerOf(c) : AnswerOf(c)[j] \in A
      <3> HIDE DEF A
      <3>1. \A j \in DOMAIN AnswerOf(c) : AnswerOf(c)[j] \in A
        BY <2>2
      <3>2. A \subseteq Msg
        BY DEF A
      <3>3. QED
        BY <2>2, <3>1, <3>2, SeqMonotonic
    <2>4. QED
      BY <1>3, <2>3
  <1>4. QED
    BY <1>2, <1>3

\* What an answered call keeps.
LEMMA AnsweredOK ==
  ASSUME Types, NEW i \in DOMAIN calls, NEW d \in BOOLEAN, NEW o \in BOOLEAN, NEW r \in Seq(Msg),
         calls' = [calls EXCEPT ![i].done = d, ![i].ok = o, ![i].rows = r],
         \A j \in DOMAIN r : IF calls[i].search THEN r[j] \in Hits
                             ELSE Shows(calls[i].view, Home[r[j]])
  PROVE  calls' \in Seq(Call) /\ CallsInv'
  <1>1. /\ calls' \in Seq(Call) /\ DOMAIN calls' = DOMAIN calls
        /\ \A j \in DOMAIN calls \ {i} : calls'[j] = calls[j]
        /\ calls'[i] = [calls[i] EXCEPT !.done = d, !.ok = o, !.rows = r]
    BY CallAnswered DEF Types, TypeOK
  <1>2. calls[i] \in Call /\ CallOK(calls[i])
    BY DEF Types, TypeOK, CallsInv
  <1>3. CallOK(calls'[i])
    BY <1>1, <1>2 DEF CallOK, Call
  <1>4. \A j \in DOMAIN calls \ {i} : CallOK(calls'[j])
    BY <1>1 DEF Types, CallsInv
  <1>5. QED
    BY <1>1, <1>3, <1>4 DEF CallsInv

LEMMA ServeListTypes == ASSUME Types, NEW i \in DOMAIN calls, ServeList(i) PROVE Types'
  <1>1. PICK ok \in BOOLEAN :
          calls' = [calls EXCEPT ![i].done = TRUE, ![i].ok = ok,
                                 ![i].rows = IF ok THEN AnswerOf(calls[i]) ELSE <<>>]
    BY Zenon DEF ServeList
  <1> DEFINE r == IF ok THEN AnswerOf(calls[i]) ELSE <<>>
             d == TRUE
  <1>2. calls[i] \in Call
    BY DEF Types, TypeOK
  <1>3. r \in Seq(Msg) /\ \A j \in DOMAIN r : IF calls[i].search THEN r[j] \in Hits
                                              ELSE Shows(calls[i].view, Home[r[j]])
    <2>1. CASE ok
      BY <1>2, <2>1, AnswerIsOwn
    <2>2. CASE ~ok
      BY <2>2
    <2>3. QED
      BY <2>1, <2>2
  <1>4. d \in BOOLEAN /\ calls' = [calls EXCEPT ![i].done = d, ![i].ok = ok, ![i].rows = r]
    BY <1>1, Zenon
  <1> HIDE DEF r, d
  <1>5. calls' \in Seq(Call) /\ CallsInv'
    BY <1>3, <1>4, AnsweredOK
  <1>6. UNCHANGED <<rows, gone, arriving, listening, events, list, hasMore, loading, selected,
                    body, rejoined, view, searching, offset, late, user, blur>>
    BY DEF ServeList
  <1>7. QED
    BY <1>5, <1>6 DEF Types, TypeOK, EventsInv

\* A removal is answered: the call, the rows and the events.
LEMMA RemovalServed ==
  ASSUME Types, NEW i \in DOMAIN calls, ServeRemove(i)
  PROVE  /\ calls[i].op = "remove" /\ calls[i].msg \in Msg
         /\ calls' \in Seq(Call) /\ CallsInv' /\ DOMAIN calls' = DOMAIN calls
         /\ \A j \in DOMAIN calls \ {i} : calls'[j] = calls[j]
         /\ calls'[i].op = "remove" /\ calls'[i].msg = calls[i].msg
         /\ events' \in Seq(Event) /\ EventsInv'
         /\ \A k \in DOMAIN events : k \in DOMAIN events' /\ events'[k] = events[k]
         /\ rows' = rows \/ RemoveRow(calls[i].msg)
         /\ \/ ~calls'[i].ok
            \/ \E k \in DOMAIN events' : events'[k] = Updated(Home[calls[i].msg])
  <1> DEFINE m  == calls[i].msg
             yes == TRUE
             no  == FALSE
  <1>1. /\ calls[i] \in Call /\ CallOK(calls[i]) /\ calls[i].op = "remove" /\ ~calls[i].done
        /\ calls \in Seq(Call) /\ events \in Seq(Event) /\ EventsInv
    BY DEF Types, TypeOK, CallsInv, ServeRemove
  <1>2. m \in Msg /\ Home[m] \in Folder
    BY <1>1, Constants DEF CallOK
  <1>3. calls[i].ok \in BOOLEAN /\ calls[i].rows \in Seq(Msg) /\ yes \in BOOLEAN /\ no \in BOOLEAN
    BY <1>1 DEF Call
  <1>4. ASSUME NEW o \in BOOLEAN, calls' = [calls EXCEPT ![i].done = TRUE, ![i].ok = o]
        PROVE  /\ calls' \in Seq(Call) /\ CallsInv' /\ DOMAIN calls' = DOMAIN calls
               /\ \A j \in DOMAIN calls \ {i} : calls'[j] = calls[j]
               /\ calls'[i].op = "remove" /\ calls'[i].msg = m
               /\ calls'[i].ok = o
    <2> DEFINE r == calls[i].rows
    <2>1. calls' = [calls EXCEPT ![i].done = yes, ![i].ok = o, ![i].rows = r]
      BY <1>1, <1>4 DEF Call
    <2> HIDE DEF yes
    <2>2. calls' \in Seq(Call) /\ CallsInv'
      <3>1. \A j \in DOMAIN r : IF calls[i].search THEN r[j] \in Hits
                                ELSE Shows(calls[i].view, Home[r[j]])
        BY <1>1 DEF CallOK
      <3>2. QED
        BY <1>3, <2>1, <3>1, AnsweredOK
    <2>3. /\ DOMAIN calls' = DOMAIN calls
          /\ \A j \in DOMAIN calls \ {i} : calls'[j] = calls[j]
          /\ calls'[i] = [calls[i] EXCEPT !.done = yes, !.ok = o, !.rows = r]
      BY <1>1, <1>3, <2>1, CallAnswered
    <2>4. calls'[i].op = "remove" /\ calls'[i].msg = m /\ calls'[i].ok = o
      BY <1>1, <2>3 DEF Call
    <2>5. QED
      BY <2>2, <2>3, <2>4
  <1>5. CASE /\ calls' = [calls EXCEPT ![i].done = TRUE, ![i].ok = FALSE]
             /\ UNCHANGED <<rows, gone>> \/ RemoveRow(m)
             /\ UNCHANGED events
    <2>1. no \in BOOLEAN /\ calls' = [calls EXCEPT ![i].done = TRUE, ![i].ok = no]
      BY <1>5, Zenon
    <2> HIDE DEF no
    <2>2. /\ calls' \in Seq(Call) /\ CallsInv' /\ DOMAIN calls' = DOMAIN calls
          /\ \A j \in DOMAIN calls \ {i} : calls'[j] = calls[j]
          /\ calls'[i].op = "remove" /\ calls'[i].msg = m /\ calls'[i].ok = no
      BY <1>4, <2>1
    <2>3. ~calls'[i].ok
      BY <2>2, Zenon DEF no
    <2>4. events' = events /\ (rows' = rows \/ RemoveRow(m))
      BY <1>5
    <2>5. EventsInv'
      BY <1>1, <2>4 DEF EventsInv
    <2>6. QED
      BY <1>1, <1>2, <2>2, <2>3, <2>4, <2>5
  <1>6. ASSUME m \in rows, calls' = [calls EXCEPT ![i].done = TRUE], RemoveRow(m),
               NEW target \in (Folder \ {Home[m]}) \union {Unified},
               events' = events \o (<<Updated(Home[m])>>
                            \o (IF target = Unified THEN <<>> ELSE <<Updated(target)>>))
        PROVE  /\ calls' \in Seq(Call) /\ CallsInv' /\ DOMAIN calls' = DOMAIN calls
               /\ \A j \in DOMAIN calls \ {i} : calls'[j] = calls[j]
               /\ calls'[i].op = "remove" /\ calls'[i].msg = m
               /\ events' \in Seq(Event) /\ EventsInv'
               /\ \A k \in DOMAIN events : k \in DOMAIN events' /\ events'[k] = events[k]
               /\ \E k \in DOMAIN events' : events'[k] = Updated(Home[m])
    <2>1. calls' = [calls EXCEPT ![i].done = TRUE, ![i].ok = calls[i].ok]
      BY <1>1, <1>6 DEF Call
    <2>2. /\ calls' \in Seq(Call) /\ CallsInv' /\ DOMAIN calls' = DOMAIN calls
          /\ \A j \in DOMAIN calls \ {i} : calls'[j] = calls[j]
          /\ calls'[i].op = "remove" /\ calls'[i].msg = m
      BY <1>3, <1>4, <2>1
    <2>3. target \in Folder \union {Unified}
      OBVIOUS
    <2>4. /\ events' \in Seq(Event) /\ EventsInv'
          /\ \A k \in DOMAIN events : k \in DOMAIN events' /\ events'[k] = events[k]
          /\ Len(events) + 1 \in DOMAIN events' /\ events'[Len(events) + 1] = Updated(Home[m])
      BY <1>1, <1>2, <1>6, <2>3, EventsMore
    <2>5. QED
      BY <2>2, <2>4
  <1>7. \/ /\ calls' = [calls EXCEPT ![i].done = TRUE, ![i].ok = FALSE]
           /\ UNCHANGED <<rows, gone>> \/ RemoveRow(m)
           /\ UNCHANGED events
        \/ /\ m \in rows
           /\ calls' = [calls EXCEPT ![i].done = TRUE]
           /\ RemoveRow(m)
           /\ \E target \in (Folder \ {Home[m]}) \union {Unified} :
                events' = events \o (<<Updated(Home[m])>>
                             \o (IF target = Unified THEN <<>> ELSE <<Updated(target)>>))
    BY Zenon DEF ServeRemove
  <1>8. CASE /\ m \in rows
             /\ calls' = [calls EXCEPT ![i].done = TRUE]
             /\ RemoveRow(m)
             /\ \E target \in (Folder \ {Home[m]}) \union {Unified} :
                  events' = events \o (<<Updated(Home[m])>>
                               \o (IF target = Unified THEN <<>> ELSE <<Updated(target)>>))
    BY <1>1, <1>2, <1>6, <1>8
  <1>9. QED
    BY <1>5, <1>7, <1>8

LEMMA ServeRemoveTypes == ASSUME Types, NEW i \in DOMAIN calls, ServeRemove(i) PROVE Types'
  <1>1. /\ calls[i].msg \in Msg /\ calls' \in Seq(Call) /\ CallsInv'
        /\ events' \in Seq(Event) /\ EventsInv'
    BY RemovalServed
  <1>2. rows' \subseteq Msg /\ gone' \subseteq Msg
    BY <1>1 DEF ServeRemove, RemoveRow, Types, TypeOK
  <1>3. UNCHANGED <<arriving, listening, list, hasMore, loading, selected, body, rejoined,
                    view, searching, offset, late, user, blur>>
    BY DEF ServeRemove
  <1>4. QED
    BY <1>1, <1>2, <1>3 DEF Types, TypeOK

LEMMA TakePageTypes == ASSUME Types, NEW i \in DOMAIN calls, TakePage(i) PROVE Types'
  <1> DEFINE c == calls[i]
  <1>1. calls' \in Seq(Call) /\ CallsInv'
    BY CallsLess DEF Types, TypeOK, TakePage
  <1>2. c \in Call /\ c.rows \in Seq(Msg) /\ list \in Seq(Msg)
    <2>1. calls[i] \in Call /\ list \in Seq(Msg)
      BY DEF Types, TypeOK
    <2>2. QED
      BY <2>1 DEF Call
  <1>3. list' \in {list, list \o c.rows, c.rows, <<>>}
    BY DEF TakePage
  <1>4. list' \in Seq(Msg)
    <2> HIDE DEF c
    <2>1. list \o c.rows \in Seq(Msg) /\ <<>> \in Seq(Msg)
      BY <1>2, ConcatProperties, EmptySeq
    <2>2. QED
      BY <1>2, <1>3, <2>1
  <1>5. hasMore' \in BOOLEAN /\ blur' \in BOOLEAN
    <2>1. hasMore' = (Len(c.rows) = PageLimit) \/ hasMore' = hasMore
      BY Zenon DEF TakePage
    <2>2. blur' = (blur \/ c.op = "page") \/ blur' = blur
      BY Zenon DEF TakePage
    <2>3. hasMore \in BOOLEAN /\ blur \in BOOLEAN
      BY DEF Types, TypeOK
    <2>4. QED
      BY <2>1, <2>2, <2>3, Zenon
  <1>6. loading' \in BOOLEAN /\ listening' \in BOOLEAN
    <2>1. loading' = FALSE /\ listening' = (listening \/ i = 1)
      BY Zenon DEF TakePage
    <2>2. QED
      BY <2>1, Zenon
  <1>7. UNCHANGED <<rows, gone, arriving, events, selected, body, rejoined,
                    view, searching, offset, late, user>>
    BY DEF TakePage
  <1>8. QED
    BY <1>1, <1>4, <1>5, <1>6, <1>7 DEF Types, TypeOK, EventsInv

\* The calls after a refresh: the selection follows a failed removal.
LEMMA RefreshCalls ==
  ASSUME Types, NEW i \in DOMAIN calls, TakeRefresh(i)
  PROVE  \E d \in Seq(Call) :
           /\ d = RemoveAt(calls, i)
           /\ calls' = d \/ (calls' = Append(d, MsgCall("reselect", calls[i].msg))
                              /\ calls[i].msg \in Msg)
  <1> DEFINE d == RemoveAt(calls, i)
             r == MsgCall("reselect", calls[i].msg)
  <1>1. calls \in Seq(Call) /\ CallOK(calls[i])
    BY DEF Types, TypeOK, CallsInv
  <1>2. d \in Seq(Call)
    BY <1>1, Removal
  <1>3. calls' = d \o (IF calls[i].op = "restore" THEN <<r>> ELSE <<>>)
    BY DEF TakeRefresh
  <1>4. calls[i].op = "restore" => calls[i].msg \in Msg /\ r \in Call
    BY <1>1, MsgCallOK DEF CallOK
  <1> HIDE DEF d, r
  <1>5. calls' = d \/ (calls' = Append(d, r) /\ calls[i].msg \in Msg)
    <2>1. CASE calls[i].op = "restore"
      BY <1>2, <1>3, <1>4, <2>1, AppendIsConcat
    <2>2. CASE calls[i].op # "restore"
      BY <1>2, <1>3, <2>2
    <2>3. QED
      BY <2>1, <2>2
  <1>6. QED
    BY <1>2, <1>5 DEF d, r

\* A call leaves and another takes the last place.
LEMMA CallMoved ==
  ASSUME calls \in Seq(Call), CallsInv, NEW i \in DOMAIN calls, NEW c \in Call, CallOK(c),
         calls' = Append(RemoveAt(calls, i), c)
  PROVE  /\ calls' \in Seq(Call) /\ CallsInv'
         /\ \A j \in DOMAIN calls' :
              \/ /\ (IF j < i THEN j ELSE j + 1) \in DOMAIN calls \ {i}
                 /\ calls'[j] = calls[IF j < i THEN j ELSE j + 1]
              \/ j = Len(calls) /\ calls'[j] = c
         /\ \A k \in DOMAIN calls \ {i} :
              /\ (IF k < i THEN k ELSE k - 1) \in DOMAIN calls'
              /\ calls'[IF k < i THEN k ELSE k - 1] = calls[k]
         /\ Len(calls) \in DOMAIN calls' /\ calls'[Len(calls)] = c
  <1> DEFINE d == RemoveAt(calls, i)
             n == Len(calls)
  <1>1. /\ d \in Seq(Call) /\ Len(d) = n - 1
        /\ \A j \in 1..(n - 1) : d[j] = calls[IF j < i THEN j ELSE j + 1]
    BY Removal
  <1>2. i \in 1..n /\ n \in Nat /\ DOMAIN calls = 1..n
    OBVIOUS
  <1> HIDE DEF d, n
  <1>3. /\ calls' \in Seq(Call) /\ Len(calls') = n
        /\ \A j \in 1..(n - 1) : calls'[j] = d[j]
        /\ calls'[n] = c
    <2>1. calls' = Append(d, c)
      BY DEF d
    <2>2. Len(d) + 1 = n
      BY <1>1, <1>2
    <2>3. /\ calls' \in Seq(Call) /\ Len(calls') = Len(d) + 1
          /\ \A j \in 1..Len(d) : calls'[j] = d[j]
          /\ calls'[Len(d) + 1] = c
      BY <1>1, <2>1, AppendProperties
    <2>4. QED
      BY <1>1, <2>2, <2>3
  <1>4. DOMAIN calls' = 1..n
    <2>1. DOMAIN calls' = 1..Len(calls')
      BY <1>3, LenProperties
    <2>2. QED
      BY <1>3, <2>1
  <1>5. ASSUME NEW j \in DOMAIN calls', j # n
        PROVE  /\ (IF j < i THEN j ELSE j + 1) \in DOMAIN calls \ {i}
               /\ calls'[j] = calls[IF j < i THEN j ELSE j + 1]
    <2>1. j \in 1..(n - 1)
      BY <1>2, <1>4, <1>5
    <2>2. QED
      BY <1>1, <1>2, <1>3, <2>1
  <1>6. ASSUME NEW k \in DOMAIN calls \ {i}
        PROVE  /\ (IF k < i THEN k ELSE k - 1) \in DOMAIN calls'
               /\ calls'[IF k < i THEN k ELSE k - 1] = calls[k]
    <2>1. CASE k < i
      <3>1. k \in 1..(n - 1)
        BY <1>2, <2>1
      <3>2. QED
        BY <1>1, <1>2, <1>3, <1>4, <2>1, <3>1
    <2>2. CASE ~(k < i)
      <3>1. k - 1 \in 1..(n - 1) /\ ~(k - 1 < i) /\ k - 1 + 1 = k
        BY <1>2, <2>2
      <3>2. d[k - 1] = calls[IF k - 1 < i THEN k - 1 ELSE k - 1 + 1]
        BY <1>1, <3>1
      <3>3. QED
        BY <1>2, <1>3, <1>4, <2>2, <3>1, <3>2
    <2>3. QED
      BY <2>1, <2>2
  <1>7. n \in DOMAIN calls'
    BY <1>2, <1>4
  <1>8. CallsInv'
    BY <1>3, <1>5 DEF CallsInv
  <1>9. QED
    BY <1>3, <1>5, <1>6, <1>7, <1>8 DEF n

LEMMA TakeRefreshTypes == ASSUME Types, NEW i \in DOMAIN calls, TakeRefresh(i) PROVE Types'
  <1> DEFINE c == calls[i]
  <1>1. calls' \in Seq(Call) /\ CallsInv'
    <2>1. calls \in Seq(Call) /\ CallsInv
      BY DEF Types, TypeOK
    <2>2. CASE calls' = RemoveAt(calls, i)
      BY <2>1, <2>2, CallsLess
    <2>3. CASE calls' = Append(RemoveAt(calls, i), MsgCall("reselect", calls[i].msg))
               /\ calls[i].msg \in Msg
      BY <2>1, <2>3, MsgCallOK, CallMoved
    <2>4. QED
      BY <2>2, <2>3, RefreshCalls
  <1>2. c \in Call /\ c.rows \in Seq(Msg) /\ list \in Seq(Msg)
    <2>1. calls[i] \in Call /\ list \in Seq(Msg)
      BY DEF Types, TypeOK
    <2>2. QED
      BY <2>1 DEF Call
  <1>3. list' \in {list, c.rows}
    BY DEF TakeRefresh
  <1>4. hasMore' \in BOOLEAN /\ blur' \in BOOLEAN
    <2>1. hasMore' = (Len(c.rows) = c.limit) \/ hasMore' = hasMore
      BY Zenon DEF TakeRefresh
    <2>2. blur' = (blur \/ ~c.ok) \/ blur' = blur
      BY Zenon DEF TakeRefresh
    <2>3. hasMore \in BOOLEAN /\ blur \in BOOLEAN
      BY DEF Types, TypeOK
    <2>4. QED
      BY <2>1, <2>2, <2>3, Zenon
  <1>5. UNCHANGED <<rows, gone, arriving, listening, events, loading, selected,
                    body, rejoined, view, searching, offset, late, user>>
    BY DEF TakeRefresh
  <1>6. QED
    BY <1>1, <1>2, <1>3, <1>4, <1>5 DEF Types, TypeOK, EventsInv

LEMMA ReselectTypes == ASSUME Types, NEW i \in DOMAIN calls, Reselect(i) PROVE Types'
  <1>1. calls' \in Seq(Call) /\ CallsInv'
    BY CallsLess DEF Types, TypeOK, Reselect
  <1>2. calls[i].msg \in Msg
    BY DEF Types, CallsInv, CallOK, Reselect
  <1>3. selected' \in Msg \union {NoMsg} /\ body' \in Msg \union {NoMsg} /\ rejoined' \in BOOLEAN
    <2>1. (selected' = calls[i].msg \/ selected' = selected) /\ body' = body
      BY DEF Reselect
    <2>2. rejoined' = (rejoined \/ selected # calls[i].msg) \/ rejoined' = rejoined
      BY Zenon DEF Reselect
    <2>3. rejoined' \in BOOLEAN
      BY <2>2, Zenon DEF Types, TypeOK
    <2>4. QED
      BY <1>2, <2>1, <2>3 DEF Types, TypeOK
  <1>4. UNCHANGED <<rows, gone, arriving, listening, events, list, hasMore, loading,
                    view, searching, offset, late, user, blur>>
    BY DEF Reselect
  <1>5. QED
    BY <1>1, <1>3, <1>4 DEF Types, TypeOK, EventsInv

LEMMA TakeBodyTypes == ASSUME Types, NEW i \in DOMAIN calls, TakeBody(i) PROVE Types'
  <1>1. calls' \in Seq(Call) /\ CallsInv'
    BY CallsLess DEF Types, TypeOK, TakeBody
  <1>2. calls[i].msg \in Msg
    BY DEF Types, CallsInv, CallOK, TakeBody, ShowBody
  <1>3. body' \in Msg \union {NoMsg} /\ selected' = selected /\ rejoined' = rejoined
    BY <1>2 DEF Types, TypeOK, TakeBody, ShowBody
  <1>4. events' \in Seq(Event) /\ EventsInv'
    <2>1. CASE UNCHANGED events
      BY <2>1 DEF Types, TypeOK, EventsInv
    <2>2. CASE events' = Append(events, Updated(Home[calls[i].msg]))
      BY <1>2, <2>2, EventMore, Constants DEF Types, TypeOK
    <2>3. QED
      BY <2>1, <2>2 DEF TakeBody
  <1>5. UNCHANGED <<rows, gone, arriving, listening, list, hasMore, loading,
                    view, searching, offset, late, user, blur>>
    BY DEF TakeBody
  <1>6. QED
    BY <1>1, <1>3, <1>4, <1>5 DEF Types, TypeOK

\* Asking for the list again.
LEMMA RefreshCallOK ==
  ASSUME TypeOK, NEW op \in RefreshOps, NEW m \in Msg \union {NoMsg}, op = "restore" => m \in Msg
  PROVE  RefreshCall(op, m) \in Call /\ CallOK(RefreshCall(op, m))
  <1> DEFINE limit == IF Len(list) > PageLimit THEN Len(list) ELSE PageLimit
  <1>1. limit \in Nat
    BY Constants DEF TypeOK
  <1>2. RefreshCall(op, m) = ListCall(op, view, FALSE, 0, limit, m)
    BY DEF RefreshCall
  <1> HIDE DEF limit
  <1>3. op \in ListOps /\ op # "more" /\ op \notin PageOps /\ view \in View
    BY DEF ListOps, PageOps, RefreshOps, TypeOK
  <1>4. QED
    BY <1>1, <1>2, <1>3, ListCallOK

LEMMA TakeRemoveTypes == ASSUME Types, NEW i \in DOMAIN calls, TakeRemove(i) PROVE Types'
  <1>1. calls \in Seq(Call) /\ CallsInv /\ calls[i].msg \in Msg
    BY DEF Types, TypeOK, CallsInv, CallOK, TakeRemove
  <1>2. calls' \in Seq(Call) /\ CallsInv'
    <2>1. CASE calls[i].ok
      BY <1>1, <2>1, CallsLess DEF TakeRemove
    <2>2. CASE ~calls[i].ok
      <3>1. RefreshCall("restore", calls[i].msg) \in Call
            /\ CallOK(RefreshCall("restore", calls[i].msg))
        BY <1>1, RefreshCallOK DEF Types, RefreshOps
      <3>2. calls' = Append(RemoveAt(calls, i), RefreshCall("restore", calls[i].msg))
        BY <2>2 DEF TakeRemove
      <3>3. QED
        BY <1>1, <3>1, <3>2, CallMoved
    <2>3. QED
      BY <2>1, <2>2
  <1>3. blur' \in BOOLEAN /\ late' \in BOOLEAN
    <2>1. blur' = blur \/ blur' = Overlap(view, FALSE)
      BY Zenon DEF TakeRemove
    <2>2. late' = late \/ late' = (late \/ searching)
      BY Zenon DEF TakeRemove
    <2>3. Overlap(view, FALSE) \in BOOLEAN
      BY Zenon DEF Overlap
    <2>4. QED
      BY <2>1, <2>2, <2>3, Zenon DEF Types, TypeOK
  <1>4. UNCHANGED <<rows, gone, arriving, listening, events, list, hasMore, loading, selected,
                    body, rejoined, view, searching, offset, user>>
    BY DEF TakeRemove
  <1>5. QED
    BY <1>2, <1>3, <1>4 DEF Types, TypeOK, EventsInv

LEMMA MissEventTypes == Types /\ MissEvent => Types'
  <1> SUFFICES ASSUME Types, MissEvent PROVE Types'
    OBVIOUS
  <1>1. events' \in Seq(Event) /\ EventsInv'
    BY EventLess DEF Types, TypeOK, MissEvent
  <1>2. blur' \in BOOLEAN
    BY Zenon DEF Types, TypeOK, MissEvent
  <1>3. UNCHANGED <<rows, gone, arriving, listening, list, hasMore, loading, selected,
                    body, rejoined, view, searching, offset, late, calls, user>>
    BY DEF MissEvent
  <1>4. CallsInv'
    BY <1>3 DEF Types, CallsInv
  <1>5. QED
    BY <1>1, <1>2, <1>3, <1>4 DEF Types, TypeOK

LEMMA OnNewMessagesTypes == Types /\ OnNewMessages => Types'
  <1> SUFFICES ASSUME Types, OnNewMessages PROVE Types'
    OBVIOUS
  <1>1. /\ events' \in Seq(Event) /\ EventsInv'
        /\ Head(events) = events[1] /\ 1 \in DOMAIN events
    BY EventLess DEF Types, TypeOK, OnNewMessages
  <1>2. Head(events).msg \in Msg
    BY <1>1 DEF Types, EventsInv, OnNewMessages
  <1>3. list' = list \/ list' = <<Head(events).msg>> \o list
    BY DEF OnNewMessages, Prepend
  <1>4. list' \in Seq(Msg)
    <2> DEFINE m == Head(events).msg
    <2>1. list \in Seq(Msg) /\ m \in Msg /\ (list' = list \/ list' = <<m>> \o list)
      BY <1>2, <1>3 DEF Types, TypeOK
    <2> HIDE DEF m
    <2>2. <<m>> \o list \in Seq(Msg)
      BY <2>1
    <2>3. QED
      BY <2>1, <2>2
  <1>5. UNCHANGED <<rows, gone, arriving, listening, hasMore, loading, selected, body, rejoined,
                    view, searching, offset, late, calls, user, blur>>
    BY DEF OnNewMessages
  <1>6. CallsInv'
    BY <1>5 DEF Types, CallsInv
  <1>7. QED
    BY <1>1, <1>4, <1>5, <1>6 DEF Types, TypeOK

LEMMA OnMessagesUpdatedTypes == Types /\ OnMessagesUpdated => Types'
  <1> SUFFICES ASSUME Types, OnMessagesUpdated PROVE Types'
    OBVIOUS
  <1>1. events' \in Seq(Event) /\ EventsInv'
    BY EventLess DEF Types, TypeOK, OnMessagesUpdated
  <1>2. RefreshCall("refresh", NoMsg) \in Call /\ CallOK(RefreshCall("refresh", NoMsg))
    BY RefreshCallOK DEF Types, RefreshOps
  <1>3. \/ calls' = calls /\ blur' = blur
        \/ calls' = Append(calls, RefreshCall("refresh", NoMsg)) /\ blur' = Overlap(view, FALSE)
    BY Zenon DEF OnMessagesUpdated, RefreshIfShown
  <1>4. calls' \in Seq(Call) /\ CallsInv'
    <2>1. CASE calls' = calls
      BY <2>1 DEF Types, TypeOK, CallsInv
    <2>2. CASE calls' = Append(calls, RefreshCall("refresh", NoMsg))
      BY <1>2, <2>2, CallsMore DEF Types, TypeOK
    <2>3. QED
      BY <1>3, <2>1, <2>2
  <1>5. blur' \in BOOLEAN
    <2>1. Overlap(view, FALSE) \in BOOLEAN
      BY Zenon DEF Overlap
    <2>2. QED
      BY <1>3, <2>1, Zenon DEF Types, TypeOK
  <1>6. UNCHANGED <<rows, gone, arriving, listening, list, hasMore, loading, selected,
                    body, rejoined, view, searching, offset, late, user>>
    BY DEF OnMessagesUpdated
  <1>7. QED
    BY <1>1, <1>4, <1>5, <1>6 DEF Types, TypeOK

LEMMA TypesStep == Types /\ [Next]_vars => Types'
  <1> SUFFICES ASSUME Types, [Next]_vars PROVE Types'
    OBVIOUS
  <1>1. CASE User
    BY <1>1, NavigationTypes, LoadMoreTypes, SelectMessageTypes, MarkTypes, RemoveMessageTypes
       DEF User
  <1>2. CASE Backend
    BY <1>2, ArriveTypes, AnnounceTypes, ServeListTypes, ServeRemoveTypes DEF Backend
  <1>3. CASE Window
    BY <1>3, TakePageTypes, TakeRefreshTypes, ReselectTypes, TakeBodyTypes, TakeRemoveTypes,
       MissEventTypes, OnNewMessagesTypes, OnMessagesUpdatedTypes DEF Window
  <1>4. CASE UNCHANGED vars
    BY <1>4 DEF Types, TypeOK, CallsInv, EventsInv
  <1>5. QED
    BY <1>1, <1>2, <1>3, <1>4 DEF Next

-----------------------------------------------------------------------------
(* The list is the view's own *)

\* The window begins with the unified view, empty and asked for.
LEMMA ViewShowsItsOwnInit == Init => LateInv /\ ViewShowsItsOwn
  <1> SUFFICES ASSUME Init PROVE LateInv /\ ViewShowsItsOwn
    OBVIOUS
  <1>1. list = <<>> /\ DOMAIN list = {} /\ ~searching
    BY DEF Init
  <1>2. QED
    BY <1>1 DEF LateInv, ViewShowsItsOwn

\* An answer under way for the folder, under a search, is remembered.
LEMMA NoneAsked == ~Overlap(view, FALSE) => Asked = {}
  BY DEF Overlap, Asked

\* A new view begins with an empty list; what may still come for a folder under a search
\* is `late'.
LEMMA NavigationOwn ==
  ASSUME OwnInv, SelectUnified \/ RunSearch \/ ClearSearch \/ (\E f \in Folder : SelectFolder(f))
  PROVE  LateInv' /\ ViewShowsItsOwn'
  <1>1. list' = <<>> /\ DOMAIN list' = {}
    <2>1. list' = <<>>
      BY Zenon DEF SelectUnified, RunSearch, ClearSearch, SelectFolder, Enter
    <2>2. QED
      BY <2>1
  <1>2. ViewShowsItsOwn'
    BY <1>1 DEF ViewShowsItsOwn
  <1>3. CASE RunSearch
    <2> SUFFICES ASSUME ~late' PROVE Asked' = {}
      BY <1>2 DEF LateInv
    <2> DEFINE c == ListCall("page", view, TRUE, 0, PageLimit, NoMsg)
    <2>1. view' = view /\ calls' = Append(calls, c) /\ calls \in Seq(Call)
      BY <1>3 DEF RunSearch, Enter, OwnInv, Types, TypeOK
    <2>2. ~Overlap(view, FALSE)
      BY <1>3, Zenon DEF RunSearch
    <2>3. \A j \in DOMAIN calls : ~(calls[j].op \in ListOps /\ Accepted(calls[j], view, FALSE))
      BY <2>2 DEF Overlap
    <2>4. ~Accepted(c, view, FALSE)
      BY DEF Accepted, ListCall, PageOps
    <2> HIDE DEF c
    <2>5. \A j \in DOMAIN calls' :
            (j \in DOMAIN calls /\ calls'[j] = calls[j]) \/ calls'[j] = c
      BY <2>1
    <2>6. QED
      BY <2>1, <2>3, <2>4, <2>5 DEF Asked
  <1>4. CASE ~searching'
    BY <1>2, <1>4 DEF LateInv
  <1>5. ~RunSearch => ~searching'
    BY DEF SelectUnified, ClearSearch, SelectFolder, Enter
  <1>6. QED
    BY <1>3, <1>4, <1>5

\* While the view and the search stay and nothing new is asked for the folder
\* under the search, no answer for the folder can reach the results.
LEMMA LateKept ==
  ASSUME LateInv, view' = view, searching' = searching, late' = late,
         searching => \A j \in DOMAIN calls' :
           \/ \E k \in DOMAIN calls : /\ calls'[j].op = calls[k].op
                                      /\ calls'[j].view = calls[k].view
                                      /\ calls'[j].search = calls[k].search
           \/ calls'[j].op \notin ListOps
           \/ calls'[j].op \in PageOps /\ calls'[j].search
  PROVE  LateInv'
  <1> SUFFICES ASSUME searching, ~late, NEW j \in DOMAIN calls', calls'[j].op \in ListOps,
                      Accepted(calls'[j], view, FALSE)
      PROVE  FALSE
    BY DEF LateInv, Asked
  <1>1. \A k \in DOMAIN calls : ~(calls[k].op \in ListOps /\ Accepted(calls[k], view, FALSE))
    BY DEF LateInv, Asked
  <1>2. QED
    BY <1>1 DEF Accepted

\* Deeds that stay in the view leave the list, drop from it, or ask for more.
LEMMA UserOwn ==
  ASSUME OwnInv, \/ LoadMore
                 \/ \E m \in Msg : SelectMessage(m) \/ Mark(m) \/ RemoveMessage(m)
  PROVE  LateInv' /\ ViewShowsItsOwn'
  <1> USE DEF OwnInv, Types, TypeOK
  <1>1. CASE LoadMore
    <2>1. /\ calls' = Append(calls, ListCall("more", view, searching, offset', PageLimit, NoMsg))
          /\ list' = list /\ view' = view /\ searching' = searching /\ late' = late
      BY <1>1 DEF LoadMore
    <2> DEFINE c == ListCall("more", view, searching, offset', PageLimit, NoMsg)
    <2>2. c.op \in PageOps /\ c.search = searching
      BY DEF ListCall, PageOps
    <2> HIDE DEF c
    <2>3. \A j \in DOMAIN calls' : (j \in DOMAIN calls /\ calls'[j] = calls[j]) \/ calls'[j] = c
      BY <2>1 DEF c
    <2>4. LateInv'
      BY <2>1, <2>2, <2>3, LateKept
    <2>5. QED
      BY <2>1, <2>4 DEF ViewShowsItsOwn
  <1>2. ASSUME NEW m \in Msg, SelectMessage(m)
        PROVE  LateInv' /\ ViewShowsItsOwn'
    <2>1. /\ calls' = Append(calls, MsgCall("body", m))
          /\ list' = list /\ view' = view /\ searching' = searching /\ late' = late
      BY <1>2 DEF SelectMessage
    <2>2. MsgCall("body", m).op \notin ListOps
      BY DEF MsgCall, ListOps, PageOps, RefreshOps
    <2>3. \A j \in DOMAIN calls' :
            (j \in DOMAIN calls /\ calls'[j] = calls[j]) \/ calls'[j] = MsgCall("body", m)
      BY <2>1
    <2>4. LateInv'
      BY <2>1, <2>2, <2>3, LateKept
    <2>5. QED
      BY <2>1, <2>4 DEF ViewShowsItsOwn
  <1>3. ASSUME NEW m \in Msg, Mark(m)
        PROVE  LateInv' /\ ViewShowsItsOwn'
    BY <1>3 DEF Mark, LateInv, Asked, ViewShowsItsOwn
  <1>4. ASSUME NEW m \in Msg, RemoveMessage(m)
        PROVE  LateInv' /\ ViewShowsItsOwn'
    <2>1. /\ list' = Dropped(list, m) /\ view' = view /\ searching' = searching /\ late' = late
      BY <1>4 DEF RemoveMessage
    <2>2. /\ \A j \in DOMAIN calls : j \in DOMAIN calls' /\ calls'[j] = calls[j]
          /\ \A j \in DOMAIN calls' : j \notin DOMAIN calls => calls'[j].op \in {"body", "remove"}
      BY <1>4, RemovalCalls
    <2>3. LateInv'
      <3>1. \A j \in DOMAIN calls' : j \notin DOMAIN calls => calls'[j].op \notin ListOps
        BY <2>2 DEF ListOps, PageOps, RefreshOps
      <3>2. QED
        BY <2>1, <2>2, <3>1, LateKept
    <2>4. \A j \in DOMAIN list' : \E k \in DOMAIN list : list'[j] = list[k]
      BY <2>1, Rest
    <2>5. QED
      BY <2>1, <2>3, <2>4 DEF ViewShowsItsOwn
  <1>5. QED
    BY <1>1, <1>2, <1>3, <1>4

LEMMA BackendOwn == ASSUME OwnInv, Backend PROVE LateInv' /\ ViewShowsItsOwn'
  <1>1. list' = list /\ view' = view /\ searching' = searching /\ late' = late
    BY DEF Backend, Arrive, Announce, ServeList, ServeRemove
  <1>2. ViewShowsItsOwn'
    BY <1>1 DEF OwnInv, ViewShowsItsOwn
  <1>3. CASE \E m \in Msg : Arrive(m) \/ Announce(m)
    <2>1. calls' = calls
      BY <1>3 DEF Arrive, Announce
    <2>2. QED
      BY <1>1, <1>2, <2>1 DEF OwnInv, LateInv, Asked
  <1>4. ASSUME NEW i \in DOMAIN calls, ServeList(i)
        PROVE  LateInv'
    <2>1. \A j \in DOMAIN calls' : /\ j \in DOMAIN calls /\ calls'[j].op = calls[j].op
                                   /\ calls'[j].view = calls[j].view
                                   /\ calls'[j].search = calls[j].search
      <3>1. calls \in Seq(Call)
        BY DEF OwnInv, Types, TypeOK
      <3>2. \A j \in DOMAIN calls : calls[j] \in Call
        BY <3>1
      <3>3. QED
        BY <1>4, <3>2 DEF ServeList, Call
    <2>2. QED
      BY <1>1, <2>1, LateKept DEF OwnInv
  <1>5. ASSUME NEW i \in DOMAIN calls, ServeRemove(i)
        PROVE  LateInv'
    <2>1. /\ DOMAIN calls' = DOMAIN calls
          /\ \A j \in DOMAIN calls \ {i} : calls'[j] = calls[j]
          /\ calls'[i].op = "remove"
      BY <1>5, RemovalServed DEF OwnInv
    <2>2. "remove" \notin ListOps
      BY DEF ListOps, PageOps, RefreshOps
    <2>3. QED
      BY <1>1, <2>1, <2>2, LateKept DEF OwnInv
  <1>6. QED
    BY <1>2, <1>3, <1>4, <1>5 DEF Backend

\* What of the list is put there by an answer is what the answer's view shows.
LEMMA TakenIsOwn ==
  ASSUME OwnInv, NEW i \in DOMAIN calls, calls[i].op \in ListOps,
         Accepted(calls[i], view, searching)
  PROVE  \A j \in DOMAIN calls[i].rows :
           IF searching THEN late \/ calls[i].rows[j] \in Hits
           ELSE Shows(view, Home[calls[i].rows[j]])
  <1> DEFINE c == calls[i]
  <1>1. CallOK(c) /\ c.op \in ListOps
    BY DEF OwnInv, Types, CallsInv
  <1>2. CASE c.op \in PageOps /\ c.search
    <2>1. searching
      BY <1>2 DEF Accepted
    <2>2. QED
      BY <1>1, <1>2, <2>1 DEF CallOK
  <1>3. CASE ~(c.op \in PageOps /\ c.search)
    <2>1. view = c.view /\ ~c.search
      BY <1>1, <1>3 DEF Accepted, CallOK, ListOps
    <2>2. CASE searching
      <3>1. i \in Asked
        BY <1>3, <2>1 DEF Asked, Accepted
      <3>2. QED
        BY <2>2, <3>1 DEF OwnInv, LateInv
    <2>3. CASE ~searching
      BY <1>1, <2>1, <2>3 DEF CallOK
    <2>4. QED
      BY <2>2, <2>3
  <1>4. QED
    BY <1>2, <1>3

\* An accepted answer has the view's messages; it can be a folder's under a search only
\* if late.
LEMMA TakePageOwn ==
  ASSUME OwnInv, NEW i \in DOMAIN calls, TakePage(i) PROVE LateInv' /\ ViewShowsItsOwn'
  <1> DEFINE c == calls[i]
             Fits(x) == IF searching THEN late \/ x \in Hits ELSE Shows(view, Home[x])
  <1>1. view' = view /\ searching' = searching /\ late' = late /\ calls' = RemoveAt(calls, i)
    BY DEF TakePage
  <1>2. LateInv'
    BY <1>1, CallLess, LateKept DEF OwnInv, Types, TypeOK
  <1>3. list \in Seq(Msg) /\ c.rows \in Seq(Msg) /\ \A j \in DOMAIN list : Fits(list[j])
    <2>1. calls[i] \in Call /\ list \in Seq(Msg)
      BY DEF OwnInv, Types, TypeOK
    <2>2. QED
      BY <2>1 DEF Call, OwnInv, ViewShowsItsOwn
  <1>4. Accepted(c, view, searching) => \A j \in DOMAIN c.rows : Fits(c.rows[j])
    BY TakenIsOwn DEF TakePage, ListOps
  <1>5. \/ list' = list \/ list' = <<>>
        \/ (list' = c.rows \/ list' = list \o c.rows) /\ Accepted(c, view, searching)
    BY Zenon DEF TakePage
  <1> HIDE DEF c, Fits
  <1>6. \A j \in DOMAIN list' : Fits(list'[j])
    <2>1. CASE list' = list
      BY <1>3, <2>1
    <2>2. CASE list' = <<>>
      BY <2>2
    <2>3. CASE list' = c.rows /\ Accepted(c, view, searching)
      BY <1>4, <2>3
    <2>4. CASE list' = list \o c.rows /\ Accepted(c, view, searching)
      BY <1>3, <1>4, <2>4
    <2>5. QED
      BY <1>5, <2>1, <2>2, <2>3, <2>4
  <1>7. ViewShowsItsOwn'
    BY <1>1, <1>6 DEF ViewShowsItsOwn, Fits
  <1>8. QED
    BY <1>2, <1>7

LEMMA TakeRefreshOwn ==
  ASSUME OwnInv, NEW i \in DOMAIN calls, TakeRefresh(i) PROVE LateInv' /\ ViewShowsItsOwn'
  <1>1. /\ view' = view /\ searching' = searching /\ late' = late
        /\ list' = list \/ (list' = calls[i].rows /\ Accepted(calls[i], view, searching))
    BY DEF TakeRefresh
  <1>2. calls \in Seq(Call) /\ CallsInv
    BY DEF OwnInv, Types, TypeOK
  <1>3. \A j \in DOMAIN calls' : \/ \E k \in DOMAIN calls : calls'[j] = calls[k]
                                 \/ calls'[j].op \notin ListOps
    <2>1. CASE calls' = RemoveAt(calls, i)
      BY <1>2, <2>1, CallLess
    <2>2. CASE calls' = Append(RemoveAt(calls, i), MsgCall("reselect", calls[i].msg))
               /\ calls[i].msg \in Msg
      <3>1. MsgCall("reselect", calls[i].msg).op \notin ListOps
        BY DEF MsgCall, ListOps, PageOps, RefreshOps
      <3>2. QED
        BY <1>2, <2>2, <3>1, MsgCallOK, CallMoved, ZenonT(60)
    <2>3. QED
      BY <2>1, <2>2, RefreshCalls DEF OwnInv
  <1>4. LateInv'
    BY <1>1, <1>3, LateKept DEF OwnInv
  <1>5. Accepted(calls[i], view, searching) =>
          \A j \in DOMAIN calls[i].rows :
             IF searching THEN late \/ calls[i].rows[j] \in Hits
             ELSE Shows(view, Home[calls[i].rows[j]])
    BY TakenIsOwn DEF TakeRefresh, ListOps
  <1>6. ViewShowsItsOwn'
    BY <1>1, <1>5 DEF OwnInv, ViewShowsItsOwn
  <1>7. QED
    BY <1>4, <1>6

LEMMA WindowOwn == ASSUME OwnInv, Window PROVE LateInv' /\ ViewShowsItsOwn'
  <1>1. calls \in Seq(Call) /\ CallsInv /\ events \in Seq(Event) /\ EventsInv /\ list \in Seq(Msg)
        /\ LateInv /\ ViewShowsItsOwn
    BY DEF OwnInv, Types, TypeOK
  <1>2. ASSUME NEW i \in DOMAIN calls, TakePage(i) \/ TakeRefresh(i)
        PROVE  LateInv' /\ ViewShowsItsOwn'
    BY <1>2, TakePageOwn, TakeRefreshOwn
  <1>3. ASSUME NEW i \in DOMAIN calls, Reselect(i) \/ TakeBody(i)
        PROVE  LateInv' /\ ViewShowsItsOwn'
    <2>1. /\ list' = list /\ view' = view /\ searching' = searching /\ late' = late
          /\ calls' = RemoveAt(calls, i)
      BY <1>3 DEF Reselect, TakeBody
    <2>2. LateInv'
      BY <1>1, <2>1, CallLess, LateKept
    <2>3. QED
      BY <1>1, <2>1, <2>2 DEF ViewShowsItsOwn
  <1>4. ASSUME NEW i \in DOMAIN calls, TakeRemove(i)
        PROVE  LateInv' /\ ViewShowsItsOwn'
    <2>1. list' = list /\ view' = view /\ searching' = searching
      BY <1>4 DEF TakeRemove
    <2>2. CASE calls[i].ok
      <3>1. late' = late /\ calls' = RemoveAt(calls, i)
        BY <1>4, <2>2 DEF TakeRemove
      <3>2. LateInv'
        BY <1>1, <2>1, <3>1, CallLess, LateKept
      <3>3. QED
        BY <1>1, <2>1, <3>1, <3>2 DEF ViewShowsItsOwn
    <2>3. CASE ~calls[i].ok
      <3>1. searching => late'
        BY <1>4, <2>3 DEF TakeRemove
      <3>2. LateInv'
        BY <2>1, <3>1 DEF LateInv
      <3>3. ViewShowsItsOwn'
        BY <1>1, <2>1, <3>1 DEF ViewShowsItsOwn
      <3>4. QED
        BY <3>2, <3>3
    <2>4. QED
      BY <2>2, <2>3
  <1>5. CASE OnNewMessages
    <2>1. /\ view' = view /\ searching' = searching /\ late' = late /\ calls' = calls
      BY <1>5 DEF OnNewMessages
    <2>2. LateInv'
      BY <1>1, <2>1 DEF LateInv, Asked
    <2>3. events[1].msg \in Msg /\ Head(events).folder = Home[Head(events).msg]
          /\ Head(events).msg \in Msg
      <3>1. Head(events) = events[1] /\ 1 \in DOMAIN events
        BY <1>1, <1>5, EventLess DEF OnNewMessages
      <3>2. QED
        BY <1>1, <1>5, <3>1 DEF EventsInv, OnNewMessages
    <2> DEFINE m == Head(events).msg
    <2>4. list' = list \/ (list' = <<m>> \o list /\ ~searching /\ Shows(view, Home[m]))
      BY <1>5, <2>3 DEF OnNewMessages, Prepend
    <2>5. m \in Msg
      BY <2>3
    <2> HIDE DEF m
    <2>6. CASE list' = list
      BY <1>1, <2>1, <2>2, <2>6 DEF ViewShowsItsOwn
    <2>7. CASE list' = <<m>> \o list /\ ~searching /\ Shows(view, Home[m])
      <3>1. \A j \in DOMAIN list' : list'[j] = m \/ \E k \in DOMAIN list : list'[j] = list[k]
        BY <1>1, <2>5, <2>7
      <3>2. QED
        BY <1>1, <2>1, <2>2, <2>7, <3>1 DEF ViewShowsItsOwn
    <2>8. QED
      BY <2>4, <2>6, <2>7
  <1>6. CASE OnMessagesUpdated
    <2>1. list' = list /\ view' = view /\ searching' = searching /\ late' = late
      BY <1>6 DEF OnMessagesUpdated
    <2>2. searching => calls' = calls
      BY <1>6 DEF OnMessagesUpdated, RefreshIfShown
    <2>3. LateInv'
      BY <1>1, <2>1, <2>2 DEF LateInv, Asked
    <2>4. QED
      BY <1>1, <2>1, <2>3 DEF ViewShowsItsOwn
  <1>7. CASE MissEvent
    BY <1>1, <1>7 DEF MissEvent, LateInv, Asked, ViewShowsItsOwn
  <1>8. QED
    BY <1>2, <1>3, <1>4, <1>5, <1>6, <1>7 DEF Window

LEMMA OwnStep == OwnInv /\ [Next]_vars => OwnInv'
  <1> SUFFICES ASSUME OwnInv, [Next]_vars PROVE OwnInv'
    OBVIOUS
  <1>1. Types'
    BY TypesStep DEF OwnInv
  <1>2. CASE User
    BY <1>1, <1>2, NavigationOwn, UserOwn DEF User, OwnInv
  <1>3. CASE Backend
    BY <1>1, <1>3, BackendOwn DEF OwnInv
  <1>4. CASE Window
    BY <1>1, <1>4, WindowOwn DEF OwnInv
  <1>5. CASE UNCHANGED vars
    BY <1>1, <1>5 DEF OwnInv, LateInv, Asked, ViewShowsItsOwn
  <1>6. QED
    BY <1>2, <1>3, <1>4, <1>5 DEF Next

\* The list holds only what its view shows, whatever answers come late and in
\* whatever order, except that the answer for a folder that is under way when a
\* search begins may replace the results.
THEOREM OwnMessages == Spec => []ViewShowsItsOwn
  <1>1. Init => OwnInv
    BY TypesInit, ViewShowsItsOwnInit DEF OwnInv
  <1>2. OwnInv => ViewShowsItsOwn
    BY DEF OwnInv
  <1>3. QED
    BY <1>1, <1>2, OwnStep, PTL DEF Spec

-----------------------------------------------------------------------------
(* When all is answered the list is the view *)

\* A first page is the top of a sequence, and all of it if it is not full.
LEMMA FirstPage ==
  ASSUME NEW T, NEW s \in Seq(T), NEW limit \in Nat, NEW p, p = Page(s, 0, limit)
  PROVE  /\ p \in Seq(T) /\ Len(p) <= Len(s) /\ p = SubSeq(s, 1, Len(p))
         /\ Len(p) < Len(s) => Len(p) = limit
  <1> DEFINE to == IF limit < Len(s) THEN limit ELSE Len(s)
  <1>1. Len(s) \in Nat /\ to \in Nat /\ to <= Len(s) /\ (to < Len(s) => to = limit)
    OBVIOUS
  <1>2. p = SubSeq(s, 1, to)
    BY DEF Page
  <1> HIDE DEF to
  <1>3. \A i \in 1..to : i \in 1..Len(s) /\ s[i] \in T
    BY <1>1
  <1>4. p \in Seq(T) /\ Len(p) = IF 1 <= to THEN to - 1 + 1 ELSE 0
    <2>1. 1 \in Int /\ to \in Int /\ \A i \in 1..to : s[i] \in T
      BY <1>1, <1>3
    <2>2. SubSeq(s, 1, to) \in Seq(T)
          /\ Len(SubSeq(s, 1, to)) = IF 1 <= to THEN to - 1 + 1 ELSE 0
      BY <2>1, SubSeqProperties
    <2>3. QED
      BY <1>2, <2>2
  <1>5. Len(p) = to
    BY <1>1, <1>4
  <1>6. QED
    BY <1>1, <1>2, <1>4, <1>5

\* The page after the top of a sequence continues it.
LEMMA NextPage ==
  ASSUME NEW T, NEW s \in Seq(T), NEW limit \in Nat, NEW n \in 0..Len(s)
  PROVE  \E to \in n..Len(s) :
           /\ Len(Page(s, n, limit)) = to - n
           /\ SubSeq(s, 1, n) \o Page(s, n, limit) = SubSeq(s, 1, to)
           /\ Len(SubSeq(s, 1, to)) = to
           /\ to < Len(s) => to - n = limit
  <1> DEFINE to == IF n + limit < Len(s) THEN n + limit ELSE Len(s)
             p  == Page(s, n, limit)
  <1>1. /\ Len(s) \in Nat /\ n \in Nat /\ to \in Nat /\ n <= to /\ to <= Len(s)
        /\ (to < Len(s) => to - n = limit)
    OBVIOUS
  <1>2. p = SubSeq(s, n + 1, to)
    BY DEF Page
  <1> HIDE DEF to, p
  <1>3. \A i \in 1..to : i \in 1..Len(s) /\ s[i] \in T
    BY <1>1
  <1>4. Len(SubSeq(s, n + 1, to)) = IF n + 1 <= to THEN to - (n + 1) + 1 ELSE 0
    <2>1. \A i \in (n + 1)..to : s[i] \in T
      BY <1>1, <1>3
    <2>2. QED
      BY <1>1, <2>1, SubSeqProperties
  <1>5. Len(p) = to - n
    <2>1. (n + 1 <= to /\ to - (n + 1) + 1 = to - n) \/ (~(n + 1 <= to) /\ to - n = 0)
      BY <1>1
    <2>2. QED
      BY <1>2, <1>4, <2>1
  <1>6. SubSeq(s, 1, n) \o p = SubSeq(s, 1, to)
    <2>1. 1 \in 1..Len(s) + 1 /\ n \in 1 - 1..Len(s) /\ to \in n..Len(s)
      BY <1>1
    <2>2. QED
      BY <1>2, <2>1, ConcatAdjacentSubSeq
  <1>7. Len(SubSeq(s, 1, to)) = to
    <2>1. Len(SubSeq(s, 1, to)) = IF 1 <= to THEN to - 1 + 1 ELSE 0
      BY <1>1, <1>3, SubSeqProperties
    <2>2. QED
      BY <1>1, <2>1
  <1>8. QED
    BY <1>1, <1>5, <1>6, <1>7 DEF p

\* What the view may still take is what it was.
AskedKept ==
  /\ (\A i, j \in Asked : i = j) => (\A i, j \in Asked' : i = j)
  /\ \A j \in Asked' : \E k \in Asked : calls'[j] = calls[k]
  /\ \A k \in Asked : \E j \in Asked' : calls'[j] = calls[k]

\* A step that leaves what is asked for and the list, and changes no rows that are not
\* to be read again.
LEMMA SettleKept ==
  ASSUME SettleInv, AskedKept, view' = view, searching' = searching, blur' = blur,
         list' = list, hasMore' = hasMore, Behind => Behind',
         Behind' \/ Rows(view)' = Rows(view)
  PROVE  SettleInv'
  <1> SUFFICES ASSUME ~searching', ~blur'
      PROVE  /\ (\A i, j \in Asked : i = j)'
             /\ ~Behind' => AnswersHold' /\ MoreHolds' /\ ListHolds'
    BY DEF SettleInv
  <1>1. /\ \A i, j \in Asked : i = j
        /\ ~Behind => AnswersHold /\ MoreHolds /\ ListHolds
    BY DEF SettleInv
  <1>2. (\A i, j \in Asked : i = j)'
    BY <1>1 DEF AskedKept
  <1>3. ASSUME ~Behind'
        PROVE  AnswersHold' /\ MoreHolds' /\ ListHolds'
    <2>1. AnswersHold /\ MoreHolds /\ ListHolds /\ Rows(view)' = Rows(view)
      BY <1>1, <1>3
    <2>2. AnswersHold'
      <3> SUFFICES ASSUME NEW j \in Asked', calls'[j].done /\ calls'[j].ok
          PROVE  calls'[j].rows = Page(Rows(view)', calls'[j].from, calls'[j].limit)
        BY DEF AnswersHold, Page
      <3>1. PICK k \in Asked : calls'[j] = calls[k]
        BY DEF AskedKept
      <3>2. QED
        BY <2>1, <3>1 DEF AnswersHold
    <2>3. MoreHolds'
      BY <2>1 DEF MoreHolds, AskedKept
    <2>4. ListHolds'
      <3> SUFFICES ASSUME \A j \in Asked' : calls'[j].op = "more" PROVE AtTheTop'
        BY DEF ListHolds
      <3>1. \A k \in Asked : calls[k].op = "more"
        BY DEF AskedKept
      <3>2. AtTheTop
        BY <2>1, <3>1 DEF ListHolds
      <3>3. QED
        BY <2>1, <3>2 DEF AtTheTop
    <2>5. QED
      BY <2>2, <2>3, <2>4
  <1>4. QED
    BY <1>2, <1>3

\* One answer is asked for where none was, and it takes the list's place.
LEMMA AskedAnew ==
  ASSUME NEW n, Asked' \subseteq {n}, calls'[n].op # "more", calls'[n].op \in ListOps,
         n \in Asked', ~calls'[n].done
  PROVE  SettleInv'
  BY DEF SettleInv, AnswersHold, MoreHolds, ListHolds

\* The calls asked for after a call is made, taken or moved.
LEMMA AskedMore ==
  ASSUME calls \in Seq(Call), NEW c \in Call, calls' = Append(calls, c)
  PROVE  /\ view' = view /\ c.op \notin ListOps => AskedKept
         /\ ~Overlap(view', FALSE) => Asked' \subseteq {Len(calls) + 1}
         /\ c.op \in ListOps /\ Accepted(c, view', FALSE) => Len(calls) + 1 \in Asked'
  <1>1. /\ DOMAIN calls' = DOMAIN calls \union {Len(calls) + 1} /\ Len(calls) + 1 \notin DOMAIN calls
        /\ calls'[Len(calls) + 1] = c
        /\ \A j \in DOMAIN calls : calls'[j] = calls[j]
    BY CallMore
  <1>2. ASSUME view' = view, c.op \notin ListOps PROVE AskedKept
    <2>1. Asked' = Asked
      BY <1>1, <1>2 DEF Asked
    <2>2. \A k \in Asked : calls'[k] = calls[k]
      BY <1>1 DEF Asked
    <2>3. QED
      BY <2>1, <2>2 DEF AskedKept
  <1>3. ~Overlap(view', FALSE) => Asked' \subseteq {Len(calls) + 1}
    BY <1>1 DEF Overlap, Asked
  <1>4. c.op \in ListOps /\ Accepted(c, view', FALSE) => Len(calls) + 1 \in Asked'
    BY <1>1 DEF Asked
  <1>5. QED
    BY <1>2, <1>3, <1>4

\* A call that is taken was the only one asked for, or leaves those that are.
LEMMA AskedLess ==
  ASSUME calls \in Seq(Call), NEW i \in DOMAIN calls, calls' = RemoveAt(calls, i), view' = view
  PROVE  /\ i \notin Asked => AskedKept
         /\ (\A j, k \in Asked : j = k) => (\A j, k \in Asked' : j = k)
         /\ (\A j, k \in Asked : j = k) /\ i \in Asked => Asked' = {}
  <1> DEFINE Was(j) == IF j < i THEN j ELSE j + 1
             Is(k)  == IF k < i THEN k ELSE k - 1
  <1>1. /\ \A j \in DOMAIN calls' : Was(j) \in DOMAIN calls \ {i} /\ calls'[j] = calls[Was(j)]
        /\ \A k \in DOMAIN calls \ {i} : Is(k) \in DOMAIN calls' /\ calls'[Is(k)] = calls[k]
        /\ calls' \in Seq(Call)
    BY CallLess
  <1>2. \A j, k \in DOMAIN calls' : Was(j) = Was(k) => j = k
    BY <1>1
  <1> HIDE DEF Was, Is
  <1>3. \A j \in Asked' : Was(j) \in Asked /\ Was(j) # i /\ calls'[j] = calls[Was(j)]
    BY <1>1 DEF Asked
  <1>4. \A k \in Asked : k # i => Is(k) \in Asked' /\ calls'[Is(k)] = calls[k]
    BY <1>1 DEF Asked
  <1>5. \A j, k \in Asked' : Was(j) = Was(k) => j = k
    BY <1>2 DEF Asked
  <1>6. (\A j, k \in Asked : j = k) => (\A j, k \in Asked' : j = k)
    BY <1>3, <1>5
  <1>7. i \notin Asked => AskedKept
    BY <1>3, <1>4, <1>6 DEF AskedKept
  <1>8. (\A j, k \in Asked : j = k) /\ i \in Asked => Asked' = {}
    BY <1>3
  <1>9. QED
    BY <1>6, <1>7, <1>8

\* The same when another call follows it at once.
LEMMA AskedMoved ==
  ASSUME calls \in Seq(Call), CallsInv, NEW i \in DOMAIN calls, NEW c \in Call, CallOK(c),
         calls' = Append(RemoveAt(calls, i), c), view' = view
  PROVE  /\ c.op \notin ListOps /\ i \notin Asked => AskedKept
         /\ c.op \notin ListOps /\ (\A j, k \in Asked : j = k) =>
              /\ \A j, k \in Asked' : j = k
              /\ i \in Asked => Asked' = {}
         /\ Asked = {} => Asked' \subseteq {Len(calls)}
         /\ c.op \in ListOps /\ Accepted(c, view, FALSE) => Len(calls) \in Asked'
         /\ calls'[Len(calls)] = c
  <1> DEFINE Was(j) == IF j < i THEN j ELSE j + 1
             Is(k)  == IF k < i THEN k ELSE k - 1
             n      == Len(calls)
  <1>1. /\ \A j \in DOMAIN calls' :
             (Was(j) \in DOMAIN calls \ {i} /\ calls'[j] = calls[Was(j)]) \/ (j = n /\ calls'[j] = c)
        /\ \A k \in DOMAIN calls \ {i} : Is(k) \in DOMAIN calls' /\ calls'[Is(k)] = calls[k]
        /\ calls' \in Seq(Call) /\ n \in DOMAIN calls' /\ calls'[n] = c
    BY CallMoved
  <1>2. \A j, k \in DOMAIN calls' : Was(j) = Was(k) => j = k
    BY <1>1
  <1> HIDE DEF Was, Is, n
  <1>3. ASSUME c.op \notin ListOps
        PROVE  \A j \in Asked' : Was(j) \in Asked /\ Was(j) # i /\ calls'[j] = calls[Was(j)]
    BY <1>1, <1>3 DEF Asked
  <1>4. \A k \in Asked : k # i => Is(k) \in Asked' /\ calls'[Is(k)] = calls[k]
    BY <1>1 DEF Asked
  <1>5. \A j, k \in Asked' : Was(j) = Was(k) => j = k
    BY <1>2 DEF Asked
  <1>6. c.op \notin ListOps /\ (\A j, k \in Asked : j = k) => (\A j, k \in Asked' : j = k)
    BY <1>3, <1>5
  <1>7. c.op \notin ListOps /\ i \notin Asked => AskedKept
    BY <1>3, <1>4, <1>6 DEF AskedKept
  <1>8. c.op \notin ListOps /\ (\A j, k \in Asked : j = k) /\ i \in Asked => Asked' = {}
    BY <1>3
  <1>9. Asked = {} => Asked' \subseteq {n}
    BY <1>1 DEF Asked
  <1>10. c.op \in ListOps /\ Accepted(c, view, FALSE) => n \in Asked'
    BY <1>1 DEF Asked
  <1>11. QED
    BY <1>1, <1>6, <1>7, <1>8, <1>9, <1>10 DEF n

\* What remains to come, remains.
LEMMA BehindKept ==
  ASSUME view' = view,
         \A k \in DOMAIN events : events[k].event = "updated" =>
           \E j \in DOMAIN events' : events'[j] = events[k],
         \A m \in arriving : Shows(view, Home[m]) => EventDue' \/ m \in arriving',
         \A k \in DOMAIN calls : Leaving(calls[k], view) =>
           EventDue' \/ \E j \in DOMAIN calls' : calls'[j] = calls[k]
  PROVE  Behind => Behind'
  <1>1. (EventDue => EventDue') /\ (MailDue => EventDue' \/ MailDue')
    BY DEF EventDue, MailDue
  <1>2. QED
    BY <1>1 DEF Behind

\* A view shows what it did if no message it shows has come or gone.
LEMMA SameRows ==
  ASSUME view' = view, NEW m, rows' \in {rows, rows \union {m}, rows \ {m}},
         ~Shows(view, Home[m])
  PROVE  Rows(view)' = Rows(view)
  <1>1. {n \in rows' : Shows(view, Home[n])} = {n \in rows : Shows(view, Home[n])}
    OBVIOUS
  <1>2. QED
    BY <1>1 DEF Rows

LEMMA SettleInit == Init => SettleInv
  <1> SUFFICES ASSUME Init PROVE SettleInv
    OBVIOUS
  <1> DEFINE c == ListCall("page", Unified, FALSE, 0, PageLimit, NoMsg)
  <1>1. c.op = "page" /\ ~c.done /\ c.op \in ListOps
    BY DEF ListCall, ListOps, PageOps
  <1>2. Accepted(c, Unified, FALSE)
    BY DEF Accepted, ListCall
  <1>3. calls = <<c>> /\ view = Unified
    BY DEF Init
  <1> HIDE DEF c
  <1>4. DOMAIN calls = {1} /\ calls[1] = c
    BY <1>3
  <1>5. Asked = {1}
    BY <1>1, <1>2, <1>3, <1>4 DEF Asked
  <1>6. QED
    BY <1>1, <1>4, <1>5 DEF SettleInv, AnswersHold, MoreHolds, ListHolds

\* A view is entered with one answer asked for, or the doubt is remembered.
LEMMA NavigationSettles ==
  ASSUME OwnInv, SelectUnified \/ RunSearch \/ ClearSearch \/ (\E f \in Folder : SelectFolder(f))
  PROVE  SettleInv'
  <1>1. CASE RunSearch
    BY <1>1 DEF RunSearch, Enter, SettleInv
  <1>2. ASSUME NEW v \in View, Enter(v, FALSE)
        PROVE  SettleInv'
    <2> DEFINE c == ListCall("page", v, FALSE, 0, PageLimit, NoMsg)
    <2>1. c \in Call /\ CallOK(c)
      <3>1. "page" \in ListOps /\ "page" \notin RefreshOps /\ PageLimit \in Nat
        BY Constants DEF ListOps, PageOps, RefreshOps
      <3>2. QED
        BY <3>1, ListCallOK
    <2>2. calls' = Append(calls, c) /\ view' = v /\ calls \in Seq(Call)
      BY <1>2 DEF Enter, OwnInv, Types, TypeOK
    <2>3. blur' = Overlap(v, FALSE)
      BY <1>2, Zenon DEF Enter
    <2>4. c.op = "page" /\ ~c.done /\ c.op \in ListOps /\ Accepted(c, v, FALSE)
      BY DEF ListCall, ListOps, PageOps, Accepted
    <2> HIDE DEF c
    <2>5. CASE blur'
      BY <2>5 DEF SettleInv
    <2>6. CASE ~blur'
      <3>1. ~Overlap(view', FALSE)
        BY <2>2, <2>3, <2>6
      <3>2. Asked' \subseteq {Len(calls) + 1} /\ Len(calls) + 1 \in Asked'
        BY <2>1, <2>2, <2>4, <3>1, AskedMore
      <3>3. calls'[Len(calls) + 1] = c
        BY <2>1, <2>2, CallMore
      <3>4. QED
        BY <2>4, <3>2, <3>3, AskedAnew
    <2>7. QED
      BY <2>5, <2>6
  <1>3. CASE ~RunSearch
    <2>1. \E v \in View : Enter(v, FALSE)
      BY <1>3 DEF SelectUnified, SelectFolder, ClearSearch, View, OwnInv, Types, TypeOK
    <2>2. QED
      BY <1>2, <2>1
  <1>4. QED
    BY <1>1, <1>3

LEMMA LoadMoreSettles == IInv /\ LoadMore => SettleInv'
  <1> SUFFICES ASSUME IInv, LoadMore, ~searching, ~blur'
      PROVE  /\ (\A i, j \in Asked : i = j)'
             /\ ~Behind' => AnswersHold' /\ MoreHolds' /\ ListHolds'
    BY DEF SettleInv, LoadMore
  <1> DEFINE n == offset + PageLimit
             c == ListCall("more", view, searching, n, PageLimit, NoMsg)
  <1>1. calls \in Seq(Call) /\ offset \in Nat /\ n \in Nat /\ PageLimit \in Nat
        /\ view \in View /\ searching \in BOOLEAN
    BY Constants DEF IInv, OwnInv, Types, TypeOK
  <1>2. c \in Call /\ CallOK(c)
    <2>1. "more" \in ListOps /\ "more" \notin RefreshOps
      BY DEF ListOps, PageOps, RefreshOps
    <2>2. QED
      BY <1>1, <2>1, ListCallOK
  <1>3. /\ offset' = n /\ calls' = Append(calls, c)
        /\ view' = view /\ list' = list /\ hasMore' = hasMore
        /\ rows' = rows /\ events' = events /\ arriving' = arriving
    BY DEF LoadMore
  <1>4. ~blur /\ ~Overlap(view, FALSE) /\ n = Len(list)
    <2>1. blur' = (blur \/ Overlap(view, searching) \/ offset' # Len(list))
      BY Zenon DEF LoadMore
    <2>2. searching = FALSE
      BY <1>1
    <2>3. QED
      BY <1>3, <2>1, <2>2, Zenon
  <1>5. c.op = "more" /\ ~c.done /\ c.from = n /\ c.op \in ListOps
    BY DEF ListCall, ListOps, PageOps
  <1> HIDE DEF c, n
  <1>6. Asked = {} /\ Asked' \subseteq {Len(calls) + 1} /\ calls'[Len(calls) + 1] = c
    BY <1>2, <1>3, <1>4, AskedMore, CallMore, NoneAsked, <1>1
  <1>7. ASSUME ~Behind'
        PROVE  AnswersHold' /\ MoreHolds' /\ ListHolds'
    <2>1. \A k \in DOMAIN calls : k \in DOMAIN calls' /\ calls'[k] = calls[k]
      BY <1>1, <1>2, <1>3, CallMore
    <2>2. Behind => Behind'
      BY <1>3, <2>1, BehindKept
    <2>3. AtTheTop
      BY <1>4, <1>6, <1>7, <2>2 DEF IInv, SettleInv, ListHolds
    <2>4. AtTheTop'
      BY <1>3, <2>3 DEF AtTheTop, Rows
    <2>5. QED
      BY <1>3, <1>4, <1>5, <1>6, <2>4 DEF AnswersHold, MoreHolds, ListHolds
  <1>8. QED
    BY <1>6, <1>7

\* A message taken from the list is one the view shows: its removal ends in an
\* event or fails.
LEMMA RemoveMessageSettles == ASSUME IInv, NEW m \in Msg, RemoveMessage(m) PROVE SettleInv'
  <1> SUFFICES ASSUME ~searching, ~blur
      PROVE  (\A i, j \in Asked : i = j)' /\ Behind'
    BY DEF SettleInv, RemoveMessage
  <1>1. /\ \A j \in DOMAIN calls : j \in DOMAIN calls' /\ calls'[j] = calls[j]
        /\ \A j \in DOMAIN calls' : j \notin DOMAIN calls => calls'[j].op \in {"body", "remove"}
        /\ \E j \in DOMAIN calls' : calls'[j] = MsgCall("remove", m)
    BY RemovalCalls DEF IInv, OwnInv
  <1>2. view' = view /\ Contains(list, m) /\ list \in Seq(Msg)
    BY DEF RemoveMessage, IInv, OwnInv, Types, TypeOK
  <1>3. \A i, j \in Asked : i = j
    BY DEF IInv, SettleInv
  <1>4. Asked' \subseteq Asked
    BY <1>1, <1>2 DEF Asked, ListOps, PageOps, RefreshOps
  <1>5. Shows(view, Home[m])
    BY <1>2 DEF Contains, IInv, OwnInv, ViewShowsItsOwn
  <1>6. Leaving(MsgCall("remove", m), view')
    BY <1>2, <1>5 DEF Leaving, MsgCall
  <1>7. Behind'
    BY <1>1, <1>6 DEF Behind
  <1>8. QED
    BY <1>3, <1>4, <1>7

\* Selecting and marking touch neither the list nor what is asked for it.
LEMMA UserSettles ==
  ASSUME IInv, \E m \in Msg : SelectMessage(m) \/ Mark(m)
  PROVE  SettleInv'
  <1>1. calls \in Seq(Call) /\ events \in Seq(Event) /\ EventsInv /\ SettleInv
    BY DEF IInv, OwnInv, Types, TypeOK
  <1>2. ASSUME NEW m \in Msg, SelectMessage(m)
        PROVE  SettleInv'
    <2>1. /\ calls' = Append(calls, MsgCall("body", m)) /\ rows' = rows /\ events' = events /\ arriving' = arriving
          /\ list' = list /\ hasMore' = hasMore /\ view' = view /\ searching' = searching
          /\ blur' = blur
      BY <1>2 DEF SelectMessage
    <2>2. MsgCall("body", m) \in Call /\ MsgCall("body", m).op \notin ListOps
      BY MsgCallOK DEF MsgCall, ListOps, PageOps, RefreshOps
    <2>3. AskedKept
      BY <1>1, <2>1, <2>2, AskedMore
    <2>4. \A k \in DOMAIN calls : k \in DOMAIN calls' /\ calls'[k] = calls[k]
      BY <1>1, <2>1, <2>2, CallMore
    <2>5. Behind => Behind'
      BY <2>1, <2>4, BehindKept
    <2>6. QED
      BY <1>1, <2>1, <2>3, <2>5, SettleKept DEF Rows
  <1>3. ASSUME NEW m \in Msg, Mark(m)
        PROVE  SettleInv'
    <2>1. /\ calls' = calls /\ rows' = rows /\ arriving' = arriving
          /\ list' = list /\ hasMore' = hasMore /\ view' = view /\ searching' = searching
          /\ blur' = blur
      BY <1>3 DEF Mark
    <2>2. \A k \in DOMAIN events : k \in DOMAIN events' /\ events'[k] = events[k]
      BY <1>1, <1>3, EventMore, Constants DEF Mark
    <2>3. AskedKept
      BY <2>1 DEF AskedKept, Asked
    <2>4. Behind => Behind'
      BY <2>1, <2>2, BehindKept
    <2>5. QED
      BY <1>1, <2>1, <2>3, <2>4, SettleKept DEF Rows
  <1>4. QED
    BY <1>2, <1>3

\* Mail that has come is to be told of.
LEMMA ArriveSettles == ASSUME IInv, NEW m \in Msg, Arrive(m) PROVE SettleInv'
  <1>1. /\ rows' = rows \union {m} /\ arriving' = arriving \union {m}
        /\ calls' = calls /\ events' = events
        /\ list' = list /\ hasMore' = hasMore /\ view' = view /\ searching' = searching
        /\ blur' = blur
    BY DEF Arrive
  <1>2. AskedKept
    BY <1>1 DEF AskedKept, Asked
  <1>3. Behind => Behind'
    BY <1>1, BehindKept
  <1>4. Behind' \/ Rows(view)' = Rows(view)
    <2>1. CASE Shows(view, Home[m])
      BY <1>1, <2>1 DEF Behind, MailDue
    <2>2. CASE ~Shows(view, Home[m])
      BY <1>1, <2>2, SameRows
    <2>3. QED
      BY <2>1, <2>2
  <1>5. QED
    BY <1>1, <1>2, <1>3, <1>4, SettleKept DEF IInv

\* What the window does not hear of leaves the list in doubt, unless the view is of
\* other folders or is being asked for from its start.
LEMMA UnheardSettles ==
  ASSUME SettleInv, NEW f, blur \in BOOLEAN, blur' = (blur \/ Unnoticed(f)),
         rows' = rows, calls' = calls, list' = list, hasMore' = hasMore, view' = view,
         searching' = searching, ~Shows(view, f) => (Behind => Behind')
  PROVE  SettleInv'
  <1> SUFFICES ASSUME ~searching, ~blur' PROVE SettleInv'
    BY DEF SettleInv
  <1>1. ~blur /\ ~Unnoticed(f)
    BY Zenon
  <1>2. CASE ~Shows(view, f)
    <2>1. AskedKept
      BY DEF AskedKept, Asked
    <2>2. blur' = blur
      BY <1>1
    <2>3. QED
      BY <1>2, <2>1, <2>2, SettleKept DEF Rows
  <1>3. CASE AskedAgain
    <2>1. PICK i \in DOMAIN calls : /\ calls[i].op \in ListOps \ {"more"} /\ ~calls[i].done
                                   /\ Accepted(calls[i], view, FALSE)
      BY <1>3 DEF AskedAgain
    <2>2. i \in Asked /\ Asked' = Asked
      BY <2>1 DEF Asked
    <2>3. \A j, k \in Asked : j = k
      BY <1>1 DEF SettleInv
    <2>4. Asked' \subseteq {i}
      BY <2>2, <2>3
    <2>5. QED
      BY <2>1, <2>2, <2>4, AskedAnew
  <1>4. QED
    BY <1>1, <1>2, <1>3 DEF Unnoticed

\* The events of mail are sent, or the pass that stored it fails.
LEMMA AnnounceSettles == ASSUME IInv, NEW m \in Msg, Announce(m) PROVE SettleInv'
  <1>1. /\ rows' = rows /\ calls' = calls /\ arriving' = arriving \ {m}
        /\ list' = list /\ hasMore' = hasMore /\ view' = view /\ searching' = searching
    BY DEF Announce
  <1>2. SettleInv /\ blur \in BOOLEAN
    BY DEF IInv, OwnInv, Types, TypeOK
  <1>3. CASE events' = events \o <<New(m), Updated(Home[m])>> /\ blur' = blur
    <2>1. /\ \A k \in DOMAIN events : k \in DOMAIN events' /\ events'[k] = events[k]
          /\ \E k \in DOMAIN events' : events'[k] = Updated(Home[m])
      BY <1>3, EventsOfMail DEF IInv, OwnInv, Types, TypeOK
    <2>2. Shows(view, Home[m]) => EventDue'
      BY <1>1, <2>1 DEF EventDue, Updated
    <2>3. Behind => Behind'
      BY <1>1, <2>1, <2>2, BehindKept
    <2>4. AskedKept
      BY <1>1 DEF AskedKept, Asked
    <2>5. QED
      BY <1>1, <1>2, <1>3, <2>3, <2>4, SettleKept DEF Rows
  <1>4. CASE events' = events /\ blur' = (blur \/ Unnoticed(Home[m]))
    <2>1. ASSUME ~Shows(view, Home[m])
          PROVE  Behind => Behind'
      BY <1>1, <1>4, <2>1, BehindKept
    <2>2. QED
      BY <1>1, <1>2, <1>4, <2>1, UnheardSettles
  <1>5. QED
    BY <1>3, <1>4 DEF Announce

\* An answer is read from the rows as they are.
LEMMA ServeListSettles == ASSUME IInv, NEW i \in DOMAIN calls, ServeList(i) PROVE SettleInv'
  <1> SUFFICES ASSUME ~searching, ~blur
      PROVE  /\ (\A j, k \in Asked : j = k)'
             /\ ~Behind' => AnswersHold' /\ MoreHolds' /\ ListHolds'
    BY DEF SettleInv, ServeList
  <1>1. calls \in Seq(Call) /\ CallOK(calls[i]) /\ calls[i] \in Call /\ calls[i].op \in ListOps
    BY DEF IInv, OwnInv, Types, TypeOK, CallsInv, ServeList
  <1>2. PICK ok \in BOOLEAN :
          calls' = [calls EXCEPT ![i].done = TRUE, ![i].ok = ok,
                                 ![i].rows = IF ok THEN AnswerOf(calls[i]) ELSE <<>>]
    BY Zenon DEF ServeList
  <1> DEFINE r == IF ok THEN AnswerOf(calls[i]) ELSE <<>>
             d == TRUE
  <1>3. r \in Seq(Msg)
    <2>1. CASE ok
      BY <1>1, <2>1, AnswerIsOwn DEF IInv, OwnInv
    <2>2. CASE ~ok
      BY <2>2
    <2>3. QED
      BY <2>1, <2>2
  <1>4. d \in BOOLEAN /\ calls' = [calls EXCEPT ![i].done = d, ![i].ok = ok, ![i].rows = r]
    BY <1>2, Zenon
  <1>5. ok => r = AnswerOf(calls[i])
    OBVIOUS
  <1> HIDE DEF r, d
  <1>6. /\ DOMAIN calls' = DOMAIN calls
        /\ \A j \in DOMAIN calls \ {i} : calls'[j] = calls[j]
        /\ calls'[i] = [calls[i] EXCEPT !.done = d, !.ok = ok, !.rows = r]
    BY <1>1, <1>3, <1>4, CallAnswered
  <1>7. /\ calls'[i].op = calls[i].op /\ calls'[i].view = calls[i].view
        /\ calls'[i].search = calls[i].search /\ calls'[i].from = calls[i].from
        /\ calls'[i].limit = calls[i].limit
        /\ calls'[i].ok = ok /\ calls'[i].rows = r
    BY <1>1, <1>6 DEF Call
  <1>8. /\ rows' = rows /\ events' = events /\ arriving' = arriving
        /\ list' = list /\ hasMore' = hasMore /\ view' = view
    BY DEF ServeList
  <1>9. Asked' = Asked
    BY <1>6, <1>7, <1>8 DEF Asked, Accepted
  <1>10. \A j, k \in Asked : j = k
    BY DEF IInv, SettleInv
  <1>11. ASSUME ~Behind'
         PROVE  AnswersHold' /\ MoreHolds' /\ ListHolds'
    <2>1. "remove" \notin ListOps
      BY DEF ListOps, PageOps, RefreshOps
    <2>2. \A k \in DOMAIN calls : Leaving(calls[k], view) => calls'[k] = calls[k]
      BY <1>1, <1>6, <2>1 DEF Leaving
    <2>3. Behind => Behind'
      BY <1>6, <1>8, <2>2, BehindKept
    <2>4. AnswersHold /\ MoreHolds /\ ListHolds
      BY <1>11, <2>3 DEF IInv, SettleInv
    <2>5. AnswersHold'
      <3> SUFFICES ASSUME NEW j \in Asked, calls'[j].done /\ calls'[j].ok
          PROVE  calls'[j].rows = Page(Rows(view), calls'[j].from, calls'[j].limit)
        BY <1>8, <1>9 DEF AnswersHold, Page, Rows
      <3>1. CASE j = i
        <4>1. ~calls[i].search /\ calls[i].view = view
          BY <1>1, <3>1 DEF Asked, Accepted, CallOK, ListOps
        <4>2. AnswerOf(calls[i]) = Page(Rows(view), calls[i].from, calls[i].limit)
          BY <4>1 DEF AnswerOf
        <4>3. QED
          BY <1>5, <1>7, <3>1, <4>2
      <3>2. CASE j # i
        BY <1>6, <2>4, <3>2 DEF AnswersHold, Asked
      <3>3. QED
        BY <3>1, <3>2
    <2>6. \A j \in Asked : calls'[j].op = calls[j].op /\ calls'[j].from = calls[j].from
      BY <1>6, <1>7 DEF Asked
    <2>7. MoreHolds'
      BY <1>8, <1>9, <2>4, <2>6 DEF MoreHolds
    <2>8. AtTheTop => AtTheTop'
      BY <1>8 DEF AtTheTop, Rows
    <2>9. ListHolds'
      BY <1>9, <2>4, <2>6, <2>8 DEF ListHolds
    <2>10. QED
      BY <2>5, <2>7, <2>9
  <1>12. QED
    BY <1>9, <1>10, <1>11

\* A removal fails, or tells the view it changes.
LEMMA ServeRemoveSettles == ASSUME IInv, NEW i \in DOMAIN calls, ServeRemove(i) PROVE SettleInv'
  <1> DEFINE m == calls[i].msg
  <1>1. /\ calls[i].op = "remove" /\ DOMAIN calls' = DOMAIN calls
        /\ \A j \in DOMAIN calls \ {i} : calls'[j] = calls[j]
        /\ calls'[i].op = "remove" /\ calls'[i].msg = m
        /\ \A k \in DOMAIN events : k \in DOMAIN events' /\ events'[k] = events[k]
        /\ rows' = rows \/ RemoveRow(m)
        /\ ~calls'[i].ok \/ \E k \in DOMAIN events' : events'[k] = Updated(Home[m])
    BY RemovalServed DEF IInv, OwnInv
  <1>2. /\ list' = list /\ hasMore' = hasMore /\ view' = view /\ searching' = searching
        /\ blur' = blur /\ arriving' = arriving
    BY DEF ServeRemove
  <1>3. "remove" \notin ListOps
    BY DEF ListOps, PageOps, RefreshOps
  <1> HIDE DEF m
  <1>4. Asked' = Asked /\ \A j \in Asked : calls'[j] = calls[j]
    BY <1>1, <1>2, <1>3 DEF Asked
  <1>5. AskedKept
    BY <1>4 DEF AskedKept
  <1>6. Shows(view, Home[m]) => Behind'
    <2>1. CASE ~calls'[i].ok
      BY <1>1, <1>2, <2>1 DEF Behind, Leaving
    <2>2. CASE \E k \in DOMAIN events' : events'[k] = Updated(Home[m])
      BY <1>2, <2>2 DEF Behind, EventDue, Updated
    <2>3. QED
      BY <1>1, <2>1, <2>2
  <1>7. Behind => Behind'
    <2>1. CASE Shows(view, Home[m])
      BY <1>6, <2>1
    <2>2. CASE ~Shows(view, Home[m])
      <3>1. \A k \in DOMAIN calls : Leaving(calls[k], view) => calls'[k] = calls[k]
        BY <1>1, <2>2 DEF Leaving, m
      <3>2. QED
        BY <1>1, <1>2, <3>1, BehindKept
    <2>3. QED
      BY <2>1, <2>2
  <1>8. Behind' \/ Rows(view)' = Rows(view)
    <2>1. rows' \in {rows, rows \union {m}, rows \ {m}}
      BY <1>1 DEF RemoveRow
    <2>2. QED
      BY <1>2, <1>6, <2>1, SameRows
  <1>9. QED
    BY <1>2, <1>5, <1>7, <1>8, SettleKept DEF IInv

-----------------------------------------------------------------------------
(* The window takes an answer *)

\* A list call taken leaves what is to come as it is.
LEMMA BehindTaken ==
  ASSUME calls \in Seq(Call), NEW i \in DOMAIN calls, view' = view, events' = events, arriving' = arriving,
         calls[i].op = "remove" => calls[i].done /\ calls[i].ok,
         \A k \in DOMAIN calls \ {i} : \E j \in DOMAIN calls' : calls'[j] = calls[k]
  PROVE  Behind => Behind'
  <1>1. \A k \in DOMAIN calls : Leaving(calls[k], view) => k # i
    BY DEF Leaving
  <1>2. QED
    BY <1>1, BehindKept

\* The answer the list is waiting for takes its place or continues it.
LEMMA AnswerTaken ==
  ASSUME IInv, NEW i \in Asked, calls[i].done, calls[i].ok, ~searching, ~blur,
         Asked' = {}, view' = view, rows' = rows, Behind => Behind',
         list' = IF calls[i].op = "more" THEN list \o calls[i].rows ELSE calls[i].rows,
         hasMore' = (Len(calls[i].rows) = calls[i].limit)
  PROVE  ~Behind' => AtTheTop'
  <1> SUFFICES ASSUME ~Behind' PROVE AtTheTop'
    OBVIOUS
  <1> DEFINE c == calls[i]
             R == Rows(view)
  <1>1. /\ AnswersHold /\ MoreHolds /\ ListHolds /\ \A j, k \in Asked : j = k
    BY DEF IInv, SettleInv
  <1>2. i \in DOMAIN calls /\ calls[i] \in Call
    BY DEF Asked, IInv, OwnInv, Types, TypeOK
  <1>3. CallOK(c) /\ c.limit \in Nat /\ list \in Seq(Msg) /\ rows \subseteq Msg
    BY <1>2 DEF Call, IInv, OwnInv, Types, TypeOK, CallsInv
  <1>4. R \in Seq(Msg)
    <2> DEFINE S == {m \in Msg : Shows(view, Home[m])}
    <2>1. R \in Seq(S) /\ S \subseteq Msg
      BY <1>3, RowsOf
    <2> HIDE DEF S, R
    <2>2. QED
      BY <2>1, SeqMonotonic
  <1>5. c.rows = Page(R, c.from, c.limit) /\ Rows(view)' = R
    BY <1>1 DEF AnswersHold, Rows
  <1>6. CASE c.op = "more"
    <2>1. c.from = Len(list)
      BY <1>1, <1>6 DEF MoreHolds
    <2>2. \A j \in Asked : calls[j].op = "more"
      BY <1>1, <1>6
    <2>3. Len(list) <= Len(R) /\ list = SubSeq(R, 1, Len(list))
      BY <1>1, <2>2 DEF ListHolds, AtTheTop
    <2>4. list' = list \o c.rows
      BY <1>6
    <2>5. hasMore' = (Len(c.rows) = c.limit)
      BY Zenon
    <2>5a. c.rows = Page(R, Len(list), c.limit)
      BY <1>5, <2>1
    <2> HIDE DEF c, R
    <2>6. /\ Len(list \o c.rows) <= Len(R)
          /\ list \o c.rows = SubSeq(R, 1, Len(list \o c.rows))
          /\ Len(list \o c.rows) < Len(R) => Len(c.rows) = c.limit
      <3>1. Len(list) \in 0..Len(R) /\ c.limit \in Nat
        BY <1>3, <1>4, <2>3
      <3>2. PICK to \in Len(list)..Len(R) :
              /\ Len(Page(R, Len(list), c.limit)) = to - Len(list)
              /\ SubSeq(R, 1, Len(list)) \o Page(R, Len(list), c.limit) = SubSeq(R, 1, to)
              /\ Len(SubSeq(R, 1, to)) = to
              /\ to < Len(R) => to - Len(list) = c.limit
        BY <1>4, <3>1, NextPage
      <3>3. list \o c.rows = SubSeq(R, 1, to)
        BY <2>3, <2>5a, <3>2
      <3>4. QED
        BY <2>5a, <3>1, <3>2, <3>3
    <2>7. QED
      BY <1>5, <2>4, <2>5, <2>6 DEF AtTheTop
  <1>7. CASE c.op # "more"
    <2>1. c.from = 0
      BY <1>3, <1>7 DEF CallOK
    <2>2. list' = c.rows
      BY <1>7
    <2>3. hasMore' = (Len(c.rows) = c.limit)
      BY Zenon
    <2> HIDE DEF c, R
    <2>4. /\ Len(c.rows) <= Len(R) /\ c.rows = SubSeq(R, 1, Len(c.rows))
          /\ Len(c.rows) < Len(R) => Len(c.rows) = c.limit
      BY <1>3, <1>4, <1>5, <2>1, FirstPage
    <2>5. QED
      BY <1>5, <2>2, <2>3, <2>4 DEF AtTheTop
  <1>8. QED
    BY <1>6, <1>7

LEMMA TakePageSettles == ASSUME IInv, NEW i \in DOMAIN calls, TakePage(i) PROVE SettleInv'
  <1> SUFFICES ASSUME ~searching, ~blur' PROVE SettleInv'
    BY DEF SettleInv, TakePage
  <1> DEFINE c == calls[i]
  <1>1. calls \in Seq(Call) /\ CallOK(c) /\ SettleInv /\ c.op \in PageOps /\ c.done
    BY DEF IInv, OwnInv, Types, TypeOK, CallsInv, TakePage
  <1>2. /\ calls' = RemoveAt(calls, i) /\ view' = view /\ searching' = searching
        /\ rows' = rows /\ events' = events /\ arriving' = arriving
    BY DEF TakePage
  <1>3. c.limit = PageLimit /\ c.op \in ListOps /\ c.op # "remove"
    BY <1>1 DEF CallOK, ListOps, PageOps
  <1>4. \A k \in DOMAIN calls \ {i} : \E j \in DOMAIN calls' : calls'[j] = calls[k]
    BY <1>1, <1>2, CallLess
  <1>5. Behind => Behind'
    BY <1>1, <1>2, <1>3, <1>4, BehindTaken
  <1>6. Accepted(c, view, FALSE) <=> i \in Asked
    BY <1>3 DEF Asked
  <1>7. ~blur
    BY DEF TakePage
  <1>8. \A j, k \in Asked : j = k
    BY <1>1, <1>7 DEF SettleInv
  <1>9. searching = FALSE /\ Rows(view)' = Rows(view)
    BY <1>2 DEF IInv, OwnInv, Types, TypeOK, Rows
  <1>10. CASE i \in Asked
    <2>1. Asked' = {}
      BY <1>1, <1>2, <1>8, <1>10, AskedLess
    <2>2. ~Behind' => AtTheTop'
      <3>1. CASE c.ok
        <4>1. Accepted(c, view, searching)
          BY <1>6, <1>9, <1>10
        <4>2. /\ list' = IF c.op = "more" THEN list \o c.rows ELSE c.rows
              /\ hasMore' = (Len(c.rows) = PageLimit)
          BY <3>1, <4>1, Zenon DEF TakePage
        <4>3. hasMore' = (Len(c.rows) = c.limit)
          BY <1>3, <4>2, Zenon
        <4>4. QED
          BY <1>1, <1>2, <1>5, <1>7, <1>10, <2>1, <3>1, <4>2, <4>3, AnswerTaken
      <3>2. CASE ~c.ok
        <4>1. c.op = "more" /\ list' = list /\ hasMore' = hasMore
          BY <1>1, <3>2 DEF TakePage, PageOps
        <4>2. \A j \in Asked : calls[j].op = "more"
          BY <1>8, <1>10, <4>1
        <4>3. ~Behind => AtTheTop
          BY <1>1, <1>7, <4>2 DEF SettleInv, ListHolds
        <4>4. QED
          BY <1>5, <1>9, <4>1, <4>3, <1>2 DEF AtTheTop
      <3>3. QED
        BY <3>1, <3>2
    <2>3. QED
      BY <2>1, <2>2 DEF SettleInv, AnswersHold, MoreHolds, ListHolds
  <1>11. CASE i \notin Asked
    <2>1. AskedKept
      BY <1>1, <1>2, <1>11, AskedLess
    <2>2. ~Accepted(c, view, searching)
      BY <1>6, <1>9, <1>11
    <2>3. list' = list /\ hasMore' = hasMore
      <3>1. CASE c.ok
        BY <2>2, <3>1 DEF TakePage
      <3>2. CASE ~c.ok
        BY <1>1, <3>2 DEF TakePage, PageOps
      <3>3. QED
        BY <3>1, <3>2
    <2>4. blur' = blur
      BY <1>7 DEF TakePage, IInv, OwnInv, Types, TypeOK
    <2>5. QED
      BY <1>1, <1>2, <1>5, <1>9, <2>1, <2>3, <2>4, SettleKept
  <1>12. QED
    BY <1>10, <1>11

LEMMA TakeRefreshSettles == ASSUME IInv, NEW i \in DOMAIN calls, TakeRefresh(i) PROVE SettleInv'
  <1> SUFFICES ASSUME ~searching, ~blur' PROVE SettleInv'
    BY DEF SettleInv, TakeRefresh
  <1> DEFINE c == calls[i]
  <1>1. calls \in Seq(Call) /\ CallOK(c) /\ SettleInv /\ c.op \in RefreshOps /\ c.done /\ CallsInv
    BY DEF IInv, OwnInv, Types, TypeOK, CallsInv, TakeRefresh
  <1>2. /\ view' = view /\ searching' = searching /\ rows' = rows /\ events' = events /\ arriving' = arriving
    BY DEF TakeRefresh
  <1>3. c.op \in ListOps /\ c.op # "remove" /\ c.op # "more"
    BY <1>1 DEF ListOps, RefreshOps
  <1>4. ~blur /\ c.ok
    <2>1. CASE c.ok /\ Accepted(c, view, searching)
      BY <2>1 DEF TakeRefresh
    <2>2. CASE ~(c.ok /\ Accepted(c, view, searching))
      <3>1. blur' = (blur \/ ~c.ok)
        BY <2>2, Zenon DEF TakeRefresh
      <3>2. QED
        BY <3>1, Zenon
    <2>3. QED
      BY <2>1, <2>2
  <1>5. \A j, k \in Asked : j = k
    BY <1>1, <1>4 DEF SettleInv
  <1>6. /\ i \notin Asked => AskedKept
        /\ i \in Asked => Asked' = {}
        /\ \A k \in DOMAIN calls \ {i} : \E j \in DOMAIN calls' : calls'[j] = calls[k]
    <2>1. CASE calls' = RemoveAt(calls, i)
      BY <1>1, <1>2, <1>5, <2>1, AskedLess, CallLess
    <2>2. CASE calls' = Append(RemoveAt(calls, i), MsgCall("reselect", calls[i].msg))
               /\ calls[i].msg \in Msg
      <3> DEFINE r == MsgCall("reselect", calls[i].msg)
      <3>1. r \in Call /\ CallOK(r) /\ r.op \notin ListOps
        <4>1. r.op = "reselect"
          BY DEF MsgCall
        <4>2. QED
          BY <2>2, <4>1, MsgCallOK DEF ListOps, PageOps, RefreshOps
      <3>2. calls' = Append(RemoveAt(calls, i), r)
        BY <2>2
      <3> HIDE DEF r
      <3>3. /\ i \notin Asked => AskedKept
            /\ i \in Asked => Asked' = {}
        BY <1>1, <1>2, <1>5, <3>1, <3>2, AskedMoved
      <3>4. \A k \in DOMAIN calls \ {i} : \E j \in DOMAIN calls' : calls'[j] = calls[k]
        BY <1>1, <3>1, <3>2, CallMoved
      <3>5. QED
        BY <3>3, <3>4
    <2>3. QED
      BY <2>1, <2>2, RefreshCalls DEF IInv, OwnInv
  <1>7. Behind => Behind'
    BY <1>1, <1>2, <1>3, <1>6, BehindTaken
  <1>8. searching = FALSE /\ Rows(view)' = Rows(view)
    BY <1>2 DEF IInv, OwnInv, Types, TypeOK, Rows
  <1>9. Accepted(c, view, searching) <=> i \in Asked
    BY <1>3, <1>8 DEF Asked
  <1>10. CASE i \in Asked
    <2>1. list' = c.rows /\ hasMore' = (Len(c.rows) = c.limit)
      BY <1>4, <1>9, <1>10, Zenon DEF TakeRefresh
    <2>2. list' = IF c.op = "more" THEN list \o c.rows ELSE c.rows
      BY <1>3, <2>1
    <2>3. hasMore' = (Len(c.rows) = c.limit)
      BY <2>1, Zenon
    <2>4. ~Behind' => AtTheTop'
      BY <1>1, <1>2, <1>4, <1>6, <1>7, <1>10, <2>2, <2>3, AnswerTaken
    <2>5. QED
      BY <1>6, <1>10, <2>4 DEF SettleInv, AnswersHold, MoreHolds, ListHolds
  <1>11. CASE i \notin Asked
    <2>1. list' = list /\ hasMore' = hasMore
      BY <1>9, <1>11 DEF TakeRefresh
    <2>2. blur' = blur
      BY <1>4 DEF TakeRefresh, IInv, OwnInv, Types, TypeOK
    <2>3. QED
      BY <1>1, <1>2, <1>6, <1>7, <1>8, <1>11, <2>1, <2>2, SettleKept
  <1>12. QED
    BY <1>10, <1>11

\* Neither do a body's answer and the selection of a removal that failed.
LEMMA TakeMessageSettles ==
  ASSUME IInv, NEW i \in DOMAIN calls, Reselect(i) \/ TakeBody(i) PROVE SettleInv'
  <1>1. calls \in Seq(Call) /\ CallOK(calls[i]) /\ SettleInv
    BY DEF IInv, OwnInv, Types, TypeOK, CallsInv
  <1>2. /\ calls' = RemoveAt(calls, i) /\ rows' = rows /\ arriving' = arriving
        /\ list' = list /\ hasMore' = hasMore /\ view' = view /\ searching' = searching
        /\ blur' = blur /\ calls[i].op \in {"reselect", "body"}
    BY DEF Reselect, TakeBody, ShowBody
  <1>3. calls[i].op \notin ListOps /\ calls[i].op # "remove"
    BY <1>2 DEF ListOps, PageOps, RefreshOps
  <1>4. AskedKept
    BY <1>1, <1>2, <1>3, AskedLess DEF Asked
  <1>5. \A k \in DOMAIN events : k \in DOMAIN events' /\ events'[k] = events[k]
    <2>1. CASE UNCHANGED events
      BY <2>1
    <2>2. CASE events' = Append(events, Updated(Home[calls[i].msg]))
      <3>1. calls[i].msg \in Msg
        BY <1>1, <1>2 DEF CallOK
      <3>2. QED
        BY <2>2, <3>1, EventMore, Constants DEF IInv, OwnInv, Types, TypeOK
    <2>3. QED
      BY <2>1, <2>2 DEF Reselect, TakeBody
  <1>6. \A k \in DOMAIN calls : Leaving(calls[k], view)
          => \E j \in DOMAIN calls' : calls'[j] = calls[k]
    <2>1. \A k \in DOMAIN calls \ {i} : \E j \in DOMAIN calls' : calls'[j] = calls[k]
      BY <1>1, <1>2, CallLess
    <2>2. ~Leaving(calls[i], view)
      BY <1>3 DEF Leaving
    <2>3. QED
      BY <2>1, <2>2
  <1>7. Behind => Behind'
    BY <1>2, <1>5, <1>6, BehindKept
  <1>8. QED
    BY <1>1, <1>2, <1>4, <1>7, SettleKept DEF Rows

\* A removal that went well has told the view; after one that failed the list is
\* asked for again, or the doubt is remembered.
LEMMA TakeRemoveSettles == ASSUME IInv, NEW i \in DOMAIN calls, TakeRemove(i) PROVE SettleInv'
  <1>1. /\ calls \in Seq(Call) /\ CallOK(calls[i]) /\ CallsInv /\ SettleInv
        /\ calls[i].op = "remove" /\ calls[i].done
    BY DEF IInv, OwnInv, Types, TypeOK, CallsInv, TakeRemove
  <1>2. /\ list' = list /\ hasMore' = hasMore /\ view' = view /\ searching' = searching
        /\ rows' = rows /\ events' = events /\ arriving' = arriving
    BY DEF TakeRemove
  <1>3. i \notin Asked
    BY <1>1 DEF Asked, ListOps, PageOps, RefreshOps
  <1>4. CASE calls[i].ok
    <2>1. calls' = RemoveAt(calls, i) /\ blur' = blur
      BY <1>4 DEF TakeRemove
    <2>2. AskedKept
      BY <1>1, <1>2, <1>3, <2>1, AskedLess
    <2>3. \A k \in DOMAIN calls \ {i} : \E j \in DOMAIN calls' : calls'[j] = calls[k]
      BY <1>1, <2>1, CallLess
    <2>4. Behind => Behind'
      BY <1>1, <1>2, <1>4, <2>3, BehindTaken
    <2>5. QED
      BY <1>1, <1>2, <2>1, <2>2, <2>4, SettleKept DEF Rows
  <1>5. CASE ~calls[i].ok
    <2> SUFFICES ASSUME ~blur' PROVE SettleInv'
      BY DEF SettleInv
    <2> DEFINE c == RefreshCall("restore", calls[i].msg)
    <2>1. calls' = Append(RemoveAt(calls, i), c) /\ blur' = Overlap(view, FALSE)
      BY <1>5, Zenon DEF TakeRemove
    <2>2. c \in Call /\ CallOK(c)
      BY <1>1, RefreshCallOK DEF CallOK, IInv, OwnInv, Types, RefreshOps
    <2>3. c.op = "restore" /\ ~c.done /\ c.op \in ListOps /\ Accepted(c, view, FALSE)
      BY DEF RefreshCall, ListCall, ListOps, RefreshOps, PageOps, Accepted
    <2> HIDE DEF c
    <2>4. Asked = {}
      BY <2>1, NoneAsked
    <2>5. Asked' \subseteq {Len(calls)} /\ Len(calls) \in Asked' /\ calls'[Len(calls)] = c
      BY <1>1, <1>2, <2>1, <2>2, <2>3, <2>4, AskedMoved
    <2>6. QED
      BY <2>3, <2>5, AskedAnew
  <1>6. QED
    BY <1>4, <1>5

\* A lost event that says a shown folder has changed leaves the list in doubt.
LEMMA MissEventSettles == IInv /\ MissEvent => SettleInv'
  <1> SUFFICES ASSUME IInv, MissEvent PROVE SettleInv'
    OBVIOUS
  <1>1. /\ Head(events) = events[1] /\ 1 \in DOMAIN events
        /\ \A k \in DOMAIN events \ {1} : k - 1 \in DOMAIN events' /\ events'[k - 1] = events[k]
    BY EventLess DEF MissEvent, IInv, OwnInv, Types, TypeOK
  <1>2. /\ rows' = rows /\ calls' = calls /\ arriving' = arriving /\ list' = list
        /\ hasMore' = hasMore /\ view' = view /\ searching' = searching
    BY DEF MissEvent
  <1>3. SettleInv /\ blur \in BOOLEAN
    BY DEF IInv, OwnInv, Types, TypeOK
  <1>4. ASSUME ~(events[1].event = "updated" /\ Shows(view, events[1].folder))
        PROVE  Behind => Behind'
    <2>1. EventDue => EventDue'
      BY <1>1, <1>2, <1>4 DEF EventDue
    <2>2. QED
      BY <1>2, <2>1 DEF Behind, MailDue
  <1>5. CASE events[1].event = "updated"
    <2>1. blur' = (blur \/ Unnoticed(events[1].folder))
      BY <1>1, <1>5, Zenon DEF MissEvent
    <2>2. QED
      BY <1>2, <1>3, <1>4, <2>1, UnheardSettles
  <1>6. CASE events[1].event # "updated"
    <2>1. blur' = blur
      BY <1>1, <1>3, <1>6 DEF MissEvent
    <2>2. AskedKept
      BY <1>2 DEF AskedKept, Asked
    <2>3. QED
      BY <1>2, <1>3, <1>4, <1>6, <2>1, <2>2, SettleKept DEF Rows
  <1>7. QED
    BY <1>5, <1>6

\* Mail that comes is followed by the event that has the list asked for.
LEMMA OnNewMessagesSettles == IInv /\ OnNewMessages => SettleInv'
  <1> SUFFICES ASSUME IInv, OnNewMessages PROVE SettleInv'
    OBVIOUS
  <1>1. /\ Head(events) = events[1] /\ 1 \in DOMAIN events
        /\ \A k \in DOMAIN events \ {1} : k - 1 \in DOMAIN events' /\ events'[k - 1] = events[k]
        /\ events[1].event = "new" /\ EventsInv
    BY EventLess DEF OnNewMessages, IInv, OwnInv, Types, TypeOK
  <1>2. /\ rows' = rows /\ calls' = calls /\ arriving' = arriving /\ hasMore' = hasMore
        /\ view' = view
        /\ searching' = searching /\ blur' = blur
    BY DEF OnNewMessages
  <1>3. AskedKept
    BY <1>2 DEF AskedKept, Asked
  <1>4. CASE ~searching /\ Shows(view, events[1].folder)
    <2>1. 2 \in DOMAIN events /\ events[2] = Updated(events[1].folder)
      BY <1>1 DEF EventsInv
    <2>2. 1 \in DOMAIN events' /\ events'[1] = Updated(events[1].folder)
      BY <1>1, <2>1
    <2>3. EventDue'
      BY <1>2, <1>4, <2>2 DEF EventDue, Updated
    <2>4. Asked' = Asked
      BY <1>2 DEF Asked
    <2>5. QED
      BY <1>2, <2>3, <2>4 DEF Behind, SettleInv, IInv
  <1>5. CASE ~(~searching /\ Shows(view, events[1].folder))
    <2>1. list' = list
      BY <1>1, <1>5 DEF OnNewMessages
    <2>2. \A k \in DOMAIN events : events[k].event = "updated" =>
            \E j \in DOMAIN events' : events'[j] = events[k]
      BY <1>1
    <2>3. Behind => Behind'
      BY <1>2, <2>2, BehindKept
    <2>4. QED
      BY <1>2, <1>3, <2>1, <2>3, SettleKept DEF Rows, IInv
  <1>6. QED
    BY <1>4, <1>5

LEMMA OnMessagesUpdatedSettles == IInv /\ OnMessagesUpdated => SettleInv'
  <1> SUFFICES ASSUME IInv, OnMessagesUpdated PROVE SettleInv'
    OBVIOUS
  <1>1. /\ Head(events) = events[1] /\ 1 \in DOMAIN events
        /\ \A k \in DOMAIN events \ {1} : k - 1 \in DOMAIN events' /\ events'[k - 1] = events[k]
        /\ calls \in Seq(Call)
    BY EventLess DEF OnMessagesUpdated, IInv, OwnInv, Types, TypeOK
  <1>2. /\ rows' = rows /\ arriving' = arriving /\ list' = list /\ hasMore' = hasMore /\ view' = view
        /\ searching' = searching
    BY DEF OnMessagesUpdated
  <1>3. CASE ~searching /\ Shows(view, Head(events).folder)
    <2> SUFFICES ASSUME ~blur' PROVE SettleInv'
      BY DEF SettleInv
    <2> DEFINE c == RefreshCall("refresh", NoMsg)
    <2>1. calls' = Append(calls, c) /\ blur' = Overlap(view, FALSE)
      BY <1>3, Zenon DEF OnMessagesUpdated, RefreshIfShown
    <2>2. c \in Call /\ CallOK(c)
      BY RefreshCallOK DEF IInv, OwnInv, Types, RefreshOps
    <2>3. c.op = "refresh" /\ ~c.done /\ c.op \in ListOps /\ Accepted(c, view, FALSE)
      BY DEF RefreshCall, ListCall, ListOps, RefreshOps, PageOps, Accepted
    <2> HIDE DEF c
    <2>4. ~Overlap(view', FALSE)
      BY <1>2, <2>1
    <2>5. Asked' \subseteq {Len(calls) + 1} /\ Len(calls) + 1 \in Asked'
      BY <1>1, <1>2, <2>1, <2>2, <2>3, <2>4, AskedMore
    <2>6. calls'[Len(calls) + 1] = c
      BY <1>1, <2>1, <2>2, CallMore
    <2>7. QED
      BY <2>3, <2>5, <2>6, AskedAnew
  <1>4. CASE ~(~searching /\ Shows(view, Head(events).folder))
    <2>1. calls' = calls /\ blur' = blur
      BY <1>4 DEF OnMessagesUpdated, RefreshIfShown
    <2>2. AskedKept
      BY <1>2, <2>1 DEF AskedKept, Asked
    <2>3. CASE searching
      BY <1>2, <2>3 DEF SettleInv
    <2>4. CASE ~searching
      <3>1. ~Shows(view, events[1].folder)
        BY <1>1, <1>4, <2>4
      <3>2. EventDue => EventDue'
        BY <1>1, <1>2, <3>1 DEF EventDue
      <3>3. Behind => Behind'
        BY <1>2, <2>1, <3>2 DEF Behind, MailDue
      <3>4. QED
        BY <1>2, <2>1, <2>2, <3>3, SettleKept DEF Rows, IInv
    <2>5. QED
      BY <2>3, <2>4
  <1>5. QED
    BY <1>3, <1>4

LEMMA SettleStep == IInv /\ [Next]_vars => SettleInv'
  <1> SUFFICES ASSUME IInv, [Next]_vars PROVE SettleInv'
    OBVIOUS
  <1>1. CASE User
    BY <1>1, NavigationSettles, LoadMoreSettles, UserSettles, RemoveMessageSettles
       DEF User, IInv
  <1>2. CASE Backend
    BY <1>2, ArriveSettles, AnnounceSettles, ServeListSettles, ServeRemoveSettles DEF Backend
  <1>3. CASE Window
    BY <1>3, TakePageSettles, TakeRefreshSettles, TakeMessageSettles, TakeRemoveSettles,
       MissEventSettles, OnNewMessagesSettles, OnMessagesUpdatedSettles DEF Window
  <1>4. CASE UNCHANGED vars
    <2>1. Asked' = Asked /\ (Behind <=> Behind') /\ (AtTheTop => AtTheTop') /\ Rows(view)' = Rows(view)
      BY <1>4 DEF Asked, Behind, EventDue, MailDue, AtTheTop, Rows
    <2>2. AskedKept
      BY <1>4, <2>1 DEF AskedKept
    <2>3. QED
      BY <1>4, <2>1, <2>2, SettleKept DEF IInv
  <1>5. QED
    BY <1>1, <1>2, <1>3, <1>4 DEF Next

\* When everything is answered and handled, the list is the newest part of the
\* view without a gap or a repetition, and can be continued if it is not all.
THEOREM ListSettles == Spec => []ListIsTheView
  <1>1. Init => IInv
    BY TypesInit, ViewShowsItsOwnInit, SettleInit DEF OwnInv, IInv
  <1>2. IInv /\ [Next]_vars => IInv'
    BY OwnStep, SettleStep DEF IInv
  <1>3. IInv => ListIsTheView
    <2> SUFFICES ASSUME SettleInv, Quiet, ~searching, ~blur PROVE AtTheTop
      BY DEF IInv, ListIsTheView, AtTheTop
    <2>1. calls = <<>> /\ events = <<>> /\ arriving = {} /\ DOMAIN <<>> = {}
      BY DEF Quiet
    <2>2. Asked = {} /\ ~Behind
      BY <2>1 DEF Asked, Behind, EventDue, MailDue
    <2>3. QED
      BY <2>2 DEF SettleInv, ListHolds
  <1>4. QED
    BY <1>1, <1>2, <1>3, PTL DEF Spec

-----------------------------------------------------------------------------
(* The reader *)

\* At first nothing is selected and nothing read.
LEMMA ReaderInit == Init => ReaderShowsSelection
  BY DEF Init, ReaderShowsSelection

\* Whatever empties or moves the selection empties the reader, or remembers
\* that it did not.
LEMMA UserStep == ReaderShowsSelection /\ User => ReaderShowsSelection'
  <1> SUFFICES ASSUME ReaderShowsSelection, User PROVE ReaderShowsSelection'
    OBVIOUS
  <1> USE DEF ReaderShowsSelection
  <1>1. CASE SelectUnified \/ RunSearch \/ ClearSearch \/ \E f \in Folder : SelectFolder(f)
    BY <1>1 DEF SelectUnified, RunSearch, ClearSearch, SelectFolder, Enter, Deselect
  <1>2. CASE LoadMore
    BY <1>2 DEF LoadMore
  <1>3. ASSUME NEW m \in Msg, SelectMessage(m) \/ Mark(m)
        PROVE  ReaderShowsSelection'
    BY <1>3 DEF SelectMessage, Mark
  <1>4. ASSUME NEW m \in Msg, RemoveMessage(m)
        PROVE  ReaderShowsSelection'
    BY <1>4 DEF RemoveMessage
  <1>5. QED
    BY <1>1, <1>2, <1>3, <1>4 DEF User

\* A body is shown only if its message is still the selected one.
LEMMA WindowStep == ReaderShowsSelection /\ Window => ReaderShowsSelection'
  <1> SUFFICES ASSUME ReaderShowsSelection, Window PROVE ReaderShowsSelection'
    OBVIOUS
  <1> USE DEF ReaderShowsSelection
  <1>1. CASE MissEvent \/ OnNewMessages \/ OnMessagesUpdated
    BY <1>1 DEF MissEvent, OnNewMessages, OnMessagesUpdated
  <1>2. ASSUME NEW i \in DOMAIN calls, TakePage(i) \/ TakeRefresh(i) \/ TakeRemove(i)
        PROVE  ReaderShowsSelection'
    BY <1>2 DEF TakePage, TakeRefresh, TakeRemove
  <1>3. ASSUME NEW i \in DOMAIN calls, Reselect(i)
        PROVE  ReaderShowsSelection'
    BY <1>3 DEF Reselect
  <1>4. ASSUME NEW i \in DOMAIN calls, TakeBody(i)
        PROVE  ReaderShowsSelection'
    BY <1>4 DEF TakeBody, ShowBody
  <1>5. QED
    BY <1>1, <1>2, <1>3, <1>4 DEF Window

\* The reader never shows the body of another message than the selected one,
\* whatever order bodies arrive in, except after a failed removal, which puts
\* the selection back and leaves the body of the next message.
THEOREM Reader == Spec => []ReaderShowsSelection
  <1>1. ReaderShowsSelection /\ Backend => ReaderShowsSelection'
    BY DEF ReaderShowsSelection, Backend, Arrive, Announce, ServeList, ServeRemove
  <1>2. ReaderShowsSelection /\ UNCHANGED vars => ReaderShowsSelection'
    BY DEF ReaderShowsSelection
  <1>3. ReaderShowsSelection /\ [Next]_vars => ReaderShowsSelection'
    BY <1>1, <1>2, UserStep, WindowStep DEF Next
  <1>4. QED
    BY <1>3, ReaderInit, PTL DEF Spec
=============================================================================
