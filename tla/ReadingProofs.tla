---------------------------- MODULE ReadingProofs ---------------------------
(***************************************************************************)
(* Theorems about the parts that read what others have written: settings   *)
(* published for a domain (Autoconfig), shipments in a body and their      *)
(* check digits (Shipments, Checksums) and the parts of a message          *)
(* (BodyParts); and the types of all parts, with those of PartsProofs.     *)
(***************************************************************************)
EXTENDS PartsProofs, WellFoundedInduction

-----------------------------------------------------------------------------
(* The first of a sequence *)

\* A set of numbers has a least one.
LEMMA LeastExists ==
  ASSUME NEW S \in SUBSET Nat, S # {}
  PROVE  \E i \in S : \A j \in S : i <= j
  <1>1. PICK i \in S : \A j \in S : ~(<<j, i>> \in OpToRel(<, Nat))
    BY NatLessThanWellFounded, WFMin
  <1>2. \A j \in S : ~(j < i)
    BY <1>1 DEF OpToRel
  <1>3. QED
    BY <1>2

-----------------------------------------------------------------------------
(* Autoconfig *)

\* The chain's sources; each occurs once and has the next behind it.
LEMMA ChainIs ==
  /\ DOMAIN A!Chain = 1..8
  /\ A!Chain[1] = "subdomain" /\ A!Chain[2] = "wellknown" /\ A!Chain[3] = "ispdb"
  /\ A!Chain[4] = "mx" /\ A!Chain[5] = "mxSubdomain" /\ A!Chain[6] = "mxIspdb"
  /\ A!Chain[7] = "srv" /\ A!Chain[8] = "guess"
  BY DEF A!Chain

LEMMA ChainDiffers == \A i, j \in 1..8 : A!Chain[i] = A!Chain[j] => i = j
  BY ChainIs

LEMMA AfterIs == \A i \in 1..7 : A!After(A!Chain[i]) = A!Chain[i + 1]
  <1> SUFFICES ASSUME NEW i \in 1..7 PROVE A!After(A!Chain[i]) = A!Chain[i + 1]
    OBVIOUS
  <1> DEFINE j == CHOOSE j \in DOMAIN A!Chain : A!Chain[j] = A!Chain[i]
  <1>1. i \in DOMAIN A!Chain
    BY ChainIs
  <1>2. j \in DOMAIN A!Chain /\ A!Chain[j] = A!Chain[i]
    BY <1>1
  <1>3. j = i
    BY <1>2, ChainIs, ChainDiffers
  <1>4. A!After(A!Chain[i]) = A!Chain[1 + j]
    BY DEF A!After
  <1> HIDE DEF j
  <1>5. QED
    BY <1>3, <1>4

\* Nothing before the i-th source was heard and had something to say.
NoneBefore(i) == \A j \in 1..8 : j < i => ~(A!Says(A!Chain[j]) /\ A!Chain[j] \notin late)

\* The first source that was heard and had something to say is the best.
LEMMA BestIs ==
  ASSUME NEW i \in 1..8, A!Says(A!Chain[i]), A!Chain[i] \notin late, NoneBefore(i)
  PROVE  A!Best = A!Chain[i]
  <1> DEFINE Wins(k) == /\ A!Says(A!Chain[k]) /\ A!Chain[k] \notin late
                        /\ \A j \in 1..(k - 1) : ~(A!Says(A!Chain[j]) /\ A!Chain[j] \notin late)
             k == CHOOSE k \in DOMAIN A!Chain : Wins(k)
  <1>1. i \in DOMAIN A!Chain /\ Wins(i)
    BY ChainIs DEF NoneBefore
  <1>2. k \in DOMAIN A!Chain /\ Wins(k)
    <2> HIDE DEF Wins
    <2>1. QED
      BY <1>1
  <1>3. k \in 1..8 /\ ~(k < i)
    BY <1>2, ChainIs DEF NoneBefore
  <1>4. ~(i < k)
    <2>1. \A j \in 1..(k - 1) : ~(A!Says(A!Chain[j]) /\ A!Chain[j] \notin late)
      BY <1>2
    <2> HIDE DEF k
    <2>2. i < k => i \in 1..(k - 1)
      BY <1>3
    <2>3. QED
      BY <2>1, <2>2
  <1>5. A!Best = A!Chain[k]
    BY DEF A!Best
  <1> HIDE DEF k
  <1>6. QED
    BY <1>3, <1>4, <1>5

\* What parseAutoconfigXML returns.
LEMMA ParseMeans ==
  ASSUME NEW doc, A!Parse(doc) # NoConfig
  PROVE  /\ A!Smtp(doc) # NoConfig
         /\ A!Parse(doc).smtp = A!Smtp(doc)
  BY DEF A!Parse

\* The first usable server of a mode, and the one chosen for SMTP, have the mode they
\* were looked up for.
LEMMA FirstMeans ==
  ASSUME NEW s, NEW mode, {i \in 1..Len(s) : s[i].socket = mode /\ s[i].ok} # {}
  PROVE  s[A!Min({i \in 1..Len(s) : s[i].socket = mode /\ s[i].ok})].socket = mode
  <1> DEFINE I == {i \in 1..Len(s) : s[i].socket = mode /\ s[i].ok}
  <1>1. I \in SUBSET Nat /\ I # {}
    OBVIOUS
  <1>2. A!Min(I) \in I
    <2> HIDE DEF I
    <2>1. PICK i \in I : \A j \in I : i <= j
      BY <1>1, LeastExists
    <2>2. QED
      BY <2>1 DEF A!Min
  <1>3. QED
    BY <1>2

LEMMA SmtpMeans ==
  ASSUME NEW doc, A!Smtp(doc) # NoConfig
  PROVE  A!Smtp(doc).socket \in {"STARTTLS", "SSL"}
  <1> DEFINE I(mode) == {i \in 1..Len(doc.outgoing) : doc.outgoing[i].socket = mode /\ doc.outgoing[i].ok}
             F(mode) == IF (IF I(mode) # {} THEN A!Min(I(mode)) ELSE 0) = 0 THEN NoConfig
                        ELSE doc.outgoing[IF I(mode) # {} THEN A!Min(I(mode)) ELSE 0]
  <1>1. A!Smtp(doc) = IF F("STARTTLS") # NoConfig THEN F("STARTTLS") ELSE F("SSL")
    BY DEF A!Smtp, A!First, A!SelectInSeq
  <1>2. \A mode : F(mode) # NoConfig => F(mode).socket = mode
    BY FirstMeans
  <1> HIDE DEF F
  <1>4. QED
    BY <1>1, <1>2

\* The clock ends at the budget of the discovery.
LEMMA SpendMeans ==
  ASSUME clock \in 0..A!TotalTimeout, NEW d \in Nat, NEW limit \in Nat, A!Spend(d, limit)
  PROVE  clock' \in 0..A!TotalTimeout
  <1> DEFINE left == A!TotalTimeout - clock
             asked == {d, limit, left}
             t == CHOOSE t \in asked : \A u \in asked : t <= u
  <1>1. left \in Nat /\ A!TotalTimeout = 12
    BY DEF A!TotalTimeout
  <1>2. clock' = clock + t
    BY DEF A!Spend
  <1> HIDE DEF left
  <1>3. \E s \in asked : \A u \in asked : s <= u
    <2>1. asked \in SUBSET Nat /\ asked # {}
      BY <1>1
    <2> HIDE DEF asked
    <2>2. QED
      BY <2>1, LeastExists
  <1>4. t \in asked /\ \A u \in asked : t <= u
    BY <1>3
  <1> HIDE DEF t
  <1>5. t \in Nat /\ t <= left
    BY <1>1, <1>4
  <1> HIDE DEF asked
  <1>6. QED
    BY <1>1, <1>2, <1>5 DEF left

LEMMA InTime == clock' \in 0..A!TotalTimeout => clock' <= A!TotalTimeout
  BY DEF A!TotalTimeout

LEMMA ClockStep ==
  ASSUME clock \in 0..A!TotalTimeout, A!Next \/ UNCHANGED discoveryVars
  PROVE  clock' \in 0..A!TotalTimeout
  <1>1. A!HttpTimeout \in Nat /\ A!TotalTimeout \in Nat /\ Delay \subseteq Nat
    BY PartsAssumption DEF A!HttpTimeout, A!TotalTimeout
  <1>2. ASSUME NEW s \in A!Web, A!Fetch(s) PROVE clock' \in 0..A!TotalTimeout
    BY <1>1, <1>2, SpendMeans DEF A!Fetch
  <1>3. CASE A!LookupMX \/ A!LookupSRV
    BY <1>1, <1>3, SpendMeans DEF A!LookupMX, A!LookupSRV
  <1>4. CASE A!FallBack \/ UNCHANGED discoveryVars
    BY <1>4 DEF A!FallBack, discoveryVars
  <1>5. QED
    BY <1>2, <1>3, <1>4 DEF A!Next

\* What a source says depends on the world and on whether the exchanger was heard.
LEMMA SaysSame ==
  ASSUME world' = world, "mx" \in late' <=> "mx" \in late
  PROVE  A!Exchanger' = A!Exchanger /\ \A s : A!Says(s)' <=> A!Says(s)
  <1>1. A!Exchanger' = A!Exchanger
    BY DEF A!Exchanger
  <1>2. QED
    BY <1>1 DEF A!Says

\* The sources before the next one are late or had nothing to say; the exchanger
\* is known once it has been asked for.
AskedInv ==
  \A i \in 1..8 : step = A!Chain[i] =>
    /\ NoneBefore(i) /\ \A j \in i..8 : A!Chain[j] \notin late
    /\ i <= 4 => mx = "none"
    /\ i \in {5, 6} => mx = "provider" /\ A!Exchanger = "provider"

DiscoveryInv ==
  /\ world.imaps \in {"none", "own", "google"}
  /\ world.submission \in {A!NotOffered, 587, 465}
  /\ step = "done" \/ \E i \in 1..8 : step = A!Chain[i]
  /\ AskedInv /\ clock \in 0..A!TotalTimeout
  /\ A!BestAnswerWins

LEMMA DiscoveryInit == A!Init => DiscoveryInv
  <1> SUFFICES ASSUME A!Init PROVE DiscoveryInv
    OBVIOUS
  <1>1. step = A!Chain[1] /\ mx = "none" /\ late = {}
    BY DEF A!Init
  <1>2. \A i \in 1..8 : step = A!Chain[i] => i = 1
    BY <1>1, ChainIs
  <1>3. AskedInv
    BY <1>1, <1>2 DEF AskedInv, NoneBefore
  <1>4. A!BestAnswerWins
    BY <1>1, ChainIs DEF A!BestAnswerWins
  <1>5. clock \in 0..A!TotalTimeout
    BY DEF A!Init, A!TotalTimeout
  <1>6. QED
    BY <1>1, <1>3, <1>4, <1>5 DEF DiscoveryInv, A!Init

\* The next source is asked after one that was late or had nothing to say.
LEMMA NextSource ==
  ASSUME DiscoveryInv, NEW i \in 1..7, step = A!Chain[i], NEW k \in (i + 1)..8,
         step' = A!Chain[k], world' = world, clock' \in 0..A!TotalTimeout, late' \in {late, late \union {A!Chain[i]}},
         \A j \in i..(k - 1) : A!Chain[j] \in late' \/ ~A!Says(A!Chain[j])',
         i = 4 \/ mx' = mx,
         k <= 4 => mx' = "none",
         k \in {5, 6} => mx' = "provider" /\ A!Exchanger' = "provider"
  PROVE  DiscoveryInv'
  <1>1. NoneBefore(i) /\ \A j \in i..8 : A!Chain[j] \notin late
    BY DEF DiscoveryInv, AskedInv
  <1>2. ASSUME NEW j \in 1..8, j < k PROVE ~(A!Says(A!Chain[j])' /\ A!Chain[j] \notin late')
    <2>1. CASE j < i
      <3>1. CASE A!Chain[j] \in late
        BY <3>1
      <3>2. CASE ~A!Says(A!Chain[j])
        <4>1. CASE i # 4
          <5>1. "mx" \in late' <=> "mx" \in late
            BY <4>1, ChainIs, ChainDiffers
          <5>2. QED
            BY <3>2, <5>1, SaysSame
        <4>2. CASE i = 4
          BY <2>1, <3>2, <4>2, ChainIs DEF A!Says
        <4>3. QED
          BY <4>1, <4>2
      <3>3. QED
        BY <1>1, <2>1, <3>1, <3>2 DEF NoneBefore
    <2>2. CASE j \in i..(k - 1)
      BY <2>2
    <2>3. QED
      BY <1>2, <2>1, <2>2
  <1>3. NoneBefore(k)'
    BY <1>2 DEF NoneBefore
  <1>4. \A j \in k..8 : A!Chain[j] \notin late'
    BY <1>1, ChainDiffers
  <1>5. AskedInv'
    <2>1. \A j \in 1..8 : step' = A!Chain[j] => j = k
      <3>1. k \in 1..8
        OBVIOUS
      <3>2. QED
        BY <3>1, ChainDiffers
    <2>2. QED
      BY <1>3, <1>4, <2>1 DEF AskedInv
  <1>6. A!BestAnswerWins'
    <2>1. step' # "done"
      BY ChainIs
    <2>2. QED
      BY <2>1 DEF A!BestAnswerWins
  <1>7. QED
    BY <1>5, <1>6 DEF DiscoveryInv

\* The i-th source answers: it is the best.
LEMMA BestAnswers ==
  ASSUME DiscoveryInv, NEW i \in 1..8, step = A!Chain[i], world' = world, late' = late,
         A!Says(A!Chain[i])'
  PROVE  A!Best' = A!Chain[i] /\ A!Exchanger' = A!Exchanger
  <1>1. NoneBefore(i) /\ A!Chain[i] \notin late
    BY DEF DiscoveryInv, AskedInv
  <1>2. A!Exchanger' = A!Exchanger /\ \A s : A!Says(s)' <=> A!Says(s)
    BY SaysSame
  <1>3. A!Best = A!Chain[i]
    BY <1>1, <1>2, BestIs
  <1>4. A!Best' = A!Best
    BY <1>2 DEF A!Best
  <1>5. QED
    BY <1>2, <1>3, <1>4

\* fetchAndParse.
LEMMA FetchStep ==
  ASSUME DiscoveryInv, clock' \in 0..A!TotalTimeout, NEW s \in A!Web, A!Fetch(s)
  PROVE  DiscoveryInv'
  <1>1. PICK i \in {1, 2, 3, 5, 6} : A!Chain[i] = s
    BY ChainIs DEF A!Web
  <1>2. step = A!Chain[i] /\ world' = world /\ mx' = mx
    BY <1>1 DEF A!Fetch
  <1>3. /\ NoneBefore(i) /\ \A j \in i..8 : A!Chain[j] \notin late
        /\ i <= 4 => mx = "none"
        /\ i \in {5, 6} => mx = "provider" /\ A!Exchanger = "provider"
    BY <1>2 DEF DiscoveryInv, AskedInv
  <1>4. s \notin late /\ s # "mx" /\ s # "srv" /\ s # "guess"
    BY <1>1, <1>3, ChainIs
  <1>5. A!Says(s)' <=> A!Parse(world.doc[s]) # NoConfig
    <2>1. "mx" \in late' <=> "mx" \in late
      BY <1>4 DEF A!Fetch
    <2>2. A!Says(s)' <=> A!Says(s)
      BY <1>2, <2>1, SaysSame
    <2>3. A!Says(s) <=> A!Parse(world.doc[s]) # NoConfig
      BY <1>1, <1>3, <1>4, ChainIs DEF A!Says
    <2>4. QED
      BY <2>2, <2>3
  <1>6. CASE /\ A!Parse(world.doc[s]) # NoConfig
             /\ A!Finish(A!Finalize(A!Parse(world.doc[s]), A!SourceOf(s), mx)) /\ UNCHANGED late
    <2> DEFINE p == A!Parse(world.doc[s])
    <2>1. A!Best' = s /\ step' = "done"
      BY <1>1, <1>2, <1>5, <1>6, BestAnswers DEF A!Finish
    <2>2. p.smtp = A!Smtp(world.doc[s]) /\ A!Smtp(world.doc[s]).socket \in {"STARTTLS", "SSL"}
      BY <1>6, ParseMeans, SmtpMeans
    <2>3. mx # "google"
      BY <1>3
    <2>4. A!SourceOf(s) # "guess"
      BY <1>4 DEF A!SourceOf
    <2> DEFINE smtp == A!Smtp(world.doc[s])
    <2> SUFFICES A!BestAnswerWins'
      BY <1>2, <2>1, ChainIs DEF DiscoveryInv, AskedInv
    <2> SUFFICES
          /\ result'.source = A!SourceOf(s)
          /\ (result'.kind = "gmail") = (world.domain = "google" \/ p.imap = "google")
          /\ result'.confident
          /\ A!Fits(smtp) => A!Fits(result'.smtp)
      BY <1>2, <1>4, <2>1, <2>4, InTime DEF A!BestAnswerWins, A!Published
    <2> HIDE DEF p, smtp
    <2>5. result' = A!Finalize(p, A!SourceOf(s), mx)
      BY <1>6 DEF A!Finish, p
    <2>6. CASE world.domain = "google" \/ p.imap = "google"
      <3>1. result' = A!GmailFields(A!SourceOf(s))
        BY <2>5, <2>6 DEF A!Finalize, A!IsGmail
      <3>2. QED
        BY <2>6, <3>1 DEF A!GmailFields, A!Fits, A!Dialled
    <2>7. CASE world.domain # "google" /\ p.imap # "google"
      <3>1. result' = [kind |-> "imap", smtp |-> [socket |-> p.smtp.socket, port |-> p.smtp.port],
                       source |-> A!SourceOf(s), confident |-> TRUE]
        BY <2>3, <2>5, <2>7 DEF A!Finalize, A!IsGmail
      <3>2. p.smtp = smtp /\ smtp.socket \in {"STARTTLS", "SSL"}
        BY <2>2 DEF p, smtp
      <3>3. QED
        BY <2>7, <3>1, <3>2 DEF A!Fits, A!Dialled
    <2>8. QED
      BY <2>6, <2>7
  <1>7. CASE /\ s \in late' \/ A!Parse(world.doc[s]) = NoConfig
             /\ step' = A!After(s) /\ late' \in {late, late \union {s}}
    <2>1. step' = A!Chain[i + 1] /\ i \in 1..7 /\ i + 1 \in (i + 1)..8
      BY <1>1, <1>7, AfterIs
    <2>2. A!Chain[i] \in late' \/ ~A!Says(A!Chain[i])'
      BY <1>1, <1>5, <1>7
    <2>3. i + 1 \in {5, 6} => mx' = "provider" /\ A!Exchanger' = "provider"
      <3>1. "mx" \in late' <=> "mx" \in late
        BY <1>4, <1>7
      <3>2. A!Exchanger' = A!Exchanger
        BY <1>2, <3>1, SaysSame
      <3>3. QED
        BY <1>2, <1>3, <3>2
    <2>4. i + 1 <= 4 => mx' = "none"
      BY <1>2, <1>3
    <2>5. QED
      BY <1>1, <1>2, <1>7, <2>1, <2>2, <2>3, <2>4, NextSource
  <1>8. QED
    BY <1>6, <1>7 DEF A!Fetch

\* mxLookup.
LEMMA LookupMXStep ==
  DiscoveryInv /\ clock' \in 0..A!TotalTimeout /\ A!LookupMX => DiscoveryInv'
  <1> SUFFICES ASSUME DiscoveryInv, clock' \in 0..A!TotalTimeout, A!LookupMX
               PROVE  DiscoveryInv'
    OBVIOUS
  <1>1. step = A!Chain[4] /\ A!Chain[4] = "mx" /\ world' = world
    BY ChainIs DEF A!LookupMX
  <1>2. NoneBefore(4) /\ \A j \in 4..8 : A!Chain[j] \notin late
    BY <1>1 DEF DiscoveryInv, AskedInv
  <1>3. "mx" \notin late
    BY <1>1, <1>2
  <1>4. /\ late' \in {late, late \union {"mx"}} /\ mx' = A!Exchanger'
        /\ \/ /\ mx' # "none" /\ A!IsGmail("own", mx') /\ A!Finish(A!GmailFields("mx"))
           \/ /\ ~(mx' # "none" /\ A!IsGmail("own", mx'))
              /\ step' = IF mx' = "provider" THEN A!After("mx") ELSE A!After("mxIspdb")
    <2>1. PICK d \in Delay \union {A!TotalTimeout} :
            LET host == IF A!Answered(d, A!TotalTimeout) THEN A!Lowest(world.mx) ELSE "none"
            IN /\ mx' = host
               /\ IF host # "none" /\ A!IsGmail("own", host)
                    THEN A!Finish(A!GmailFields("mx"))
                    ELSE step' = IF host = "provider" THEN A!After("mx") ELSE A!After("mxIspdb")
               /\ late' = IF A!Answered(d, A!TotalTimeout) THEN late ELSE late \union {"mx"}
      BY DEF A!LookupMX
    <2>2. A!Exchanger' = IF "mx" \in late' THEN "none" ELSE A!Lowest(world.mx)
      BY <1>1 DEF A!Exchanger
    <2>3. QED
      BY <1>3, <2>1, <2>2
  <1>5. A!Says("mx")' <=> mx' # "none" /\ A!IsGmail("own", mx')
    BY <1>1, <1>4 DEF A!Says, A!IsGmail
  <1>6. CASE mx' # "none" /\ A!IsGmail("own", mx') /\ A!Finish(A!GmailFields("mx"))
    <2>1. "mx" \notin late'
      BY <1>4, <1>6 DEF A!Exchanger
    <2>2. late' = late
      BY <1>3, <1>4, <2>1
    <2>3. A!Best' = "mx" /\ step' = "done" /\ result' = A!GmailFields("mx")
      BY <1>1, <1>5, <1>6, <2>2, BestAnswers DEF A!Finish
    <2>4. A!BestAnswerWins'
      BY <2>3, InTime DEF A!BestAnswerWins, A!GmailFields, A!SourceOf, A!Web
    <2>5. QED
      BY <1>1, <2>3, <2>4, ChainIs DEF DiscoveryInv, AskedInv
  <1>7. CASE /\ ~(mx' # "none" /\ A!IsGmail("own", mx'))
             /\ step' = IF mx' = "provider" THEN A!After("mx") ELSE A!After("mxIspdb")
    <2>1. ~A!Says(A!Chain[4])'
      BY <1>1, <1>5, <1>7
    <2>2. A!After("mx") = A!Chain[5] /\ A!After("mxIspdb") = A!Chain[7]
      BY AfterIs, ChainIs
    <2>3. CASE mx' = "provider"
      <3>1. step' = A!Chain[5] /\ \A j \in 4..4 : ~A!Says(A!Chain[j])'
        BY <1>7, <2>1, <2>2, <2>3
      <3>2. QED
        BY <1>1, <1>4, <2>3, <3>1, NextSource
    <2>4. CASE mx' # "provider"
      <3>1. ~A!Says(A!Chain[5])' /\ ~A!Says(A!Chain[6])'
        BY <1>4, <2>4, ChainIs DEF A!Says
      <3>2. step' = A!Chain[7] /\ \A j \in 4..6 : ~A!Says(A!Chain[j])'
        BY <1>7, <2>1, <2>2, <2>4, <3>1
      <3>3. QED
        BY <1>1, <1>4, <3>2, NextSource
    <2>5. QED
      BY <2>3, <2>4
  <1>8. QED
    BY <1>4, <1>6, <1>7

\* srvLookup.
LEMMA LookupSRVStep ==
  DiscoveryInv /\ clock' \in 0..A!TotalTimeout /\ A!LookupSRV => DiscoveryInv'
  <1> SUFFICES ASSUME DiscoveryInv, clock' \in 0..A!TotalTimeout, A!LookupSRV
               PROVE  DiscoveryInv'
    OBVIOUS
  <1> DEFINE p == A!Srv(world.imaps, world.submission)
  <1>1. step = A!Chain[7] /\ A!Chain[7] = "srv" /\ world' = world /\ mx' = mx
    BY ChainIs DEF A!LookupSRV
  <1>2. /\ late' \in {late, late \union {"srv"}}
        /\ \/ p # NoConfig /\ A!Finish(A!Finalize(p, "srv", "none")) /\ late' = late
           \/ ("srv" \in late' \/ p = NoConfig) /\ step' = A!After("srv")
    BY DEF A!LookupSRV
  <1>3. p # NoConfig => world.imaps # "none" /\ world.submission # A!NotOffered
    BY DEF A!Srv
  <1>4. p # NoConfig => p = [imap |-> world.imaps, smtp |-> [socket |-> "STARTTLS", port |-> world.submission]]
    BY DEF A!Srv
  <1>5. CASE p # NoConfig /\ A!Finish(A!Finalize(p, "srv", "none")) /\ late' = late
    <2>1. A!Says("srv")'
      BY <1>1, <1>3, <1>5 DEF A!Says
    <2>2. A!Best' = "srv" /\ step' = "done" /\ result' = A!Finalize(p, "srv", "none")
      BY <1>1, <1>5, <2>1, BestAnswers DEF A!Finish
    <2>3. p.imap = world.imaps /\ A!Published' = p.smtp
      BY <1>1, <1>4, <1>5, <2>2 DEF A!Published
    <2>4. p.smtp = [socket |-> p.smtp.socket, port |-> p.smtp.port]
      BY <1>4, <1>5
    <2> HIDE DEF p
    <2>5. A!Fits(p.smtp) => A!Fits(result'.smtp)
      BY <2>2, <2>4 DEF A!Finalize, A!GmailFields, A!Fits, A!Dialled
    <2>6. A!BestAnswerWins'
      BY <1>1, <2>2, <2>3, <2>5, InTime
         DEF A!BestAnswerWins, A!Finalize, A!IsGmail, A!GmailFields, A!SourceOf, A!Web
    <2>7. QED
      BY <1>1, <2>2, <2>6, ChainIs DEF DiscoveryInv, AskedInv
  <1>6. CASE ("srv" \in late' \/ p = NoConfig) /\ step' = A!After("srv")
    <2>1. p = NoConfig => ~A!Says("srv")'
      <3>1. world.imaps \in {"none", "own", "google"} /\ world.submission \in {A!NotOffered, 587, 465}
        BY DEF DiscoveryInv
      <3>2. A!Says("srv")' => world.imaps \in {"own", "google"} /\ world.submission \in {587, 465}
        BY <1>1, <3>1 DEF A!Says
      <3>3. QED
        BY <3>2, PartsAssumption
    <2>2. step' = A!Chain[8]
      BY <1>6, AfterIs, ChainIs
    <2>3. \A j \in 7..7 : A!Chain[j] \in late' \/ ~A!Says(A!Chain[j])'
      BY <1>1, <1>6, <2>1
    <2>4. QED
      BY <1>1, <1>2, <2>2, <2>3, NextSource
  <1>7. QED
    BY <1>2, <1>5, <1>6

\* guess.
LEMMA FallBackStep ==
  DiscoveryInv /\ clock' \in 0..A!TotalTimeout /\ A!FallBack => DiscoveryInv'
  <1> SUFFICES ASSUME DiscoveryInv, clock' \in 0..A!TotalTimeout, A!FallBack
               PROVE  DiscoveryInv'
    OBVIOUS
  <1>1. /\ step = A!Chain[8] /\ A!Chain[8] = "guess" /\ world' = world /\ late' = late
        /\ step' = "done" /\ result' = A!Guess
    BY ChainIs DEF A!FallBack, A!Finish
  <1>2. A!Says("guess")'
    BY DEF A!Says
  <1>3. A!Best' = "guess"
    BY <1>1, <1>2, BestAnswers
  <1>4. A!BestAnswerWins'
    BY <1>1, <1>3, InTime
       DEF A!BestAnswerWins, A!Guess, A!IsGmail, A!GmailFields, A!SourceOf, A!Web
  <1>5. QED
    BY <1>1, <1>4, ChainIs DEF DiscoveryInv, AskedInv

LEMMA DiscoveryStep == DiscoveryInv /\ (A!Next \/ UNCHANGED discoveryVars) => DiscoveryInv'
  <1> SUFFICES ASSUME DiscoveryInv, A!Next \/ UNCHANGED discoveryVars PROVE DiscoveryInv'
    OBVIOUS
  <1>1. CASE UNCHANGED discoveryVars
    <2>1. A!Exchanger' = A!Exchanger /\ \A s : A!Says(s)' <=> A!Says(s)
      BY <1>1, SaysSame DEF discoveryVars
    <2>2. A!Best' = A!Best
      BY <1>1, <2>1 DEF discoveryVars, A!Best
    <2>3. A!Published' = A!Published
      BY <1>1, <2>2 DEF discoveryVars, A!Published
    <2>4. A!Fits(A!Published)' <=> A!Fits(A!Published)
      BY <2>3 DEF A!Fits, A!Dialled
    <2>5. A!BestAnswerWins'
      BY <1>1, <2>2, <2>4 DEF discoveryVars, DiscoveryInv, A!BestAnswerWins
    <2>6. QED
      BY <1>1, <2>1, <2>5 DEF discoveryVars, DiscoveryInv, AskedInv, NoneBefore
  <1>2. clock' \in 0..A!TotalTimeout
    BY ClockStep DEF DiscoveryInv
  <1>3. QED
    BY <1>1, <1>2, FetchStep, LookupMXStep, LookupSRVStep, FallBackStep DEF A!Next

-----------------------------------------------------------------------------
(* Shipments *)

\* A number that is found is a token classified; one whose check digit is right is
\* found, and is certain.
LEMMA NumbersMean ==
  ASSUME NEW m
  PROVE  /\ \A x \in H!Numbers(m) :
              \E t \in H!ToSet(m.tokens) :
                 /\ x = H!Classify(t) /\ t.parcel = x.parcel
                 /\ t.shape \in H!Certain /\ ~x.deterministic => t.shape = "usps22"
                 /\ x.valid = t.valid /\ (x.deterministic => t.shape \in H!Certain)
         /\ \A t \in H!ToSet(m.tokens) : t.shape \in H!Certain /\ t.valid =>
              \E x \in H!Numbers(m) : x.deterministic /\ x.valid
  <1>1. ASSUME NEW x \in H!Numbers(m)
        PROVE  \E t \in H!ToSet(m.tokens) :
                 /\ x = H!Classify(t) /\ t.parcel = x.parcel
                 /\ t.shape \in H!Certain /\ ~x.deterministic => t.shape = "usps22"
                 /\ x.valid = t.valid /\ (x.deterministic => t.shape \in H!Certain)
    <2>1. PICK t \in H!ToSet(m.tokens) : x = H!Classify(t)
      BY DEF H!Numbers
    <2>2. /\ x.parcel = t.parcel /\ x.valid = t.valid
          /\ x.deterministic = (t.shape \in H!Certain
                                 /\ ~(t.shape = "digits20" \/ (t.shape = "usps22" /\ ~t.valid)))
      BY <2>1 DEF H!Classify
    <2>3. QED
      BY <2>1, <2>2 DEF H!Certain
  <1>2. ASSUME NEW t \in H!ToSet(m.tokens), t.shape \in H!Certain, t.valid
        PROVE  \E x \in H!Numbers(m) : x.deterministic /\ x.valid
    <2> DEFINE x == H!Classify(t)
    <2>1. t.shape # "digits20" /\ ~(t.shape = "usps22" /\ ~t.valid)
      BY <1>2 DEF H!Certain
    <2>2. x.carrier = H!CarrierOf[t.shape] /\ x.deterministic /\ x.valid = t.valid
      BY <1>2, <2>1 DEF H!Classify
    <2>3. H!CarrierOf[t.shape] \in H!Carrier
      BY <1>2 DEF H!CarrierOf, H!Certain, H!Carrier
    <2>4. x \in H!Numbers(m)
      BY <2>2, <2>3, PartsAssumption DEF H!Numbers
    <2>5. QED
      BY <1>2, <2>2, <2>4
  <1>3. QED
    BY <1>1, <1>2

\* Where numbered shipments come from: all from certain numbers, or all from guesses.
LEMMA NumberedMeans ==
  ASSUME NEW m, NEW s \in H!Numbered(m)
  PROVE  \E x \in H!Numbers(m) :
           /\ s.number = x.parcel /\ s.order = FALSE
           /\ s.url = H!TrackingURL(m, s.carrier, s.number)
           /\ \/ x.deterministic /\ x.valid
              \/ ~x.deterministic /\ ~\E y \in H!Numbers(m) : y.deterministic /\ y.valid
  <1>1. CASE s \in H!Verified(m)
    BY <1>1 DEF H!Verified, H!Shipment
  <1>2. CASE H!Verified(m) = {} /\ s \in H!Guessed(m)
    <2>1. ~\E y \in H!Numbers(m) : y.deterministic /\ y.valid
      BY <1>2 DEF H!Verified
    <2>2. QED
      BY <1>2, <2>1 DEF H!Guessed, H!Shipment
  <1>3. QED
    BY <1>1, <1>2 DEF H!Numbered

\* The same number gives the same shipment.
LEMMA OneShipmentEach ==
  ASSUME NEW m, NEW s \in H!Numbered(m), NEW r \in H!Numbered(m), s.number = r.number,
         \A t, u \in {t \in H!ToSet(m.tokens) : t.parcel = s.number} : t = u
  PROVE  s = r
  <1>1. \A x, y \in H!Numbers(m) : x.parcel = s.number /\ y.parcel = s.number => x = y
    BY NumbersMean
  <1>2. CASE s \in H!Verified(m) /\ r \in H!Verified(m)
    <2>1. PICK x \in H!Numbers(m) : s = H!Shipment(m, x.carrier, x.parcel)
      BY <1>2 DEF H!Verified
    <2>2. PICK y \in H!Numbers(m) : r = H!Shipment(m, y.carrier, y.parcel)
      BY <1>2 DEF H!Verified
    <2>3. s.number = x.parcel /\ r.number = y.parcel
      BY <2>1, <2>2 DEF H!Shipment
    <2>4. QED
      BY <1>1, <2>1, <2>2, <2>3
  <1>3. CASE s \in H!Guessed(m) /\ r \in H!Guessed(m)
    <2> DEFINE Of(x) == IF ~(x.carrier \in x.near) /\ m.links # <<>> THEN m.links[1].carrier
                        ELSE x.carrier
    <2>1. PICK x \in H!Numbers(m) : s = H!Shipment(m, Of(x), x.parcel)
      BY <1>3 DEF H!Guessed
    <2>2. PICK y \in H!Numbers(m) : r = H!Shipment(m, Of(y), y.parcel)
      BY <1>3 DEF H!Guessed
    <2>3. s.number = x.parcel /\ r.number = y.parcel
      BY <2>1, <2>2 DEF H!Shipment
    <2>4. QED
      BY <1>1, <2>1, <2>2, <2>3
  <1>4. QED
    BY <1>2, <1>3 DEF H!Numbered

\* The link of a carrier with one link.
LEMMA CapturedMeans ==
  ASSUME NEW m \in Message, NEW l \in H!ToSet(m.links),
         \A i, j \in H!LinksOf(m, l.carrier) : i = j
  PROVE  H!Captured(m, l.carrier) = l.parcel /\ l.parcel # Nothing
  <1>1. PICK i \in DOMAIN m.links : l = m.links[i]
    BY DEF H!ToSet
  <1>2. H!LinksOf(m, l.carrier) = {i}
    BY <1>1 DEF H!LinksOf
  <1>3. H!Min({i}) \in {i}
    <2>1. m.links \in Seq([carrier : H!Carrier, parcel : Parcel])
      BY PartsAssumption
    <2>2. i <= i
      BY <1>1, <2>1
    <2>3. \E k \in {i} : \A j \in {i} : k <= j
      BY <2>2
    <2>4. QED
      BY <2>3 DEF H!Min
  <1>4. l.parcel \in Parcel
    <2> DEFINE Links == [carrier : H!Carrier, parcel : Parcel]
    <2>1. m.links \in Seq(Links)
      BY PartsAssumption
    <2>2. \A x \in Links : x.parcel \in Parcel
      OBVIOUS
    <2> HIDE DEF Links
    <2>3. QED
      BY <1>1, <2>1, <2>2
  <1>5. QED
    BY <1>1, <1>2, <1>3, <1>4, PartsAssumption DEF H!Captured

\* Every shipment of a carrier with a link leads to the first.
LEMMA UrlMeans ==
  ASSUME NEW m, NEW s \in H!Extract(m), H!Captured(m, s.carrier) # Nothing
  PROVE  s.url = H!Captured(m, s.carrier)
  <1>1. CASE s \in H!Numbered(m)
    BY <1>1, NumberedMeans DEF H!TrackingURL
  <1>2. CASE s \in H!Linked(m)
    BY <1>2 DEF H!Linked
  <1>3. CASE s \in H!OfAmazon(m)
    BY <1>3 DEF H!OfAmazon
  <1>4. QED
    BY <1>1, <1>2, <1>3 DEF H!Extract

\* Links and Amazon's orders add no shipment with a number.
LEMMA NumberIsNumbered ==
  ASSUME NEW m, NEW s \in H!Extract(m), s.number # Nothing
  PROVE  s \in H!Numbered(m)
  <1>1. s \notin H!Linked(m)
    BY DEF H!Linked
  <1>2. s \notin H!OfAmazon(m)
    BY DEF H!OfAmazon
  <1>3. QED
    BY <1>1, <1>2 DEF H!Extract

\* What Extract finds is what the message has, clause by clause.
LEMMA ExtractMeans ==
  ASSUME message \in Message, found = H!Extract(message) PROVE H!ShipmentsAreTheMessages
  <1>1. ASSUME NEW s \in found, s.number # Nothing
        PROVE  /\ \E t \in H!TokensOf(s.number) : t.shape \in H!Certain => t.valid \/ t.shape = "usps22"
               /\ (\E t \in H!ToSet(message.tokens) : t.shape \in H!Certain /\ t.valid)
                    => \E t \in H!TokensOf(s.number) : t.shape \in H!Certain /\ t.valid
    <2>1. s \in H!Numbered(message)
      BY <1>1, NumberIsNumbered
    <2>2. PICK x \in H!Numbers(message) :
            /\ s.number = x.parcel
            /\ \/ x.deterministic /\ x.valid
               \/ ~x.deterministic /\ ~\E y \in H!Numbers(message) : y.deterministic /\ y.valid
      BY <2>1, NumberedMeans
    <2>3. PICK t \in H!ToSet(message.tokens) :
            /\ t.parcel = x.parcel /\ x.valid = t.valid
            /\ t.shape \in H!Certain /\ ~x.deterministic => t.shape = "usps22"
            /\ x.deterministic => t.shape \in H!Certain
      BY NumbersMean
    <2>4. t \in H!TokensOf(s.number)
      BY <2>2, <2>3 DEF H!TokensOf
    <2>5. CASE x.deterministic /\ x.valid
      BY <2>3, <2>4, <2>5
    <2>6. CASE ~x.deterministic /\ ~\E y \in H!Numbers(message) : y.deterministic /\ y.valid
      BY <2>3, <2>4, <2>6, NumbersMean
    <2>7. QED
      BY <2>2, <2>5, <2>6
  <1>2. ASSUME NEW l \in H!ToSet(message.links), l.carrier # "amazon"
        PROVE  \E s \in found : s.carrier = l.carrier
    <2>1. CASE \E s \in H!Numbered(message) : s.carrier = l.carrier
      BY <2>1 DEF H!Extract
    <2>2. CASE ~\E s \in H!Numbered(message) : s.carrier = l.carrier
      <3> DEFINE s == [carrier |-> l.carrier, number |-> Nothing,
                       url |-> H!Captured(message, l.carrier), order |-> FALSE]
      <3>1. s \in H!Linked(message)
        BY <1>2, <2>2 DEF H!Linked
      <3>2. QED
        BY <3>1 DEF H!Extract
    <2>3. QED
      BY <2>1, <2>2
  <1>3. ASSUME NEW s \in found, NEW l \in H!ToSet(message.links),
               s.carrier = l.carrier, ~H!Ambiguous(l.carrier)
        PROVE  s.url = l.parcel
    <2>1. \A i, j \in H!LinksOf(message, l.carrier) : i = j
      BY <1>3 DEF H!Ambiguous
    <2>2. H!Captured(message, l.carrier) = l.parcel /\ l.parcel # Nothing
      BY <2>1, CapturedMeans
    <2>3. QED
      BY <1>3, <2>2, UrlMeans
  <1>4. ASSUME NEW s \in found, NEW r \in found, s.number = r.number, s.number # Nothing,
               \A t, u \in H!TokensOf(s.number) : t = u
        PROVE  s = r
    <2>1. s \in H!Numbered(message) /\ r \in H!Numbered(message)
      BY <1>4, NumberIsNumbered
    <2>2. QED
      BY <1>4, <2>1, OneShipmentEach DEF H!TokensOf
  <1>5. QED
    BY <1>1, <1>2, <1>3, <1>4 DEF H!ShipmentsAreTheMessages

ShipmentInv == message \in Message /\ (found = Nothing \/ found = H!Extract(message))

LEMMA ShipmentStep == ShipmentInv /\ (H!Next \/ UNCHANGED shipmentVars) => ShipmentInv'
  <1>1. ASSUME ShipmentInv, message' = message, H!Next \/ found' = found PROVE ShipmentInv'
    <2>1. H!Extract(message)' = H!Extract(message)
      BY <1>1
    <2>2. QED
      BY <1>1, <2>1 DEF ShipmentInv, H!Next
  <1>2. QED
    BY <1>1 DEF H!Next, shipmentVars

-----------------------------------------------------------------------------
(* Checksums *)

Kind == {"ups", "usps", "s10"}

\* The serial parts a scheme has, and the loop that adds up one of them.
Numeral(k) == {s \in Seq(C!Digit) : k = "s10" => Len(s) = 8}
Adds(f, k, serial, m) ==
  f = [i \in 0..m |-> IF i = 0 THEN 0 ELSE f[i - 1] + C!Weight(k, i) * serial[i]]

LEMMA NumeralIs ==
  ASSUME NEW k \in Kind, NEW serial \in Numeral(k)
  PROVE  /\ Len(serial) \in Nat
         /\ \A i \in 1..Len(serial) :
              i \in Nat \ {0} /\ (k = "s10" => i <= 8) /\ serial[i] \in C!Digit
  <1>1. serial \in Seq(C!Digit) /\ (k = "s10" => Len(serial) = 8)
    BY DEF Numeral
  <1>2. QED
    BY <1>1

LEMMA WeightsAre ==
  ASSUME NEW k \in Kind, NEW i \in Nat \ {0}, k = "s10" => i <= 8
  PROVE  /\ C!Weight(k, i) \in Nat
         /\ k = "ups" => C!Weight(k, i) = IF C!Odd(i) THEN 1 ELSE 2
         /\ k = "usps" => C!Weight(k, i) \in {1, 3}
         /\ k = "s10" => C!Weight(k, i) \in {2, 3, 4, 5, 6, 7, 8, 9}
  <1>1. CASE k = "s10"
    <2>1. i \in {1, 2, 3, 4, 5, 6, 7, 8}
      BY <1>1
    <2>2. C!Weight(k, i) = C!S10Weights[i]
      BY <1>1 DEF C!Weight
    <2>3. C!S10Weights[i] \in {2, 3, 4, 5, 6, 7, 8, 9}
      BY <2>1 DEF C!S10Weights
    <2>4. QED
      BY <1>1, <2>2, <2>3
  <1>2. CASE k = "ups"
    BY <1>2 DEF C!Weight
  <1>3. CASE k = "usps"
    BY <1>3 DEF C!Weight
  <1>4. QED
    BY <1>1, <1>2, <1>3 DEF Kind

\* What a digit adds is a number.
LEMMA TermIs ==
  ASSUME NEW k \in Kind, NEW serial \in Numeral(k), NEW i \in 1..Len(serial)
  PROVE  C!Weight(k, i) * serial[i] \in Nat
  <1>1. serial[i] \in Nat
    BY NumeralIs DEF C!Digit
  <1>2. C!Weight(k, i) \in Nat
    BY NumeralIs, WeightsAre
  <1>3. QED
    BY <1>1, <1>2

\* The loop computes something for as many digits as the serial part has.
LEMMA SumExists ==
  ASSUME NEW k \in Kind, NEW serial \in Numeral(k)
  PROVE  \E f \in [0..Len(serial) -> Nat] : Adds(f, k, serial, Len(serial))
  <1> DEFINE len == Len(serial)
             Computed(m) == \E f \in [0..m -> Nat] : Adds(f, k, serial, m)
             Stuck == {m \in 0..len : ~Computed(m)}
  <1>0. len \in Nat
    BY DEF Numeral
  <1>1. SUFFICES ASSUME Stuck # {} PROVE FALSE
    BY <1>0
  <1>2. PICK m \in Stuck : \A j \in Stuck : m <= j
    <2> HIDE DEF Computed
    <2>1. Stuck \in SUBSET Nat
      BY <1>0
    <2> HIDE DEF Stuck
    <2>2. QED
      BY <1>1, <2>1, LeastExists
  <1>3. m # 0
    <2>1. [i \in 0..0 |-> 0] \in [0..0 -> Nat]
      OBVIOUS
    <2>2. Adds([i \in 0..0 |-> 0], k, serial, 0)
      BY DEF Adds
    <2>3. QED
      BY <1>2, <2>1, <2>2
  <1>4. m \in 1..len /\ m - 1 \in 0..len
    BY <1>0, <1>2, <1>3
  <1>5. Computed(m - 1)
    <2>1. m \in Nat /\ ~(m <= m - 1)
      BY <1>4
    <2> HIDE DEF Computed
    <2>2. m - 1 \notin Stuck
      <3> HIDE DEF Stuck
      <3>1. QED
        BY <1>2, <2>1
    <2>3. QED
      BY <1>4, <2>2
  <1>6. PICK f \in [0..(m - 1) -> Nat] : Adds(f, k, serial, m - 1)
    BY <1>5
  <1> DEFINE t(i) == C!Weight(k, i) * serial[i]
             g == [i \in 0..m |-> IF i = m THEN f[m - 1] + t(m) ELSE f[i]]
  <1>7. \A i \in 1..m : t(i) \in Nat
    BY <1>4, <1>0, TermIs
  <1>8. f[0] = 0 /\ \A i \in 1..(m - 1) : f[i] = f[i - 1] + t(i)
    <2>1. f = [i \in 0..(m - 1) |-> IF i = 0 THEN 0 ELSE f[i - 1] + t(i)]
      BY <1>6 DEF Adds
    <2> HIDE DEF t
    <2>2. QED
      BY <2>1, <1>4
  <1>9. g \in [0..m -> Nat] /\ g = [i \in 0..m |-> IF i = 0 THEN 0 ELSE g[i - 1] + t(i)]
    <2> HIDE DEF t
    <2>1. g \in [0..m -> Nat]
      BY <1>4, <1>7
    <2>2. \A i \in 0..m : g[i] = IF i = 0 THEN 0 ELSE g[i - 1] + t(i)
      BY <1>4, <1>8
    <2>3. QED
      BY <2>1, <2>2
  <1>10. Computed(m)
    <2> HIDE DEF g
    <2>1. QED
      BY <1>9 DEF Adds
  <1>11. QED
    BY <1>2, <1>10

\* The sum is what the loop has after the last digit.
LEMMA SumIs ==
  ASSUME NEW k \in Kind, NEW serial \in Numeral(k)
  PROVE  \E f \in [0..Len(serial) -> Nat] :
           /\ f[0] = 0
           /\ \A i \in 1..Len(serial) : f[i] = f[i - 1] + C!Weight(k, i) * serial[i]
           /\ C!Sum(k, serial) = f[Len(serial)]
  <1> DEFINE len == Len(serial)
             t(i) == C!Weight(k, i) * serial[i]
             f == CHOOSE f : f = [i \in 0..len |-> IF i = 0 THEN 0 ELSE f[i - 1] + t(i)]
  <1>0. len \in Nat
    BY DEF Numeral
  <1>1. C!Sum(k, serial) = f[len]
    BY DEF C!Sum
  <1>2. f = [i \in 0..len |-> IF i = 0 THEN 0 ELSE f[i - 1] + t(i)]
    <2>1. PICK g : Adds(g, k, serial, len)
      BY SumExists
    <2>2. g = [i \in 0..len |-> IF i = 0 THEN 0 ELSE g[i - 1] + t(i)]
      BY <2>1 DEF Adds
    <2> HIDE DEF t
    <2>3. QED
      BY <2>2
  <1>3. \A i \in 1..len : t(i) \in Nat
    BY TermIs
  <1> HIDE DEF f, t
  <1>4. f[0] = 0 /\ \A i \in 1..len : f[i] = f[i - 1] + t(i)
    BY <1>2, <1>0
  <1>5. \A i \in 0..len : f[i] \in Nat
    <2> DEFINE Odds == {i \in 0..len : f[i] \notin Nat}
    <2>1. SUFFICES ASSUME Odds # {} PROVE FALSE
      OBVIOUS
    <2>2. PICK i \in Odds : \A j \in Odds : i <= j
      <3>1. Odds \in SUBSET Nat
        BY <1>0
      <3> HIDE DEF Odds
      <3>2. QED
        BY <2>1, <3>1, LeastExists
    <2>3. i # 0
      BY <2>2, <1>4
    <2>4. i \in 1..len /\ i - 1 \in 0..len
      BY <1>0, <2>2, <2>3
    <2>5. f[i - 1] \in Nat
      BY <2>2, <2>4
    <2>6. QED
      BY <1>3, <1>4, <2>2, <2>4, <2>5
  <1>6. f \in [0..len -> Nat]
    BY <1>2, <1>5
  <1>7. QED
    BY <1>1, <1>4, <1>6 DEF t

\* One digit changed changes the sum by its weight times the difference.
LEMMA OneDigit ==
  ASSUME NEW k \in Kind, NEW serial \in Numeral(k), NEW wrong \in Numeral(k),
         NEW p \in 1..Len(serial), NEW d \in C!Digit, wrong = [serial EXCEPT ![p] = d]
  PROVE  /\ C!Sum(k, serial) \in Nat /\ C!Sum(k, wrong) \in Nat
         /\ C!Sum(k, wrong) = C!Sum(k, serial) + C!Weight(k, p) * (d - serial[p])
  <1> DEFINE len == Len(serial)
             w(i) == C!Weight(k, i)
             diff == w(p) * (d - serial[p])
  <1>0. len \in Nat /\ Len(wrong) = len
    BY DEF Numeral
  <1>1. PICK f \in [0..len -> Nat] :
          /\ f[0] = 0 /\ \A i \in 1..len : f[i] = f[i - 1] + w(i) * serial[i]
          /\ C!Sum(k, serial) = f[len]
    BY SumIs
  <1>2. PICK g \in [0..len -> Nat] :
          /\ g[0] = 0 /\ \A i \in 1..len : g[i] = g[i - 1] + w(i) * wrong[i]
          /\ C!Sum(k, wrong) = g[len]
    BY <1>0, SumIs
  <1>3. \A i \in 1..len : w(i) * serial[i] \in Nat /\ w(i) * wrong[i] \in Nat
    BY <1>0, TermIs
  <1>3a. w(p) \in Nat /\ serial[p] \in Nat
    <2>1. p \in Nat \ {0} /\ (k = "s10" => p <= 8) /\ serial[p] \in C!Digit
      BY NumeralIs
    <2>2. C!Weight(k, p) \in Nat
      BY <2>1, WeightsAre
    <2>3. serial[p] \in Nat
      BY <2>1 DEF C!Digit
    <2>4. QED
      BY <2>2, <2>3
  <1>4. wrong[p] = d /\ \A i \in 1..len : i # p => wrong[i] = serial[i]
    BY DEF Numeral
  <1> HIDE DEF w
  <1>5. d \in Nat /\ diff \in Int
    BY <1>3a DEF C!Digit
  <1>5a. w(p) * wrong[p] = w(p) * serial[p] + diff
    BY <1>3a, <1>4, <1>5
  <1> HIDE DEF diff
  <1>6. \A i \in 0..len : g[i] = f[i] + (IF i < p THEN 0 ELSE diff)
    <2> DEFINE Off == {i \in 0..len : ~(g[i] = f[i] + (IF i < p THEN 0 ELSE diff))}
    <2>1. SUFFICES ASSUME Off # {} PROVE FALSE
      OBVIOUS
    <2>2. PICK i \in Off : \A j \in Off : i <= j
      <3>1. Off \in SUBSET Nat
        BY <1>0
      <3> HIDE DEF Off
      <3>2. QED
        BY <2>1, <3>1, LeastExists
    <2>3. i # 0
      BY <2>2, <1>1, <1>2
    <2>4. i \in 1..len /\ i - 1 \in 0..len
      BY <1>0, <2>2, <2>3
    <2>5. g[i - 1] = f[i - 1] + (IF i - 1 < p THEN 0 ELSE diff)
      BY <2>2, <2>4
    <2>6. f[i] = f[i - 1] + w(i) * serial[i] /\ g[i] = g[i - 1] + w(i) * wrong[i]
      BY <1>1, <1>2, <2>4
    <2>6a. w(i) * serial[i] \in Int /\ w(i) * wrong[i] \in Int /\ f[i - 1] \in Nat
      <3>1. w(i) * serial[i] \in Nat /\ w(i) * wrong[i] \in Nat
        BY <1>3, <2>4
      <3>2. f[i - 1] \in Nat
        BY <2>4
      <3>3. QED
        BY <3>1, <3>2
    <2>7. CASE i = p
      BY <2>2, <2>5, <2>6, <2>6a, <2>7, <1>5a, <1>5
    <2>8. CASE i # p
      <3>1. w(i) * wrong[i] = w(i) * serial[i]
        BY <1>4, <2>4, <2>8
      <3>2. i < p <=> i - 1 < p
        BY <2>4, <2>8
      <3>3. QED
        BY <2>2, <2>5, <2>6, <2>6a, <3>1, <3>2, <1>5
    <2>9. QED
      BY <2>7, <2>8
  <1>7. g[len] = f[len] + diff
    BY <1>0, <1>6
  <1>8. QED
    BY <1>0, <1>1, <1>2, <1>7 DEF diff, w

\* Remainders are the same when the difference is a multiple.
LEMMA SameRemainder ==
  ASSUME NEW a \in Nat, NEW b \in Nat, NEW w \in 1..9, NEW x \in -9..9, x # 0, b = a + w * x
  PROVE  /\ w = 1 => a % 10 # b % 10
         /\ w = 2 => (a % 10 = b % 10 <=> x \in {-5, 5})
         /\ w = 3 => a % 10 # b % 10
         /\ w \in 2..9 => a % 11 # b % 11
  <1>1. CASE w = 1
    BY <1>1
  <1>2. CASE w = 2
    BY <1>2
  <1>3. CASE w = 3
    BY <1>3
  <1>4. CASE w = 4
    BY <1>4
  <1>5. CASE w = 5
    BY <1>5
  <1>6. CASE w = 6
    BY <1>6
  <1>7. CASE w = 7
    BY <1>7
  <1>8. CASE w = 8
    BY <1>8
  <1>9. CASE w = 9
    BY <1>9
  <1>10. QED
    BY <1>1, <1>2, <1>3, <1>4, <1>5, <1>6, <1>7, <1>8, <1>9

\* Which remainders give the same check digit.
LEMMA SameDigit ==
  ASSUME NEW k \in Kind, NEW serial, NEW wrong, C!Sum(k, serial) \in Nat, C!Sum(k, wrong) \in Nat
  PROVE  C!Expected(k, serial) = C!Expected(k, wrong) <=>
           \/ C!Remainder(k, serial) = C!Remainder(k, wrong)
           \/ k = "s10" /\ {C!Remainder(k, serial), C!Remainder(k, wrong)} = {0, 6}
  <1> DEFINE r == C!Remainder(k, serial)
             q == C!Remainder(k, wrong)
  <1>1. CASE k = "s10"
    <2>1. r \in 0..10 /\ q \in 0..10
      BY <1>1 DEF C!Remainder
    <2>2. /\ C!Expected(k, serial) = IF r = 1 THEN 0 ELSE IF r = 0 THEN 5 ELSE 11 - r
          /\ C!Expected(k, wrong) = IF q = 1 THEN 0 ELSE IF q = 0 THEN 5 ELSE 11 - q
      BY <1>1 DEF C!Expected
    <2> HIDE DEF r, q
    <2>3. {r, q} = {0, 6} <=> (r = 0 /\ q = 6) \/ (r = 6 /\ q = 0)
      OBVIOUS
    <2>4. QED
      BY <1>1, <2>1, <2>2, <2>3 DEF r, q
  <1>2. CASE k # "s10"
    <2>1. r \in 0..9 /\ q \in 0..9
      BY <1>2 DEF C!Remainder
    <2>2. C!Expected(k, serial) = (10 - r) % 10 /\ C!Expected(k, wrong) = (10 - q) % 10
      BY <1>2 DEF C!Expected
    <2> HIDE DEF r, q
    <2>3. (10 - r) % 10 = (10 - q) % 10 <=> r = q
      BY <2>1
    <2>4. QED
      BY <1>2, <2>1, <2>2, <2>3 DEF r, q
  <1>3. QED
    BY <1>1, <1>2

\* A wrong digit in the serial part changes the check digit, save where the scheme is blind.
LEMMA WrongSerial ==
  ASSUME NEW k \in Kind, NEW serial \in Numeral(k), NEW p \in 1..Len(serial),
         NEW d \in C!Digit, d # serial[p]
  PROVE  C!Expected(k, [serial EXCEPT ![p] = d]) = C!Expected(k, serial) <=>
           \/ k = "ups" /\ ~C!Odd(p) /\ d - serial[p] \in {-5, 5}
           \/ k = "s10" /\ {C!Remainder(k, [serial EXCEPT ![p] = d]), C!Remainder(k, serial)} = {0, 6}
  <1> DEFINE wrong == [serial EXCEPT ![p] = d]
             a == C!Sum(k, serial)
             b == C!Sum(k, wrong)
             w == C!Weight(k, p)
             x == d - serial[p]
  <1>1. wrong \in Numeral(k)
    BY DEF Numeral
  <1>2. a \in Nat /\ b \in Nat /\ b = a + w * x
    BY <1>1, OneDigit
  <1>3. x \in -9..9 /\ x # 0
    <2>1. serial[p] \in 0..9
      BY NumeralIs DEF C!Digit
    <2>2. d \in 0..9
      BY DEF C!Digit
    <2> HIDE DEF wrong, a, b, w
    <2>3. \A y, z \in 0..9 : y # z => y - z \in -9..9 /\ y - z # 0
      OBVIOUS
    <2>4. QED
      BY <2>1, <2>2, <2>3
  <1>4. /\ w \in 1..9
        /\ k = "ups" => w = IF C!Odd(p) THEN 1 ELSE 2
        /\ k = "usps" => w \in {1, 3}
        /\ k = "s10" => w \in 2..9
    BY NumeralIs, WeightsAre DEF Kind
  <1> HIDE DEF w, x
  <1>5. C!Remainder(k, serial) = C!Remainder(k, wrong) <=> (k = "ups" /\ ~C!Odd(p) /\ x \in {-5, 5})
    <2>1. /\ w = 1 => a % 10 # b % 10
          /\ w = 2 => (a % 10 = b % 10 <=> x \in {-5, 5})
          /\ w = 3 => a % 10 # b % 10
          /\ w \in 2..9 => a % 11 # b % 11
      BY <1>2, <1>3, <1>4, SameRemainder
    <2>2. /\ C!Remainder(k, serial) = a % (IF k = "s10" THEN 11 ELSE 10)
          /\ C!Remainder(k, wrong) = b % (IF k = "s10" THEN 11 ELSE 10)
      BY DEF C!Remainder
    <2> HIDE DEF a, b, wrong
    <2>3. CASE k = "s10"
      BY <1>4, <2>1, <2>2, <2>3
    <2>4. CASE k = "ups"
      BY <1>4, <2>1, <2>2, <2>4
    <2>5. CASE k = "usps"
      BY <1>4, <2>1, <2>2, <2>5
    <2>6. QED
      BY <2>3, <2>4, <2>5 DEF Kind
  <1>6. C!Expected(k, wrong) = C!Expected(k, serial) <=>
          \/ C!Remainder(k, wrong) = C!Remainder(k, serial)
          \/ k = "s10" /\ {C!Remainder(k, wrong), C!Remainder(k, serial)} = {0, 6}
    BY <1>2, SameDigit
  <1>7. QED
    BY <1>5, <1>6 DEF x

\* A number is a serial part with its check digit; copied wrong, one of its digits is
\* another.
ChecksumInv ==
  /\ scheme \in Kind
  /\ \E serial \in Numeral(scheme) :
       /\ original = Append(serial, C!Expected(scheme, serial))
       /\ number # original => \E p \in DOMAIN original, d \in C!Digit :
            d # original[p] /\ number = [original EXCEPT ![p] = d]

LEMMA ChecksumInit == C!Init => ChecksumInv
  <1> SUFFICES ASSUME C!Init PROVE ChecksumInv
    OBVIOUS
  <1>1. scheme \in Scheme /\ original = number
    BY DEF C!Init
  <1>2. PICK serial \in Serial[scheme] : number = Append(serial, C!Expected(scheme, serial))
    BY DEF C!Init
  <1>3. serial \in Numeral(scheme) /\ scheme \in Kind
    BY <1>1, PartsAssumption DEF Numeral, Kind
  <1>4. QED
    BY <1>1, <1>2, <1>3 DEF ChecksumInv

LEMMA ChecksumStep == ChecksumInv /\ (C!Next \/ UNCHANGED checksumVars) => ChecksumInv'
  <1>1. ASSUME ChecksumInv, C!Mistype PROVE ChecksumInv'
    <2>1. PICK serial \in Numeral(scheme) : original = Append(serial, C!Expected(scheme, serial))
      BY <1>1 DEF ChecksumInv
    <2>2. UNCHANGED <<scheme, original>> /\ number = original
      BY <1>1 DEF C!Mistype
    <2>3. \E p \in DOMAIN original, d \in C!Digit :
            d # original[p] /\ number' = [original EXCEPT ![p] = d]
      BY <1>1, <2>2 DEF C!Mistype
    <2>4. original' = Append(serial, C!Expected(scheme', serial))
      BY <2>1, <2>2
    <2>5. QED
      BY <1>1, <2>1, <2>2, <2>3, <2>4 DEF ChecksumInv
  <1>2. ASSUME ChecksumInv, UNCHANGED checksumVars PROVE ChecksumInv'
    BY <1>2 DEF checksumVars, ChecksumInv
  <1>3. QED
    BY <1>1, <1>2 DEF C!Next

LEMMA TypoSeen == ChecksumInv => C!TypoIsCaught
  <1> SUFFICES ASSUME ChecksumInv, number # original PROVE C!Valid(scheme, number) = C!Blind
    BY DEF C!TypoIsCaught
  <1>1. PICK serial \in Numeral(scheme) :
          /\ original = Append(serial, C!Expected(scheme, serial))
          /\ number # original => \E p \in DOMAIN original, d \in C!Digit :
               d # original[p] /\ number = [original EXCEPT ![p] = d]
    BY DEF ChecksumInv
  <1>2. PICK p \in DOMAIN original, d \in C!Digit :
          d # original[p] /\ number = [original EXCEPT ![p] = d]
    BY <1>1
  <1> DEFINE len == Len(serial)
             e == C!Expected(scheme, serial)
  <1>0. scheme \in Kind /\ len \in Nat /\ serial = [i \in 1..len |-> serial[i]]
    BY NumeralIs DEF ChecksumInv, Numeral
  <1> HIDE DEF e
  <1>3. original = [i \in 1..(len + 1) |-> IF i = len + 1 THEN e ELSE serial[i]]
    <2>1. original = Append(serial, e) /\ serial \in Seq(C!Digit)
      BY <1>1 DEF e, Numeral
    <2>2. /\ DOMAIN Append(serial, e) = 1..(len + 1) /\ Append(serial, e)[len + 1] = e
          /\ \A i \in 1..len : Append(serial, e)[i] = serial[i]
      BY <2>1
    <2>3. Append(serial, e) = [i \in 1..(len + 1) |-> Append(serial, e)[i]]
      <3>1. serial \in Seq(C!Digit \union {e})
        BY <2>1
      <3>2. Append(serial, e) \in Seq(C!Digit \union {e}) /\ Len(Append(serial, e)) = len + 1
        BY <3>1, AppendProperties
      <3>3. Append(serial, e) \in [1..(len + 1) -> C!Digit \union {e}]
        BY <3>2, LenProperties
      <3>4. QED
        BY <3>3
    <2>4. \A i \in 1..(len + 1) : i # len + 1 => i \in 1..len
      BY <1>0
    <2>5. QED
      BY <2>1, <2>2, <2>3, <2>4
  <1>4. C!Front(original) = serial
    BY <1>0, <1>3 DEF C!Front
  <1>5. CASE p = len + 1
    <2>1. number = [i \in 1..(len + 1) |-> IF i = len + 1 THEN d ELSE serial[i]]
      BY <1>2, <1>3, <1>5
    <2>2. C!Front(number) = serial /\ C!Last(number) = d
      BY <1>0, <2>1 DEF C!Front, C!Last
    <2>3. ~C!Valid(scheme, number)
      BY <1>2, <1>3, <1>5, <1>0, <2>2 DEF C!Valid, e
    <2>4. \A i \in DOMAIN C!Front(number) : number[i] - original[i] \notin {-5, 5}
      <3>1. \A i \in 1..len : serial[i] \in Int
        BY <1>0, NumeralIs DEF C!Digit
      <3>2. DOMAIN C!Front(number) = 1..len
        BY <1>0, <2>2
      <3>3. QED
        BY <1>0, <1>3, <2>1, <3>1, <3>2
    <2>5. ~C!Blind
      BY <2>2, <2>4, <1>4 DEF C!Blind
    <2>6. QED
      BY <2>3, <2>5 DEF C!Valid, C!Blind
  <1>6. CASE p \in 1..len
    <2> DEFINE wrong == [serial EXCEPT ![p] = d]
    <2>0. original[p] = serial[p]
      BY <1>0, <1>3, <1>6
    <2>1. number = [i \in 1..(len + 1) |-> IF i = len + 1 THEN e ELSE wrong[i]]
      BY <1>0, <1>2, <1>3, <1>6
    <2>2. C!Front(number) = wrong /\ C!Last(number) = e
      BY <1>0, <2>1 DEF C!Front, C!Last
    <2>3. C!Valid(scheme, number) <=> C!Expected(scheme, wrong) = e
      BY <2>2 DEF C!Valid
    <2>4. C!Blind <=> \/ scheme = "ups" /\ ~C!Odd(p) /\ d - serial[p] \in {-5, 5}
                      \/ scheme = "s10" /\ {C!Remainder(scheme, wrong), C!Remainder(scheme, serial)} = {0, 6}
      <3>1. DOMAIN C!Front(number) = 1..len
        BY <2>2, <1>0
      <3>2. \A i \in 1..len : number[i] - original[i] = IF i = p THEN d - serial[p] ELSE 0
        <4>1. d \in Int /\ \A i \in 1..len : serial[i] \in Int
          BY <1>0, NumeralIs DEF C!Digit
        <4>2. \A i \in 1..len : wrong[i] = IF i = p THEN d ELSE serial[i]
          BY <1>0, <1>6
        <4> HIDE DEF wrong
        <4>3. \A i \in 1..len : number[i] = wrong[i] /\ original[i] = serial[i]
          BY <1>0, <1>3, <2>1
        <4>4. QED
          BY <4>1, <4>2, <4>3
      <3>3. (\E i \in 1..len : ~C!Odd(i) /\ number[i] - original[i] \in {-5, 5})
              <=> ~C!Odd(p) /\ d - serial[p] \in {-5, 5}
        BY <1>6, <3>2
      <3> HIDE DEF wrong
      <3>4. QED
        BY <1>4, <2>2, <3>1, <3>3 DEF C!Blind
    <2>5. C!Expected(scheme, wrong) = e <=>
            \/ scheme = "ups" /\ ~C!Odd(p) /\ d - serial[p] \in {-5, 5}
            \/ scheme = "s10" /\ {C!Remainder(scheme, wrong), C!Remainder(scheme, serial)} = {0, 6}
      BY <1>0, <1>2, <1>6, <2>0, WrongSerial DEF e
    <2>6. QED
      BY <2>3, <2>4, <2>5 DEF C!Valid, C!Blind
  <1>7. QED
    BY <1>0, <1>2, <1>3, <1>5, <1>6

-----------------------------------------------------------------------------
(* BodyParts *)

Piece == Leaves \union {B!Group(k) : k \in B!Multipart \union {"message"}}
Shell == [kind : B!Multipart \union {"message"}, inAlternative : BOOLEAN, parts : Nat, needHTML : BOOLEAN,
          needText : BOOLEAN, level : Nat, root : BOOLEAN, within : SUBSET Nat]

OnlyGroups == \A i \in 1..Len(parts) : parts[i].kind \in B!Multipart

\* A body list begins with its first part, and has what can be shown in a body.
BodyList(s, p) ==
  /\ s \in Seq(Nat)
  /\ \A x \in B!ToSet(s) :
       x \in 1..Len(p) /\ s[1] <= x /\ p[x].kind \in {"plain", "html", "image"}

\* Every leaf is listed somewhere; until one is met the innermost container is
\* empty and wants both bodies.
BodyInv ==
  /\ parts \in Seq(Piece) /\ attachments \in Seq(Nat)
  /\ BodyList(textBody, parts) /\ BodyList(htmlBody, parts)
  /\ \A i \in 1..Len(parts) : parts[i].kind \in B!Leaf =>
       \/ i \in B!ToSet(attachments)
       \/ parts[i].kind = "html" /\ i \in B!ToSet(htmlBody)
       \/ parts[i].kind = "plain" /\ i \in B!ToSet(textBody)
  /\ \A i \in B!Opening :
       i \in B!ToSet(htmlBody) \/ (parts[i].kind = "plain" /\ i \in B!ToSet(textBody))
  /\ OnlyGroups =>
       /\ textBody = <<>> /\ htmlBody = <<>>
       /\ stack \in Seq(Shell) /\ stack # <<>>
       /\ B!State.parts = 0 /\ B!State.needHTML /\ B!State.needText

\* The kinds of leaves and of containers.
LEMMA KindsDiffer ==
  /\ \A k : B!Group(k).kind = k
  /\ \A k \in B!Multipart \union {"message"} : k \notin B!Leaf
  /\ \A k \in B!Leaf : k \notin B!Multipart
  /\ "message" \notin B!Multipart
  /\ \A leaf \in Leaves : leaf.kind \in B!Leaf
  BY PartsAssumption DEF B!Group, B!Multipart, B!Leaf

\* A list with one more index.
LEMMA AppendMeans ==
  ASSUME NEW s \in Seq(Nat), NEW x \in Nat
  PROVE  /\ Append(s, x) \in Seq(Nat) /\ Append(s, x) # <<>>
         /\ B!ToSet(Append(s, x)) = B!ToSet(s) \union {x}
         /\ Append(s, x)[1] = IF s = <<>> THEN x ELSE s[1]
  <1> DEFINE t == Append(s, x)
  <1>1. /\ t \in Seq(Nat) /\ Len(t) = Len(s) + 1 /\ t[Len(s) + 1] = x
        /\ \A i \in 1..Len(s) : t[i] = s[i]
        /\ Len(s) \in Nat
    BY AppendProperties
  <1> HIDE DEF t
  <1>2. DOMAIN t = 1..(Len(s) + 1) /\ DOMAIN s = 1..Len(s)
    BY <1>1
  <1>3. B!ToSet(t) = B!ToSet(s) \union {x}
    <2>1. B!ToSet(t) \subseteq B!ToSet(s) \union {x}
      <3> SUFFICES ASSUME NEW i \in 1..(Len(s) + 1) PROVE t[i] \in B!ToSet(s) \union {x}
        BY <1>2 DEF B!ToSet
      <3>1. i \in 1..Len(s) \/ i = Len(s) + 1
        BY <1>1
      <3>2. QED
        BY <1>1, <1>2, <3>1 DEF B!ToSet
    <2>2. x \in B!ToSet(t)
      <3>1. Len(s) + 1 \in DOMAIN t
        BY <1>1, <1>2
      <3>2. QED
        BY <1>1, <3>1 DEF B!ToSet
    <2>3. B!ToSet(s) \subseteq B!ToSet(t)
      <3> SUFFICES ASSUME NEW i \in 1..Len(s) PROVE s[i] \in B!ToSet(t)
        BY <1>2 DEF B!ToSet
      <3>1. i \in DOMAIN t /\ t[i] = s[i]
        BY <1>1, <1>2
      <3>2. QED
        BY <3>1 DEF B!ToSet
    <2>4. QED
      BY <2>1, <2>2, <2>3
  <1>4. t # <<>>
    BY <1>1
  <1>5. s # <<>> => 1 \in 1..Len(s)
    BY <1>1, EmptySeq
  <1>6. s = <<>> => Len(s) = 0
    OBVIOUS
  <1>7. t[1] = IF s = <<>> THEN x ELSE s[1]
    BY <1>1, <1>5, <1>6
  <1>8. QED
    BY <1>1, <1>3, <1>4, <1>7 DEF t

\* One more part: the earlier ones stay, and it opens the message only if no leaf came
\* before.
LEMMA PartsGrow ==
  ASSUME BodyInv, NEW x \in Piece, parts' = Append(parts, x)
  PROVE  /\ parts' \in Seq(Piece) /\ Len(parts) \in Nat /\ Len(parts') = Len(parts) + 1
         /\ parts'[Len(parts) + 1] = x /\ \A i \in 1..Len(parts) : parts'[i] = parts[i]
         /\ OnlyGroups' <=> OnlyGroups /\ x.kind \in B!Multipart
         /\ \A i \in 1..Len(parts) : B!Text(i)' <=> B!Text(i)
         /\ B!Opening' \subseteq B!Opening \union
              {i \in {Len(parts) + 1} : OnlyGroups /\ x.kind \in {"plain", "html"} /\ ~x.attached}
  <1>1. /\ parts' \in Seq(Piece) /\ Len(parts) \in Nat /\ Len(parts') = Len(parts) + 1
        /\ parts'[Len(parts) + 1] = x /\ \A i \in 1..Len(parts) : parts'[i] = parts[i]
    BY AppendProperties DEF BodyInv
  <1>2. B!Index = 1..Len(parts) /\ B!Index' = 1..(Len(parts) + 1)
    BY <1>1 DEF B!Index, BodyInv
  <1>3. \A i \in 1..Len(parts) : i \in 1..(Len(parts) + 1)
    BY <1>1
  <1>4. \A i \in 1..(Len(parts) + 1) : i \in 1..Len(parts) \/ i = Len(parts) + 1
    BY <1>1
  <1>5. OnlyGroups' <=> OnlyGroups /\ x.kind \in B!Multipart
    <2>1. Len(parts) + 1 \in 1..(Len(parts) + 1)
      BY <1>1
    <2>2. QED
      BY <1>1, <1>3, <1>4, <2>1 DEF OnlyGroups
  <1>6. \A i \in 1..Len(parts) : B!Text(i)' <=> B!Text(i)
    BY <1>1 DEF B!Text
  <1>7. ASSUME NEW i \in B!Opening'
        PROVE  \/ i \in B!Opening
               \/ i = Len(parts) + 1 /\ OnlyGroups /\ x.kind \in {"plain", "html"} /\ ~x.attached
    <2>1. /\ i \in 1..(Len(parts) + 1) /\ B!Text(i)' /\ ~parts'[i].attached /\ ~parts'[i].named
          /\ \A j \in 1..(i - 1) : parts'[j].kind \in B!Multipart
      BY <1>2 DEF B!Opening
    <2>2. CASE i \in 1..Len(parts)
      <3>1. \A j \in 1..(i - 1) : j \in 1..Len(parts)
        BY <1>1, <2>2
      <3>2. QED
        BY <1>1, <1>2, <1>6, <2>1, <2>2, <3>1 DEF B!Opening
    <2>3. CASE i = Len(parts) + 1
      <3>1. 1..(i - 1) = 1..Len(parts)
        BY <1>1, <2>3
      <3>2. QED
        BY <1>1, <2>1, <2>3, <3>1 DEF OnlyGroups, B!Text
    <2>4. QED
      BY <1>4, <2>1, <2>2, <2>3
  <1>8. QED
    BY <1>1, <1>5, <1>6, <1>7

\* A part more leaves the body lists in order, whether it joins them or not.
LEMMA BodyListKeeps ==
  ASSUME BodyInv, NEW x \in Piece, parts' = Append(parts, x), NEW s, BodyList(s, parts)
  PROVE  /\ BodyList(s, parts')
         /\ x.kind \in {"plain", "html", "image"} => BodyList(Append(s, Len(parts) + 1), parts')
  <1>1. /\ Len(parts) \in Nat /\ Len(parts') = Len(parts) + 1
        /\ parts'[Len(parts) + 1] = x /\ \A i \in 1..Len(parts) : parts'[i] = parts[i]
    BY PartsGrow
  <1>2. BodyList(s, parts')
    BY <1>1 DEF BodyList
  <1>3. ASSUME x.kind \in {"plain", "html", "image"}
        PROVE  BodyList(Append(s, Len(parts) + 1), parts')
    <2> DEFINE t == Append(s, Len(parts) + 1)
    <2>1. /\ t \in Seq(Nat) /\ B!ToSet(t) = B!ToSet(s) \union {Len(parts) + 1}
          /\ t[1] = IF s = <<>> THEN Len(parts) + 1 ELSE s[1]
      BY <1>1, AppendMeans DEF BodyList
    <2> HIDE DEF t
    <2>2. s = <<>> => B!ToSet(s) = {}
      BY DEF B!ToSet
    <2>3. s # <<>> => s[1] \in 1..Len(parts)
      <3>1. s # <<>> => 1 \in DOMAIN s
        BY EmptySeq DEF BodyList
      <3>2. QED
        BY <3>1 DEF BodyList, B!ToSet
    <2>4. BodyList(t, parts')
      BY <1>1, <1>3, <2>1, <2>2, <2>3 DEF BodyList
    <2>5. QED
      BY <2>4 DEF t
  <1>4. QED
    BY <1>2, <1>3

LEMMA BodyInit == B!Init => BodyInv
  <1> SUFFICES ASSUME B!Init PROVE BodyInv
    OBVIOUS
  <1> DEFINE shell == B!Container("message", FALSE, TRUE, TRUE, 0, TRUE, {})
  <1>1. /\ stack = <<shell>> /\ parts = <<>> /\ textBody = <<>> /\ htmlBody = <<>> /\ attachments = <<>>
    BY DEF B!Init
  <1>2. shell \in Shell /\ shell.parts = 0 /\ shell.needHTML /\ shell.needText
    BY DEF B!Container, Shell
  <1> HIDE DEF shell
  <1>3. /\ parts \in Seq(Piece) /\ attachments \in Seq(Nat) /\ Len(parts) = 0
        /\ BodyList(textBody, parts) /\ BodyList(htmlBody, parts)
    BY <1>1, EmptySeq DEF BodyList, B!ToSet
  <1>4. /\ stack \in Seq(Shell) /\ stack # <<>>
        /\ B!State.parts = 0 /\ B!State.needHTML /\ B!State.needText
    BY <1>1, <1>2 DEF B!State, B!Last
  <1>5. B!Opening = {}
    BY <1>1 DEF B!Opening, B!Index
  <1>6. QED
    BY <1>1, <1>3, <1>4, <1>5 DEF BodyInv

\* A container joins the parts, and the attachments if it is a message.
LEMMA GroupStep ==
  ASSUME BodyInv, NEW k \in B!Multipart \union {"message"}, parts' = Append(parts, B!Group(k)),
         UNCHANGED <<textBody, htmlBody>>,
         attachments' = attachments \/ attachments' = Append(attachments, Len(parts')),
         k \in B!Multipart /\ OnlyGroups =>
           /\ stack' \in Seq(Shell) /\ stack' # <<>>
           /\ B!State'.parts = 0 /\ B!State'.needHTML /\ B!State'.needText
  PROVE  BodyInv'
  <1> DEFINE x == B!Group(k)
  <1>1. x \in Piece /\ x.kind = k /\ x.kind \notin B!Leaf /\ x.kind \notin {"plain", "html"}
    BY KindsDiffer DEF Piece, B!Multipart
  <1> HIDE DEF x
  <1>2. /\ parts' \in Seq(Piece) /\ Len(parts) \in Nat /\ Len(parts') = Len(parts) + 1
        /\ parts'[Len(parts) + 1] = x /\ \A i \in 1..Len(parts) : parts'[i] = parts[i]
        /\ OnlyGroups' <=> OnlyGroups /\ x.kind \in B!Multipart
        /\ \A i \in 1..Len(parts) : B!Text(i)' <=> B!Text(i)
        /\ B!Opening' \subseteq B!Opening \union
             {i \in {Len(parts) + 1} : OnlyGroups /\ x.kind \in {"plain", "html"} /\ ~x.attached}
    BY <1>1, PartsGrow DEF x
  <1>3. BodyList(textBody, parts') /\ BodyList(htmlBody, parts')
    BY <1>1, BodyListKeeps DEF BodyInv, x
  <1>4. attachments' \in Seq(Nat) /\ B!ToSet(attachments) \subseteq B!ToSet(attachments')
    <2>1. attachments \in Seq(Nat) /\ Len(parts') \in Nat
      BY <1>2 DEF BodyInv
    <2>2. CASE attachments' = attachments
      BY <2>1, <2>2
    <2>3. CASE attachments' = Append(attachments, Len(parts'))
      BY <2>1, <2>3, AppendMeans
    <2>4. QED
      BY <2>2, <2>3
  <1>5. \A i \in 1..Len(parts') : i \in 1..Len(parts) \/ i = Len(parts) + 1
    BY <1>2
  <1>6. \A i \in 1..Len(parts') : parts'[i].kind \in B!Leaf =>
          \/ i \in B!ToSet(attachments')
          \/ parts'[i].kind = "html" /\ i \in B!ToSet(htmlBody)
          \/ parts'[i].kind = "plain" /\ i \in B!ToSet(textBody)
    BY <1>1, <1>2, <1>4, <1>5 DEF BodyInv
  <1>7. \A i \in B!Opening' :
          i \in B!ToSet(htmlBody') \/ (parts'[i].kind = "plain" /\ i \in B!ToSet(textBody'))
    <2>1. \A i \in B!Opening' : i \in B!Opening /\ i \in 1..Len(parts)
      BY <1>1, <1>2 DEF B!Opening, B!Index, BodyInv
    <2>2. QED
      BY <1>2, <2>1 DEF BodyInv
  <1>8. QED
    BY <1>1, <1>2, <1>3, <1>4, <1>6, <1>7 DEF BodyInv

\* The alternatives that the parts of a new container will be in.
LEMMA AlternativesAre ==
  ASSUME BodyInv, B!State \in Shell, NEW k
  PROVE  B!Alternatives(k) \in SUBSET Nat
  BY DEF BodyInv, B!Alternatives, Shell

\* walk, a multipart.
LEMMA EnterMultipartStep ==
  ASSUME BodyInv, NEW k \in B!Multipart, B!EnterMultipart(k) PROVE BodyInv'
  <1>1. /\ parts' = Append(parts, B!Group(k)) /\ UNCHANGED <<textBody, htmlBody, attachments>>
        /\ stack' = Append(B!Front(stack), B!Counted) \o
             <<B!Container(k, B!State.inAlternative \/ k = "alternative",
                           B!State.needHTML, B!State.needText, B!State.level, FALSE,
                           B!Alternatives(k))>>
    BY DEF B!EnterMultipart
  <1>2. ASSUME OnlyGroups
        PROVE  /\ stack' \in Seq(Shell) /\ stack' # <<>>
               /\ B!State'.parts = 0 /\ B!State'.needHTML /\ B!State'.needText
    <2> DEFINE inner == B!Container(k, B!State.inAlternative \/ k = "alternative",
                                    B!State.needHTML, B!State.needText, B!State.level, FALSE,
                                    B!Alternatives(k))
               outer == Append(B!Front(stack), B!Counted)
    <2>1. stack \in Seq(Shell) /\ stack # <<>> /\ B!State.needHTML /\ B!State.needText
      BY <1>2 DEF BodyInv
    <2>2. Len(stack) \in Nat /\ Len(stack) \in DOMAIN stack
      BY <2>1, EmptySeq
    <2>3. B!State \in Shell
      BY <2>1, <2>2 DEF B!State, B!Last
    <2>4. inner \in Shell /\ inner.parts = 0 /\ inner.needHTML /\ inner.needText
      BY <2>1, <2>3, AlternativesAre DEF B!Container, Shell, B!Multipart
    <2>5. B!Counted \in Shell
      BY <2>3 DEF B!Counted, Shell
    <2>6. B!Front(stack) \in Seq(Shell)
      <3>1. \A i \in 1..(Len(stack) - 1) : stack[i] \in Shell
        BY <2>1, <2>2
      <3>2. QED
        BY <2>2, <3>1, SubSeqProperties DEF B!Front
    <2>7. outer \in Seq(Shell)
      BY <2>5, <2>6, AppendProperties
    <2>8. stack' = outer \o <<inner>>
      BY <1>1
    <2> HIDE DEF inner, outer
    <2>9. <<inner>> \in Seq(Shell) /\ Len(<<inner>>) = 1 /\ <<inner>>[1] = inner
      BY <2>4
    <2>10. /\ stack' \in Seq(Shell) /\ Len(stack') = Len(outer) + 1 /\ Len(outer) \in Nat
           /\ stack'[Len(outer) + 1] = inner
      BY <2>7, <2>8, <2>9, ConcatProperties
    <2>11. stack' # <<>> /\ B!State' = inner
      BY <2>10 DEF B!State, B!Last
    <2>12. QED
      BY <2>4, <2>10, <2>11
  <1>3. QED
    BY <1>1, <1>2, GroupStep

\* walk, a message.
LEMMA EnterMessageStep ==
  ASSUME BodyInv, NEW k \in B!Multipart \union {"message", "none"}, B!EnterMessage(k) PROVE BodyInv'
  <1>1. /\ parts' = Append(parts, B!Group("message")) /\ UNCHANGED <<textBody, htmlBody>>
        /\ attachments' = Append(attachments, Len(parts'))
    BY DEF B!EnterMessage
  <1>2. QED
    BY <1>1, KindsDiffer, GroupStep

\* What walk wants after a leaf; in an alternative plain text ends the wish for HTML.
LEMMA WantedIs ==
  ASSUME B!State \in Shell, NEW sort, NEW inline \in BOOLEAN
  PROVE  LET w == B!Wanted(sort, inline)
         IN /\ w \in Shell /\ w.within = B!State.within /\ w.kind = B!State.kind
            /\ w.inAlternative = B!State.inAlternative
            /\ \/ w.needHTML \/ ~B!State.needHTML
               \/ sort = "plain" /\ B!State.inAlternative
  <1>1. /\ B!Counted \in Shell /\ B!Counted.within = B!State.within /\ B!Counted.kind = B!State.kind
        /\ B!Counted.inAlternative = B!State.inAlternative /\ B!Counted.needHTML = B!State.needHTML
    BY DEF B!Counted, Shell
  <1>2. QED
    BY <1>1 DEF B!Wanted, Shell

\* What walk does with a leaf: where it goes.
LEMMA LeafMeans ==
  ASSUME NEW leaf \in Leaves, B!VisitLeaf(leaf)
  PROVE  \E h, t, a \in BOOLEAN :
           /\ parts' = Append(parts, leaf)
           /\ htmlBody' = IF h THEN Append(htmlBody, Len(parts) + 1) ELSE htmlBody
           /\ textBody' = IF t THEN Append(textBody, Len(parts) + 1) ELSE textBody
           /\ attachments' = IF a THEN Append(attachments, Len(parts) + 1) ELSE attachments
           /\ h \/ t => leaf.kind \in {"plain", "html", "image"}
           /\ a \/ (h /\ leaf.kind = "html") \/ (t /\ leaf.kind = "plain")
           /\ /\ B!State \in Shell /\ B!State.parts = 0 /\ B!State.needHTML /\ B!State.needText
              /\ leaf.kind \in {"plain", "html"} /\ ~leaf.attached
              => (leaf.kind = "html" => h) /\ (leaf.kind = "plain" => t)
           /\ B!State \in Shell /\ t /\ leaf.kind = "plain" =>
                h \/ B!State.kind = "alternative" \/ B!State.inAlternative \/ ~B!State.needHTML
  <1> DEFINE inline == B!Inline(leaf)
             add == B!AddTo(leaf.kind, inline)
             listed == B!Listed(leaf.kind, add)
  <1>1. /\ parts' = Append(parts, leaf)
        /\ htmlBody' = IF add.html THEN Append(htmlBody, Len(parts) + 1) ELSE htmlBody
        /\ textBody' = IF add.text THEN Append(textBody, Len(parts) + 1) ELSE textBody
        /\ attachments' = IF listed THEN Append(attachments, Len(parts) + 1) ELSE attachments
    BY DEF B!VisitLeaf
  <1>2. inline \in BOOLEAN /\ (inline => leaf.kind \in {"plain", "html", "image"})
    BY DEF B!Inline
  <1>3. CASE B!State.kind = "alternative"
    <2>1. add.html = (leaf.kind = "html") /\ add.text = (leaf.kind = "plain")
      BY <1>3 DEF B!AddTo
    <2>2. listed \in BOOLEAN /\ (listed \/ leaf.kind \in {"html", "plain"})
      BY <2>1 DEF B!Listed
    <2>3. leaf.kind \in B!Leaf
      BY KindsDiffer
    <2> HIDE DEF add, listed
    <2>4. QED
      BY <1>1, <1>3, <2>1, <2>2
  <1>4. CASE B!State.kind # "alternative"
    <2> DEFINE w == B!Wanted(leaf.kind, inline)
    <2>0. B!State \in Shell => w.needHTML \/ ~B!State.needHTML \/ B!State.inAlternative
      BY <1>2, WantedIs
    <2>1. add.html = (inline /\ w.needHTML) /\ add.text = (inline /\ w.needText)
      BY <1>4 DEF B!AddTo
    <2>2. ASSUME B!State \in Shell, B!State.parts = 0, B!State.needHTML, B!State.needText,
                 leaf.kind \in {"plain", "html"}, ~leaf.attached
          PROVE  inline /\ (leaf.kind = "html" => w.needHTML) /\ (leaf.kind = "plain" => w.needText)
      <3>1. B!Counted.parts = 1 /\ B!Counted.needHTML /\ B!Counted.needText /\ B!Counted \in Shell
        BY <2>2 DEF B!Counted, Shell
      <3>2. inline
        BY <2>2, <3>1 DEF B!Inline
      <3>3. leaf.kind = "html" => w.needHTML
        BY <3>1 DEF B!Wanted, Shell
      <3>4. leaf.kind = "plain" => w.needText
        BY <3>1 DEF B!Wanted, Shell
      <3>5. QED
        BY <3>2, <3>3, <3>4
    <2>3. /\ listed \in BOOLEAN
          /\ listed \/ (leaf.kind = "html" /\ add.html) \/ (leaf.kind \in {"plain", "textOther"} /\ add.text)
      BY DEF B!Listed
    <2> HIDE DEF w, inline
    <2>4. add.html \in BOOLEAN /\ add.text \in BOOLEAN /\ (add.html \/ add.text => inline)
      BY <2>1
    <2> HIDE DEF add, listed
    <2>5. /\ add.html \/ add.text => leaf.kind \in {"plain", "html", "image"}
          /\ listed \/ (add.html /\ leaf.kind = "html") \/ (add.text /\ leaf.kind = "plain")
      BY <1>2, <2>3, <2>4
    <2>6. /\ B!State \in Shell /\ B!State.parts = 0 /\ B!State.needHTML /\ B!State.needText
          /\ leaf.kind \in {"plain", "html"} /\ ~leaf.attached
          => (leaf.kind = "html" => add.html) /\ (leaf.kind = "plain" => add.text)
      BY <2>1, <2>2
    <2>7. B!State \in Shell /\ add.text => add.html \/ B!State.inAlternative \/ ~B!State.needHTML
      BY <2>0, <2>1
    <2>8. QED
      BY <1>1, <2>3, <2>4, <2>5, <2>6, <2>7
  <1>5. QED
    BY <1>3, <1>4

\* walk, a leaf.
LEMMA VisitLeafStep ==
  ASSUME BodyInv, NEW leaf \in Leaves, B!VisitLeaf(leaf) PROVE BodyInv'
  <1>1. PICK h, t, a \in BOOLEAN :
          /\ parts' = Append(parts, leaf)
          /\ htmlBody' = IF h THEN Append(htmlBody, Len(parts) + 1) ELSE htmlBody
          /\ textBody' = IF t THEN Append(textBody, Len(parts) + 1) ELSE textBody
          /\ attachments' = IF a THEN Append(attachments, Len(parts) + 1) ELSE attachments
          /\ h \/ t => leaf.kind \in {"plain", "html", "image"}
          /\ a \/ (h /\ leaf.kind = "html") \/ (t /\ leaf.kind = "plain")
          /\ /\ B!State \in Shell /\ B!State.parts = 0 /\ B!State.needHTML /\ B!State.needText
             /\ leaf.kind \in {"plain", "html"} /\ ~leaf.attached
             => (leaf.kind = "html" => h) /\ (leaf.kind = "plain" => t)
    BY LeafMeans
  <1> DEFINE new == Len(parts) + 1
  <1>2. leaf \in Piece /\ leaf.kind \notin B!Multipart
    BY KindsDiffer DEF Piece
  <1>3. /\ parts' \in Seq(Piece) /\ Len(parts) \in Nat /\ Len(parts') = new
        /\ parts'[new] = leaf /\ \A i \in 1..Len(parts) : parts'[i] = parts[i]
        /\ ~OnlyGroups'
        /\ \A i \in 1..Len(parts) : B!Text(i)' <=> B!Text(i)
        /\ B!Opening' \subseteq B!Opening \union
             {i \in {new} : OnlyGroups /\ leaf.kind \in {"plain", "html"} /\ ~leaf.attached}
    BY <1>1, <1>2, PartsGrow
  <1>4. /\ attachments \in Seq(Nat) /\ textBody \in Seq(Nat) /\ htmlBody \in Seq(Nat) /\ new \in Nat
        /\ BodyList(textBody, parts) /\ BodyList(htmlBody, parts)
    BY <1>3 DEF BodyInv, BodyList
  <1>5. BodyList(textBody', parts')
    <2>1. /\ BodyList(textBody, parts')
          /\ leaf.kind \in {"plain", "html", "image"} => BodyList(Append(textBody, new), parts')
      BY <1>1, <1>2, <1>4, BodyListKeeps
    <2>2. QED
      BY <1>1, <2>1
  <1>6. BodyList(htmlBody', parts')
    <2>1. /\ BodyList(htmlBody, parts')
          /\ leaf.kind \in {"plain", "html", "image"} => BodyList(Append(htmlBody, new), parts')
      BY <1>1, <1>2, <1>4, BodyListKeeps
    <2>2. QED
      BY <1>1, <2>1
  <1>7. /\ Append(attachments, new) \in Seq(Nat)
        /\ B!ToSet(Append(attachments, new)) = B!ToSet(attachments) \union {new}
        /\ B!ToSet(Append(textBody, new)) = B!ToSet(textBody) \union {new}
        /\ B!ToSet(Append(htmlBody, new)) = B!ToSet(htmlBody) \union {new}
        /\ Append(textBody, new) # <<>> /\ Append(htmlBody, new) # <<>>
        /\ Append(textBody, new)[1] = IF textBody = <<>> THEN new ELSE textBody[1]
        /\ Append(htmlBody, new)[1] = IF htmlBody = <<>> THEN new ELSE htmlBody[1]
    BY <1>4, AppendMeans
  <1> HIDE DEF new
  <1>8. /\ attachments' \in Seq(Nat) /\ B!ToSet(attachments) \subseteq B!ToSet(attachments')
        /\ a => new \in B!ToSet(attachments')
    BY <1>1, <1>4, <1>7 DEF new
  <1>9. /\ B!ToSet(textBody) \subseteq B!ToSet(textBody') /\ (t => new \in B!ToSet(textBody'))
        /\ B!ToSet(htmlBody) \subseteq B!ToSet(htmlBody') /\ (h => new \in B!ToSet(htmlBody'))
    BY <1>1, <1>7 DEF new
  <1>10. ASSUME NEW i \in 1..Len(parts'), parts'[i].kind \in B!Leaf
         PROVE  \/ i \in B!ToSet(attachments')
                \/ parts'[i].kind = "html" /\ i \in B!ToSet(htmlBody')
                \/ parts'[i].kind = "plain" /\ i \in B!ToSet(textBody')
    <2>1. CASE i \in 1..Len(parts)
      BY <1>3, <1>8, <1>9, <1>10, <2>1 DEF BodyInv
    <2>2. CASE i = new
      BY <1>1, <1>3, <1>8, <1>9, <2>2
    <2>3. QED
      BY <1>3, <2>1, <2>2 DEF new
  <1>11. \A i \in B!Opening' :
           i \in B!ToSet(htmlBody') \/ (parts'[i].kind = "plain" /\ i \in B!ToSet(textBody'))
    <2>1. ASSUME OnlyGroups, leaf.kind \in {"plain", "html"}, ~leaf.attached
          PROVE  new \in B!ToSet(htmlBody') \/ (leaf.kind = "plain" /\ new \in B!ToSet(textBody'))
      <3>1. /\ stack \in Seq(Shell) /\ stack # <<>>
            /\ B!State.parts = 0 /\ B!State.needHTML /\ B!State.needText
        BY <2>1 DEF BodyInv
      <3>2. B!State \in Shell
        BY <3>1, EmptySeq DEF B!State, B!Last
      <3>3. h \/ (leaf.kind = "plain" /\ t)
        BY <1>1, <2>1, <3>1, <3>2
      <3>4. QED
        BY <1>9, <3>3
    <2>2. ASSUME NEW i \in B!Opening, i \in 1..Len(parts)
          PROVE  i \in B!ToSet(htmlBody') \/ (parts'[i].kind = "plain" /\ i \in B!ToSet(textBody'))
      BY <1>3, <1>9, <2>2 DEF BodyInv
    <2>3. \A i \in B!Opening : i \in 1..Len(parts)
      BY DEF B!Opening, B!Index, BodyInv
    <2>4. QED
      BY <1>3, <2>1, <2>2, <2>3
  <1>12. QED
    BY <1>3, <1>5, <1>6, <1>8, <1>10, <1>11 DEF BodyInv

LEMMA BodyStep == BodyInv /\ (B!Next \/ UNCHANGED bodyVars) => BodyInv'
  <1> SUFFICES ASSUME BodyInv, B!Next \/ UNCHANGED bodyVars PROVE BodyInv'
    OBVIOUS
  <1>1. CASE B!Leave
    <2>1. UNCHANGED <<parts, textBody, htmlBody, attachments>> /\ B!State.parts > 0
      BY <1>1 DEF B!Leave
    <2>2. ~OnlyGroups
      BY <2>1 DEF BodyInv
    <2>3. ~OnlyGroups' /\ B!Opening' = B!Opening
      BY <2>1, <2>2 DEF OnlyGroups, B!Opening, B!Index, B!Text
    <2>4. QED
      BY <2>1, <2>2, <2>3 DEF BodyInv
  <1>2. CASE UNCHANGED bodyVars
    BY <1>2 DEF bodyVars, BodyInv, OnlyGroups, B!Opening, B!Index, B!Text, B!State
  <1>3. QED
    BY <1>1, <1>2, EnterMultipartStep, EnterMessageStep, VisitLeafStep DEF B!Next

-----------------------------------------------------------------------------
(* Types: Autoconfig *)

\* The server chosen for SMTP has a port.
LEMMA FirstPort ==
  ASSUME NEW s, NEW mode, \A i \in 1..Len(s) : s[i].port \in Nat,
         {i \in 1..Len(s) : s[i].socket = mode /\ s[i].ok} # {}
  PROVE  s[A!Min({i \in 1..Len(s) : s[i].socket = mode /\ s[i].ok})].port \in Nat
  <1> DEFINE I == {i \in 1..Len(s) : s[i].socket = mode /\ s[i].ok}
  <1>1. I \in SUBSET Nat /\ I # {} /\ I \subseteq 1..Len(s)
    OBVIOUS
  <1>2. A!Min(I) \in I
    <2> HIDE DEF I
    <2>1. PICK i \in I : \A j \in I : i <= j
      BY <1>1, LeastExists
    <2>2. QED
      BY <2>1 DEF A!Min
  <1>3. QED
    BY <1>1, <1>2

LEMMA SmtpPort ==
  ASSUME NEW doc \in Document, A!Smtp(doc) # NoConfig
  PROVE  A!Smtp(doc).port \in Nat
  <1> DEFINE I(mode) == {i \in 1..Len(doc.outgoing) : doc.outgoing[i].socket = mode /\ doc.outgoing[i].ok}
             F(mode) == IF (IF I(mode) # {} THEN A!Min(I(mode)) ELSE 0) = 0 THEN NoConfig
                        ELSE doc.outgoing[IF I(mode) # {} THEN A!Min(I(mode)) ELSE 0]
  <1>1. A!Smtp(doc) = IF F("STARTTLS") # NoConfig THEN F("STARTTLS") ELSE F("SSL")
    BY DEF A!Smtp, A!First, A!SelectInSeq
  <1>2. \A i \in 1..Len(doc.outgoing) : doc.outgoing[i].port \in Nat
    BY PartsAssumption
  <1>3. \A mode : F(mode) # NoConfig => F(mode).port \in Nat
    BY <1>2, FirstPort
  <1> HIDE DEF F
  <1>4. QED
    BY <1>1, <1>3

\* mxLookup finds one of the hosts.
LEMMA LowestIs ==
  ASSUME NEW answer \in MxAnswer
  PROVE  A!Lowest(answer) \in {"none", "own", "google", "provider"}
  <1> DEFINE Record == [host : {"own", "google", "provider"}, pref : Nat]
             Places == 1..Len(answer)
             Before(i, j) == \/ answer[i].pref < answer[j].pref
                             \/ answer[i].pref = answer[j].pref /\ i <= j
             Wins(i) == \A j \in Places : Before(i, j)
  <1>1. answer \in Seq(Record) /\ DOMAIN answer = Places
    BY PartsAssumption
  <1>2. \A i \in Places : answer[i] \in Record
    <2> HIDE DEF Record
    <2>1. QED
      BY <1>1
  <1>3. \A i \in Places : answer[i].pref \in Nat /\ answer[i].host \in {"own", "google", "provider"}
    BY <1>2
  <1>4. CASE answer # <<>>
    <2> DEFINE Prefs == {answer[i].pref : i \in Places}
    <2>1. 1 \in Places
      BY <1>1, <1>4, EmptySeq
    <2>2. Prefs \in SUBSET Nat /\ Prefs # {}
      BY <1>3, <2>1
    <2>3. PICK p \in Prefs : \A q \in Prefs : p <= q
      <3> HIDE DEF Prefs
      <3>1. QED
        BY <2>2, LeastExists
    <2> DEFINE First == {i \in Places : answer[i].pref = p}
    <2>4. First \in SUBSET Nat /\ First # {}
      BY <2>3
    <2>5. PICK i \in First : \A j \in First : i <= j
      <3> HIDE DEF First
      <3>1. QED
        BY <2>4, LeastExists
    <2>6. ASSUME NEW j \in Places PROVE Before(i, j)
      <3>1. answer[i].pref = p /\ p <= answer[j].pref /\ p \in Nat /\ answer[j].pref \in Nat
        BY <1>3, <2>2, <2>3, <2>5
      <3>2. answer[j].pref = p => i <= j
        BY <2>5
      <3>3. QED
        BY <3>1, <3>2
    <2>7. i \in Places /\ Wins(i)
      BY <2>5, <2>6
    <2> DEFINE k == CHOOSE k \in Places : Wins(k)
    <2>8. k \in Places
      <3> HIDE DEF Before, Places
      <3>1. QED
        BY <2>7
    <2>9. A!Lowest(answer) = answer[k].host
      BY <1>1, <1>4 DEF A!Lowest
    <2> HIDE DEF k, Places
    <2>10. QED
      BY <1>3, <2>8, <2>9
  <1>5. CASE answer = <<>>
    BY <1>5 DEF A!Lowest
  <1>6. QED
    BY <1>4, <1>5

\* An answer is an account's settings.
Settings == [kind : {"imap", "gmail"}, smtp : [socket : {"STARTTLS", "SSL"}, port : Nat],
             source : {"autoconfig", "ispdb", "mx", "srv", "guess"}, confident : BOOLEAN]

LEMMA FinalizeIs ==
  ASSUME NEW p, p.smtp.socket \in {"STARTTLS", "SSL"}, p.smtp.port \in Nat,
         NEW s \in {"subdomain", "wellknown", "ispdb", "mxSubdomain", "mxIspdb", "srv"}, NEW host
  PROVE  A!Finalize(p, A!SourceOf(s), host) \in Settings
  <1>1. A!SourceOf(s) \in {"autoconfig", "ispdb", "mx", "srv"}
    BY DEF A!SourceOf
  <1>2. QED
    BY <1>1 DEF A!Finalize, A!GmailFields, Settings

\* Discovery has no answer until it is done, and is done within its budget.
DiscoveryTypes ==
  /\ world.doc \in [A!Web -> Document] /\ world.mx \in MxAnswer
  /\ mx \in {"none", "own", "google", "provider"}
  /\ late \subseteq {A!Chain[i] : i \in 1..8}
  /\ step = "done" => result \in Settings
  /\ step # "done" => result = NoConfig

LEMMA DiscoveryTypesInit == A!Init => DiscoveryTypes
  <1> SUFFICES ASSUME A!Init PROVE DiscoveryTypes
    OBVIOUS
  <1>1. step # "done"
    BY ChainIs DEF A!Init
  <1>2. QED
    BY <1>1 DEF A!Init, DiscoveryTypes

LEMMA DiscoveryTypesStep ==
  DiscoveryInv /\ DiscoveryTypes /\ (A!Next \/ UNCHANGED discoveryVars) => DiscoveryTypes'
  <1> SUFFICES ASSUME DiscoveryInv, DiscoveryTypes, A!Next \/ UNCHANGED discoveryVars
               PROVE  DiscoveryTypes'
    OBVIOUS
  <1> DEFINE Sources == {A!Chain[i] : i \in 1..8}
             Known == {"none", "own", "google", "provider"}
  <1>1. A!Web \union {"mx", "srv", "guess"} \subseteq Sources /\ "done" \notin Sources
    BY ChainIs DEF A!Web
  <1>2. ASSUME NEW i \in 1..7 PROVE A!After(A!Chain[i]) # "done"
    BY AfterIs, ChainIs
  <1>3. ASSUME world' = world, mx' \in Known, late' \subseteq Sources,
               \/ step' = "done" /\ result' \in Settings
               \/ step # "done" /\ step' # "done" /\ result' = result
        PROVE  DiscoveryTypes'
    BY <1>3 DEF DiscoveryTypes
  <1>4. ASSUME NEW s \in A!Web, A!Fetch(s) PROVE DiscoveryTypes'
    <2>1. PICK d \in Delay :
            /\ A!Spend(d, A!HttpTimeout)
            /\ \/ /\ A!Parse(world.doc[s]) # NoConfig
                  /\ A!Finish(A!Finalize(A!Parse(world.doc[s]), A!SourceOf(s), mx)) /\ UNCHANGED late
               \/ step' = A!After(s) /\ late' \in {late, late \union {s}} /\ UNCHANGED result
      BY <1>4 DEF A!Fetch
    <2>2. step = s /\ UNCHANGED <<world, mx>> /\ s \in Sources
      BY <1>1, <1>4 DEF A!Fetch
    <2>3. late' \subseteq Sources
      BY <2>1, <2>2 DEF DiscoveryTypes
    <2>4. CASE step' = A!After(s) /\ UNCHANGED result
      <3>1. PICK i \in {1, 2, 3, 5, 6} : s = A!Chain[i]
        BY ChainIs DEF A!Web
      <3>2. step' # "done" /\ step # "done"
        BY <1>1, <1>2, <2>2, <2>4, <3>1
      <3>3. QED
        BY <1>3, <2>2, <2>3, <2>4, <3>2 DEF DiscoveryTypes
    <2>5. CASE /\ A!Parse(world.doc[s]) # NoConfig
               /\ A!Finish(A!Finalize(A!Parse(world.doc[s]), A!SourceOf(s), mx))
      <3> DEFINE doc == world.doc[s]
                 p == A!Parse(doc)
      <3>1. doc \in Document
        BY DEF DiscoveryTypes
      <3>2. p.smtp.socket \in {"STARTTLS", "SSL"} /\ p.smtp.port \in Nat
        BY <2>5, <3>1, ParseMeans, SmtpMeans, SmtpPort
      <3>3. result' = A!Finalize(p, A!SourceOf(s), mx) /\ step' = "done"
        BY <2>5 DEF A!Finish
      <3> HIDE DEF p
      <3>4. result' \in Settings
        BY <3>2, <3>3, FinalizeIs DEF A!Web
      <3>5. QED
        BY <1>3, <2>2, <2>3, <3>3, <3>4 DEF DiscoveryTypes
    <2>6. QED
      BY <2>1, <2>4, <2>5
  <1>5. CASE A!LookupMX
    <2>1. PICK d \in Delay \union {A!TotalTimeout} :
            /\ A!Spend(d, A!TotalTimeout)
            /\ mx' \in {"none", A!Lowest(world.mx)}
            /\ \/ A!Finish(A!GmailFields("mx"))
               \/ step' \in {A!After("mx"), A!After("mxIspdb")} /\ UNCHANGED result
            /\ late' \in {late, late \union {"mx"}}
      BY <1>5 DEF A!LookupMX
    <2>2. step = "mx" /\ world' = world
      BY <1>5 DEF A!LookupMX
    <2>3. late' \subseteq Sources
      BY <1>1, <2>1 DEF DiscoveryTypes
    <2>4. mx' \in Known
      BY <2>1, LowestIs DEF DiscoveryTypes
    <2>5. A!After("mx") # "done" /\ A!After("mxIspdb") # "done"
      BY <1>2, ChainIs
    <2>6. A!GmailFields("mx") \in Settings
      BY DEF A!GmailFields, Settings
    <2>7. \/ step' = "done" /\ result' \in Settings
          \/ step # "done" /\ step' # "done" /\ result' = result
      BY <2>1, <2>2, <2>5, <2>6 DEF A!Finish
    <2>8. QED
      BY <1>3, <2>2, <2>3, <2>4, <2>7
  <1>6. CASE A!LookupSRV
    <2> DEFINE p == A!Srv(world.imaps, world.submission)
    <2>1. PICK d \in Delay \union {A!TotalTimeout} :
            /\ A!Spend(d, A!TotalTimeout)
            /\ \/ p # NoConfig /\ A!Finish(A!Finalize(p, "srv", "none")) /\ UNCHANGED late
               \/ step' = A!After("srv") /\ late' \in {late, late \union {"srv"}} /\ UNCHANGED result
      BY <1>6 DEF A!LookupSRV
    <2>2. step = "srv" /\ UNCHANGED <<world, mx>>
      BY <1>6 DEF A!LookupSRV
    <2>3. late' \subseteq Sources
      BY <1>1, <2>1 DEF DiscoveryTypes
    <2>4. A!After("srv") # "done"
      BY <1>2, ChainIs
    <2>5. p # NoConfig => p.smtp.socket \in {"STARTTLS", "SSL"} /\ p.smtp.port \in Nat
      BY DEF A!Srv, DiscoveryInv, A!NotOffered
    <2>6. "srv" = A!SourceOf("srv")
      BY DEF A!SourceOf
    <2> HIDE DEF p
    <2>7. p # NoConfig => A!Finalize(p, "srv", "none") \in Settings
      BY <2>5, <2>6, FinalizeIs
    <2>8. \/ step' = "done" /\ result' \in Settings
          \/ step # "done" /\ step' # "done" /\ result' = result
      BY <2>1, <2>2, <2>4, <2>7 DEF A!Finish
    <2>9. QED
      BY <1>3, <2>2, <2>3, <2>8 DEF DiscoveryTypes
  <1>7. CASE A!FallBack
    <2>1. A!Guess \in Settings
      BY DEF A!Guess, A!GmailFields, Settings
    <2>2. QED
      BY <1>3, <1>7, <2>1 DEF A!FallBack, A!Finish, DiscoveryTypes
  <1>8. CASE UNCHANGED discoveryVars
    BY <1>8 DEF discoveryVars, DiscoveryTypes
  <1>9. QED
    BY <1>4, <1>5, <1>6, <1>7, <1>8 DEF A!Next

LEMMA DiscoveryTyped == DiscoveryInv /\ DiscoveryTypes => A!TypeOK
  <1> SUFFICES ASSUME DiscoveryInv, DiscoveryTypes PROVE A!TypeOK
    OBVIOUS
  <1>1. A!ToSet(A!Chain) = {A!Chain[i] : i \in 1..8}
    BY ChainIs DEF A!ToSet
  <1>2. NoConfig \notin Settings
    BY PartsAssumption DEF Settings
  <1>3. QED
    BY <1>1, <1>2 DEF DiscoveryInv, DiscoveryTypes, A!TypeOK

-----------------------------------------------------------------------------
(* Types: Shipments *)

Found == [carrier : H!Carrier, number : Parcel \union {Nothing}, url : Parcel \union {Nothing},
          order : BOOLEAN]

\* A captured link is a parcel's.
LEMMA CapturedIs ==
  ASSUME NEW m \in Message, NEW c
  PROVE  H!Captured(m, c) \in Parcel \union {Nothing}
  <1> DEFINE Links == [carrier : H!Carrier, parcel : Parcel]
  <1>1. m.links \in Seq(Links)
    BY PartsAssumption
  <1>2. CASE H!LinksOf(m, c) # {}
    <2> DEFINE I == H!LinksOf(m, c)
    <2>1. I \in SUBSET (1..Len(m.links)) /\ Len(m.links) \in Nat
      BY <1>1 DEF H!LinksOf
    <2>2. PICK i \in I : \A j \in I : i <= j
      <3>1. I \in SUBSET Nat /\ I # {}
        BY <1>2, <2>1
      <3> HIDE DEF I
      <3>2. QED
        BY <3>1, LeastExists
    <2>3. H!Min(I) \in I
      BY <2>2 DEF H!Min
    <2> HIDE DEF I
    <2>4. m.links[H!Min(I)] \in Links
      <3>1. H!Min(I) \in 1..Len(m.links)
        BY <2>1, <2>3
      <3> HIDE DEF Links
      <3>2. \A k \in 1..Len(m.links) : m.links[k] \in Links
        BY <1>1
      <3>3. QED
        BY <3>1, <3>2
    <2>5. m.links[H!Min(I)].parcel \in Parcel
      BY <2>4
    <2>6. QED
      BY <1>2, <2>5 DEF H!Captured, I
  <1>3. CASE H!LinksOf(m, c) = {}
    BY <1>3 DEF H!Captured
  <1>4. QED
    BY <1>2, <1>3

\* A shipment of a carrier, with a number.
LEMMA ShipmentIs ==
  ASSUME NEW m \in Message, NEW c \in H!Carrier, NEW p \in Parcel
  PROVE  H!Shipment(m, c, p) \in Found
  <1>1. H!TrackingURL(m, c, p) \in Parcel \union {Nothing}
    BY CapturedIs DEF H!TrackingURL
  <1>2. QED
    BY <1>1 DEF H!Shipment, Found

\* A number that is found is a carrier's number of a parcel.
LEMMA NumberIs ==
  ASSUME NEW m \in Message, NEW x \in H!Numbers(m)
  PROVE  x.carrier \in H!Carrier /\ x.parcel \in Parcel
  <1>1. PICK t \in H!ToSet(m.tokens) : x = H!Classify(t) /\ t.parcel = x.parcel
    BY NumbersMean
  <1>2. t.shape \in DOMAIN H!CarrierOf /\ t.parcel \in Parcel
    BY PartsAssumption
  <1>3. H!CarrierOf[t.shape] \in H!Carrier
    BY <1>2 DEF H!CarrierOf, H!Carrier
  <1>4. x.carrier # Nothing
    BY DEF H!Numbers
  <1>5. x.carrier \in {"fedex", "usps"} \/ x.carrier = H!CarrierOf[t.shape] \/ x.carrier = Nothing
    <2> DEFINE named == t.near \intersect {"fedex", "usps"}
               pick == CHOOSE c \in named : TRUE
    <2>1. \/ x.carrier = Nothing \/ x.carrier = H!CarrierOf[t.shape]
          \/ x.carrier = pick /\ \E c \in named : named = {c}
      BY <1>1 DEF H!Classify
    <2>2. (\E c \in named : named = {c}) => pick \in {"fedex", "usps"}
      OBVIOUS
    <2> HIDE DEF pick, named
    <2>3. QED
      BY <2>1, <2>2
  <1>6. QED
    BY <1>1, <1>2, <1>3, <1>4, <1>5 DEF H!Carrier

\* Extract finds shipments.
LEMMA FoundIs ==
  ASSUME NEW m \in Message, NEW s \in H!Extract(m)
  PROVE  s \in Found
  <1> DEFINE Links == [carrier : H!Carrier, parcel : Parcel]
  <1>1. m.links \in Seq(Links) /\ m.order \in BOOLEAN
    BY PartsAssumption
  <1>2. \A i \in 1..Len(m.links) : m.links[i].carrier \in H!Carrier
    <2>1. \A i \in 1..Len(m.links) : m.links[i] \in Links
      <3> HIDE DEF Links
      <3>1. QED
        BY <1>1
    <2>2. QED
      BY <2>1
  <1>3. CASE s \in H!Verified(m)
    <2>1. PICK x \in H!Numbers(m) : s = H!Shipment(m, x.carrier, x.parcel)
      BY <1>3 DEF H!Verified
    <2>2. QED
      BY <2>1, NumberIs, ShipmentIs
  <1>4. CASE s \in H!Guessed(m)
    <2> DEFINE Of(x) == IF ~(x.carrier \in x.near) /\ m.links # <<>> THEN m.links[1].carrier
                        ELSE x.carrier
    <2>1. PICK x \in H!Numbers(m) : s = H!Shipment(m, Of(x), x.parcel)
      BY <1>4 DEF H!Guessed
    <2>2. m.links # <<>> => 1 \in 1..Len(m.links)
      <3> HIDE DEF Links
      <3>1. QED
        BY <1>1, EmptySeq
    <2>3. Of(x) \in H!Carrier
      BY <1>2, <2>2, NumberIs
    <2> HIDE DEF Of
    <2>4. QED
      BY <2>1, <2>3, NumberIs, ShipmentIs
  <1>5. CASE s \in H!Linked(m)
    <2>1. PICK c \in {l.carrier : l \in H!ToSet(m.links)} :
            s = [carrier |-> c, number |-> Nothing, url |-> H!Captured(m, c), order |-> FALSE]
      BY <1>5 DEF H!Linked
    <2>2. DOMAIN m.links = 1..Len(m.links)
      <3> HIDE DEF Links
      <3>1. QED
        BY <1>1
    <2>3. c \in H!Carrier
      BY <1>2, <2>2 DEF H!ToSet
    <2>4. H!Captured(m, c) \in Parcel \union {Nothing}
      BY CapturedIs
    <2>5. QED
      BY <2>1, <2>3, <2>4 DEF Found
  <1>6. CASE s \in H!OfAmazon(m)
    <2>1. s = [carrier |-> "amazon", number |-> Nothing, url |-> H!Captured(m, "amazon"),
               order |-> m.order]
      BY <1>6 DEF H!OfAmazon
    <2>2. H!Captured(m, "amazon") \in Parcel \union {Nothing}
      BY CapturedIs
    <2>3. QED
      BY <1>1, <2>1, <2>2 DEF Found, H!Carrier
  <1>7. QED
    BY <1>3, <1>4, <1>5, <1>6 DEF H!Extract, H!Numbered

LEMMA ShipmentTyped == ShipmentInv => H!TypeOK
  BY FoundIs DEF ShipmentInv, H!TypeOK, Found

-----------------------------------------------------------------------------
(* Types: Checksums *)

\* The check digit is a digit.
LEMMA ExpectedIs ==
  ASSUME NEW k \in Kind, NEW serial \in Numeral(k)
  PROVE  C!Expected(k, serial) \in C!Digit
  <1> DEFINE r == C!Remainder(k, serial)
  <1>1. C!Sum(k, serial) \in Nat
    <2>1. Len(serial) \in 0..Len(serial)
      BY NumeralIs
    <2>2. QED
      BY <2>1, SumIs
  <1>2. CASE k = "s10"
    <2>1. r \in 0..10
      BY <1>1, <1>2 DEF C!Remainder
    <2>2. C!Expected(k, serial) = IF r = 1 THEN 0 ELSE IF r = 0 THEN 5 ELSE 11 - r
      BY <1>2 DEF C!Expected
    <2> HIDE DEF r
    <2>3. QED
      BY <2>1, <2>2 DEF C!Digit
  <1>3. CASE k # "s10"
    <2>1. r \in 0..9
      BY <1>1, <1>3 DEF C!Remainder
    <2>2. C!Expected(k, serial) = (10 - r) % 10
      BY <1>3 DEF C!Expected
    <2> HIDE DEF r
    <2>3. QED
      BY <2>1, <2>2 DEF C!Digit
  <1>4. QED
    BY <1>2, <1>3

LEMMA ChecksumTyped == ChecksumInv => {number, original} \subseteq Seq(C!Digit)
  <1> SUFFICES ASSUME ChecksumInv PROVE {number, original} \subseteq Seq(C!Digit)
    OBVIOUS
  <1>1. PICK serial \in Numeral(scheme) :
          /\ original = Append(serial, C!Expected(scheme, serial))
          /\ number # original => \E p \in DOMAIN original, d \in C!Digit :
               number = [original EXCEPT ![p] = d]
    BY DEF ChecksumInv
  <1>2. serial \in Seq(C!Digit) /\ C!Expected(scheme, serial) \in C!Digit
    BY ExpectedIs DEF ChecksumInv, Numeral
  <1>3. original \in Seq(C!Digit)
    BY <1>1, <1>2, AppendProperties
  <1>4. ASSUME NEW p \in DOMAIN original, NEW d \in C!Digit
        PROVE  [original EXCEPT ![p] = d] \in Seq(C!Digit)
    BY <1>3, <1>4, ExceptSeq
  <1>5. number \in Seq(C!Digit)
    BY <1>1, <1>3, <1>4
  <1>6. QED
    BY <1>3, <1>5

-----------------------------------------------------------------------------
(* Types: BodyParts *)

\* The indexes of the lists are indexes of parts, and the bounds are kept; a body list's
\* indexes are in BodyInv.
BodyTypes ==
  /\ stack \in Seq(Shell) /\ Len(stack) <= MaxDepth /\ Len(parts) <= MaxParts
  /\ attachments \in Seq(1..Len(parts))

LEMMA BodyTypesInit == B!Init => BodyTypes
  <1> SUFFICES ASSUME B!Init PROVE BodyTypes
    OBVIOUS
  <1> DEFINE shell == B!Container("message", FALSE, TRUE, TRUE, 0, TRUE, {})
  <1>1. stack = <<shell>> /\ parts = <<>> /\ attachments = <<>>
    BY DEF B!Init
  <1>2. shell \in Shell
    BY DEF B!Container, Shell
  <1> HIDE DEF shell
  <1>3. stack \in Seq(Shell) /\ Len(stack) = 1 /\ Len(parts) = 0 /\ attachments \in Seq(1..Len(parts))
    BY <1>1, <1>2, EmptySeq
  <1>4. QED
    BY <1>3, PartsAssumption DEF BodyTypes

\* What is outside of the innermost container.
LEMMA FrontIs ==
  ASSUME NEW s \in Seq(Shell), s # <<>>
  PROVE  B!Front(s) \in Seq(Shell) /\ Len(B!Front(s)) = Len(s) - 1
  <1> DEFINE m == Len(s) - 1
  <1>1. Len(s) \in Nat \ {0}
    BY EmptySeq
  <1>2. m \in Nat /\ 1 \in Int /\ m \in Int /\ \A i \in 1..m : s[i] \in Shell
    BY <1>1
  <1>3. B!Front(s) = SubSeq(s, 1, m)
    BY DEF B!Front
  <1> HIDE DEF m
  <1>4. SubSeq(s, 1, m) \in Seq(Shell) /\ Len(SubSeq(s, 1, m)) = IF 1 <= m THEN m - 1 + 1 ELSE 0
    BY <1>2, SubSeqProperties
  <1>5. Len(SubSeq(s, 1, m)) = m
    BY <1>2, <1>4
  <1>6. QED
    BY <1>3, <1>4, <1>5 DEF m

\* The innermost container with one part more, and what is outside of it.
LEMMA StackMeans ==
  ASSUME BodyTypes, stack # <<>>
  PROVE  /\ Len(stack) \in Nat \ {0} /\ B!State \in Shell /\ B!Counted \in Shell
         /\ B!Front(stack) \in Seq(Shell) /\ Len(B!Front(stack)) = Len(stack) - 1
         /\ \A x \in Shell : /\ Append(B!Front(stack), x) \in Seq(Shell)
                             /\ Len(Append(B!Front(stack), x)) = Len(stack)
  <1>1. stack \in Seq(Shell) /\ Len(stack) \in Nat \ {0} /\ Len(stack) \in DOMAIN stack
    BY EmptySeq DEF BodyTypes
  <1>2. B!State \in Shell
    BY <1>1 DEF B!State, B!Last
  <1>3. B!Counted \in Shell
    BY <1>2 DEF B!Counted, Shell
  <1>4. B!Front(stack) \in Seq(Shell) /\ Len(B!Front(stack)) = Len(stack) - 1
    BY <1>1, FrontIs
  <1>5. ASSUME NEW x \in Shell
        PROVE  /\ Append(B!Front(stack), x) \in Seq(Shell)
               /\ Len(Append(B!Front(stack), x)) = Len(stack)
    <2> DEFINE front == B!Front(stack)
    <2>1. front \in Seq(Shell) /\ Len(front) = Len(stack) - 1
      BY <1>4
    <2> HIDE DEF front
    <2>2. Append(front, x) \in Seq(Shell) /\ Len(Append(front, x)) = Len(front) + 1
      BY <2>1, AppendProperties
    <2>3. QED
      BY <1>1, <2>1, <2>2 DEF front
  <1>6. QED
    BY <1>1, <1>2, <1>3, <1>4, <1>5

\* A part joins the list of parts, and the attachments or not.
LEMMA PartJoins ==
  ASSUME BodyInv, BodyTypes, B!Open, NEW x \in Piece, parts' = Append(parts, x),
         attachments' \in {attachments, Append(attachments, Len(parts) + 1)}
  PROVE  Len(parts') = Len(parts) + 1 /\ Len(parts') <= MaxParts /\ attachments' \in Seq(1..Len(parts'))
  <1>1. Len(parts) \in Nat /\ Len(parts') = Len(parts) + 1
    BY PartsGrow
  <1>2. Len(parts) < MaxParts /\ MaxParts \in Nat
    BY PartsAssumption DEF B!Open
  <1>3. attachments \in Seq(1..Len(parts'))
    <2>1. 1..Len(parts) \subseteq 1..Len(parts')
      BY <1>1
    <2>2. attachments \in Seq(1..Len(parts))
      BY DEF BodyTypes
    <2>3. QED
      BY <2>1, <2>2
  <1>4. Len(parts) + 1 \in 1..Len(parts')
    BY <1>1
  <1>5. Append(attachments, Len(parts) + 1) \in Seq(1..Len(parts'))
    BY <1>3, <1>4, AppendProperties
  <1>6. Len(parts') <= MaxParts
    BY <1>1, <1>2
  <1>7. QED
    BY <1>1, <1>3, <1>5, <1>6

\* A container is entered, or a part is met that is none.
LEMMA ShellOnTop ==
  ASSUME BodyTypes, stack # <<>>, Len(stack) < MaxDepth, NEW top, top = <<>> \/ \E x \in Shell : top = <<x>>,
         stack' = Append(B!Front(stack), B!Counted) \o top
  PROVE  stack' \in Seq(Shell) /\ Len(stack') <= MaxDepth
  <1> DEFINE under == Append(B!Front(stack), B!Counted)
  <1>1. under \in Seq(Shell) /\ Len(under) = Len(stack) /\ Len(stack) \in Nat
    BY StackMeans
  <1> HIDE DEF under
  <1>2. top \in Seq(Shell) /\ Len(top) \in {0, 1}
    <2>1. CASE top = <<>>
      BY <2>1, EmptySeq
    <2>2. ASSUME NEW x \in Shell, top = <<x>> PROVE top \in Seq(Shell) /\ Len(top) = 1
      BY <2>2
    <2>3. QED
      BY <2>1, <2>2
  <1>3. stack' \in Seq(Shell) /\ Len(stack') = Len(under) + Len(top)
    BY <1>1, <1>2, ConcatProperties DEF under
  <1>4. MaxDepth \in Nat
    BY PartsAssumption
  <1>5. Len(stack') <= Len(stack) + 1
    <2> DEFINE m == Len(stack)
               j == Len(top)
    <2>1. m \in Nat /\ j \in {0, 1} /\ Len(stack') = m + j
      BY <1>1, <1>2, <1>3
    <2> HIDE DEF m, j
    <2>2. m + j <= m + 1
      BY <2>1
    <2>3. QED
      BY <2>1, <2>2 DEF m
  <1>6. Len(stack') \in Nat
    BY <1>3
  <1>7. QED
    BY <1>1, <1>3, <1>4, <1>5, <1>6

LEMMA BodyTypesStep ==
  BodyInv /\ BodyTypes /\ (B!Next \/ UNCHANGED bodyVars) => BodyTypes'
  <1> SUFFICES ASSUME BodyInv, BodyTypes, B!Next \/ UNCHANGED bodyVars PROVE BodyTypes'
    OBVIOUS
  <1>1. ASSUME NEW k \in B!Multipart, B!EnterMultipart(k) PROVE BodyTypes'
    <2>1. /\ B!Open /\ stack # <<>> /\ Len(stack) < MaxDepth
          /\ parts' = Append(parts, B!Group(k)) /\ attachments' = attachments
      BY <1>1 DEF B!EnterMultipart, B!Open
    <2> DEFINE inner == B!Container(k, B!State.inAlternative \/ k = "alternative",
                                    B!State.needHTML, B!State.needText, B!State.level, FALSE,
                                    B!Alternatives(k))
    <2>2. stack' = Append(B!Front(stack), B!Counted) \o <<inner>>
      BY <1>1 DEF B!EnterMultipart
    <2>3. B!State \in Shell
      BY <2>1, StackMeans
    <2>4. inner \in Shell
      BY <2>3, AlternativesAre DEF B!Container, Shell, B!Multipart
    <2> HIDE DEF inner
    <2>5. stack' \in Seq(Shell) /\ Len(stack') <= MaxDepth
      BY <2>1, <2>2, <2>4, ShellOnTop
    <2>6. B!Group(k) \in Piece
      BY DEF Piece
    <2>7. QED
      BY <2>1, <2>5, <2>6, PartJoins DEF BodyTypes
  <1>2. ASSUME NEW k \in B!Multipart \union {"message", "none"}, B!EnterMessage(k) PROVE BodyTypes'
    <2>1. /\ B!Open /\ stack # <<>> /\ Len(stack) < MaxDepth
          /\ parts' = Append(parts, B!Group("message"))
          /\ attachments' = Append(attachments, Len(parts'))
      BY <1>2 DEF B!EnterMessage, B!Open
    <2> DEFINE inner == B!Container(k, k = "alternative", TRUE, TRUE, B!State.level + 1, k = "message",
                                    B!Alternatives(k))
               top == IF k = "none" THEN <<>> ELSE <<inner>>
    <2>2. stack' = Append(B!Front(stack), B!Counted) \o top
      BY <1>2 DEF B!EnterMessage
    <2>3. B!State \in Shell
      BY <2>1, StackMeans
    <2>4. k # "none" => inner \in Shell
      BY <2>3, AlternativesAre DEF B!Container, Shell, B!Multipart
    <2> HIDE DEF inner
    <2>5. stack' \in Seq(Shell) /\ Len(stack') <= MaxDepth
      BY <2>1, <2>2, <2>4, ShellOnTop
    <2>6. B!Group("message") \in Piece
      BY DEF Piece
    <2>7. Len(parts') = Len(parts) + 1
      BY <2>1, <2>6, PartsGrow
    <2>8. QED
      BY <2>1, <2>5, <2>6, <2>7, PartJoins DEF BodyTypes
  <1>3. ASSUME NEW leaf \in Leaves, B!VisitLeaf(leaf) PROVE BodyTypes'
    <2>1. /\ B!Open /\ stack # <<>> /\ parts' = Append(parts, leaf)
          /\ stack' = Append(B!Front(stack), B!Wanted(leaf.kind, B!Inline(leaf)))
      BY <1>3 DEF B!VisitLeaf, B!Open
    <2>2. attachments' \in {attachments, Append(attachments, Len(parts) + 1)}
      BY <1>3, LeafMeans
    <2>3. leaf \in Piece
      BY DEF Piece
    <2>4. B!Wanted(leaf.kind, B!Inline(leaf)) \in Shell
      <3>1. B!Counted \in Shell
        BY <2>1, StackMeans
      <3>2. QED
        BY <3>1 DEF B!Wanted, Shell
    <2>5. stack' \in Seq(Shell) /\ Len(stack') = Len(stack)
      BY <2>1, <2>4, StackMeans
    <2>6. QED
      BY <2>1, <2>2, <2>3, <2>5, PartJoins DEF BodyTypes
  <1>4. CASE B!Leave
    <2>1. stack # <<>> /\ UNCHANGED <<parts, attachments>>
      BY <1>4 DEF B!Leave
    <2>2. stack' \in Seq(Shell) /\ Len(stack') <= MaxDepth
      <3> DEFINE rest == B!Front(stack)
                 outer == B!HandBack(B!Last(rest), B!State)
      <3>1. /\ Len(stack) \in Nat \ {0} /\ Len(stack) <= MaxDepth /\ MaxDepth \in Nat
            /\ rest \in Seq(Shell) /\ Len(rest) = Len(stack) - 1 /\ B!State \in Shell
        BY <2>1, StackMeans, PartsAssumption DEF BodyTypes
      <3>2. \/ stack' = <<>>
            \/ Len(stack) # 1 /\ stack' = Append(B!Front(rest), outer)
        BY <1>4 DEF B!Leave
      <3> HIDE DEF rest
      <3>3. CASE stack' = <<>>
        BY <3>1, <3>3, EmptySeq
      <3>4. CASE Len(stack) # 1 /\ stack' = Append(B!Front(rest), outer)
        <4>1. Len(rest) \in Nat \ {0} /\ Len(rest) \in DOMAIN rest
          BY <3>1, <3>4
        <4>2. B!Last(rest) \in Shell
          BY <3>1, <4>1 DEF B!Last
        <4>3. outer \in Shell
          BY <3>1, <4>2 DEF B!HandBack, Shell
        <4> HIDE DEF outer
        <4> DEFINE front == B!Front(rest)
        <4>4. front \in Seq(Shell) /\ Len(front) = Len(rest) - 1
          <5>1. rest # <<>>
            BY <4>1, EmptySeq
          <5>2. QED
            BY <3>1, <5>1, FrontIs
        <4> HIDE DEF front
        <4>5. Append(front, outer) \in Seq(Shell) /\ Len(Append(front, outer)) = Len(front) + 1
          BY <4>3, <4>4, AppendProperties
        <4>6. stack' = Append(front, outer)
          BY <3>4 DEF front
        <4>7. QED
          BY <3>1, <4>1, <4>4, <4>5, <4>6
      <3>5. QED
        BY <3>2, <3>3, <3>4
    <2>3. QED
      BY <2>1, <2>2 DEF BodyTypes
  <1>5. CASE UNCHANGED bodyVars
    BY <1>5 DEF bodyVars, BodyTypes
  <1>6. QED
    BY <1>1, <1>2, <1>3, <1>4, <1>5 DEF B!Next

-----------------------------------------------------------------------------
(* BodyParts: alternatives, and what the reader finds *)

\* One of the first e parts is plain text in an alternative.
Chosen(e, P, W) == \E k \in 1..e : P[k].kind = "plain" /\ W[k] # {}

\* An alternative is an index of a part, and its parts are neighbours.
Neighbours(P, W) ==
  /\ W \in Seq(SUBSET Nat) /\ Len(W) = Len(P)
  /\ \A i \in 1..Len(P) : W[i] \subseteq 1..Len(P)
  /\ \A i, j, m \in 1..Len(P) : i <= j /\ j <= m => W[i] \intersect W[m] \subseteq W[j]

\* A container that is not over: HTML is unwanted only after a plain text in an
\* alternative; the parts since the first one of an alternative it is in are in it.
Nested(c, P, W) ==
  /\ c.within \subseteq 1..Len(P)
  /\ c.inAlternative \/ c.kind = "alternative" => c.within # {}
  /\ c.needHTML \/ Chosen(Len(P), P, W)
  /\ \A i, j \in 1..Len(P) : i <= j => W[i] \intersect c.within \subseteq W[j]

\* Part x comes after the parts P, in container top.
Joined(P, W, x, top, P2, W2) == P2 = Append(P, x) /\ W2 = Append(W, top.within)

WithinInv ==
  /\ Neighbours(parts, within)
  /\ \A p \in 1..Len(stack) : Nested(stack[p], parts, within)
  /\ \A p, q \in 1..Len(stack) : p <= q => stack[p].within \subseteq stack[q].within
  /\ \A i \in B!ToSet(textBody) \ B!ToSet(htmlBody) :
       parts[i].kind = "plain" => Chosen(i, parts, within)

\* A part joins the container top: the containers it is in stay as they were, and so do
\* top with other flags and an alternative that the part itself begins.
LEMMA JoinMeans ==
  ASSUME NEW P \in Seq(Piece), NEW W, Neighbours(P, W), NEW top, Nested(top, P, W),
         NEW x \in Piece, NEW P2, NEW W2, Joined(P, W, x, top, P2, W2)
  PROVE  /\ Neighbours(P2, W2)
         /\ \A e \in 1..Len(P) : Chosen(e, P, W) => Chosen(e, P2, W2)
         /\ Chosen(Len(P), P, W) \/ (x.kind = "plain" /\ top.within # {})
              => Chosen(Len(P2), P2, W2)
         /\ \A c : Nested(c, P, W) /\ c.within \subseteq top.within => Nested(c, P2, W2)
         /\ \A c : /\ top.within \subseteq c.within
                   /\ c.within \subseteq top.within \union {Len(P) + 1}
                   /\ c.inAlternative \/ c.kind = "alternative" => c.within # {}
                   /\ c.needHTML \/ Chosen(Len(P2), P2, W2)
                   => Nested(c, P2, W2)
  <1> DEFINE e == Len(P)
  <1>1. e \in Nat /\ Len(P2) = e + 1 /\ P2[e + 1] = x /\ \A i \in 1..e : P2[i] = P[i]
    BY AppendProperties DEF Joined
  <1>2. top.within \in SUBSET Nat /\ top.within \subseteq 1..e
    BY <1>1 DEF Nested
  <1>3. /\ W2 \in Seq(SUBSET Nat) /\ Len(W2) = e + 1 /\ W2[e + 1] = top.within
        /\ \A i \in 1..e : W2[i] = W[i]
    BY <1>2, AppendProperties DEF Neighbours, Joined
  <1> HIDE DEF e
  <1>4. \A i \in 1..(e + 1) : i \in 1..e \/ i = e + 1
    BY <1>1
  <1>5. \A i \in 1..e : i \in 1..(e + 1) /\ i < e + 1
    BY <1>1
  <1>6. ASSUME NEW F, F \subseteq 1..e, NEW i \in 1..(e + 1), NEW j \in 1..(e + 1), i <= j,
               F \subseteq top.within,
               \A k, l \in 1..e : k <= l => W[k] \intersect F \subseteq W[l]
        PROVE  W2[i] \intersect F \subseteq W2[j]
    <2>1. CASE j = e + 1
      BY <1>3, <1>6, <2>1
    <2>2. CASE j \in 1..e
      <3>1. i \in 1..e
        BY <1>1, <1>6, <2>2
      <3>2. QED
        BY <1>3, <1>6, <2>2, <3>1
    <2>3. QED
      BY <1>4, <2>1, <2>2
  <1>7. \A k, l \in 1..e : k <= l => W[k] \intersect top.within \subseteq W[l]
    BY DEF Nested, e
  <1>8. Neighbours(P2, W2)
    <2>1. ASSUME NEW i \in 1..(e + 1) PROVE W2[i] \subseteq 1..(e + 1)
      BY <1>2, <1>3, <1>4, <1>5 DEF Neighbours, e
    <2>2. ASSUME NEW i \in 1..(e + 1), NEW j \in 1..(e + 1), NEW m \in 1..(e + 1), i <= j, j <= m
          PROVE  W2[i] \intersect W2[m] \subseteq W2[j]
      <3>1. CASE m = e + 1
        BY <1>2, <1>3, <1>6, <1>7, <2>2, <3>1
      <3>2. CASE m \in 1..e
        <4>1. i \in 1..e /\ j \in 1..e
          BY <1>1, <2>2, <3>2
        <4>2. QED
          BY <1>3, <2>2, <3>2, <4>1 DEF Neighbours, e
      <3>3. QED
        BY <1>4, <3>1, <3>2
    <2>3. QED
      BY <1>1, <1>3, <2>1, <2>2 DEF Neighbours
  <1>9. ASSUME NEW m \in 1..e, Chosen(m, P, W) PROVE Chosen(m, P2, W2)
    <2>1. \A k \in 1..m : k \in 1..e
      BY <1>1
    <2>2. QED
      BY <1>1, <1>3, <1>9, <2>1 DEF Chosen
  <1>10. ASSUME Chosen(e, P, W) \/ (x.kind = "plain" /\ top.within # {})
         PROVE  Chosen(e + 1, P2, W2)
    <2>1. e + 1 \in 1..(e + 1)
      BY <1>1
    <2>2. QED
      BY <1>1, <1>3, <1>5, <1>10, <2>1 DEF Chosen
  <1>11. ASSUME NEW c, Nested(c, P, W), c.within \subseteq top.within PROVE Nested(c, P2, W2)
    <2>1. c.within \subseteq 1..e /\ \A k, l \in 1..e : k <= l => W[k] \intersect c.within \subseteq W[l]
      BY <1>11 DEF Nested, e
    <2>2. \A i, j \in 1..(e + 1) : i <= j => W2[i] \intersect c.within \subseteq W2[j]
      <3> DEFINE those == c.within
      <3>1. those \subseteq 1..e /\ those \subseteq top.within
        BY <1>11, <2>1
      <3>2. \A k, l \in 1..e : k <= l => W[k] \intersect those \subseteq W[l]
        BY <2>1
      <3> HIDE DEF those
      <3>3. \A i, j \in 1..(e + 1) : i <= j => W2[i] \intersect those \subseteq W2[j]
        BY <1>6, <3>1, <3>2
      <3>4. QED
        BY <3>3 DEF those
    <2>3. c.within \subseteq 1..(e + 1)
      BY <1>5, <2>1
    <2>4. c.needHTML \/ Chosen(e + 1, P2, W2)
      BY <1>10, <1>11 DEF Nested, e
    <2>5. QED
      BY <1>1, <1>11, <2>2, <2>3, <2>4 DEF Nested
  <1>12. ASSUME NEW c, top.within \subseteq c.within, c.within \subseteq top.within \union {e + 1},
                c.inAlternative \/ c.kind = "alternative" => c.within # {},
                c.needHTML \/ Chosen(e + 1, P2, W2)
         PROVE  Nested(c, P2, W2)
    <2>1. c.within \subseteq 1..(e + 1)
      BY <1>1, <1>2, <1>5, <1>12
    <2>2. ASSUME NEW i \in 1..(e + 1), NEW j \in 1..(e + 1), i <= j, NEW a \in W2[i] \intersect c.within
          PROVE  a \in W2[j]
      <3>1. a # e + 1
        <4>1. a \in W2[i] /\ (W2[i] = top.within \/ (i \in 1..e /\ W2[i] = W[i]))
          BY <1>3, <1>4, <2>2
        <4>2. a \in 1..e
          BY <1>2, <4>1 DEF Neighbours, e
        <4>3. QED
          BY <1>1, <4>2
      <3>2. W2[i] \intersect top.within \subseteq W2[j]
        BY <1>2, <1>6, <1>7, <2>2
      <3>3. QED
        BY <1>12, <2>2, <3>1, <3>2
    <2>3. QED
      BY <1>1, <1>12, <2>1, <2>2 DEF Nested
  <1>13. QED
    BY <1>1, <1>8, <1>9, <1>10, <1>11, <1>12 DEF e

\* Another innermost container in place of the one there is, and one on top of it.
LEMMA TopIs ==
  ASSUME NEW s \in Seq(Shell), s # <<>>, NEW x \in Shell
  PROVE  /\ Append(B!Front(s), x) \in Seq(Shell) /\ Len(Append(B!Front(s), x)) = Len(s)
         /\ Append(B!Front(s), x)[Len(s)] = x
         /\ \A p \in 1..(Len(s) - 1) : Append(B!Front(s), x)[p] = s[p]
  <1> DEFINE m == Len(s) - 1
             f == B!Front(s)
  <1>1. Len(s) \in Nat \ {0} /\ m \in Nat /\ m \in Int /\ 1 \in Int
    BY EmptySeq
  <1>2. f = SubSeq(s, 1, m)
    BY DEF B!Front
  <1>3. \A i \in 1..m : s[i] \in Shell
    BY <1>1
  <1>4. f \in Seq(Shell) /\ Len(f) = m
    BY FrontIs
  <1>5. \A p \in 1..m : f[p] = s[p]
    <2> HIDE DEF m
    <2>1. \A p \in 1..(m - 1 + 1) : SubSeq(s, 1, m)[p] = s[1 + p - 1]
      BY <1>1, <1>3, SubSeqProperties
    <2>2. \A p \in 1..m : p \in 1..(m - 1 + 1) /\ 1 + p - 1 = p
      BY <1>1
    <2>3. QED
      BY <1>2, <2>1, <2>2
  <1> HIDE DEF f
  <1>6. /\ Append(f, x) \in Seq(Shell) /\ Len(Append(f, x)) = Len(f) + 1 /\ Append(f, x)[Len(f) + 1] = x
        /\ \A p \in 1..Len(f) : Append(f, x)[p] = f[p]
    BY <1>4, AppendProperties
  <1>7. QED
    BY <1>1, <1>4, <1>5, <1>6 DEF f

LEMMA OneMoreIs ==
  ASSUME NEW s \in Seq(Shell), NEW x \in Shell
  PROVE  /\ s \o <<x>> \in Seq(Shell) /\ Len(s \o <<x>>) = Len(s) + 1 /\ (s \o <<x>>)[Len(s) + 1] = x
         /\ \A p \in 1..Len(s) : (s \o <<x>>)[p] = s[p]
  <1>1. <<x>> \in Seq(Shell) /\ Len(<<x>>) = 1 /\ <<x>>[1] = x /\ Len(s) \in Nat
    OBVIOUS
  <1> DEFINE t == <<x>>
  <1> HIDE DEF t
  <1>2. t \in Seq(Shell) /\ Len(t) = 1 /\ t[1] = x
    BY <1>1 DEF t
  <1>3. /\ s \o t \in Seq(Shell) /\ Len(s \o t) = Len(s) + 1
        /\ (s \o t)[Len(s) + 1] = t[1] /\ \A p \in 1..Len(s) : (s \o t)[p] = s[p]
    BY <1>1, <1>2, ConcatProperties
  <1>4. QED
    BY <1>2, <1>3 DEF t

\* A part joins, and the containers change as JoinMeans says: top, or top and one on it.
LEMMA JoinStep ==
  ASSUME BodyInv, BodyTypes, WithinInv, stack # <<>>, NEW x \in Piece,
         parts' = Append(parts, x), within' = Append(within, B!State.within),
         Len(stack') \in {Len(stack), Len(stack) + 1},
         \A p \in 1..(Len(stack) - 1) : stack'[p] = stack[p],
         stack'[Len(stack)].within = B!State.within,
         \A p \in Len(stack)..Len(stack') :
           /\ B!State.within \subseteq stack'[p].within
           /\ stack'[p].within \subseteq B!State.within \union {Len(parts) + 1}
           /\ stack'[p].inAlternative \/ stack'[p].kind = "alternative" => stack'[p].within # {}
           /\ stack'[p].needHTML \/ Chosen(Len(parts'), parts', within')
  PROVE  /\ Neighbours(parts', within')
         /\ \A p \in 1..Len(stack') : Nested(stack'[p], parts', within')
         /\ \A p, q \in 1..Len(stack') : p <= q => stack'[p].within \subseteq stack'[q].within
         /\ \A e \in 1..Len(parts) : Chosen(e, parts, within) => Chosen(e, parts', within')
  <1> DEFINE m == Len(stack)
             top == stack[m]
  <1>1. m \in Nat \ {0} /\ B!State = top
    BY StackMeans DEF B!State, B!Last
  <1>2. m \in 1..m
    BY <1>1
  <1>3. Nested(top, parts, within)
    BY <1>2 DEF WithinInv
  <1>4. parts \in Seq(Piece) /\ Neighbours(parts, within)
    BY DEF BodyInv, WithinInv
  <1>5. Joined(parts, within, x, top, parts', within')
    BY <1>1 DEF Joined
  <1> HIDE DEF top
  <1>6. /\ Neighbours(parts', within')
        /\ \A e \in 1..Len(parts) : Chosen(e, parts, within) => Chosen(e, parts', within')
        /\ \A c : Nested(c, parts, within) /\ c.within \subseteq top.within => Nested(c, parts', within')
        /\ \A c : /\ top.within \subseteq c.within
                  /\ c.within \subseteq top.within \union {Len(parts) + 1}
                  /\ c.inAlternative \/ c.kind = "alternative" => c.within # {}
                  /\ c.needHTML \/ Chosen(Len(parts'), parts', within')
                  => Nested(c, parts', within')
    <2> DEFINE P2 == parts'
               W2 == within'
    <2>1. Joined(parts, within, x, top, P2, W2)
      BY <1>5
    <2> HIDE DEF P2, W2
    <2>2. /\ Neighbours(P2, W2)
          /\ \A e \in 1..Len(parts) : Chosen(e, parts, within) => Chosen(e, P2, W2)
          /\ \A c : Nested(c, parts, within) /\ c.within \subseteq top.within => Nested(c, P2, W2)
          /\ \A c : /\ top.within \subseteq c.within
                    /\ c.within \subseteq top.within \union {Len(parts) + 1}
                    /\ c.inAlternative \/ c.kind = "alternative" => c.within # {}
                    /\ c.needHTML \/ Chosen(Len(P2), P2, W2)
                    => Nested(c, P2, W2)
      BY <1>3, <1>4, <2>1, JoinMeans
    <2>3. QED
      BY <2>2 DEF P2, W2
  <1> DEFINE top2 == Len(stack')
  <1>7. top2 \in {m, m + 1}
    OBVIOUS
  <1>8. \A p \in 1..(m - 1) : stack'[p] = stack[p]
    OBVIOUS
  <1>9. \A p \in m..top2 :
           /\ top.within \subseteq stack'[p].within
           /\ stack'[p].within \subseteq top.within \union {Len(parts) + 1}
           /\ stack'[p].inAlternative \/ stack'[p].kind = "alternative" => stack'[p].within # {}
           /\ stack'[p].needHTML \/ Chosen(Len(parts'), parts', within')
    BY <1>1
  <1>10. stack'[m].within = top.within
    BY <1>1
  <1>11. \A p \in 1..m : Nested(stack[p], parts, within) /\ stack[p].within \subseteq top.within
    BY <1>1, <1>2 DEF WithinInv, top
  <1>12. \A p, q \in 1..m : p <= q => stack[p].within \subseteq stack[q].within
    BY DEF WithinInv
  <1> HIDE DEF m, top2
  <1>13. \A p \in 1..top2 : p \in 1..(m - 1) \/ p \in m..top2
    BY <1>1, <1>7
  <1>14. ASSUME NEW p \in 1..top2 PROVE Nested(stack'[p], parts', within')
    <2>1. CASE p \in 1..(m - 1)
      <3>1. p \in 1..m
        BY <1>1, <2>1
      <3>2. QED
        BY <1>6, <1>8, <1>11, <2>1, <3>1
    <2>2. CASE p \in m..top2
      BY <1>6, <1>9, <2>2
    <2>3. QED
      BY <1>13, <2>1, <2>2
  <1>15. ASSUME NEW p \in 1..top2, NEW q \in 1..top2, p <= q
         PROVE  stack'[p].within \subseteq stack'[q].within
    <2>1. CASE q \in 1..(m - 1)
      <3>1. p \in 1..(m - 1) /\ p \in 1..m /\ q \in 1..m
        BY <1>1, <1>15, <2>1
      <3>2. QED
        BY <1>8, <1>12, <1>15, <2>1, <3>1
    <2>2. CASE q \in m..top2 /\ p \in 1..(m - 1)
      <3>1. p \in 1..m
        BY <1>1, <2>2
      <3>2. QED
        BY <1>8, <1>9, <1>11, <2>2, <3>1
    <2>3. CASE q \in m..top2 /\ p \in m..top2
      <3>1. p = m \/ p = q
        BY <1>1, <1>7, <1>15, <2>3
      <3>2. QED
        BY <1>9, <1>10, <2>3, <3>1
    <2>4. QED
      BY <1>13, <2>1, <2>2, <2>3
  <1>16. QED
    BY <1>6, <1>14, <1>15 DEF top2

\* The part that joins is in no list, or not in the text list alone without reason.
LEMMA TextKeeps ==
  ASSUME BodyInv, NEW x \in Piece, parts' = Append(parts, x), WithinInv,
         \A e \in 1..Len(parts) : Chosen(e, parts, within) => Chosen(e, parts', within'),
         B!ToSet(htmlBody) \subseteq B!ToSet(htmlBody'),
         \A i \in B!ToSet(textBody') \ B!ToSet(htmlBody') :
           i \in B!ToSet(textBody) \/ (i = Len(parts) + 1 /\ (x.kind = "plain" => Chosen(i, parts', within')))
  PROVE  \A i \in B!ToSet(textBody') \ B!ToSet(htmlBody') :
           parts'[i].kind = "plain" => Chosen(i, parts', within')
  <1>1. /\ Len(parts) \in Nat /\ parts'[Len(parts) + 1] = x
        /\ \A i \in 1..Len(parts) : parts'[i] = parts[i]
    BY PartsGrow
  <1>2. \A i \in B!ToSet(textBody) : i \in 1..Len(parts)
    BY DEF BodyInv, BodyList
  <1>3. QED
    BY <1>1, <1>2 DEF WithinInv

LEMMA WithinInit == B!Init => WithinInv
  <1> SUFFICES ASSUME B!Init PROVE WithinInv
    OBVIOUS
  <1> DEFINE shell == B!Container("message", FALSE, TRUE, TRUE, 0, TRUE, {})
  <1>1. stack = <<shell>> /\ parts = <<>> /\ within = <<>> /\ textBody = <<>>
    BY DEF B!Init
  <1>2. shell.within = {} /\ ~shell.inAlternative /\ shell.kind = "message" /\ shell.needHTML
    BY DEF B!Container
  <1> HIDE DEF shell
  <1>3. Len(stack) = 1 /\ stack[1] = shell /\ \A p \in 1..1 : p = 1
    BY <1>1
  <1>4. Len(parts) = 0 /\ within \in Seq(SUBSET Nat) /\ Len(within) = 0 /\ B!ToSet(textBody) = {}
    BY <1>1, EmptySeq DEF B!ToSet
  <1>5. Neighbours(parts, within)
    BY <1>4 DEF Neighbours
  <1>6. Nested(shell, parts, within)
    BY <1>2, <1>4 DEF Nested
  <1>7. QED
    BY <1>3, <1>4, <1>5, <1>6 DEF WithinInv

\* The innermost container, as WithinInv has it.
LEMMA StateIs ==
  ASSUME BodyTypes, WithinInv, stack # <<>>
  PROVE  /\ Len(stack) \in Nat \ {0} /\ B!State = stack[Len(stack)] /\ B!State \in Shell
         /\ B!Counted \in Shell /\ B!Counted.within = B!State.within
         /\ B!Counted.kind = B!State.kind /\ B!Counted.inAlternative = B!State.inAlternative
         /\ B!Counted.needHTML = B!State.needHTML
         /\ Nested(B!State, parts, within)
  <1>1. Len(stack) \in Nat \ {0} /\ B!State \in Shell /\ B!Counted \in Shell
    BY StackMeans
  <1>2. B!State = stack[Len(stack)] /\ Len(stack) \in 1..Len(stack)
    BY <1>1 DEF B!State, B!Last
  <1>3. Nested(B!State, parts, within)
    BY <1>2 DEF WithinInv
  <1>4. QED
    BY <1>1, <1>2, <1>3 DEF B!Counted, Shell

\* walk, a leaf.
LEMMA WithinLeaf ==
  ASSUME BodyInv, BodyTypes, WithinInv, NEW leaf \in Leaves, B!VisitLeaf(leaf) PROVE WithinInv'
  <1> DEFINE inline == B!Inline(leaf)
             w == B!Wanted(leaf.kind, inline)
             top == B!State
  <1>1. /\ stack # <<>> /\ parts' = Append(parts, leaf) /\ within' = Append(within, B!State.within)
        /\ stack' = Append(B!Front(stack), w)
    BY DEF B!VisitLeaf, B!Open
  <1>2. /\ Len(stack) \in Nat \ {0} /\ top \in Shell /\ Nested(top, parts, within)
    BY <1>1, StateIs
  <1>3. inline \in BOOLEAN
    BY DEF B!Inline
  <1>4. /\ w \in Shell /\ w.within = top.within /\ w.kind = top.kind
        /\ w.inAlternative = top.inAlternative
        /\ w.needHTML \/ ~top.needHTML \/ (leaf.kind = "plain" /\ top.inAlternative)
    BY <1>2, <1>3, WantedIs
  <1> HIDE DEF w, inline
  <1>5. leaf \in Piece /\ stack \in Seq(Shell)
    BY DEF Piece, BodyTypes
  <1>6. /\ Len(stack') = Len(stack) /\ stack'[Len(stack)] = w
        /\ \A p \in 1..(Len(stack) - 1) : stack'[p] = stack[p]
    BY <1>1, <1>4, <1>5, TopIs
  <1>7. Chosen(Len(parts), parts, within) \/ (leaf.kind = "plain" /\ top.within # {})
          => Chosen(Len(parts'), parts', within')
    <2>1. Joined(parts, within, leaf, top, parts', within')
      BY <1>1 DEF Joined
    <2>2. parts \in Seq(Piece) /\ Neighbours(parts, within)
      BY DEF BodyInv, WithinInv
    <2> HIDE DEF top
    <2>3. QED
      BY <1>2, <1>5, <2>1, <2>2, JoinMeans
  <1>8. /\ top.inAlternative \/ top.kind = "alternative" => top.within # {}
        /\ top.needHTML \/ Chosen(Len(parts), parts, within)
    BY <1>2 DEF Nested
  <1>9. w.needHTML \/ Chosen(Len(parts'), parts', within')
    BY <1>4, <1>7, <1>8
  <1>10. \A p \in Len(stack)..Len(stack') : p = Len(stack)
    BY <1>2, <1>6
  <1> HIDE DEF top
  <1>11. /\ Neighbours(parts', within')
         /\ \A p \in 1..Len(stack') : Nested(stack'[p], parts', within')
         /\ \A p, q \in 1..Len(stack') : p <= q => stack'[p].within \subseteq stack'[q].within
         /\ \A e \in 1..Len(parts) : Chosen(e, parts, within) => Chosen(e, parts', within')
    <2>1. /\ stack'[Len(stack)].within = B!State.within
          /\ Len(stack') \in {Len(stack), Len(stack) + 1}
      BY <1>4, <1>6 DEF top
    <2>2. \A p \in Len(stack)..Len(stack') :
            /\ B!State.within \subseteq stack'[p].within
            /\ stack'[p].within \subseteq B!State.within \union {Len(parts) + 1}
            /\ stack'[p].inAlternative \/ stack'[p].kind = "alternative" => stack'[p].within # {}
            /\ stack'[p].needHTML \/ Chosen(Len(parts'), parts', within')
      BY <1>4, <1>6, <1>8, <1>9, <1>10 DEF top
    <2>3. QED
      BY <1>1, <1>5, <1>6, <2>1, <2>2, JoinStep
  <1>12. PICK h, t, a \in BOOLEAN :
           /\ htmlBody' = IF h THEN Append(htmlBody, Len(parts) + 1) ELSE htmlBody
           /\ textBody' = IF t THEN Append(textBody, Len(parts) + 1) ELSE textBody
           /\ B!State \in Shell /\ t /\ leaf.kind = "plain" =>
                h \/ B!State.kind = "alternative" \/ B!State.inAlternative \/ ~B!State.needHTML
    BY LeafMeans
  <1>13. Len(parts) \in Nat /\ Len(parts') = Len(parts) + 1
    BY <1>1, <1>5, PartsGrow
  <1>14. textBody \in Seq(Nat) /\ htmlBody \in Seq(Nat) /\ Len(parts) + 1 \in Nat
    BY <1>13 DEF BodyInv, BodyList
  <1>15. /\ B!ToSet(Append(textBody, Len(parts) + 1)) = B!ToSet(textBody) \union {Len(parts) + 1}
         /\ B!ToSet(Append(htmlBody, Len(parts) + 1)) = B!ToSet(htmlBody) \union {Len(parts) + 1}
    BY <1>14, AppendMeans
  <1>16. \A i \in B!ToSet(textBody') \ B!ToSet(htmlBody') :
           \/ i \in B!ToSet(textBody)
           \/ i = Len(parts) + 1 /\ (leaf.kind = "plain" => Chosen(i, parts', within'))
    <2>1. t /\ ~h /\ leaf.kind = "plain" => Chosen(Len(parts) + 1, parts', within')
      BY <1>2, <1>7, <1>8, <1>12, <1>13 DEF top
    <2>2. QED
      BY <1>12, <1>15, <2>1
  <1>17. B!ToSet(htmlBody) \subseteq B!ToSet(htmlBody')
    BY <1>12, <1>15
  <1>18. \A i \in B!ToSet(textBody') \ B!ToSet(htmlBody') :
           parts'[i].kind = "plain" => Chosen(i, parts', within')
    BY <1>1, <1>5, <1>11, <1>16, <1>17, TextKeeps
  <1>19. QED
    BY <1>11, <1>18 DEF WithinInv

\* walk, a container that is entered: its flags are those of the one it is in, or fresh.
LEMMA WithinGroup ==
  ASSUME BodyInv, BodyTypes, WithinInv, NEW x \in Piece, stack # <<>>,
         parts' = Append(parts, x), within' = Append(within, B!State.within),
         UNCHANGED <<textBody, htmlBody>>,
         NEW inner \in Shell,
         B!State.within \subseteq inner.within,
         inner.within \subseteq B!State.within \union {Len(parts) + 1},
         inner.inAlternative \/ inner.kind = "alternative" => inner.within # {},
         inner.needHTML \/ inner.needHTML = B!State.needHTML,
         stack' \in {Append(B!Front(stack), B!Counted), Append(B!Front(stack), B!Counted) \o <<inner>>}
  PROVE  WithinInv'
  <1> DEFINE m == Len(stack)
             under == Append(B!Front(stack), B!Counted)
             Fits(c) == /\ B!State.within \subseteq c.within
                        /\ c.within \subseteq B!State.within \union {Len(parts) + 1}
                        /\ c.inAlternative \/ c.kind = "alternative" => c.within # {}
                        /\ c.needHTML \/ Chosen(Len(parts'), parts', within')
  <1>1. /\ m \in Nat \ {0} /\ B!State = stack[m] /\ B!State \in Shell
        /\ B!Counted \in Shell /\ B!Counted.within = B!State.within
        /\ B!Counted.kind = B!State.kind /\ B!Counted.inAlternative = B!State.inAlternative
        /\ B!Counted.needHTML = B!State.needHTML
        /\ Nested(B!State, parts, within)
    BY StateIs
  <1>2. /\ under \in Seq(Shell) /\ Len(under) = m /\ under[m] = B!Counted
        /\ \A p \in 1..(m - 1) : under[p] = stack[p]
    <2>1. stack \in Seq(Shell)
      BY DEF BodyTypes
    <2>2. QED
      BY <1>1, <2>1, TopIs
  <1>3. Chosen(Len(parts), parts, within) => Chosen(Len(parts'), parts', within')
    <2> DEFINE top == B!State
               P2 == parts'
               W2 == within'
    <2>1. Joined(parts, within, x, top, P2, W2)
      BY DEF Joined
    <2>2. parts \in Seq(Piece) /\ Neighbours(parts, within) /\ Nested(top, parts, within)
      BY <1>1 DEF BodyInv, WithinInv
    <2> HIDE DEF top, P2, W2
    <2>3. Chosen(Len(parts), parts, within) => Chosen(Len(P2), P2, W2)
      BY <2>1, <2>2, JoinMeans
    <2>4. QED
      BY <2>3 DEF P2, W2
  <1>4. B!State.needHTML \/ Chosen(Len(parts'), parts', within')
    BY <1>1, <1>3 DEF Nested
  <1>5. Fits(B!Counted) /\ Fits(inner)
    BY <1>1, <1>4 DEF Nested
  <1> HIDE DEF under, Fits, m
  <1>6. /\ Len(stack') \in {m, m + 1} /\ stack'[m] = B!Counted
        /\ \A p \in 1..(m - 1) : stack'[p] = stack[p]
        /\ \A p \in m..Len(stack') : Fits(stack'[p])
    <2>1. CASE stack' = under
      <3>1. Len(stack') = m /\ stack'[m] = B!Counted /\ \A p \in m..m : p = m
        BY <1>1, <1>2, <2>1
      <3>2. QED
        BY <1>2, <1>5, <2>1, <3>1
    <2>2. CASE stack' = under \o <<inner>>
      <3>1. /\ Len(stack') = m + 1 /\ stack'[m + 1] = inner
            /\ \A p \in 1..m : stack'[p] = under[p]
        BY <1>2, <2>2, OneMoreIs
      <3>2. m \in 1..m /\ (\A p \in 1..(m - 1) : p \in 1..m) /\ \A p \in m..(m + 1) : p = m \/ p = m + 1
        BY <1>1
      <3>3. QED
        BY <1>2, <1>5, <3>1, <3>2
    <2>3. QED
      BY <2>1, <2>2 DEF under
  <1>7. /\ Neighbours(parts', within')
        /\ \A p \in 1..Len(stack') : Nested(stack'[p], parts', within')
        /\ \A p, q \in 1..Len(stack') : p <= q => stack'[p].within \subseteq stack'[q].within
        /\ \A e \in 1..Len(parts) : Chosen(e, parts, within) => Chosen(e, parts', within')
    BY <1>1, <1>6, JoinStep DEF m, Fits
  <1>8. \A i \in B!ToSet(textBody') \ B!ToSet(htmlBody') :
          parts'[i].kind = "plain" => Chosen(i, parts', within')
    BY <1>7, TextKeeps
  <1>9. QED
    BY <1>7, <1>8 DEF WithinInv

LEMMA WithinMultipart ==
  ASSUME BodyInv, BodyTypes, WithinInv, NEW k \in B!Multipart, B!EnterMultipart(k) PROVE WithinInv'
  <1> DEFINE inner == B!Container(k, B!State.inAlternative \/ k = "alternative",
                                  B!State.needHTML, B!State.needText, B!State.level, FALSE,
                                  B!Alternatives(k))
  <1>1. /\ stack # <<>> /\ parts' = Append(parts, B!Group(k)) /\ UNCHANGED <<textBody, htmlBody>>
        /\ within' = Append(within, B!State.within)
        /\ stack' = Append(B!Front(stack), B!Counted) \o <<inner>>
    BY DEF B!EnterMultipart, B!Open
  <1>2. B!State \in Shell /\ Nested(B!State, parts, within)
    BY <1>1, StateIs
  <1>3. /\ inner \in Shell /\ inner.within = B!Alternatives(k) /\ inner.kind = k
        /\ inner.inAlternative = (B!State.inAlternative \/ k = "alternative")
        /\ inner.needHTML = B!State.needHTML
    BY <1>2, AlternativesAre DEF B!Container, Shell, B!Multipart
  <1> HIDE DEF inner
  <1>4. /\ B!State.within \subseteq inner.within
        /\ inner.within \subseteq B!State.within \union {Len(parts) + 1}
        /\ inner.inAlternative \/ inner.kind = "alternative" => inner.within # {}
    BY <1>2, <1>3 DEF B!Alternatives, Nested
  <1>5. B!Group(k) \in Piece
    BY DEF Piece
  <1>6. QED
    BY <1>1, <1>3, <1>4, <1>5, WithinGroup

LEMMA WithinMessage ==
  ASSUME BodyInv, BodyTypes, WithinInv, NEW k \in B!Multipart \union {"message", "none"},
         B!EnterMessage(k)
  PROVE  WithinInv'
  <1> DEFINE Inner(begun) == B!Container(begun, begun = "alternative", TRUE, TRUE, B!State.level + 1,
                                         begun = "message", B!Alternatives(begun))
  <1>1. /\ stack # <<>> /\ parts' = Append(parts, B!Group("message")) /\ UNCHANGED <<textBody, htmlBody>>
        /\ within' = Append(within, B!State.within)
        /\ stack' = Append(B!Front(stack), B!Counted) \o (IF k = "none" THEN <<>> ELSE <<Inner(k)>>)
    BY DEF B!EnterMessage, B!Open
  <1>2. B!State \in Shell /\ B!Counted \in Shell /\ stack \in Seq(Shell)
    BY <1>1, StateIs DEF BodyTypes
  <1> DEFINE begun == IF k = "none" THEN "message" ELSE k
             inner == Inner(begun)
  <1>3. begun \in B!Multipart \union {"message"}
    OBVIOUS
  <1>4. stack' \in {Append(B!Front(stack), B!Counted), Append(B!Front(stack), B!Counted) \o <<inner>>}
    <2> DEFINE under == Append(B!Front(stack), B!Counted)
    <2>1. under \in Seq(Shell)
      BY <1>1, <1>2, TopIs
    <2> HIDE DEF under, Inner
    <2>2. under \o <<>> = under
      BY <2>1
    <2>3. QED
      BY <1>1, <2>2 DEF under
  <1>5. /\ inner \in Shell /\ inner.within = B!Alternatives(begun) /\ inner.kind = begun
        /\ inner.inAlternative = (begun = "alternative") /\ inner.needHTML
    <2> HIDE DEF begun
    <2>1. QED
      BY <1>2, <1>3, AlternativesAre DEF B!Container, Shell, B!Multipart
  <1> HIDE DEF inner, begun
  <1>6. /\ B!State.within \subseteq inner.within
        /\ inner.within \subseteq B!State.within \union {Len(parts) + 1}
        /\ inner.inAlternative \/ inner.kind = "alternative" => inner.within # {}
    BY <1>5 DEF B!Alternatives
  <1>7. B!Group("message") \in Piece
    BY DEF Piece
  <1>8. QED
    BY <1>1, <1>4, <1>5, <1>6, <1>7, WithinGroup

\* The end of a container: the one around it has its flags, or keeps its own.
LEMMA WithinLeave == ASSUME BodyTypes, WithinInv, B!Leave PROVE WithinInv'
  <1> DEFINE m == Len(stack)
             rest == B!Front(stack)
             outer == B!HandBack(B!Last(rest), B!State)
  <1>1. stack # <<>> /\ UNCHANGED <<parts, within, textBody, htmlBody>>
    BY DEF B!Leave
  <1>2. /\ stack \in Seq(Shell) /\ m \in Nat \ {0} /\ B!State = stack[m] /\ B!State \in Shell
        /\ Nested(B!State, parts, within)
    BY <1>1, StateIs DEF BodyTypes
  <1>3. rest \in Seq(Shell) /\ Len(rest) = m - 1
    BY <1>1, <1>2, FrontIs
  <1>4. \A p \in 1..(m - 1) : rest[p] = stack[p]
    <2>1. \A i \in 1..(m - 1) : stack[i] \in Shell
      BY <1>2
    <2>2. \A p \in 1..(m - 1 - 1 + 1) : SubSeq(stack, 1, m - 1)[p] = stack[1 + p - 1]
      BY <1>2, <2>1, SubSeqProperties
    <2>3. \A p \in 1..(m - 1) : p \in 1..(m - 1 - 1 + 1) /\ 1 + p - 1 = p
      BY <1>2
    <2>4. QED
      BY <2>2, <2>3 DEF B!Front
  <1>5. \/ stack' = <<>>
        \/ m # 1 /\ stack' = Append(B!Front(rest), outer)
    BY DEF B!Leave
  <1> HIDE DEF rest, m
  <1>6. CASE stack' = <<>>
    BY <1>1, <1>6 DEF WithinInv
  <1>7. CASE m # 1 /\ stack' = Append(B!Front(rest), outer)
    <2>1. m - 1 \in 1..(m - 1) /\ m - 1 \in Nat \ {0} /\ \A p \in 1..(m - 1) : p \in 1..m
      BY <1>2, <1>7
    <2>2. B!Last(rest) = stack[m - 1] /\ stack[m - 1] \in Shell /\ rest # <<>>
      <3>1. B!Last(rest) = rest[m - 1]
        BY <1>3 DEF B!Last
      <3>2. rest # <<>>
        BY <1>3, <2>1, EmptySeq
      <3>3. QED
        BY <1>2, <1>4, <2>1, <3>1, <3>2 DEF m
    <2>3. Nested(stack[m - 1], parts, within)
      BY <2>1 DEF WithinInv, m
    <2>4. /\ outer \in Shell /\ outer.within = stack[m - 1].within /\ outer.kind = stack[m - 1].kind
          /\ outer.inAlternative = stack[m - 1].inAlternative
          /\ outer.needHTML \in {stack[m - 1].needHTML, B!State.needHTML}
      BY <1>2, <2>2 DEF B!HandBack, Shell
    <2> HIDE DEF outer
    <2>5. Nested(outer, parts, within)
      BY <1>2, <2>3, <2>4 DEF Nested
    <2>6. /\ Len(stack') = m - 1 /\ stack'[m - 1] = outer
          /\ \A p \in 1..(m - 1 - 1) : stack'[p] = stack[p]
      <3>1. /\ Len(stack') = Len(rest) /\ stack'[Len(rest)] = outer
            /\ \A p \in 1..(Len(rest) - 1) : stack'[p] = rest[p]
        BY <1>3, <1>7, <2>2, <2>4, TopIs
      <3>2. \A p \in 1..(m - 1 - 1) : p \in 1..(m - 1)
        BY <1>2
      <3>3. QED
        BY <1>3, <1>4, <3>1, <3>2
    <2>7. \A p \in 1..(m - 1) : p = m - 1 \/ p \in 1..(m - 1 - 1)
      BY <1>2
    <2>8. \A p \in 1..(m - 1) : Nested(stack'[p], parts, within) /\ stack'[p].within = stack[p].within
      BY <2>1, <2>4, <2>5, <2>6, <2>7 DEF WithinInv, m
    <2>9. QED
      BY <1>1, <2>1, <2>6, <2>8 DEF WithinInv, m
  <1>8. QED
    BY <1>5, <1>6, <1>7

LEMMA WithinStep ==
  BodyInv /\ BodyTypes /\ WithinInv /\ (B!Next \/ UNCHANGED bodyVars) => WithinInv'
  <1> SUFFICES ASSUME BodyInv, BodyTypes, WithinInv, B!Next \/ UNCHANGED bodyVars PROVE WithinInv'
    OBVIOUS
  <1>1. CASE UNCHANGED bodyVars
    BY <1>1 DEF bodyVars, WithinInv
  <1>2. QED
    BY <1>1, WithinLeaf, WithinMultipart, WithinMessage, WithinLeave DEF B!Next

\* A plain text of the text list: it is shown or after what is shown, or the HTML shown
\* is of an alternative that it or an earlier plain text is in, or none of that
\* alternative is HTML.
LEMMA PlainIsFound ==
  ASSUME BodyInv, WithinInv, NEW i \in B!ToSet(textBody), parts[i].kind = "plain"
  PROVE  \/ i \in B!Shown \/ B!Superseded(i) \/ \E j \in B!Shown : j < i
         \/ \E k \in 1..i : B!Lone(k)
  <1> DEFINE h == htmlBody[1]
  <1>1. i \in 1..Len(parts) /\ i \in Nat /\ textBody \in Seq(Nat) /\ htmlBody \in Seq(Nat)
    BY DEF BodyInv, BodyList
  <1>2. CASE htmlBody = <<>>
    <2>1. textBody # <<>>
      BY DEF B!ToSet
    <2>2. textBody[1] \in B!ToSet(textBody)
      BY <1>1, <2>1, EmptySeq DEF B!ToSet
    <2>3. B!Shown = {textBody[1]} /\ textBody[1] <= i /\ textBody[1] \in Nat
      BY <1>2, <2>1, <2>2 DEF BodyInv, BodyList, B!Shown
    <2>4. QED
      BY <1>1, <2>3
  <1>3. CASE htmlBody # <<>>
    <2>1. h \in B!ToSet(htmlBody)
      BY <1>1, <1>3, EmptySeq DEF B!ToSet
    <2>2. B!Shown = {h} /\ h \in 1..Len(parts) /\ h \in Nat
      BY <1>3, <2>1 DEF B!Shown, BodyInv, BodyList
    <2>3. \A j \in B!ToSet(htmlBody) : h <= j /\ j \in 1..Len(parts)
      BY DEF BodyInv, BodyList
    <2> HIDE DEF h
    <2>4. CASE h <= i
      BY <1>1, <2>2, <2>4
    <2>5. CASE ~(h <= i)
      <3>1. i \notin B!ToSet(htmlBody) /\ i <= h
        BY <1>1, <2>2, <2>3, <2>5
      <3>2. PICK k \in 1..i : parts[k].kind = "plain" /\ within[k] # {}
        BY <3>1 DEF WithinInv, Chosen
      <3>3. PICK a \in within[k] : TRUE
        BY <3>2
      <3>4. CASE \A j \in B!ToSet(htmlBody) : a \notin within[j]
        BY <3>2, <3>3, <3>4 DEF B!Lone
      <3>5. CASE \E j \in B!ToSet(htmlBody) : a \in within[j]
        <4>1. PICK j \in B!ToSet(htmlBody) : a \in within[j]
          BY <3>5
        <4>2. k \in 1..Len(parts) /\ k <= i /\ k <= h /\ h <= j /\ i <= j /\ j \in 1..Len(parts)
          BY <1>1, <2>2, <2>3, <3>1, <3>2, <4>1
        <4>3. a \in within[i] /\ a \in within[h]
          BY <1>1, <2>2, <3>3, <4>1, <4>2 DEF WithinInv, Neighbours
        <4>4. QED
          BY <2>2, <4>3 DEF B!Superseded
      <3>6. QED
        BY <3>4, <3>5
    <2>6. QED
      BY <2>4, <2>5
  <1>4. QED
    BY <1>2, <1>3

\* What the lists hold is what the reader finds.
LEMMA BodyFinds == BodyInv /\ WithinInv => B!ReaderFindsEverything
  <1> SUFFICES ASSUME BodyInv, WithinInv PROVE B!ReaderFindsEverything
    OBVIOUS
  <1>1. ASSUME NEW s \in {textBody, htmlBody}, s # <<>>
        PROVE  s[1] \in B!ToSet(s)
    <2>1. 1 \in DOMAIN s
      BY <1>1, EmptySeq DEF BodyInv, BodyList
    <2>2. QED
      BY <1>1, <2>1 DEF B!ToSet
  <1>2. B!Index = 1..Len(parts)
    BY DEF BodyInv, B!Index
  <1>3. ASSUME NEW i \in B!ToSet(htmlBody)
        PROVE  i \in B!Shown \/ \E j \in B!Shown : j < i
    <2>1. htmlBody # <<>>
      BY <1>3 DEF B!ToSet
    <2>2. B!Shown = {htmlBody[1]} /\ htmlBody[1] <= i /\ htmlBody[1] \in Nat /\ i \in Nat
      BY <1>1, <1>3, <2>1 DEF B!Shown, BodyInv, BodyList
    <2>3. QED
      BY <2>2
  <1>4. ASSUME NEW i \in B!Index, parts[i].kind \in B!Leaf
        PROVE  \/ i \in B!Shown \union B!Rendered \union B!Chips
               \/ B!Text(i) /\ (B!Superseded(i) \/ \E j \in B!Shown : j < i)
               \/ B!Text(i) /\ \E k \in 1..i : B!Lone(k)
               \/ i \in B!Extracted /\ B!IsInline(i)
    <2>1. CASE i \in B!ToSet(attachments)
      <3>1. i \in B!Extracted
        BY <1>4, <2>1, KindsDiffer DEF B!Extracted
      <3>2. QED
        BY <3>1 DEF B!Chips
    <2>2. CASE parts[i].kind = "html" /\ i \in B!ToSet(htmlBody)
      BY <1>3, <2>2 DEF B!Text
    <2>3. CASE parts[i].kind = "plain" /\ i \in B!ToSet(textBody)
      BY <2>3, PlainIsFound DEF B!Text
    <2>4. QED
      BY <1>2, <1>4, <2>1, <2>2, <2>3 DEF BodyInv
  <1>5. ASSUME NEW i \in B!Opening PROVE i \in B!Shown \/ B!Superseded(i) \/ B!Lone(i)
    <2>1. i \in 1..Len(parts) /\ i \in Nat /\ \A j \in 1..(i - 1) : parts[j].kind \in B!Multipart
      BY <1>2 DEF B!Opening
    <2>2. B!Multipart \intersect {"plain", "html", "image"} = {}
      BY DEF B!Multipart
    <2>3. \A j \in 1..i : parts[j].kind \notin B!Multipart => j = i
      BY <2>1
    <2>4. ASSUME NEW j \in B!Shown, j < i PROVE FALSE
      <3>1. j \in B!ToSet(htmlBody) \union B!ToSet(textBody)
        BY <1>1, <2>4 DEF B!Shown
      <3>2. j \in 1..Len(parts) /\ parts[j].kind \in {"plain", "html", "image"}
        BY <3>1 DEF BodyInv, BodyList
      <3>3. j \in 1..i /\ j # i
        BY <2>1, <2>4, <3>2
      <3>4. QED
        BY <2>2, <2>3, <3>2, <3>3
    <2>5. CASE i \in B!ToSet(htmlBody)
      BY <1>3, <2>4, <2>5
    <2>6. CASE i \notin B!ToSet(htmlBody)
      <3>1. i \in B!ToSet(textBody)
        BY <2>6 DEF BodyInv
      <3>2. parts[i].kind = "plain" \/ parts[i].kind = "html"
        BY DEF B!Opening, B!Text
      <3>3. CASE parts[i].kind = "plain"
        <4>1. i \in B!Shown \/ B!Superseded(i) \/ \E k \in 1..i : B!Lone(k)
          BY <2>4, <3>1, <3>3, PlainIsFound
        <4>2. ASSUME NEW k \in 1..i, B!Lone(k) PROVE k = i
          <5>1. parts[k].kind \notin B!Multipart
            BY <2>2, <4>2 DEF B!Lone
          <5>2. QED
            BY <2>3, <5>1
        <4>3. QED
          BY <4>1, <4>2
      <3>4. CASE parts[i].kind = "html"
        BY <2>6, <3>4 DEF BodyInv
      <3>5. QED
        BY <3>2, <3>3, <3>4
    <2>7. QED
      BY <2>5, <2>6
  <1>6. ASSUME NEW i \in B!Shown PROVE B!Text(i) \/ parts[i].kind = "image"
    <2>1. i \in B!ToSet(htmlBody) \union B!ToSet(textBody)
      BY <1>1 DEF B!Shown
    <2>2. QED
      BY <2>1 DEF BodyInv, BodyList, B!Text
  <1>7. QED
    BY <1>4, <1>5, <1>6 DEF B!ReaderFindsEverything

-----------------------------------------------------------------------------
(* BodyParts: types *)

LEMMA BodyTyped == BodyInv /\ BodyTypes /\ WithinInv => B!TypeOK
  <1> SUFFICES ASSUME BodyInv, BodyTypes, WithinInv PROVE B!TypeOK
    OBVIOUS
  <1>1. B!Index = 1..Len(parts)
    BY DEF BodyInv, B!Index
  <1>2. ASSUME NEW s, BodyList(s, parts) PROVE s \in Seq(B!Index)
    <2>1. s \in Seq(Nat) /\ \A i \in 1..Len(s) : s[i] \in B!Index
      BY <1>1, <1>2 DEF BodyList, B!ToSet
    <2>2. Len(s) \in Nat /\ s \in [1..Len(s) -> B!Index]
      BY <2>1
    <2>3. QED
      BY <2>1, <2>2
  <1>3. within \in [B!Index -> SUBSET B!Index]
    <2>1. within \in Seq(SUBSET Nat) /\ Len(within) = Len(parts)
      BY DEF WithinInv, Neighbours
    <2>2. within \in [1..Len(parts) -> SUBSET Nat]
      BY <2>1
    <2>3. \A i \in 1..Len(parts) : within[i] \subseteq 1..Len(parts)
      BY DEF WithinInv, Neighbours
    <2>4. QED
      BY <1>1, <2>2, <2>3
  <1>4. QED
    BY <1>1, <1>2, <1>3 DEF BodyInv, BodyTypes, B!TypeOK

-----------------------------------------------------------------------------
(* The theorems *)

\* Discovery ends with the answer of the best source that was heard in time, for
\* whatever documents, records and delays: runChain and finalize.
THEOREM DiscoveryFindsTheBest == Spec => []BestAnswerWins
  <1> DEFINE I == part = "discovery" => DiscoveryInv
  <1>1. Init => I
    BY DiscoveryInit DEF Init
  <1>2. I /\ [Next]_vars => I'
    BY DiscoveryStep DEF Next, vars
  <1>3. I => BestAnswerWins
    BY DEF BestAnswerWins, DiscoveryInv
  <1>4. QED
    BY <1>1, <1>2, <1>3, PTL DEF Spec

\* The shipments shown are those of the message, for whatever tokens and links it
\* has, in any order: Extract.
THEOREM ShipmentsFound == Spec => []ShipmentsAreTheMessages
  <1> DEFINE I == part = "shipments" => ShipmentInv
  <1>1. Init => I
    BY DEF Init, H!Init, ShipmentInv
  <1>2. I /\ [Next]_vars => I'
    BY ShipmentStep DEF Next, vars
  <1>3. I => ShipmentsAreTheMessages
    <2>1. found = Nothing => H!ShipmentsAreTheMessages
      BY DEF H!ShipmentsAreTheMessages
    <2>2. QED
      BY <2>1, ExtractMeans DEF ShipmentsAreTheMessages, ShipmentInv
  <1>4. QED
    BY <1>1, <1>2, <1>3, PTL DEF Spec

\* A number with one wrong digit is not taken for certain, in a number of any length, for
\* any digit at any place, save for the pairs the scheme cannot tell apart: the checksums.
THEOREM TypoCaught == Spec => []TypoIsCaught
  <1> DEFINE I == part = "checksums" => ChecksumInv
  <1>1. Init => I
    BY ChecksumInit DEF Init
  <1>2. I /\ [Next]_vars => I'
    BY ChecksumStep DEF Next, vars
  <1>3. I => TypoIsCaught
    BY TypoSeen DEF TypoIsCaught
  <1>4. QED
    BY <1>1, <1>2, <1>3, PTL DEF Spec

\* Every part that has content is shown, rendered or listed, or is superseded by what the
\* sender offered with it, or follows what hides it; an opening text is shown or superseded
\* or alone in its alternative -- however containers and messages are nested, for any number
\* of parts: walk, and the reader, which shows text only if there is no HTML.
THEOREM NothingIsHidden == Spec => []ReaderFindsEverything
  <1> DEFINE I == part = "body" => BodyInv /\ BodyTypes /\ WithinInv
  <1>1. Init => I
    BY BodyInit, BodyTypesInit, WithinInit DEF Init
  <1>2. I /\ [Next]_vars => I'
    BY BodyStep, BodyTypesStep, WithinStep DEF Next, vars
  <1>3. I => ReaderFindsEverything
    BY BodyFinds DEF ReaderFindsEverything
  <1>4. QED
    BY <1>1, <1>2, <1>3, PTL DEF Spec

\* Every variable of every part keeps its type, for any constants: a discovery stays in
\* its budget and has an answer just when it is done, every shipment has a carrier and
\* a parcel or a link, and the lists of a body hold indexes of parts.
THEOREM TypeInvariance == Spec => []TypeOK
  <1> DEFINE I == /\ part = "discovery" => DiscoveryInv /\ DiscoveryTypes
                  /\ part = "shipments" => ShipmentInv
                  /\ part = "checksums" => ChecksumInv /\ scheme \in Scheme
                  /\ part = "body" => BodyInv /\ BodyTypes /\ WithinInv
  <1>1. Init => I
    <2>1. C!Init => scheme \in Scheme
      BY DEF C!Init
    <2>2. H!Init => ShipmentInv
      BY DEF H!Init, ShipmentInv
    <2>3. QED
      BY <2>1, <2>2, DiscoveryInit, DiscoveryTypesInit, ChecksumInit, BodyInit, BodyTypesInit, WithinInit DEF Init
  <1>2. I /\ [Next]_vars => I'
    <2>1. (C!Next \/ UNCHANGED checksumVars) => scheme' = scheme
      BY DEF C!Next, C!Mistype, checksumVars
    <2>2. QED
      BY <2>1, DiscoveryStep, DiscoveryTypesStep, ShipmentStep, ChecksumStep, BodyStep, BodyTypesStep,
         WithinStep DEF Next, vars
  <1>3. I /\ DesktopTypeOK => TypeOK
    <2>1. ChecksumInv /\ scheme \in Scheme => C!TypeOK
      BY ChecksumTyped DEF C!TypeOK
    <2>2. QED
      BY <2>1, DiscoveryTyped, ShipmentTyped, BodyTyped DEF TypeOK, DesktopTypeOK
  <1>4. QED
    BY <1>1, <1>2, <1>3, DesktopTypes, PTL DEF Spec

=============================================================================
