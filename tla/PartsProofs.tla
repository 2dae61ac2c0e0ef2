---------------------------- MODULE PartsProofs -----------------------------
(***************************************************************************)
(* Proofs about the notifier, the theme watcher, the downloads and the     *)
(* outbox of Parts, for any values of their constants: types and claims.   *)
(* Each part has an inductive invariant of its own; that a behaviour of    *)
(* the parts is one of the part it takes is in the theorems.               *)
(***************************************************************************)
EXTENDS Parts, SequenceTheorems, FiniteSetTheorems, TLAPS

USE DEF vars, notifierVars, themeVars, downloadVars, outboxVars, discoveryVars, shipmentVars,
        checksumVars, bodyVars

\* What is left of a queue ends as it did.
LEMMA TailKeepsLast ==
  ASSUME NEW S, NEW s \in Seq(S), s # <<>>
  PROVE  /\ Head(s) \in S /\ Head(s) = s[1] /\ Tail(s) \in Seq(S)
         /\ Len(s) \in Nat \ {0} /\ Len(Tail(s)) = Len(s) - 1
         /\ Tail(s) = <<>> => Len(s) = 1
         /\ Tail(s) # <<>> => Tail(s)[Len(Tail(s))] = s[Len(s)]
  <1>1. /\ Head(s) \in S /\ Tail(s) \in Seq(S) /\ Len(Tail(s)) = Len(s) - 1
        /\ \A i \in 1..Len(Tail(s)) : Tail(s)[i] = s[i + 1]
    BY HeadTailProperties
  <1>2. Len(s) \in Nat \ {0} /\ Head(s) = s[1]
    BY EmptySeq
  <1>3. Tail(s) = <<>> => Len(s) = 1
    <2>1. Tail(s) = <<>> => Len(Tail(s)) = 0
      BY EmptySeq
    <2>2. QED
      BY <1>1, <1>2, <2>1
  <1>4. ASSUME Tail(s) # <<>> PROVE Tail(s)[Len(Tail(s))] = s[Len(s)]
    <2>1. Len(Tail(s)) \in Nat \ {0}
      BY <1>1, <1>4, EmptySeq
    <2>2. Len(Tail(s)) \in 1..Len(Tail(s)) /\ Len(Tail(s)) + 1 = Len(s)
      BY <1>1, <1>2, <2>1
    <2>3. QED
      BY <1>1, <2>2
  <1>5. QED
    BY <1>1, <1>2, <1>3, <1>4

-----------------------------------------------------------------------------
(* The theme *)

\* Where the watcher has not read the files yet: what changes then is `missed'.
Starting == watcher \in {"start", "first", "firstName", "off"}

\* What the watcher has read is current unless an event waits; what is on its way to
\* the window ends in what the watcher knows; and a window that has missed nothing
\* shows the theme of the files, or what the watcher knows, or the watcher is
\* about to find another.
ThemeInv ==
  /\ T!TypeOK
  /\ ~dirty /\ watcher \in {"firstName", "againName"} => half = colors
  /\ ~dirty /\ watcher = "wait" => last = T!Theme
  /\ sent # <<>> => ~Starting /\ sent[Len(sent)] = last
  /\ page = "reading" /\ ~missed => pageHalf = colors
  /\ page = "applied" /\ ~missed => theme = T!Theme
  /\ page = "listening" /\ ~missed /\ Starting => theme = T!Theme
  /\ page = "listening" /\ ~missed /\ sent = <<>>
       => theme = last \/ theme = T!Theme \/ T!Theme # last

LEMMA ThemeInit == T!Init => ThemeInv
  <1> SUFFICES ASSUME T!Init PROVE ThemeInv
    OBVIOUS
  <1>0. 0 \in Version /\ MaxWrites \in Nat
    BY PartsAssumption
  <1>1. last \in Version \X Version /\ theme \in Version \X Version
    BY <1>0 DEF T!Init, T!KanagawaFallback
  <1>2. sent \in Seq(Version \X Version) /\ writes \in 0..MaxWrites
    BY <1>0 DEF T!Init
  <1>3. T!TypeOK
    BY <1>0, <1>1, <1>2 DEF T!Init, T!TypeOK
  <1>4. QED
    BY <1>3 DEF T!Init, ThemeInv

LEMMA ThemeStep == ThemeInv /\ (T!Next \/ UNCHANGED themeVars) => ThemeInv'
  <1> SUFFICES ASSUME ThemeInv, T!Next \/ UNCHANGED themeVars PROVE ThemeInv'
    OBVIOUS
  <1> USE DEF T!watchVars, T!pageVars
  <1>1. T!TypeOK /\ 0 \in Version /\ MaxWrites \in Nat
    BY PartsAssumption DEF ThemeInv
  <1>2. \A c, n_ \in Version : T!ThemeOf(c, n_) \in Version \X Version
    BY <1>1 DEF T!ThemeOf, T!KanagawaFallback
  <1>3. CASE T!Change
    <2>1. /\ writes < MaxWrites /\ writes' = writes + 1
          /\ colors' \in Version /\ name' \in Version
          /\ dirty' = (dirty \/ T!Watched)
          /\ missed' = (missed \/ /\ page # "load"
                                  /\ \/ page # "listening"
                                     \/ watcher \in {"start", "first", "firstName", "off"}
                                     \/ T!ThemeOf(colors', name') = last /\ theme # last)
          /\ UNCHANGED <<watcher, half, last, sent, page, pageHalf, theme>>
      BY <1>1, <1>3 DEF T!Change, T!TypeOK
    <2>2. T!TypeOK'
      BY <1>1, <2>1 DEF T!TypeOK
    <2>3. QED
      BY <2>1, <2>2 DEF ThemeInv, Starting, T!Theme, T!Watched
  <1>4. CASE T!Add
    BY <1>1, <1>4 DEF ThemeInv, Starting, T!TypeOK, T!Theme, T!Add
  <1>5. CASE T!ReadColors
    BY <1>1, <1>5 DEF ThemeInv, Starting, T!TypeOK, T!Theme, T!ReadColors
  <1>6. CASE T!ReadFirst
    BY <1>1, <1>2, <1>6 DEF ThemeInv, Starting, T!TypeOK, T!Theme, T!ReadFirst
  <1>7. CASE T!TakeEvent
    BY <1>1, <1>7 DEF ThemeInv, Starting, T!TypeOK, T!Theme, T!TakeEvent
  <1>8. CASE T!Settle
    BY <1>1, <1>8 DEF ThemeInv, Starting, T!TypeOK, T!Theme, T!Settle
  <1>9. CASE T!ReadAgain
    BY <1>1, <1>2, <1>9 DEF ThemeInv, Starting, T!TypeOK, T!Theme, T!ReadAgain
  <1>10. CASE T!PageReadsColors \/ T!PageListens
    BY <1>1, <1>10 DEF ThemeInv, Starting, T!TypeOK, T!Theme, T!PageReadsColors, T!PageListens
  <1>11. CASE T!PageApplies
    BY <1>1, <1>2, <1>11 DEF ThemeInv, Starting, T!TypeOK, T!Theme, T!PageApplies
  <1>12. CASE T!Deliver
    <2>1. /\ sent \in Seq(Version \X Version) /\ sent # <<>> /\ sent' = Tail(sent)
          /\ IF page = "listening" THEN theme' = Head(sent) /\ missed' = FALSE
                                   ELSE UNCHANGED <<theme, missed>>
          /\ UNCHANGED <<colors, name, writes, watcher, dirty, half, last, page, pageHalf>>
      BY <1>1, <1>12 DEF T!Deliver, T!TypeOK
    <2>2. /\ Head(sent) \in Version \X Version /\ sent' \in Seq(Version \X Version)
          /\ Head(sent) = sent[1]
          /\ sent' = <<>> => Len(sent) = 1
          /\ sent' # <<>> => sent'[Len(sent')] = sent[Len(sent)]
      BY <2>1, TailKeepsLast
    <2>3. T!TypeOK'
      BY <1>1, <2>1, <2>2 DEF T!TypeOK
    <2>4. QED
      BY <2>1, <2>2, <2>3 DEF ThemeInv, Starting, T!Theme
  <1>13. CASE UNCHANGED themeVars
    BY <1>1, <1>13 DEF ThemeInv, Starting, T!TypeOK, T!Theme
  <1>14. QED
    BY <1>3, <1>4, <1>5, <1>6, <1>7, <1>8, <1>9, <1>10, <1>11, <1>12, <1>13 DEF T!Next

-----------------------------------------------------------------------------
(* Sending *)

Mail == [headers : SUBSET Address, recipients : SUBSET Address]

\* Where the submission carries a built message.
Carries == pc \in {"secret", "dial", "auth", "envelope", "data", "quit"}
Reported == pc \in {"quit", "sent"}

\* From O!Check on, what was built is the draft, and the draft is valid: nothing
\* can edit it while the submission runs.
BuiltInv ==
  /\ draft \in O!Drafts
  /\ Carries => O!Valid(draft) /\ built = O!Build(draft)
  /\ secretRead /\ pc # "edit" => O!Valid(draft)

\* What the server has accepted, against the replies that came.
AcceptedInv ==
  /\ lost \in Nat /\ delivered \in Seq(Mail)
  /\ Len(delivered) = lost + (IF Reported THEN 1 ELSE 0)
  /\ \A i \in DOMAIN delivered : delivered[i].recipients \intersect BadOnes = {}
  /\ Reported => delivered[Len(delivered)] = O!Build(draft)

OutboxInv == BuiltInv /\ AcceptedInv

\* The program starts with an empty draft and nothing accepted.
LEMMA OutboxInit == O!Init => OutboxInv
  <1> SUFFICES ASSUME O!Init PROVE OutboxInv
    OBVIOUS
  <1>1. draft \in O!Drafts
    BY DEF O!Init, O!NewDraft, O!Drafts, O!Reply
  <1>2. BuiltInv
    BY <1>1 DEF O!Init, BuiltInv, Carries
  <1>3. AcceptedInv
    BY DEF O!Init, AcceptedInv, Reported
  <1>4. QED
    BY <1>2, <1>3 DEF OutboxInv

\* A message built from a draft is one; what it names in a header is not Bcc.
LEMMA BuildIsMail ==
  ASSUME NEW d \in O!Drafts
  PROVE  /\ O!Build(d) \in Mail
         /\ O!Build(d).recipients = O!Everyone(d)
         /\ O!Build(d).headers \intersect d.bcc = {}
  BY DEF O!Build, Mail, O!Everyone, O!Drafts

\* One more acceptance is the last, and leaves those before as they were.
LEMMA Accepting ==
  ASSUME AcceptedInv, NEW m \in Mail, m.recipients \intersect BadOnes = {},
         delivered' = Append(delivered, m)
  PROVE  /\ delivered' \in Seq(Mail)
         /\ Len(delivered') = Len(delivered) + 1
         /\ \A i \in DOMAIN delivered' : delivered'[i].recipients \intersect BadOnes = {}
         /\ delivered'[Len(delivered')] = m
  <1>1. delivered \in Seq(Mail)
    BY DEF AcceptedInv
  <1>2. /\ delivered' \in Seq(Mail) /\ Len(delivered') = Len(delivered) + 1
        /\ \A i \in 1..Len(delivered) : delivered'[i] = delivered[i]
        /\ delivered'[Len(delivered) + 1] = m
    BY <1>1, AppendProperties
  <1>3. DOMAIN delivered = 1..Len(delivered) /\ DOMAIN delivered' = 1..Len(delivered')
        /\ Len(delivered) \in Nat
    BY <1>1, <1>2
  <1>4. ASSUME NEW i \in DOMAIN delivered'
        PROVE  delivered'[i].recipients \intersect BadOnes = {}
    <2>1. CASE i \in DOMAIN delivered
      BY <1>2, <1>3, <2>1 DEF AcceptedInv
    <2>2. CASE i = Len(delivered) + 1
      BY <1>2, <2>2
    <2>3. QED
      BY <1>2, <1>3, <2>1, <2>2
  <1>5. QED
    BY <1>2, <1>4

\* Every step keeps the invariant.
LEMMA OutboxStep == OutboxInv /\ (O!Next \/ UNCHANGED outboxVars) => OutboxInv'
  <1> SUFFICES ASSUME OutboxInv, (O!Next \/ UNCHANGED outboxVars) PROVE OutboxInv'
    OBVIOUS
  <1> USE DEF OutboxInv
  <1>1. CASE O!Edit
    <2>1. BuiltInv'
      BY <1>1 DEF O!Edit, BuiltInv, Carries
    <2>2. AcceptedInv'
      BY <1>1 DEF O!Edit, AcceptedInv, Reported
    <2>3. QED
      BY <2>1, <2>2
  <1>2. CASE O!Submit
    BY <1>2 DEF O!Submit, O!Goto, O!still, BuiltInv, AcceptedInv, Carries, Reported
  <1>3. CASE O!Check
    <2>1. CASE O!Valid(draft)
      BY <1>3, <2>1 DEF O!Check, O!Goto, O!still, BuiltInv, AcceptedInv, Carries, Reported, O!Valid, O!Build, O!Everyone
    <2>2. CASE ~O!Valid(draft)
      BY <1>3, <2>2 DEF O!Check, O!Fail, O!Goto, O!still, BuiltInv, AcceptedInv, Carries, Reported, O!Valid, O!Everyone
    <2>3. QED
      BY <2>1, <2>2
  <1>4. CASE O!GetSecret
    BY <1>4 DEF O!GetSecret, O!Fail, O!Goto, O!still, BuiltInv, AcceptedInv, Carries, Reported,
                O!Valid, O!Build, O!Everyone
  <1>5. CASE O!Dial \/ O!Authenticate \/ O!Envelope
    BY <1>5 DEF O!Dial, O!Authenticate, O!Envelope, O!Fail, O!Goto, O!still, BuiltInv, AcceptedInv,
                Carries, Reported, O!Valid, O!Build, O!Everyone
  <1>6. CASE O!Data
    <2>1. pc = "data" /\ O!Valid(draft) /\ built = O!Build(draft) /\ draft \in O!Drafts
      BY <1>6 DEF O!Data, O!Fail, O!Goto, BuiltInv, Carries
    <2>2. built \in Mail /\ built.recipients \intersect BadOnes = {}
      BY <2>1, BuildIsMail DEF O!Valid
    <2>3. BuiltInv'
      BY <1>6, <2>1 DEF O!Data, O!Fail, O!Goto, O!still, BuiltInv, Carries, O!Valid, O!Build, O!Everyone
    <2>4. CASE delivered' = Append(delivered, built)
      <3>1. /\ delivered' \in Seq(Mail)
            /\ Len(delivered') = Len(delivered) + 1
            /\ \A i \in DOMAIN delivered' : delivered'[i].recipients \intersect BadOnes = {}
            /\ delivered'[Len(delivered')] = built
        BY <2>2, <2>4, Accepting
      <3>2. (pc' = "quit" /\ lost' = lost) \/ (pc' = "edit" /\ lost' = lost + 1)
        BY <1>6, <2>4, <2>1, <3>1 DEF O!Data, O!Fail, O!Goto, AcceptedInv, Reported
      <3>3. draft' = draft
        BY <1>6 DEF O!Data
      <3>4. QED
        BY <2>1, <2>3, <3>1, <3>2, <3>3 DEF AcceptedInv, Reported, O!Build, O!Everyone
    <2>5. CASE O!Fail("data") /\ UNCHANGED <<delivered, lost>>
      BY <2>1, <2>3, <2>5 DEF O!Fail, O!Goto, AcceptedInv, Reported
    <2>6. QED
      BY <1>6, <2>4, <2>5 DEF O!Data
  <1>7. CASE O!Quit
    BY <1>7 DEF O!Quit, O!QuitIgnored, O!Goto, O!still, BuiltInv, AcceptedInv, Carries, Reported,
                O!Valid, O!Build, O!Everyone
  <1>8. CASE O!Compose
    <2>1. draft' \in O!Drafts /\ pc' = "edit"
      BY <1>8 DEF O!Compose, O!Goto, O!NewDraft, O!Drafts, O!Reply
    <2>2. BuiltInv'
      BY <2>1 DEF BuiltInv, Carries
    <2>3. AcceptedInv'
      BY <1>8, <2>1 DEF O!Compose, AcceptedInv, Reported
    <2>4. QED
      BY <2>2, <2>3
  <1>9. CASE UNCHANGED outboxVars
    BY <1>9 DEF O!still, BuiltInv, AcceptedInv, Carries, Reported, O!Valid, O!Build, O!Everyone
  <1>10. QED
    BY <1>1, <1>2, <1>3, <1>4, <1>5, <1>6, <1>7, <1>8, <1>9 DEF O!Next

-----------------------------------------------------------------------------
(* Saving attachments *)

\* A call that has chosen a path finds it free, one that writes has its path for
\* itself, and one that has saved finds its attachment there -- where no name was
\* taken between a look and an open.
DownloadInv ==
  /\ at \in [Call -> {"idle", "look", "chosen", "writing", "saved", "failed", "deleted"}]
  /\ att \in [Call -> Attachment] /\ n \in [Call -> 0..MaxSuffix]
  /\ theirs \subseteq DOMAIN files
  /\ \A c \in Call : D!Path(c) \notin clash =>
       /\ at[c] = "chosen" => D!Path(c) \notin DOMAIN files
       /\ at[c] = "writing" =>
            /\ D!Path(c) \in DOMAIN files \ theirs /\ files[D!Path(c)] = Partial
            /\ \A d \in Call \ {c} :
                 D!Path(d) = D!Path(c) => at[d] \notin {"chosen", "writing", "saved"}
       /\ at[c] = "saved" =>
            D!Path(c) \in DOMAIN files \ theirs /\ files[D!Path(c)] = att[c]
  /\ \A p \in DOMAIN files \ clash :
       /\ p \in theirs => files[p] = Foreign
       /\ files[p] = Partial => \E c \in Call : D!Path(c) = p /\ at[c] \in {"writing", "failed"}

LEMMA DownloadInit == D!Init => DownloadInv
  <1> SUFFICES ASSUME D!Init PROVE DownloadInv
    OBVIOUS
  <1>1. PICK there \in SUBSET {D!SafeFilename(a) : a \in Attachment} :
          files = [p \in there |-> Foreign]
    BY DEF D!Init
  <1>2. /\ at = [c \in Call |-> "idle"] /\ att \in [Call -> Attachment]
        /\ n = [c \in Call |-> 0] /\ theirs = DOMAIN files
    BY DEF D!Init
  <1>3. n \in [Call -> 0..MaxSuffix]
    BY <1>2, PartsAssumption
  <1>4. QED
    BY <1>1, <1>2, <1>3, PartsAssumption DEF DownloadInv

\* The path of a call is its attachment's and its number's.
LEMMA SamePath ==
  ASSUME UNCHANGED att, NEW c \in Call, n'[c] = n[c]
  PROVE  D!Path(c)' = D!Path(c)
  BY DEF D!Path, D!Candidate

\* A file that is put there is there, and the others are as they were.
LEMMA PutMeans ==
  ASSUME NEW p, NEW content, files' = D!Put(p, content)
  PROVE  /\ DOMAIN files' = DOMAIN files \union {p} /\ files'[p] = content
         /\ \A q \in DOMAIN files \ {p} : files'[q] = files[q]
  BY DEF D!Put

LEMMA DownloadStep == DownloadInv /\ (D!Next \/ UNCHANGED downloadVars) => DownloadInv'
  <1> SUFFICES ASSUME DownloadInv, D!Next \/ UNCHANGED downloadVars PROVE DownloadInv'
    OBVIOUS
  <1> USE DEF DownloadInv
  <1>1. Foreign # Partial /\ Partial \notin Attachment
    BY PartsAssumption
  <1>2. ASSUME NEW c \in Call, D!Fetch(c) PROVE DownloadInv'
    <2>1. \A d \in Call : D!Path(d)' = D!Path(d)
      BY <1>2, SamePath DEF D!Fetch
    <2>2. QED
      BY <1>2, <2>1 DEF D!Fetch
  <1>3. ASSUME NEW c \in Call, D!UniquePath(c) PROVE DownloadInv'
    <2>1. \A d \in Call \ {c} : n'[d] = n[d] /\ at'[d] = at[d]
      BY <1>3 DEF D!UniquePath, D!Look
    <2>2. \A d \in Call \ {c} : D!Path(d)' = D!Path(d)
      BY <1>3, <2>1, SamePath DEF D!UniquePath
    <2>3. \/ at[c] = "look" /\ at' = at /\ n' \in [Call -> 0..MaxSuffix]
          \/ /\ at[c] = "look" /\ at' = [at EXCEPT ![c] = "chosen"] /\ n' = n
             /\ D!Path(c) \notin DOMAIN files
      BY <1>3, PartsAssumption DEF D!UniquePath, D!Look, D!Exists
    <2>4. at'[c] = "chosen" => D!Path(c)' = D!Path(c)
      BY <1>3, <2>3, SamePath DEF D!UniquePath
    <2>5. UNCHANGED <<files, att, clash, theirs>>
      BY <1>3 DEF D!UniquePath
    <2>6. at' \in [Call -> {"idle", "look", "chosen", "writing", "saved", "failed", "deleted"}]
      BY <2>3
    <2>7. at'[c] \in {"look", "chosen"}
      BY <2>3
    <2>8. QED
      BY <2>1, <2>2, <2>3, <2>4, <2>5, <2>6, <2>7
  <1>4. ASSUME NEW c \in Call, D!Open(c) PROVE DownloadInv'
    <2>1. \A d \in Call : D!Path(d)' = D!Path(d)
      BY <1>4, SamePath DEF D!Open
    <2>2. CASE at' = [at EXCEPT ![c] = "failed"] /\ UNCHANGED <<files, clash>>
      BY <1>4, <2>1, <2>2 DEF D!Open
    <2>3. CASE /\ at' = [at EXCEPT ![c] = "writing"]
               /\ files' = D!Put(D!Path(c), Partial)
               /\ clash' = IF D!Chosen(D!Path(c)) # {c} THEN clash \union {D!Path(c)} ELSE clash
      <3>1. /\ DOMAIN files' = DOMAIN files \union {D!Path(c)} /\ files'[D!Path(c)] = Partial
            /\ \A q \in DOMAIN files \ {D!Path(c)} : files'[q] = files[q]
        BY <2>3, PutMeans
      <3>2. at[c] = "chosen" /\ UNCHANGED <<att, n, theirs>>
        BY <1>4 DEF D!Open
      <3>3. D!Path(c) \notin clash' =>
              /\ D!Path(c) \notin DOMAIN files
              /\ \A d \in Call \ {c} : D!Path(d) = D!Path(c) => at[d] \notin {"chosen", "writing", "saved"}
        BY <2>3, <3>2 DEF D!Chosen
      <3>4. clash \subseteq clash'
        BY <2>3
      <3>5. QED
        BY <2>1, <2>3, <3>1, <3>2, <3>3, <3>4
    <2>4. QED
      BY <1>4, <2>2, <2>3 DEF D!Open
  <1>5. ASSUME NEW c \in Call, D!Write(c) PROVE DownloadInv'
    <2>1. \A d \in Call : D!Path(d)' = D!Path(d)
      BY <1>5, SamePath DEF D!Write
    <2>2. CASE at' = [at EXCEPT ![c] = "failed"] /\ UNCHANGED files
      BY <1>5, <2>1, <2>2 DEF D!Write
    <2>3. CASE /\ at' = [at EXCEPT ![c] = "saved"]
               /\ files' = IF D!Exists(D!Path(c)) THEN D!Put(D!Path(c), att[c]) ELSE files
      <3>1. at[c] = "writing" /\ UNCHANGED <<att, n, clash, theirs>>
        BY <1>5 DEF D!Write
      <3>2. CASE D!Path(c) \in DOMAIN files
        <4>1. /\ DOMAIN files' = DOMAIN files \union {D!Path(c)} /\ files'[D!Path(c)] = att[c]
              /\ \A q \in DOMAIN files \ {D!Path(c)} : files'[q] = files[q]
          BY <2>3, <3>2, PutMeans DEF D!Exists
        <4>2. att[c] # Partial
          BY <1>1
        <4>3. QED
          BY <2>1, <2>3, <3>1, <3>2, <4>1, <4>2
      <3>3. CASE D!Path(c) \notin DOMAIN files
        BY <2>1, <2>3, <3>1, <3>3 DEF D!Exists
      <3>4. QED
        BY <3>2, <3>3
    <2>4. QED
      BY <1>5, <2>2, <2>3 DEF D!Write
  <1>6. ASSUME NEW p \in D!Name, D!ForeignCreates(p) PROVE DownloadInv'
    <2>1. \A d \in Call : D!Path(d)' = D!Path(d)
      BY <1>6, SamePath DEF D!ForeignCreates
    <2>2. /\ DOMAIN files' = DOMAIN files \union {p} /\ files'[p] = Foreign
          /\ \A q \in DOMAIN files \ {p} : files'[q] = files[q]
      BY <1>6, PutMeans DEF D!ForeignCreates
    <2>3. /\ p \notin DOMAIN files /\ theirs' = theirs \union {p}
          /\ clash' = IF D!Chosen(p) # {} THEN clash \union {p} ELSE clash
          /\ UNCHANGED <<at, att, n>>
      BY <1>6 DEF D!ForeignCreates, D!Exists
    <2>4. \A d \in Call : D!Path(d) = p /\ p \notin clash' => at[d] \notin {"chosen", "writing"}
      BY <2>3 DEF D!Chosen
    <2>5. QED
      BY <1>1, <2>1, <2>2, <2>3, <2>4
  <1>7. ASSUME NEW p \in D!Name, D!UserDeletes(p) PROVE DownloadInv'
    <2>1. \A d \in Call : D!Path(d)' = D!Path(d)
      BY <1>7, SamePath DEF D!UserDeletes
    <2>2. /\ DOMAIN files' = DOMAIN files \ {p}
          /\ \A q \in DOMAIN files \ {p} : files'[q] = files[q]
      BY <1>7 DEF D!UserDeletes, D!Restrict
    <2>3. /\ theirs' = theirs \ {p}
          /\ at' = [d \in Call |-> IF at[d] = "saved" /\ D!Path(d) = p THEN "deleted" ELSE at[d]]
          /\ UNCHANGED <<att, n, clash>>
          /\ \A d \in Call : D!Path(d) = p => at[d] \notin {"chosen", "writing"}
      BY <1>7 DEF D!UserDeletes, D!Chosen
    <2>4. QED
      BY <2>1, <2>2, <2>3
  <1>8. CASE UNCHANGED downloadVars
    <2>1. \A d \in Call : D!Path(d)' = D!Path(d)
      BY <1>8, SamePath
    <2>2. QED
      BY <1>8, <2>1
  <1>9. QED
    BY <1>2, <1>3, <1>4, <1>5, <1>6, <1>7, <1>8 DEF D!Next

-----------------------------------------------------------------------------
(* Notifications *)

Entry  == [owner : Loop \union {Other}, id : Nat \ {0}, epoch : Nat, open : BOOLEAN]
Signal == [name : {"ActionInvoked", "NotificationClosed"}, of : Nat]

\* A signal is about a notification that is gone from the screen; a click is
\* signalled once, before the closing that follows it, and is then unhandled.
SignalInv ==
  /\ shown \in Seq(Entry) /\ Len(shown) <= MaxShown /\ signals \in Seq(Signal) /\ epoch \in Nat
  /\ handled \subseteq clicked /\ clicked \subseteq 1..Len(shown)
  /\ \A k \in clicked : ~shown[k].open
  /\ \A i \in 1..Len(signals) :
       /\ signals[i].of \in 1..Len(shown) /\ ~shown[signals[i].of].open
       /\ signals[i].name = "ActionInvoked" =>
            /\ signals[i].of \in clicked \ handled
            /\ \A j \in 1..Len(signals) : signals[j].of = signals[i].of => i <= j

\* A click on k may still be signalled.
Live(k) ==
  \/ shown[k].open
  \/ \E i \in 1..Len(signals) : signals[i].name = "ActionInvoked" /\ signals[i].of = k

\* What is recorded, or about to be, is an id of ours, and the id of a notification
\* of ours is, as long as a click on it may be signalled.
PendingInv ==
  /\ id \in [Loop -> Nat]
  /\ \A i \in pending : \E j \in 1..Len(shown) : shown[j].id = i /\ shown[j].owner \in Loop
  /\ \A l \in Loop : id[l] # 0 => \E j \in 1..Len(shown) : shown[j].id = id[l] /\ shown[j].owner = l
  /\ \A k \in 1..Len(shown) : ~N!Reused(k) /\ shown[k].owner \in Loop /\ Live(k)
       => shown[k].id \in pending \union {id[shown[k].owner]}

\* Activations against the clicks handled.
ActivationInv ==
  /\ activated \in [1..MaxShown -> Nat]
  /\ \A k \in 1..MaxShown : activated[k] <= 1 /\ (k \notin handled => activated[k] = 0)
  /\ \A k \in 1..Len(shown) : ~N!Reused(k) =>
       /\ activated[k] = 1 => shown[k].owner # Other
       /\ k \in handled \ early /\ shown[k].owner # Other => activated[k] = 1

NotifierInv == SignalInv /\ PendingInv /\ ActivationInv

LEMMA NotifierInit == N!Init => NotifierInv
  <1> SUFFICES ASSUME N!Init PROVE NotifierInv
    OBVIOUS
  <1>1. /\ shown \in Seq(Entry) /\ signals \in Seq(Signal) /\ Len(shown) = 0 /\ Len(signals) = 0
    BY EmptySeq DEF N!Init
  <1>2. SignalInv
    BY <1>1, PartsAssumption DEF N!Init, SignalInv
  <1>3. PendingInv
    BY <1>1 DEF N!Init, PendingInv
  <1>4. ActivationInv
    BY <1>1, PartsAssumption DEF N!Init, ActivationInv
  <1>5. QED
    BY <1>2, <1>3, <1>4 DEF NotifierInv

\* A notification is an entry, also when it is closed.
LEMMA EntryType ==
  ASSUME SignalInv, NEW k \in 1..Len(shown)
  PROVE  /\ shown[k] \in Entry /\ [shown[k] EXCEPT !.open = FALSE] \in Entry
         /\ shown[k].owner \in Loop \union {Other} /\ shown[k].id \in Nat \ {0}
  <1>1. shown[k] \in Entry
    BY DEF SignalInv
  <1>2. QED
    BY <1>1 DEF Entry

\* Ids are positive.
LEMMA NextIdType == SignalInv => N!NextId \in Nat \ {0}
  <1> SUFFICES ASSUME SignalInv PROVE N!NextId \in Nat \ {0}
    OBVIOUS
  <1> DEFINE S == {k \in N!Shown : shown[k].epoch = epoch}
  <1>1. Len(shown) \in Nat /\ S \subseteq 1..Len(shown)
    BY DEF SignalInv, N!Shown
  <1>2. IsFiniteSet(1..Len(shown))
    BY <1>1, FS_Interval
  <1>3. IsFiniteSet(S)
    BY <1>1, <1>2, FS_Subset
  <1>4. Cardinality(S) \in Nat
    BY <1>3, FS_CardinalityType
  <1>5. N!NextId = 1 + Cardinality(S)
    BY DEF N!NextId, N!Cardinality, Cardinality
  <1>6. QED
    BY <1>4, <1>5

\* One more notification, as the last.
LEMMA ShownGrows ==
  ASSUME SignalInv, NEW owner \in Loop \union {Other}, N!Put(owner), Len(shown) < MaxShown
  PROVE  /\ shown' \in Seq(Entry) /\ Len(shown') = Len(shown) + 1 /\ Len(shown') <= MaxShown
         /\ \A k \in 1..Len(shown) : shown'[k] = shown[k]
         /\ shown'[Len(shown')].owner = owner /\ shown'[Len(shown')].id = N!NextId
         /\ \A k \in 1..Len(shown) : ~N!Reused(k)' => ~N!Reused(k)
  <1> DEFINE r == [owner |-> owner, id |-> N!NextId, epoch |-> epoch, open |-> TRUE]
  <1>1. r \in Entry
    BY NextIdType DEF Entry, SignalInv
  <1>2. shown' = Append(shown, r) /\ shown \in Seq(Entry)
    BY DEF N!Put, SignalInv
  <1> HIDE DEF r
  <1>3. /\ shown' \in Seq(Entry) /\ Len(shown') = Len(shown) + 1
        /\ \A k \in 1..Len(shown) : shown'[k] = shown[k]
        /\ shown'[Len(shown) + 1] = r /\ Len(shown) \in Nat
    BY <1>1, <1>2, AppendProperties
  <1>4. MaxShown \in Nat
    BY PartsAssumption
  <1>5. DOMAIN shown = 1..Len(shown) /\ DOMAIN shown' = 1..Len(shown')
    BY <1>2, <1>3
  <1>6. r.owner = owner /\ r.id = N!NextId
    BY DEF r
  <1>7. \A k \in 1..Len(shown) : ~N!Reused(k)' => ~N!Reused(k)
    BY <1>3, <1>5 DEF N!Reused, N!Shown, N!IdOf
  <1>8. QED
    BY <1>3, <1>4, <1>6, <1>7

\* A notification is clicked, closed, or lost with the daemon: only `open' changes.
ShownFades ==
  /\ shown' \in Seq(Entry) /\ Len(shown') = Len(shown)
  /\ \A k \in 1..Len(shown) :
       /\ shown'[k].owner = shown[k].owner /\ shown'[k].id = shown[k].id
       /\ shown'[k].open => shown[k].open

\* A notification that closes, or all at a restart, keep what they were.
LEMMA ClosingFades ==
  ASSUME SignalInv, NEW k \in 1..Len(shown), shown' = [shown EXCEPT ![k].open = FALSE]
  PROVE  ShownFades /\ ~shown'[k].open
  <1>1. shown \in Seq(Entry) /\ DOMAIN shown = 1..Len(shown)
    BY DEF SignalInv
  <1>2. [shown[k] EXCEPT !.open = FALSE] \in Entry
    BY EntryType
  <1>3. shown' = [shown EXCEPT ![k] = [shown[k] EXCEPT !.open = FALSE]]
    OBVIOUS
  <1>4. shown' \in Seq(Entry) /\ Len(shown') = Len(shown)
    BY <1>1, <1>2, <1>3, ExceptSeq
  <1>5. QED
    BY <1>1, <1>3, <1>4 DEF ShownFades, Entry

LEMMA RestartFades ==
  ASSUME SignalInv, shown' = [k \in N!Shown |-> [shown[k] EXCEPT !.open = FALSE]]
  PROVE  ShownFades
  <1>1. shown \in Seq(Entry) /\ N!Shown = 1..Len(shown) /\ Len(shown) \in Nat
    BY DEF SignalInv, N!Shown
  <1>2. \A k \in 1..Len(shown) : [shown[k] EXCEPT !.open = FALSE] \in Entry
    BY EntryType
  <1>3. shown' \in [1..Len(shown) -> Entry]
    BY <1>1, <1>2
  <1>4. shown' \in Seq(Entry) /\ Len(shown') = Len(shown)
    BY <1>1, <1>3, IsASeq
  <1>5. QED
    <2>1. \A k \in 1..Len(shown) : shown[k] \in Entry
      BY <1>1
    <2>2. \A k \in 1..Len(shown) :
            /\ shown'[k].owner = shown[k].owner /\ shown'[k].id = shown[k].id /\ ~shown'[k].open
      <3> SUFFICES ASSUME NEW k \in 1..Len(shown)
                   PROVE  /\ shown'[k].owner = shown[k].owner /\ shown'[k].id = shown[k].id
                          /\ ~shown'[k].open
        OBVIOUS
      <3>1. shown'[k] = [shown[k] EXCEPT !.open = FALSE]
        BY <1>1
      <3>2. QED
        BY <2>1, <3>1 DEF Entry
    <2>3. QED
      BY <1>4, <2>2 DEF ShownFades

\* Closing gives no id anew.
LEMMA FadingKeepsIds ==
  ASSUME SignalInv, ShownFades
  PROVE  \A k \in 1..Len(shown) : N!Reused(k)' <=> N!Reused(k)
  <1>1. DOMAIN shown = 1..Len(shown) /\ DOMAIN shown' = 1..Len(shown)
    BY DEF SignalInv, ShownFades
  <1>2. QED
    BY <1>1 DEF ShownFades, N!Reused, N!Shown, N!IdOf

\* The signals of a click, or of a closing, come last.
LEMMA SendMeans ==
  ASSUME SignalInv, NEW sigs \in Seq(Signal), N!Send(sigs)
  PROVE  /\ signals' \in Seq(Signal) /\ Len(signals) \in Nat /\ Len(signals') \in Nat
         /\ \A i \in 1..Len(signals) : i \in 1..Len(signals') /\ signals'[i] = signals[i]
         /\ \A i \in 1..Len(signals') : i > Len(signals) =>
              i - Len(signals) \in 1..Len(sigs) /\ signals'[i] = sigs[i - Len(signals)]
  <1>1. signals \in Seq(Signal)
    BY DEF SignalInv
  <1>2. CASE signals' = signals
    BY <1>1, <1>2
  <1>3. CASE signals' = signals \o sigs
    <2>1. /\ signals' \in Seq(Signal) /\ Len(signals') = Len(signals) + Len(sigs)
          /\ \A i \in 1..(Len(signals) + Len(sigs)) :
               signals'[i] = IF i <= Len(signals) THEN signals[i] ELSE sigs[i - Len(signals)]
          /\ Len(signals) \in Nat /\ Len(sigs) \in Nat
      BY <1>1, <1>3, ConcatProperties
    <2>2. QED
      BY <2>1
  <1>4. QED
    BY <1>2, <1>3 DEF N!Send

\* Click and Close.
LEMMA ScreenStep ==
  ASSUME NotifierInv, NEW k \in N!Shown, N!Click(k) \/ N!Close(k)
  PROVE  NotifierInv'
  <1> DEFINE act == [name |-> "ActionInvoked", of |-> k]
             closed == [name |-> "NotificationClosed", of |-> k]
  <1>1. /\ SignalInv /\ PendingInv /\ ActivationInv
        /\ k \in 1..Len(shown) /\ Len(shown) \in Nat /\ shown[k].open
        /\ shown' = [shown EXCEPT ![k].open = FALSE]
        /\ UNCHANGED <<id, pending, epoch, handled, activated, early>>
    BY DEF NotifierInv, SignalInv, N!Shown, N!Click, N!Close, N!Open
  <1>2. ShownFades /\ ~shown'[k].open
    BY <1>1, ClosingFades
  <1>3. /\ \A j \in 1..Len(shown) : N!Reused(j)' <=> N!Reused(j)
    BY <1>1, <1>2, FadingKeepsIds
  <1>4. act \in Signal /\ closed \in Signal
    BY <1>1 DEF Signal
  <1>5. PICK sigs \in Seq(Signal) :
          /\ N!Send(sigs)
          /\ \/ sigs = <<act, closed>> /\ clicked' = clicked \union {k}
             \/ sigs = <<closed>> /\ clicked' = clicked
    <2>1. <<act, closed>> \in Seq(Signal) /\ <<closed>> \in Seq(Signal)
      BY <1>4
    <2>2. QED
      BY <2>1 DEF N!Click, N!Close
  <1>6. /\ signals' \in Seq(Signal) /\ Len(signals) \in Nat /\ Len(signals') \in Nat
        /\ \A i \in 1..Len(signals) : i \in 1..Len(signals') /\ signals'[i] = signals[i]
        /\ \A i \in 1..Len(signals') : i > Len(signals) =>
             i - Len(signals) \in 1..Len(sigs) /\ signals'[i] = sigs[i - Len(signals)]
    BY <1>1, <1>5, SendMeans
  <1>7. \A i \in 1..Len(signals') : i > Len(signals) =>
          /\ signals'[i].of = k
          /\ signals'[i].name = "ActionInvoked" => i = Len(signals) + 1 /\ clicked' = clicked \union {k}
    <2>1. CASE sigs = <<act, closed>> /\ clicked' = clicked \union {k}
      BY <1>6, <2>1
    <2>2. CASE sigs = <<closed>>
      BY <1>6, <2>2
    <2>3. QED
      BY <1>5, <2>1, <2>2
  <1>8. k \notin clicked /\ \A i \in 1..Len(signals) : signals[i].of # k
    BY <1>1 DEF SignalInv
  <1>9. SignalInv'
    <2>1. clicked' \subseteq clicked \union {k} /\ clicked \subseteq clicked'
      BY <1>5
    <2>2. \A j \in clicked' : j \in 1..Len(shown) /\ ~shown'[j].open
      BY <1>1, <1>2, <2>1 DEF SignalInv, ShownFades
    <2>3. ASSUME NEW i \in 1..Len(signals')
          PROVE  /\ signals'[i].of \in 1..Len(shown') /\ ~shown'[signals'[i].of].open
                 /\ signals'[i].name = "ActionInvoked" =>
                      /\ signals'[i].of \in clicked' \ handled
                      /\ \A j \in 1..Len(signals') : signals'[j].of = signals'[i].of => i <= j
      <3>1. CASE i \in 1..Len(signals)
        <4>1. signals'[i] = signals[i] /\ signals'[i].of # k
          BY <1>6, <1>8, <3>1
        <4>2. \A j \in 1..Len(signals') : signals'[j].of = signals'[i].of => j \in 1..Len(signals)
          BY <1>6, <1>7, <4>1
        <4>3. /\ signals[i].of \in 1..Len(shown) /\ ~shown[signals[i].of].open
              /\ signals[i].name = "ActionInvoked" =>
                   /\ signals[i].of \in clicked \ handled
                   /\ \A j \in 1..Len(signals) : signals[j].of = signals[i].of => i <= j
          BY <1>1, <3>1 DEF SignalInv
        <4>4. signals'[i].of \in 1..Len(shown') /\ ~shown'[signals'[i].of].open
          BY <1>2, <4>1, <4>3 DEF ShownFades
        <4>5. QED
          BY <1>6, <2>1, <4>1, <4>2, <4>3, <4>4
      <3>2. CASE i > Len(signals)
        <4>1. \A j \in 1..Len(signals) : signals'[j].of # k
          BY <1>6, <1>8
        <4>2. signals'[i].name = "ActionInvoked" =>
                \A j \in 1..Len(signals') : signals'[j].of = k => i <= j
          BY <1>6, <1>7, <3>2, <4>1
        <4>3. k \notin handled
          BY <1>1, <1>8 DEF SignalInv
        <4>4. QED
          BY <1>1, <1>2, <1>7, <3>2, <4>2, <4>3 DEF ShownFades
      <3>3. QED
        BY <1>6, <3>1, <3>2
    <2>4. QED
      BY <1>1, <1>2, <1>6, <2>1, <2>2, <2>3 DEF SignalInv, ShownFades
  <1>10. PendingInv'
    <2>1. \A j \in 1..Len(shown) : Live(j)' => Live(j)
      BY <1>1, <1>2, <1>6, <1>7 DEF Live, ShownFades
    <2>2. QED
      BY <1>1, <1>2, <1>3, <2>1 DEF PendingInv, ShownFades
  <1>11. ActivationInv'
    BY <1>1, <1>2, <1>3 DEF ActivationInv, ShownFades
  <1>12. QED
    BY <1>9, <1>10, <1>11 DEF NotifierInv

\* handleSignals.
LEMMA HandleStep == NotifierInv /\ N!HandleSignal => NotifierInv'
  <1> SUFFICES ASSUME NotifierInv, N!HandleSignal PROVE NotifierInv'
    OBVIOUS
  <1> DEFINE sig == signals[1]
             k == sig.of
             acts == sig.name = "ActionInvoked"
  <1>1. /\ SignalInv /\ PendingInv /\ ActivationInv
        /\ signals # <<>> /\ signals' = Tail(signals)
        /\ UNCHANGED <<id, epoch, shown, clicked>>
    BY DEF NotifierInv, N!HandleSignal
  <1>2. /\ Head(signals) = sig /\ Len(signals) \in Nat \ {0} /\ signals' \in Seq(Signal)
        /\ Len(signals') = Len(signals) - 1
        /\ \A i \in 1..Len(signals') : i + 1 \in 1..Len(signals) /\ signals'[i] = signals[i + 1]
    <2>1. signals \in Seq(Signal)
      BY <1>1 DEF SignalInv
    <2>2. QED
      BY <1>1, <2>1, HeadTailProperties, TailKeepsLast
  <1>3. /\ pending' = pending \ {shown[k].id}
        /\ activated' = [activated EXCEPT ![k] = @ + (IF shown[k].id \in pending /\ acts THEN 1 ELSE 0)]
        /\ handled' = IF acts THEN handled \union {k} ELSE handled
        /\ early' = IF acts /\ N!NotYetStored(k) THEN early \union {k} ELSE early
    BY <1>2 DEF N!HandleSignal, N!Ours, N!IdOf
  <1>4. 1 \in 1..Len(signals) /\ k \in 1..Len(shown) /\ ~shown[k].open /\ DOMAIN shown = 1..Len(shown)
    BY <1>1, <1>2 DEF SignalInv
  <1>5. \A i \in 1..Len(signals') : signals'[i].name = "ActionInvoked" => signals'[i].of # k
    <2> SUFFICES ASSUME NEW i \in 1..Len(signals'), signals'[i].name = "ActionInvoked",
                        signals'[i].of = k
                 PROVE  FALSE
      OBVIOUS
    <2>1. i + 1 \in 1..Len(signals) /\ signals[i + 1].of = k /\ signals[i + 1].name = "ActionInvoked"
      BY <1>2
    <2>2. i + 1 <= 1
      BY <1>1, <1>4, <2>1 DEF SignalInv
    <2>3. QED
      BY <2>2
  <1>6. SignalInv'
    <2>1. handled' \subseteq clicked
      BY <1>1, <1>3, <1>4 DEF SignalInv
    <2>2. ASSUME NEW i \in 1..Len(signals')
          PROVE  /\ signals'[i].of \in 1..Len(shown) /\ ~shown[signals'[i].of].open
                 /\ signals'[i].name = "ActionInvoked" =>
                      /\ signals'[i].of \in clicked \ handled'
                      /\ \A j \in 1..Len(signals') : signals'[j].of = signals'[i].of => i <= j
      <3>1. i + 1 \in 1..Len(signals) /\ signals'[i] = signals[i + 1]
        BY <1>2
      <3>2. /\ signals'[i].of \in 1..Len(shown) /\ ~shown[signals'[i].of].open
            /\ signals'[i].name = "ActionInvoked" => signals'[i].of \in clicked \ handled'
        BY <1>1, <1>3, <1>5, <3>1 DEF SignalInv
      <3>3. ASSUME signals'[i].name = "ActionInvoked",
                   NEW j \in 1..Len(signals'), signals'[j].of = signals'[i].of
            PROVE  i <= j
        <4>1. j + 1 \in 1..Len(signals) /\ signals'[j] = signals[j + 1]
          BY <1>2
        <4>2. i + 1 <= j + 1
          BY <1>1, <3>1, <3>3, <4>1 DEF SignalInv
        <4>3. QED
          BY <4>2
      <3>4. QED
        BY <3>2, <3>3
    <2>3. QED
      BY <1>1, <1>2, <2>1, <2>2 DEF SignalInv
  <1>7. PendingInv'
    <2>1. \A j \in 1..Len(shown) : Live(j)' => Live(j) /\ j # k
      BY <1>1, <1>2, <1>4, <1>5 DEF Live
    <2>2. \A j \in 1..Len(shown) : ~N!Reused(j) /\ j # k => shown[j].id # shown[k].id
      BY <1>4 DEF N!Reused, N!Shown, N!IdOf
    <2>3. \A j \in 1..Len(shown) : N!Reused(j)' <=> N!Reused(j)
      BY <1>1 DEF N!Reused, N!Shown, N!IdOf
    <2>4. QED
      BY <1>1, <1>3, <2>1, <2>2, <2>3 DEF PendingInv
  <1>8. ActivationInv'
    <2>1. MaxShown \in Nat /\ k \in 1..MaxShown
      BY <1>1, <1>4, PartsAssumption DEF SignalInv
    <2>2. acts => k \notin handled /\ activated[k] = 0
      BY <1>1, <1>4, <2>1 DEF SignalInv, ActivationInv
    <2>3. \A j \in 1..Len(shown) : N!Reused(j)' <=> N!Reused(j)
      BY <1>1 DEF N!Reused, N!Shown, N!IdOf
    <2>4. ~N!Reused(k) /\ shown[k].id \in pending => shown[k].owner # Other
      <3> SUFFICES ASSUME ~N!Reused(k), shown[k].id \in pending PROVE shown[k].owner # Other
        OBVIOUS
      <3>1. PICK j \in 1..Len(shown) : shown[j].id = shown[k].id /\ shown[j].owner \in Loop
        BY <1>1 DEF PendingInv
      <3>2. j = k
        BY <1>4, <3>1 DEF N!Reused, N!Shown, N!IdOf
      <3>3. QED
        BY <3>1, <3>2, PartsAssumption
    <2>5. acts /\ ~N!Reused(k) /\ shown[k].owner # Other /\ k \notin early'
            => shown[k].id \in pending
      <3> SUFFICES ASSUME acts, ~N!Reused(k), shown[k].owner # Other, k \notin early'
                   PROVE  shown[k].id \in pending
        OBVIOUS
      <3>1. shown[k].owner \in Loop
        BY <1>1, <1>4, EntryType
      <3>2. Live(k)
        BY <1>4 DEF Live
      <3>3. id[shown[k].owner] # shown[k].id
        BY <1>3, <3>1 DEF N!NotYetStored, N!IdOf
      <3>4. QED
        BY <1>1, <1>4, <3>1, <3>2, <3>3 DEF PendingInv
    <2>6. \A j \in 1..MaxShown : j # k => activated'[j] = activated[j] /\ (j \in handled' <=> j \in handled)
                                          /\ (j \in early' <=> j \in early)
      BY <1>1, <1>3, <2>1 DEF ActivationInv
    <2>7. /\ activated' \in [1..MaxShown -> Nat]
          /\ activated'[k] = activated[k] + (IF shown[k].id \in pending /\ acts THEN 1 ELSE 0)
      BY <1>1, <1>3, <2>1 DEF ActivationInv
    <2>8. Len(shown) <= MaxShown /\ Len(shown) \in Nat
      BY <1>1 DEF SignalInv
    <2>9. acts => k \in handled'
      BY <1>3
    <2>10. ~acts => handled' = handled /\ early' = early /\ activated'[k] = activated[k]
      BY <1>1, <1>3, <2>1, <2>7 DEF ActivationInv
    <2>11. activated[k] \in Nat
      BY <1>1, <2>1 DEF ActivationInv
    <2> HIDE DEF k, acts
    <2>12. \A j \in 1..MaxShown : activated'[j] <= 1 /\ (j \notin handled' => activated'[j] = 0)
      BY <1>1, <2>2, <2>6, <2>7, <2>9, <2>10, <2>11 DEF ActivationInv
    <2>13. ASSUME NEW j \in 1..Len(shown), ~N!Reused(j)
           PROVE  /\ activated'[j] = 1 => shown[j].owner # Other
                  /\ j \in handled' \ early' /\ shown[j].owner # Other => activated'[j] = 1
      <3>1. j \in 1..MaxShown
        BY <2>1, <2>8
      <3>2. CASE j # k
        BY <1>1, <2>6, <2>13, <3>1, <3>2 DEF ActivationInv
      <3>3. CASE j = k /\ acts
        BY <2>2, <2>4, <2>5, <2>7, <2>13, <3>3
      <3>4. CASE j = k /\ ~acts
        BY <1>1, <2>10, <2>13, <3>4 DEF ActivationInv
      <3>5. QED
        BY <3>2, <3>3, <3>4
    <2>14. QED
      BY <1>1, <2>3, <2>7, <2>12, <2>13 DEF ActivationInv
  <1>9. QED
    BY <1>6, <1>7, <1>8 DEF NotifierInv

\* Show, and another program's.
LEMMA ShowStep ==
  ASSUME NotifierInv, N!OtherShows \/ \E l \in Loop : N!Show(l)
  PROVE  NotifierInv'
  <1>1. /\ SignalInv /\ PendingInv /\ ActivationInv /\ Len(shown) < MaxShown
        /\ UNCHANGED <<pending, signals, epoch, clicked, handled, activated, early>>
    BY DEF NotifierInv, N!OtherShows, N!Show
  <1>2. PICK owner \in Loop \union {Other} :
          /\ N!Put(owner)
          /\ \/ owner = Other /\ id' = id
             \/ owner \in Loop /\ id[owner] = 0 /\ id' = [id EXCEPT ![owner] = N!NextId]
    BY DEF N!OtherShows, N!Show
  <1>3. /\ shown' \in Seq(Entry) /\ Len(shown') = Len(shown) + 1 /\ Len(shown') <= MaxShown
        /\ \A k \in 1..Len(shown) : shown'[k] = shown[k]
        /\ shown'[Len(shown')].owner = owner /\ shown'[Len(shown')].id = N!NextId
        /\ \A k \in 1..Len(shown) : ~N!Reused(k)' => ~N!Reused(k)
        /\ Len(shown) \in Nat
    BY <1>1, <1>2, ShownGrows DEF SignalInv
  <1>4. N!NextId \in Nat \ {0} /\ Other \notin Loop /\ MaxShown \in Nat
    BY <1>1, NextIdType, PartsAssumption
  <1>5. SignalInv'
    <2>1. clicked \subseteq 1..Len(shown') /\ \A k \in clicked : ~shown'[k].open
      BY <1>1, <1>3 DEF SignalInv
    <2>2. \A i \in 1..Len(signals) :
            signals[i].of \in 1..Len(shown') /\ ~shown'[signals[i].of].open
      BY <1>1, <1>3 DEF SignalInv
    <2>3. QED
      BY <1>1, <1>3, <2>1, <2>2 DEF SignalInv
  <1>6. PendingInv'
    <2>1. id' \in [Loop -> Nat]
      BY <1>1, <1>2, <1>4 DEF PendingInv
    <2>2. \A i \in pending : \E j \in 1..Len(shown') : shown'[j].id = i /\ shown'[j].owner \in Loop
      BY <1>1, <1>3 DEF PendingInv
    <2>3. \A l \in Loop : id'[l] # 0 =>
            \E j \in 1..Len(shown') : shown'[j].id = id'[l] /\ shown'[j].owner = l
      <3> SUFFICES ASSUME NEW l \in Loop, id'[l] # 0
                   PROVE  \E j \in 1..Len(shown') : shown'[j].id = id'[l] /\ shown'[j].owner = l
        OBVIOUS
      <3>1. CASE l = owner
        <4>1. id'[l] = N!NextId /\ Len(shown') \in 1..Len(shown')
          BY <1>1, <1>2, <1>3, <1>4, <3>1 DEF PendingInv
        <4>2. QED
          BY <1>3, <3>1, <4>1
      <3>2. CASE l # owner
        <4>1. id'[l] = id[l]
          BY <1>1, <1>2, <3>2 DEF PendingInv
        <4>2. QED
          BY <1>1, <1>3, <4>1 DEF PendingInv
      <3>3. QED
        BY <3>1, <3>2
    <2>4. ASSUME NEW k \in 1..Len(shown'), ~N!Reused(k)', shown'[k].owner \in Loop, Live(k)'
          PROVE  shown'[k].id \in pending \union {id'[shown'[k].owner]}
      <3>1. CASE k \in 1..Len(shown)
        <4>1. Live(k) /\ ~N!Reused(k) /\ shown'[k] = shown[k] /\ shown[k].id # 0
          BY <1>1, <1>3, <2>4, <3>1, EntryType DEF Live
        <4>2. shown[k].id \in pending \union {id[shown[k].owner]}
          BY <1>1, <2>4, <3>1, <4>1 DEF PendingInv
        <4>3. shown[k].owner = owner => shown[k].id \in pending
          BY <1>2, <1>4, <2>4, <4>1, <4>2
        <4>4. shown[k].owner # owner => id'[shown[k].owner] = id[shown[k].owner]
          BY <1>1, <1>2, <2>4, <4>1 DEF PendingInv
        <4>5. QED
          BY <4>1, <4>2, <4>3, <4>4
      <3>2. CASE k = Len(shown')
        BY <1>1, <1>2, <1>3, <1>4, <2>4, <3>2 DEF PendingInv
      <3>3. QED
        BY <1>3, <3>1, <3>2
    <2>5. QED
      BY <1>1, <2>1, <2>2, <2>3, <2>4 DEF PendingInv
  <1>7. ActivationInv'
    <2>1. Len(shown') \notin handled /\ Len(shown') \in 1..MaxShown
      BY <1>1, <1>3, <1>4 DEF SignalInv
    <2>2. activated[Len(shown')] = 0
      BY <1>1, <2>1 DEF ActivationInv
    <2>3. \A k \in 1..Len(shown') : k \in 1..Len(shown) \/ k = Len(shown')
      BY <1>3
    <2>4. QED
      BY <1>1, <1>3, <2>1, <2>2, <2>3 DEF ActivationInv
  <1>8. QED
    BY <1>5, <1>6, <1>7 DEF NotifierInv

LEMMA NotifierStep == NotifierInv /\ (N!Next \/ UNCHANGED notifierVars) => NotifierInv'
  <1> SUFFICES ASSUME NotifierInv, N!Next \/ UNCHANGED notifierVars PROVE NotifierInv'
    OBVIOUS
  <1>1. SignalInv /\ PendingInv /\ ActivationInv
    BY DEF NotifierInv
  <1>2. ASSUME UNCHANGED <<shown, signals, pending, id, epoch, clicked, handled, activated, early>>
        PROVE  NotifierInv'
    BY <1>1, <1>2 DEF NotifierInv, SignalInv, PendingInv, ActivationInv, Live, N!Reused, N!Shown, N!IdOf
  <1>3. ASSUME NEW l \in Loop, N!NotifyNewMail(l) \/ N!ShowFails(l) PROVE NotifierInv'
    BY <1>2, <1>3 DEF N!NotifyNewMail, N!ShowFails
  <1>4. ASSUME NEW l \in Loop, N!Record(l) PROVE NotifierInv'
    <2>1. /\ id[l] # 0 /\ pending' = pending \union {id[l]} /\ id' = [id EXCEPT ![l] = 0]
          /\ UNCHANGED <<signals, epoch, shown, clicked, handled, activated, early>>
      BY <1>4 DEF N!Record
    <2>2. SignalInv' /\ ActivationInv'
      BY <1>1, <2>1 DEF SignalInv, ActivationInv, N!Reused, N!Shown, N!IdOf
    <2>3. \A k \in 1..Len(shown) : (N!Reused(k)' <=> N!Reused(k)) /\ (Live(k)' <=> Live(k))
      BY <2>1 DEF N!Reused, N!Shown, N!IdOf, Live
    <2>4. \A k \in 1..Len(shown) : shown[k].id # 0
      BY <1>1, EntryType
    <2>5. PendingInv'
      BY <1>1, <2>1, <2>3, <2>4 DEF PendingInv
    <2>6. QED
      BY <2>2, <2>5 DEF NotifierInv
  <1>5. ASSUME NEW l \in Loop, N!Show(l) PROVE NotifierInv'
    BY <1>5, ShowStep
  <1>6. CASE N!OtherShows
    BY <1>6, ShowStep
  <1>7. CASE N!BusDies
    <2>1. /\ signals' = <<>> /\ Len(signals') = 0 /\ signals' \in Seq(Signal)
          /\ UNCHANGED <<id, pending, epoch, shown, clicked, handled, activated, early>>
      BY <1>7, EmptySeq DEF N!BusDies
    <2>2. SignalInv' /\ ActivationInv'
      BY <1>1, <2>1 DEF SignalInv, ActivationInv, N!Reused, N!Shown, N!IdOf
    <2>3. \A k \in 1..Len(shown) : (N!Reused(k)' <=> N!Reused(k)) /\ (Live(k)' => Live(k))
      BY <2>1 DEF N!Reused, N!Shown, N!IdOf, Live
    <2>4. PendingInv'
      BY <1>1, <2>1, <2>3 DEF PendingInv
    <2>5. QED
      BY <2>2, <2>4 DEF NotifierInv
  <1>8. CASE N!DaemonRestarts
    <2>1. /\ ShownFades /\ epoch' = epoch + 1
          /\ UNCHANGED <<id, pending, signals, clicked, handled, activated, early>>
      BY <1>1, <1>8, RestartFades DEF N!DaemonRestarts
    <2>2. \A k \in 1..Len(shown) : (N!Reused(k)' <=> N!Reused(k)) /\ (Live(k)' => Live(k))
      BY <1>1, <2>1, FadingKeepsIds DEF ShownFades, Live
    <2>3. SignalInv' /\ ActivationInv'
      <3>1. ActivationInv'
        BY <1>1, <2>1, <2>2 DEF ActivationInv, ShownFades
      <3>2. /\ clicked \subseteq 1..Len(shown') /\ \A k \in clicked : ~shown'[k].open
            /\ \A i \in 1..Len(signals) :
                 signals[i].of \in 1..Len(shown') /\ ~shown'[signals[i].of].open
        BY <1>1, <2>1 DEF SignalInv, ShownFades
      <3>3. SignalInv'
        BY <1>1, <2>1, <3>2 DEF SignalInv, ShownFades
      <3>4. QED
        BY <3>1, <3>3
    <2>4. PendingInv'
      BY <1>1, <2>1, <2>2 DEF PendingInv, ShownFades
    <2>5. QED
      BY <2>3, <2>4 DEF NotifierInv
  <1>9. CASE N!HandleSignal
    BY <1>9, HandleStep
  <1>10. ASSUME NEW k \in N!Shown, N!Click(k) \/ N!Close(k) PROVE NotifierInv'
    BY <1>10, ScreenStep
  <1>11. CASE UNCHANGED notifierVars
    BY <1>2, <1>11
  <1>12. QED
    BY <1>3, <1>4, <1>5, <1>6, <1>7, <1>8, <1>9, <1>10, <1>11 DEF N!Next

-----------------------------------------------------------------------------
(* Types *)

\* What is to be known of the types of a submission beyond OutboxInv; a submission is
\* counted before it can be accepted.
OutboxTypes ==
  /\ kind \in {"imap", "gmail"} /\ port \in {465, 587}
  /\ pc \in {"edit", "check", "secret", "dial", "auth", "envelope", "data", "quit", "sent"}
  /\ built \in Mail /\ tries \in 0..MaxTries /\ secretRead \in BOOLEAN
  /\ Len(delivered) <= tries
  /\ pc \in {"check", "secret", "dial", "auth", "envelope", "data"} => Len(delivered) < tries

LEMMA OutboxTypesInit == O!Init => OutboxTypes
  <1> SUFFICES ASSUME O!Init PROVE OutboxTypes
    OBVIOUS
  <1>1. delivered = <<>> /\ Len(delivered) = 0
    BY EmptySeq DEF O!Init
  <1>2. built \in Mail
    BY DEF O!Init, O!Unbuilt, Mail
  <1>3. tries = 0 /\ tries \in 0..MaxTries /\ Len(delivered) <= tries /\ pc = "edit"
    BY <1>1, PartsAssumption DEF O!Init
  <1>4. QED
    BY <1>2, <1>3 DEF O!Init, OutboxTypes

LEMMA OutboxTypesStep ==
  OutboxInv /\ OutboxTypes /\ (O!Next \/ UNCHANGED outboxVars) => OutboxTypes'
  <1> SUFFICES ASSUME OutboxInv, OutboxTypes, O!Next \/ UNCHANGED outboxVars PROVE OutboxTypes'
    OBVIOUS
  <1>1. /\ draft \in O!Drafts /\ delivered \in Seq(Mail) /\ Len(delivered) \in Nat /\ MaxTries \in Nat
        /\ tries \in Nat
    BY PartsAssumption DEF OutboxInv, BuiltInv, AcceptedInv, OutboxTypes
  <1>2. CASE O!Data
    <2>1. /\ UNCHANGED <<kind, port, built, tries, secretRead>> /\ pc = "data" /\ built \in Mail
          /\ pc' \in {"quit", "edit"}
          /\ delivered' = Append(delivered, built) \/ delivered' = delivered
      BY <1>2 DEF O!Data, O!Goto, O!Fail, O!still, OutboxTypes
    <2>2. Len(Append(delivered, built)) = Len(delivered) + 1
      BY <1>1, <2>1, AppendProperties
    <2>3. Len(delivered') <= tries
      BY <1>1, <2>1, <2>2 DEF OutboxTypes
    <2>4. QED
      BY <2>1, <2>3 DEF OutboxTypes
  <1>3. CASE O!Check
    <2>1. O!Build(draft) \in Mail
      BY <1>1, BuildIsMail
    <2>2. QED
      BY <1>3, <2>1 DEF O!Check, O!Goto, O!Fail, O!still, OutboxTypes
  <1>4. CASE O!Compose
    <2>1. Len(delivered') = 0
      BY <1>4, EmptySeq DEF O!Compose
    <2>2. QED
      BY <1>1, <1>4, <2>1 DEF O!Compose, O!Goto, O!still, OutboxTypes
  <1>5. CASE O!Submit
    <2>1. built' \in Mail
      BY <1>5 DEF O!Submit, O!Unbuilt, Mail
    <2>2. tries' \in 0..MaxTries /\ Len(delivered)' <= tries' /\ Len(delivered)' < tries'
      BY <1>1, <1>5 DEF O!Submit, OutboxTypes
    <2>3. QED
      BY <1>5, <2>1, <2>2 DEF O!Submit, O!Goto, O!still, OutboxTypes
  <1>6. CASE O!Edit \/ O!GetSecret \/ O!Dial \/ O!Authenticate \/ O!Envelope
    <2>1. UNCHANGED <<kind, port, built, tries, delivered>> /\ secretRead' \in BOOLEAN
      BY <1>6 DEF O!Edit, O!GetSecret, O!Dial, O!Authenticate, O!Envelope, O!still, OutboxTypes
    <2>2. \/ pc' = pc \/ pc' = "edit"
          \/ /\ pc \in {"secret", "dial", "auth", "envelope"}
             /\ pc' \in {"dial", "auth", "envelope", "data"}
      BY <1>6 DEF O!Edit, O!GetSecret, O!Dial, O!Authenticate, O!Envelope, O!Goto, O!Fail
    <2>3. QED
      BY <2>1, <2>2 DEF OutboxTypes
  <1>7. CASE O!Quit \/ UNCHANGED outboxVars
    BY <1>7 DEF O!Quit, O!QuitIgnored, O!Goto, O!still, OutboxTypes
  <1>8. QED
    BY <1>2, <1>3, <1>4, <1>5, <1>6, <1>7 DEF O!Next

\* The files of the directory have names that a call may look at.
FileTypes ==
  /\ DOMAIN files \subseteq D!Name /\ clash \subseteq D!Name
  /\ \A p \in DOMAIN files : files[p] \in Attachment \union {Foreign, Partial}

LEMMA FileTypesInit == D!Init => FileTypes
  <1> SUFFICES ASSUME D!Init PROVE FileTypes
    OBVIOUS
  <1>1. 0 \in 0..MaxSuffix
    BY PartsAssumption
  <1>2. \A a \in Attachment : D!SafeFilename(a) \in D!Name
    BY <1>1 DEF D!Name, D!Candidate
  <1>3. QED
    BY <1>2 DEF D!Init, FileTypes

LEMMA FileTypesStep ==
  DownloadInv /\ FileTypes /\ (D!Next \/ UNCHANGED downloadVars) => FileTypes'
  <1> SUFFICES ASSUME DownloadInv, FileTypes, D!Next \/ UNCHANGED downloadVars PROVE FileTypes'
    OBVIOUS
  <1> USE DEF FileTypes
  <1>1. \A c \in Call : D!Path(c) \in D!Name /\ att[c] \in Attachment
    BY DEF DownloadInv, D!Path, D!Name
  <1>2. ASSUME NEW p \in D!Name, NEW content \in Attachment \union {Foreign, Partial},
               files' = D!Put(p, content)
        PROVE  /\ DOMAIN files' \subseteq D!Name
               /\ \A q \in DOMAIN files' : files'[q] \in Attachment \union {Foreign, Partial}
    BY <1>2 DEF D!Put
  <1>3. ASSUME NEW c \in Call, D!Fetch(c) \/ D!UniquePath(c) PROVE FileTypes'
    BY <1>3 DEF D!Fetch, D!UniquePath
  <1>4. ASSUME NEW c \in Call, D!Open(c) PROVE FileTypes'
    BY <1>1, <1>2, <1>4 DEF D!Open
  <1>5. ASSUME NEW c \in Call, D!Write(c) PROVE FileTypes'
    BY <1>1, <1>2, <1>5 DEF D!Write
  <1>6. ASSUME NEW p \in D!Name, D!ForeignCreates(p) PROVE FileTypes'
    BY <1>2, <1>6 DEF D!ForeignCreates
  <1>7. ASSUME NEW p \in D!Name, D!UserDeletes(p) PROVE FileTypes'
    BY <1>7 DEF D!UserDeletes, D!Restrict
  <1>8. CASE UNCHANGED downloadVars
    BY <1>8
  <1>9. QED
    BY <1>3, <1>4, <1>5, <1>6, <1>7, <1>8 DEF D!Next

\* A loop that waits for an id to be stored still counts that notification.
NotifierTypes ==
  /\ conn \in {"none", "up", "dead"} /\ todo \in [Loop -> 0..3] /\ epoch \in 0..MaxRestarts
  /\ \A l \in Loop : id[l] # 0 => todo[l] # 0
  /\ \A k \in 1..Len(shown) : shown[k].id <= MaxShown
  /\ early \subseteq handled

LEMMA NotifierTypesInit == N!Init => NotifierTypes
  <1> SUFFICES ASSUME N!Init PROVE NotifierTypes
    OBVIOUS
  <1>1. Len(shown) = 0 /\ 0 \in 0..MaxRestarts
    BY EmptySeq, PartsAssumption DEF N!Init
  <1>2. QED
    BY <1>1 DEF N!Init, NotifierTypes

\* The daemon numbers the notifications since its start.
LEMMA NextIdBound ==
  ASSUME SignalInv, Len(shown) < MaxShown
  PROVE  N!NextId \in 1..MaxShown
  <1> DEFINE S == {k \in N!Shown : shown[k].epoch = epoch}
  <1>1. Len(shown) \in Nat /\ S \subseteq 1..Len(shown) /\ MaxShown \in Nat
    BY PartsAssumption DEF SignalInv, N!Shown
  <1>2. IsFiniteSet(1..Len(shown)) /\ Cardinality(1..Len(shown)) = Len(shown)
    <2> DEFINE m == Len(shown)
    <2>1. m \in Nat
      BY <1>1
    <2> HIDE DEF m
    <2>2. IsFiniteSet(1..m) /\ Cardinality(1..m) = m
      BY <2>1, FS_Interval
    <2>3. QED
      BY <2>2 DEF m
  <1>3. Cardinality(S) \in Nat /\ Cardinality(S) <= Len(shown)
    BY <1>1, <1>2, FS_Subset, FS_CardinalityType
  <1>4. N!NextId = 1 + Cardinality(S)
    BY DEF N!NextId, N!Cardinality, Cardinality
  <1> HIDE DEF S
  <1>5. QED
    BY <1>1, <1>3, <1>4

\* One more notification keeps the bound on the ids.
LEMMA IdsBounded ==
  ASSUME SignalInv, NotifierTypes, NEW owner \in Loop \union {Other}, N!Put(owner),
         Len(shown) < MaxShown
  PROVE  \A k \in 1..Len(shown') : shown'[k].id <= MaxShown
  <1>1. /\ Len(shown') = Len(shown) + 1 /\ \A k \in 1..Len(shown) : shown'[k] = shown[k]
        /\ shown'[Len(shown')].id = N!NextId /\ Len(shown) \in Nat
    <2>1. /\ shown' \in Seq(Entry) /\ Len(shown') = Len(shown) + 1 /\ Len(shown') <= MaxShown
          /\ \A k \in 1..Len(shown) : shown'[k] = shown[k]
          /\ shown'[Len(shown')].owner = owner /\ shown'[Len(shown')].id = N!NextId
          /\ \A k \in 1..Len(shown) : ~N!Reused(k)' => ~N!Reused(k)
      BY ShownGrows
    <2>2. Len(shown) \in Nat
      BY DEF SignalInv
    <2>3. QED
      BY <2>1, <2>2
  <1>2. N!NextId \in 1..MaxShown
    BY NextIdBound
  <1>3. \A k \in 1..Len(shown') : k \in 1..Len(shown) \/ k = Len(shown')
    BY <1>1
  <1>4. MaxShown \in Nat
    BY PartsAssumption
  <1>5. QED
    BY <1>1, <1>2, <1>3, <1>4 DEF NotifierTypes

LEMMA NotifierTypesStep ==
  NotifierInv /\ NotifierTypes /\ (N!Next \/ UNCHANGED notifierVars) => NotifierTypes'
  <1> SUFFICES ASSUME NotifierInv, NotifierTypes, N!Next \/ UNCHANGED notifierVars
               PROVE  NotifierTypes'
    OBVIOUS
  <1>1. SignalInv /\ id \in [Loop -> Nat] /\ todo \in [Loop -> 0..3]
    BY DEF NotifierInv, PendingInv, NotifierTypes
  <1>2. ASSUME NEW l \in Loop, N!NotifyNewMail(l) PROVE NotifierTypes'
    <2>1. \A k \in Batches : N!Batch(k) \in 0..3
      BY PartsAssumption DEF N!Batch
    <2>2. todo' \in [Loop -> 0..3] /\ \A m \in Loop \ {l} : todo'[m] = todo[m]
      BY <1>1, <1>2, <2>1 DEF N!NotifyNewMail
    <2>3. QED
      BY <1>2, <2>2 DEF N!NotifyNewMail, NotifierTypes
  <1>3. ASSUME NEW l \in Loop, N!ShowFails(l) \/ N!Record(l) PROVE NotifierTypes'
    <2>1. todo[l] \in 1..3
      BY <1>1, <1>3 DEF N!ShowFails, N!Record, NotifierTypes
    <2>2. todo' = [todo EXCEPT ![l] = @ - 1] /\ id'[l] = 0 /\ \A m \in Loop \ {l} : id'[m] = id[m]
      BY <1>1, <1>3 DEF N!ShowFails, N!Record
    <2>3. todo' \in [Loop -> 0..3] /\ \A m \in Loop \ {l} : todo'[m] = todo[m]
      BY <1>1, <2>1, <2>2
    <2>4. QED
      BY <1>3, <2>2, <2>3 DEF N!ShowFails, N!Record, NotifierTypes
  <1>4. ASSUME NEW l \in Loop, N!Show(l) PROVE NotifierTypes'
    <2>1. \A k \in 1..Len(shown') : shown'[k].id <= MaxShown
      BY <1>1, <1>4, IdsBounded DEF N!Show
    <2>2. todo[l] # 0 /\ \A m \in Loop \ {l} : id'[m] = id[m]
      BY <1>1, <1>4 DEF N!Show
    <2>3. QED
      BY <1>4, <2>1, <2>2 DEF N!Show, NotifierTypes
  <1>5. CASE N!OtherShows
    <2>1. \A k \in 1..Len(shown') : shown'[k].id <= MaxShown
      BY <1>1, <1>5, IdsBounded DEF N!OtherShows
    <2>2. QED
      BY <1>5, <2>1 DEF N!OtherShows, NotifierTypes
  <1>6. ASSUME ShownFades PROVE \A k \in 1..Len(shown') : shown'[k].id <= MaxShown
    BY <1>6 DEF ShownFades, NotifierTypes
  <1>7. CASE N!DaemonRestarts
    <2>1. ShownFades
      BY <1>1, <1>7, RestartFades DEF N!DaemonRestarts
    <2>2. epoch' \in 0..MaxRestarts
      BY <1>7, PartsAssumption DEF N!DaemonRestarts, NotifierTypes
    <2>3. QED
      BY <1>6, <1>7, <2>1, <2>2 DEF N!DaemonRestarts, NotifierTypes
  <1>8. ASSUME NEW k \in N!Shown, N!Click(k) \/ N!Close(k) PROVE NotifierTypes'
    <2>1. k \in 1..Len(shown) /\ shown' = [shown EXCEPT ![k].open = FALSE]
      BY <1>1, <1>8 DEF N!Click, N!Close, N!Shown, SignalInv
    <2>2. ShownFades
      BY <1>1, <2>1, ClosingFades
    <2>3. QED
      BY <1>6, <1>8, <2>2 DEF N!Click, N!Close, NotifierTypes
  <1>9. CASE N!HandleSignal
    <2>1. early' \subseteq handled'
      BY <1>9 DEF N!HandleSignal, NotifierTypes
    <2>2. QED
      BY <1>9, <2>1 DEF N!HandleSignal, NotifierTypes
  <1>10. CASE N!BusDies \/ UNCHANGED notifierVars
    BY <1>10 DEF N!BusDies, NotifierTypes
  <1>11. QED
    BY <1>2, <1>3, <1>4, <1>5, <1>7, <1>8, <1>9, <1>10 DEF N!Next

\* The ids that are stored are ids of notifications of ours, and signals are about
\* notifications that were shown.
LEMMA NotifierTyped == NotifierInv /\ NotifierTypes => N!TypeOK
  <1> SUFFICES ASSUME NotifierInv, NotifierTypes PROVE N!TypeOK
    OBVIOUS
  <1>1. SignalInv /\ PendingInv /\ ActivationInv /\ MaxShown \in Nat
    BY PartsAssumption DEF NotifierInv
  <1>2. \A j \in 1..Len(shown) : shown[j].id \in 1..MaxShown
    <2>1. \A j \in 1..Len(shown) : shown[j].id \in Nat \ {0}
      BY <1>1, EntryType
    <2>2. QED
      BY <1>1, <2>1 DEF NotifierTypes
  <1>3. pending \subseteq 1..MaxShown /\ \A l \in Loop : id[l] \in 0..MaxShown
    BY <1>1, <1>2 DEF PendingInv
  <1>4. N!Shown = 1..Len(shown)
    BY <1>1 DEF SignalInv, N!Shown
  <1>5. signals \in Seq([name : {"ActionInvoked", "NotificationClosed"}, of : N!Shown])
    <2> DEFINE Sig == [name : {"ActionInvoked", "NotificationClosed"}, of : N!Shown]
    <2>1. signals \in Seq(Signal) /\ Len(signals) \in Nat
      BY <1>1 DEF SignalInv
    <2>2. \A i \in 1..Len(signals) : signals[i] \in Signal /\ signals[i].of \in N!Shown
      BY <1>1, <1>4, <2>1 DEF SignalInv
    <2>3. \A s \in Signal : s.of \in N!Shown => s \in Sig
      BY DEF Signal
    <2>4. \A i \in 1..Len(signals) : signals[i] \in Sig
      BY <2>2, <2>3
    <2> HIDE DEF Sig
    <2>5. signals \in [1..Len(signals) -> Sig]
      BY <2>1, <2>4
    <2>6. signals \in Seq(Sig)
      BY <2>1, <2>5
    <2>7. QED
      BY <2>6 DEF Sig
  <1>6. QED
    BY <1>1, <1>3, <1>4, <1>5 DEF NotifierTypes, SignalInv, ActivationInv, N!TypeOK

-----------------------------------------------------------------------------
(* The theorems *)

\* A window that has been told everything shows the theme of the files, once the
\* watcher waits with no event left, save after a change that was missed.
THEOREM ThemeSettling == Spec => []ThemeSettles
  <1> DEFINE I == part = "theme" => ThemeInv
  <1>1. Init => I
    BY ThemeInit DEF Init
  <1>2. I /\ [Next]_vars => I'
    BY ThemeStep DEF Next
  <1>3. I => ThemeSettles
    BY DEF ThemeInv, ThemeSettles, T!ThemeSettles
  <1>4. QED
    BY <1>1, <1>2, <1>3, PTL DEF Spec

\* What was accepted is what the dialog reports, one acceptance for a success
\* and one for each lost reply; Bcc recipients are in no header, and no secret
\* is asked for an invalid draft (send.go, app.go, ComposeModal.svelte).
THEOREM Reporting == Spec => []SentAsReported
  <1> DEFINE I == part = "outbox" => OutboxInv
  <1>1. Init => I
    BY OutboxInit DEF Init
  <1>2. I /\ [Next]_vars => I'
    BY OutboxStep DEF Next
  <1>3. I => SentAsReported
    BY BuildIsMail DEF OutboxInv, BuiltInv, AcceptedInv, Reported, SentAsReported, O!SentAsReported
  <1>4. QED
    BY <1>1, <1>2, <1>3, PTL DEF Spec

\* A path told to the user holds the attachment that was saved, and no file of another
\* program is written over, save where a name is taken between look and open.
THEOREM SavingKeeps == Spec => []SavedIsThere
  <1> DEFINE I == part = "downloads" => DownloadInv
  <1>1. Init => I
    BY DownloadInit DEF Init
  <1>2. I /\ [Next]_vars => I'
    BY DownloadStep DEF Next
  <1>3. I => SavedIsThere
    BY DEF DownloadInv, SavedIsThere, D!SavedIsThere
  <1>4. QED
    BY <1>1, <1>2, <1>3, PTL DEF Spec

\* A click on a notification of ours brings the window forward once, and nothing else
\* does, save a click handled before its id was stored, and an id given twice.
THEOREM ClicksActivate == Spec => []ClickActivates
  <1> DEFINE I == part = "notifier" => NotifierInv
  <1>1. Init => I
    BY NotifierInit DEF Init
  <1>2. I /\ [Next]_vars => I'
    BY NotifierStep DEF Next
  <1>3. I => ClickActivates
    <2> SUFFICES ASSUME NotifierInv PROVE N!ClickActivates
      BY DEF ClickActivates
    <2>1. N!Shown = 1..Len(shown) /\ Len(shown) \in Nat /\ Len(shown) <= MaxShown /\ MaxShown \in Nat
      BY PartsAssumption DEF NotifierInv, SignalInv, N!Shown
    <2>2. \A k \in 1..Len(shown) : k \in 1..MaxShown
      BY <2>1
    <2>3. QED
      BY <2>1, <2>2 DEF NotifierInv, SignalInv, ActivationInv, N!ClickActivates
  <1>4. QED
    BY <1>1, <1>2, <1>3, PTL DEF Spec

\* The types of the notifier, the theme watcher, the downloads and the outbox.
DesktopTypeOK ==
  /\ part = "notifier" => N!TypeOK
  /\ part = "theme" => T!TypeOK
  /\ part = "downloads" => D!TypeOK
  /\ part = "outbox" => O!TypeOK

\* Every variable of these parts keeps its type: numbers of notifications, tries and
\* suffixes stay in their bounds, and signals and files are those that there are.
THEOREM DesktopTypes == Spec => []DesktopTypeOK
  <1> DEFINE I == /\ part = "notifier" => NotifierInv /\ NotifierTypes
                  /\ part = "theme" => ThemeInv
                  /\ part = "downloads" => DownloadInv /\ FileTypes
                  /\ part = "outbox" => OutboxInv /\ OutboxTypes
  <1>1. Init => I
    BY NotifierInit, NotifierTypesInit, ThemeInit, DownloadInit, FileTypesInit, OutboxInit,
       OutboxTypesInit DEF Init
  <1>2. I /\ [Next]_vars => I'
    BY NotifierStep, NotifierTypesStep, ThemeStep, DownloadStep, FileTypesStep, OutboxStep,
       OutboxTypesStep DEF Next
  <1>3. I => DesktopTypeOK
    <2>1. part = "notifier" /\ I => N!TypeOK
      BY NotifierTyped
    <2>2. part = "theme" /\ I => T!TypeOK
      BY DEF ThemeInv
    <2>3. part = "downloads" /\ I => D!TypeOK
      BY DEF DownloadInv, FileTypes, D!TypeOK
    <2>4. part = "outbox" /\ I => O!TypeOK
      <3>1. ASSUME OutboxInv, OutboxTypes PROVE O!TypeOK
        <4>1. lost \in 0..MaxTries /\ Len(delivered) <= MaxTries
          BY <3>1, PartsAssumption DEF OutboxInv, AcceptedInv, OutboxTypes
        <4>2. QED
          BY <3>1, <4>1 DEF OutboxInv, BuiltInv, OutboxTypes, Mail, O!TypeOK
      <3>2. QED
        BY <3>1
    <2>5. QED
      BY <2>1, <2>2, <2>3, <2>4 DEF DesktopTypeOK
  <1>4. QED
    BY <1>1, <1>2, <1>3, PTL DEF Spec
=============================================================================
