----------------------------- MODULE Autoconfig -----------------------------
(***************************************************************************)
(* Settings discovery for an address: Discover of internal/autoconfig and  *)
(* DiscoverAccountConfig of app.go, which ask one source after another     *)
(* until one gives a usable answer or the time is over.                    *)
(*                                                                         *)
(* Abstraction.  A host is the domain's `own', Google's, or another        *)
(* `provider''s; a document is its servers in order; the address is valid; *)
(* user names are left out.  What the world publishes does not change      *)
(* during a discovery, but any answer may come late.                       *)
(***************************************************************************)
EXTENDS Integers, FiniteSets, SequencesExt

CONSTANTS
  Document,       \* what a web source may publish
  Page,           \* the one of a source that publishes nothing
  MxAnswer,       \* sequences of MX records
  MaxPublishers,  \* bound: web sources that publish something
  Delay,          \* how long an answer may take, in seconds
  NoConfig        \* no parsedConfig

HttpTimeout  == 5
TotalTimeout == 12

Web   == {"subdomain", "wellknown", "ispdb", "mxSubdomain", "mxIspdb"}
Chain == <<"subdomain", "wellknown", "ispdb", "mx", "mxSubdomain", "mxIspdb", "srv", "guess">>

VARIABLES
  world,   \* what is published: domain, doc, mx, imaps, submission
  step,    \* the source runChain asks next, or "done"
  clock,
  mx,      \* the mail exchanger found: a host, or "none"
  late,    \* sources that did not answer in time
  result

vars == <<world, step, clock, mx, late, result>>

After(s) == Chain[1 + CHOOSE i \in DOMAIN Chain : Chain[i] = s]

-----------------------------------------------------------------------------
(* parseAutoconfigXML: the first SSL server for IMAP decides, even if it   *)
(* is unusable; for SMTP the first usable STARTTLS server, else SSL.       *)
First(s, Test(_)) == LET i == SelectInSeq(s, Test) IN IF i = 0 THEN NoConfig ELSE s[i]

Smtp(doc) ==
  LET Usable(mode) == First(doc.outgoing, LAMBDA o : o.socket = mode /\ o.ok)
  IN IF Usable("STARTTLS") # NoConfig THEN Usable("STARTTLS") ELSE Usable("SSL")

Parse(doc) ==
  LET imap == First(doc.incoming, LAMBDA s : s.socket = "SSL")
  IN IF imap # NoConfig /\ imap.ok /\ Smtp(doc) # NoConfig
       THEN [imap |-> imap.host, smtp |-> Smtp(doc)]
       ELSE NoConfig

(* isGmail of the domain, an IMAP host and a mail exchanger. *)
IsGmail(imapHost, mxHost) == "google" \in {world.domain, imapHost, mxHost}

GmailFields(source) ==
  [kind |-> "gmail", smtp |-> [socket |-> "STARTTLS", port |-> 587],
   source |-> source, confident |-> TRUE]

FinalizeByDomain(p, source, mxHost) ==
  IF IsGmail("own", mxHost) THEN GmailFields(source)
  ELSE [kind |-> "imap", smtp |-> [socket |-> p.smtp.socket, port |-> p.smtp.port],
        source |-> source, confident |-> TRUE]
Finalize(p, source, mxHost) ==
  IF IsGmail(p.imap, mxHost) THEN GmailFields(source)
  ELSE [kind |-> "imap", smtp |-> [socket |-> p.smtp.socket, port |-> p.smtp.port],
        source |-> source, confident |-> TRUE]

SourceOf(s) ==
  IF s \in {"subdomain", "wellknown"} THEN "autoconfig"
  ELSE IF s \in {"mxSubdomain", "mxIspdb"} THEN "mx" ELSE s

(* mxLookup: the lowest preference, the first of equals. *)
Lowest(records) ==
  IF records = <<>> THEN "none"
  ELSE records[CHOOSE i \in DOMAIN records : \A j \in DOMAIN records :
                 \/ records[i].pref < records[j].pref
                 \/ records[i].pref = records[j].pref /\ i <= j].host

(* srvLookup: both services, at the ports of their records; the            *)
(* submission of RFC 6186 is STARTTLS.                                     *)
NotOffered == 0
Srv(imaps, submission) ==
  IF imaps = "none" \/ submission = NotOffered THEN NoConfig
  ELSE [imap |-> imaps, smtp |-> [socket |-> "STARTTLS", port |-> submission]]

Guess ==
  IF IsGmail("own", "none") THEN GmailFields("guess")
  ELSE [kind |-> "imap", smtp |-> [socket |-> "STARTTLS", port |-> 587],
        source |-> "guess", confident |-> FALSE]

-----------------------------------------------------------------------------
Init ==
  /\ \E doc \in [Web -> Document] :
       /\ Cardinality({s \in Web : doc[s] # Page}) <= MaxPublishers
       /\ world \in [domain : {"own", "google"}, doc : {doc}, mx : MxAnswer,
                     imaps : {"none", "own", "google"}, submission : {NotOffered, 587, 465}]
  /\ step = Chain[1] /\ clock = 0 /\ mx = "none" /\ late = {} /\ result = NoConfig

(* A question that takes d seconds, of which a client allows `limit' and   *)
(* the context what is left.                                               *)
Spend(d, limit) ==
  LET asked == {d, limit, TotalTimeout - clock}
  IN clock' = clock + CHOOSE t \in asked : \A u \in asked : t <= u
Answered(d, limit) == d < limit /\ clock + d < TotalTimeout

Finish(r) == result' = r /\ step' = "done"

(* fetchAndParse of the next web source. *)
Fetch(s) ==
  /\ step = s
  /\ \E d \in Delay :
       /\ Spend(d, HttpTimeout)
       /\ IF Answered(d, HttpTimeout) /\ Parse(world.doc[s]) # NoConfig
            THEN Finish(Finalize(Parse(world.doc[s]), SourceOf(s), mx)) /\ UNCHANGED late
            ELSE /\ step' = After(s)
                 /\ late' = IF Answered(d, HttpTimeout) THEN late ELSE late \union {s}
                 /\ UNCHANGED result
  /\ UNCHANGED <<world, mx>>

(* The lookup; Google's exchanger decides, the domain's own adds nothing. *)
LookupMX ==
  /\ step = "mx"
  /\ \E d \in Delay \union {TotalTimeout} :
       /\ Spend(d, TotalTimeout)
       /\ LET found == IF Answered(d, TotalTimeout) THEN Lowest(world.mx) ELSE "none"
          IN /\ mx' = found
             /\ IF found # "none" /\ IsGmail("own", found)
                  THEN Finish(GmailFields("mx"))
                  ELSE /\ step' = IF found = "provider" THEN After("mx") ELSE After("mxIspdb")
                       /\ UNCHANGED result
       /\ late' = IF Answered(d, TotalTimeout) THEN late ELSE late \union {"mx"}
  /\ UNCHANGED world

LookupSRV ==
  /\ step = "srv"
  /\ \E d \in Delay \union {TotalTimeout} :
       /\ Spend(d, TotalTimeout)
       /\ IF Answered(d, TotalTimeout) /\ Srv(world.imaps, world.submission) # NoConfig
            THEN /\ Finish(Finalize(Srv(world.imaps, world.submission), "srv", "none"))
                 /\ UNCHANGED late
            ELSE /\ step' = After("srv")
                 /\ late' = IF Answered(d, TotalTimeout) THEN late ELSE late \union {"srv"}
                 /\ UNCHANGED result
  /\ UNCHANGED <<world, mx>>

(* Discover, when runChain has found nothing. *)
FallBack ==
  /\ step = "guess"
  /\ Finish(Guess)
  /\ UNCHANGED <<world, clock, mx, late>>

Next == LookupMX \/ LookupSRV \/ FallBack \/ \E s \in Web : Fetch(s)

Spec == Init /\ [][Next]_vars

-----------------------------------------------------------------------------
TypeOK ==
  /\ step \in ToSet(Chain) \union {"done"} /\ clock \in 0..TotalTimeout
  /\ mx \in {"none", "own", "google", "provider"}
  /\ late \subseteq ToSet(Chain)
  /\ result = NoConfig <=> step # "done"

(* The sources that could be heard and have something to say, by the       *)
(* world alone: the MX route is open if the exchanger is heard of and is   *)
(* another provider's; Google's exchanger is an answer itself.             *)
Exchanger == IF "mx" \in late THEN "none" ELSE Lowest(world.mx)

Says(s) ==
  CASE s = "mx" -> Exchanger = "google" \/ (Exchanger # "none" /\ world.domain = "google")
    [] s = "srv" -> world.imaps # "none" /\ world.submission # NotOffered
    [] s = "guess" -> TRUE
    [] s \in {"mxSubdomain", "mxIspdb"} -> Exchanger = "provider" /\ Parse(world.doc[s]) # NoConfig
    [] OTHER -> Parse(world.doc[s]) # NoConfig

Best ==
  Chain[CHOOSE i \in DOMAIN Chain :
          /\ Says(Chain[i]) /\ Chain[i] \notin late
          /\ \A j \in 1..(i - 1) : ~(Says(Chain[j]) /\ Chain[j] \notin late)]

(* What the server dialled by Send (port 465: TLS at once) expects. *)
Dialled(smtp) == IF smtp.port = 465 THEN "SSL" ELSE "STARTTLS"
Fits(smtp)    == Dialled(smtp) = smtp.socket

(* The SMTP server as the best source has it. *)
Published == IF Best = "srv" THEN Srv(world.imaps, world.submission).smtp
             ELSE Smtp(world.doc[Best])

(* When a discovery ends, it is within its budget and has the answer of    *)
(* the best source that was heard in time, whatever was slow before it;    *)
(* the account is a Gmail account exactly if something heard says Google;  *)
(* and the answer is confident unless it is a guess -- but the guess for a *)
(* Gmail address is confident, too, although the comment of Discover calls *)
(* it unconfident.  The SMTP server found is dialled as published, if that *)
(* is for SSL on port 465 or for STARTTLS on another.                      *)
BestAnswerWins ==
  step = "done" =>
    /\ clock <= TotalTimeout
    /\ result.source = SourceOf(Best)
    /\ (result.kind = "gmail") =
         \/ world.domain = "google"
         \/ Best = "mx"
         \/ Best = "srv" /\ world.imaps = "google"
         \/ Best \in Web /\ Parse(world.doc[Best]).imap = "google"
    /\ result.confident = (result.source # "guess" \/ world.domain = "google")
    /\ Best \in Web \union {"srv"} /\ Fits(Published) => Fits(result.smtp)
=============================================================================
