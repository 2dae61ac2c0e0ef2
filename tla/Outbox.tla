------------------------------- MODULE Outbox -------------------------------
(***************************************************************************)
(* Sending: the compose dialog (submit in ComposeModal.svelte),            *)
(* SendMessage of app.go, and Send and Build of internal/send, against a   *)
(* submission server (external) that may refuse, answer or go away at any  *)
(* point.  The dialog allows one submission at a time, and stays open      *)
(* after an error for the user to try again.                               *)
(*                                                                         *)
(* Abstraction.  A draft is its addresses and the message it replies to;   *)
(* subject, text and encoding are left out.  Each address is written once. *)
(***************************************************************************)
EXTENDS Integers, Sequences, FiniteSets

CONSTANTS
  Address,  \* what the user may type
  BadOnes,  \* addresses parseRecipient refuses
  MaxTries  \* bound: submissions

(* The message replied to: none, one of the account, or one that is gone   *)
(* or another account's.                                                   *)
Reply == {"none", "own", "unusable"}

VARIABLES
  kind, port,       \* the account: imap or gmail, its SMTP port
  server,           \* the server: its port's tls, and its authentication mechanisms
  draft,            \* to, cc, bcc, reply
  pc,               \* where the submission is
  built,            \* what Build made: headers and envelope
  tries,
  delivered,        \* what the server accepted, in order
  lost,             \* acceptances whose reply never came
  secretRead        \* this submission has asked the keyring

vars == <<kind, port, server, draft, pc, built, tries, delivered, lost, secretRead>>
still == <<kind, port, server>>

Unbuilt == [headers |-> {}, recipients |-> {}]
Everyone(d) == d.to \union d.cc \union d.bcc

Drafts == {d \in [to : SUBSET Address, cc : SUBSET Address, bcc : SUBSET Address, reply : Reply] :
             d.to \intersect (d.cc \union d.bcc) = {} /\ d.cc \intersect d.bcc = {}}

NewDraft == [to |-> {}, cc |-> {}, bcc |-> {}, reply |-> "none"]

Init ==
  /\ kind \in {"imap", "gmail"} /\ port \in {465, 587}
  /\ server \in [implicitTLS : BOOLEAN, mechanisms : {{"PLAIN"}, {"LOGIN"}, {"XOAUTH2"}}]
  /\ draft = NewDraft /\ pc = "edit" /\ built = Unbuilt
  /\ tries = 0 /\ delivered = <<>> /\ lost = 0 /\ secretRead = FALSE

Goto(from, to) == pc = from /\ pc' = to

(* An error: the dialog shows it and can be submitted again. *)
Fail(from) == Goto(from, "edit")

(* The user writes another draft. *)
Edit ==
  /\ pc = "edit"
  /\ draft' \in Drafts \ {draft}
  /\ UNCHANGED <<still, pc, built, tries, delivered, lost, secretRead>>

(* submit: busy, and the recipient count, are the dialog's guards. *)
Submit ==
  /\ tries < MaxTries /\ tries' = tries + 1
  /\ Everyone(draft) # {}
  /\ Goto("edit", "check")
  /\ secretRead' = FALSE /\ built' = Unbuilt
  /\ UNCHANGED <<still, draft, delivered, lost>>

(* Build: headers name To and Cc, the envelope everyone. *)
BuildAll(d) == [headers |-> Everyone(d), recipients |-> Everyone(d)]
Build(d)    == [headers |-> d.to \union d.cc, recipients |-> Everyone(d)]

(* accounts.Find, GetReplyMetadata and Build, in this order, before        *)
(* anything is asked of the keyring.                                       *)
Valid(d) == d.reply \in {"none", "own"} /\ Everyone(d) \intersect BadOnes = {}

Check ==
  /\ IF Valid(draft)
       THEN Goto("check", "secret") /\ built' = Build(draft)
       ELSE Fail("check") /\ UNCHANGED built
  /\ UNCHANGED <<still, draft, tries, delivered, lost, secretRead>>

(* GetImapPassword or AccessToken. *)
GetSecret ==
  /\ secretRead' = TRUE
  /\ Goto("secret", "dial") \/ Fail("secret")
  /\ UNCHANGED <<still, draft, built, tries, delivered, lost>>

(* Port 465 is implicit TLS, any other STARTTLS. *)
Dial ==
  /\ \/ (port = 465) = server.implicitTLS /\ Goto("dial", "auth")
     \/ Fail("dial")
  /\ UNCHANGED <<still, draft, built, tries, delivered, lost, secretRead>>

(* PLAIN, or LOGIN where the server has only that; XOAUTH2 for Gmail. *)
Mechanism ==
  IF kind = "gmail" THEN "XOAUTH2"
  ELSE IF server.mechanisms = {"LOGIN"} THEN "LOGIN" ELSE "PLAIN"

Authenticate ==
  /\ \/ Mechanism \in server.mechanisms /\ Goto("auth", "envelope")
     \/ Fail("auth")
  /\ UNCHANGED <<still, draft, built, tries, delivered, lost, secretRead>>

(* SendMail: MAIL and every RCPT; one that is refused ends it. *)
Envelope ==
  /\ Goto("envelope", "data") \/ Fail("envelope")
  /\ UNCHANGED <<still, draft, built, tries, delivered, lost, secretRead>>

(* DATA: accepted, accepted with the reply lost, or refused. *)
Data ==
  /\ \/ /\ Goto("data", "quit")
        /\ delivered' = Append(delivered, built)
        /\ UNCHANGED lost
     \/ /\ Fail("data")
        /\ delivered' = Append(delivered, built)
        /\ lost' = lost + 1
     \/ Fail("data") /\ UNCHANGED <<delivered, lost>>
  /\ UNCHANGED <<still, draft, built, tries, secretRead>>

(* QUIT: its failure is only logged; the dialog closes. *)
QuitReported == Goto("quit", "sent") \/ Fail("quit")
QuitIgnored  == Goto("quit", "sent")
Quit ==
  /\ QuitIgnored
  /\ UNCHANGED <<still, draft, built, tries, delivered, lost, secretRead>>

(* The dialog is opened again. *)
Compose ==
  /\ Goto("sent", "edit")
  /\ draft' = NewDraft /\ delivered' = <<>> /\ lost' = 0
  /\ UNCHANGED <<still, built, tries, secretRead>>

Next ==
  \/ Edit \/ Submit \/ Check \/ GetSecret \/ Dial \/ Authenticate
  \/ Envelope \/ Data \/ Quit \/ Compose

Spec == Init /\ [][Next]_vars

-----------------------------------------------------------------------------
TypeOK ==
  /\ kind \in {"imap", "gmail"} /\ port \in {465, 587}
  /\ draft \in Drafts
  /\ pc \in {"edit", "check", "secret", "dial", "auth", "envelope", "data", "quit", "sent"}
  /\ built.headers \subseteq Address /\ built.recipients \subseteq Address
  /\ tries \in 0..MaxTries /\ lost \in 0..MaxTries /\ Len(delivered) <= MaxTries
  /\ secretRead \in BOOLEAN

(* However often the user tries again, the server has accepted one message *)
(* for the success the dialog shows and one for each reply that was lost;  *)
(* what it accepted last is the draft as submitted, to all its recipients, *)
(* with none of the Bcc ones in a header; and the keyring was asked only   *)
(* for a draft that can be sent.                                           *)
SentAsReported ==
  /\ Len(delivered) = lost + (IF pc \in {"quit", "sent"} THEN 1 ELSE 0)
  /\ \A i \in DOMAIN delivered : delivered[i].recipients \intersect BadOnes = {}
  /\ pc \in {"quit", "sent"} =>
       LET m == delivered[Len(delivered)]
       IN m.recipients = Everyone(draft) /\ m.headers \intersect draft.bcc = {}
  /\ secretRead /\ pc # "edit" => Valid(draft)
=============================================================================
