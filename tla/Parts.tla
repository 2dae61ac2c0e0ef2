------------------------------- MODULE Parts --------------------------------
(***************************************************************************)
(* The parts of the program that share no state with the others, each in   *)
(* a module of its own, as one specification: a behaviour takes one part   *)
(* and stays in it, so that the states of the parts add up, not multiply.  *)
(* The variables of the other parts are Nothing.                           *)
(***************************************************************************)
EXTENDS Integers, Sequences

CONSTANTS
  Part,      \* the parts looked at
  Nothing,
  (* Notifier *)     Loop, Other, Batches, MaxShown, MaxRestarts,
  (* ThemeWatcher *) Version, MaxWrites,
  (* Downloads *)    Call, Attachment, RawName, Fallback, MaxSuffix, Foreign, Partial, MaxForeign,
  (* Outbox *)       Address, BadOnes, MaxTries,
  (* Autoconfig *)   Document, Page, MxAnswer, MaxPublishers, Delay, NoConfig,
  (* Shipments *)    Parcel, Message,
  (* Checksums *)    Scheme, Serial,
  (* BodyParts *)    Leaves, MaxParts, MaxDepth, Budget

VARIABLES
  part,
  (* Notifier *)     conn, todo, id, pending, signals, epoch, shown, clicked, handled, activated, early,
  (* ThemeWatcher *) colors, name, writes, watcher, dirty, half, last, sent, page, pageHalf, theme, missed,
  (* Downloads *)    files, at, att, n, clash, theirs,
  (* Outbox *)       kind, port, server, draft, pc, built, tries, delivered, lost, secretRead,
  (* Autoconfig *)   world, step, clock, mx, late, result,
  (* Shipments *)    message, found,
  (* Checksums *)    scheme, number, original,
  (* BodyParts *)    stack, parts, textBody, htmlBody, attachments, within

notifierVars  == <<conn, todo, id, pending, signals, epoch, shown, clicked, handled, activated, early>>
themeVars     == <<colors, name, writes, watcher, dirty, half, last, sent, page, pageHalf, theme, missed>>
downloadVars  == <<files, at, att, n, clash, theirs>>
outboxVars    == <<kind, port, server, draft, pc, built, tries, delivered, lost, secretRead>>
discoveryVars == <<world, step, clock, mx, late, result>>
shipmentVars  == <<message, found>>
checksumVars  == <<scheme, number, original>>
bodyVars      == <<stack, parts, textBody, htmlBody, attachments, within>>
vars == <<part, notifierVars, themeVars, downloadVars, outboxVars, discoveryVars, shipmentVars,
          checksumVars, bodyVars>>

-----------------------------------------------------------------------------
N == INSTANCE Notifier
T == INSTANCE ThemeWatcher WITH shown <- theme
D == INSTANCE Downloads WITH pc <- at
O == INSTANCE Outbox
A == INSTANCE Autoconfig
H == INSTANCE Shipments
C == INSTANCE Checksums
B == INSTANCE BodyParts

ASSUME PartsAssumption ==
  /\ Other \notin Loop /\ Batches \subseteq Nat /\ MaxShown \in Nat /\ MaxRestarts \in Nat
  /\ 0 \in Version /\ MaxWrites \in Nat
  /\ MaxSuffix \in Nat /\ Foreign \notin Attachment \union {Partial} /\ Partial \notin Attachment
  /\ MaxTries \in Nat
  /\ \A host \in {"own", "google"}, p \in {587, 465} : A!Srv(host, p) # NoConfig
  /\ NoConfig \notin [kind : {"imap", "gmail"}, smtp : [socket : {"STARTTLS", "SSL"}, port : Nat],
                    source : {"autoconfig", "ispdb", "mx", "srv", "guess"}, confident : BOOLEAN]
  /\ \A doc \in Document : \A i \in 1..Len(doc.outgoing) : doc.outgoing[i].port \in Nat
  /\ \A answer \in MxAnswer : answer \in Seq([host : {"own", "google", "provider"}, pref : Nat])
  /\ Delay \subseteq Nat
  /\ Nothing \notin Parcel \union H!Carrier
  /\ \A m \in Message : m.links \in Seq([carrier : H!Carrier, parcel : Parcel])
  /\ \A m \in Message : m.order \in BOOLEAN
  /\ \A m \in Message : \A t \in H!ToSet(m.tokens) : t.shape \in DOMAIN H!CarrierOf /\ t.parcel \in Parcel
  /\ \A leaf \in Leaves : leaf.kind \in B!Leaf
  /\ MaxParts \in Nat /\ MaxDepth \in Nat \ {0}
  /\ Scheme \subseteq {"ups", "usps", "s10"}
  /\ \A s \in Scheme : Serial[s] \subseteq Seq(C!Digit)
  /\ "s10" \in Scheme => \A serial \in Serial["s10"] : Len(serial) = 8

-----------------------------------------------------------------------------
(* A part that is not taken. *)
NoNotifier ==
  /\ conn = Nothing /\ todo = Nothing /\ id = Nothing /\ pending = Nothing
  /\ signals = Nothing /\ epoch = Nothing /\ shown = Nothing /\ clicked = Nothing
  /\ handled = Nothing /\ activated = Nothing /\ early = Nothing
NoTheme ==
  /\ colors = Nothing /\ name = Nothing /\ writes = Nothing /\ watcher = Nothing
  /\ dirty = Nothing /\ half = Nothing /\ last = Nothing /\ sent = Nothing
  /\ page = Nothing /\ pageHalf = Nothing /\ theme = Nothing /\ missed = Nothing
NoDownloads ==
  /\ files = Nothing /\ at = Nothing /\ att = Nothing /\ n = Nothing /\ clash = Nothing
  /\ theirs = Nothing
NoOutbox ==
  /\ kind = Nothing /\ port = Nothing /\ server = Nothing /\ draft = Nothing
  /\ pc = Nothing /\ built = Nothing /\ tries = Nothing /\ delivered = Nothing
  /\ lost = Nothing /\ secretRead = Nothing
NoDiscovery ==
  /\ world = Nothing /\ step = Nothing /\ clock = Nothing /\ mx = Nothing
  /\ late = Nothing /\ result = Nothing
NoShipments == message = Nothing /\ found = Nothing
NoChecksums == scheme = Nothing /\ number = Nothing /\ original = Nothing
NoBody ==
  /\ stack = Nothing /\ parts = Nothing /\ textBody = Nothing /\ htmlBody = Nothing
  /\ attachments = Nothing /\ within = Nothing

Init ==
  /\ part \in Part
  /\ IF part = "notifier" THEN N!Init ELSE NoNotifier
  /\ IF part = "theme" THEN T!Init ELSE NoTheme
  /\ IF part = "downloads" THEN D!Init ELSE NoDownloads
  /\ IF part = "outbox" THEN O!Init ELSE NoOutbox
  /\ IF part = "discovery" THEN A!Init ELSE NoDiscovery
  /\ IF part = "shipments" THEN H!Init ELSE NoShipments
  /\ IF part = "checksums" THEN C!Init ELSE NoChecksums
  /\ IF part = "body" THEN B!Init ELSE NoBody

Next ==
  \/ /\ part = "notifier" /\ N!Next
     /\ UNCHANGED <<part, themeVars, downloadVars, outboxVars, discoveryVars, shipmentVars,
                    checksumVars, bodyVars>>
  \/ /\ part = "theme" /\ T!Next
     /\ UNCHANGED <<part, notifierVars, downloadVars, outboxVars, discoveryVars, shipmentVars,
                    checksumVars, bodyVars>>
  \/ /\ part = "downloads" /\ D!Next
     /\ UNCHANGED <<part, notifierVars, themeVars, outboxVars, discoveryVars, shipmentVars,
                    checksumVars, bodyVars>>
  \/ /\ part = "outbox" /\ O!Next
     /\ UNCHANGED <<part, notifierVars, themeVars, downloadVars, discoveryVars, shipmentVars,
                    checksumVars, bodyVars>>
  \/ /\ part = "discovery" /\ A!Next
     /\ UNCHANGED <<part, notifierVars, themeVars, downloadVars, outboxVars, shipmentVars,
                    checksumVars, bodyVars>>
  \/ /\ part = "shipments" /\ H!Next
     /\ UNCHANGED <<part, notifierVars, themeVars, downloadVars, outboxVars, discoveryVars,
                    checksumVars, bodyVars>>
  \/ /\ part = "checksums" /\ C!Next
     /\ UNCHANGED <<part, notifierVars, themeVars, downloadVars, outboxVars, discoveryVars,
                    shipmentVars, bodyVars>>
  \/ /\ part = "body" /\ B!Next
     /\ UNCHANGED <<part, notifierVars, themeVars, downloadVars, outboxVars, discoveryVars,
                    shipmentVars, checksumVars>>

Spec == Init /\ [][Next]_vars

-----------------------------------------------------------------------------
(* The type of every part's variables, and the claim of each part; what it *)
(* says is told in the part's module.                                      *)
TypeOK ==
  /\ part = "notifier" => N!TypeOK
  /\ part = "theme" => T!TypeOK
  /\ part = "downloads" => D!TypeOK
  /\ part = "outbox" => O!TypeOK
  /\ part = "discovery" => A!TypeOK
  /\ part = "shipments" => H!TypeOK
  /\ part = "checksums" => C!TypeOK
  /\ part = "body" => B!TypeOK

(* One click on a notification of ours, one activation (Notifier, notify.go). *)
ClickActivates == part = "notifier" => N!ClickActivates

(* The theme of the files is the one shown (ThemeWatcher, omarchy.go). *)
ThemeSettles == part = "theme" => T!ThemeSettles

(* No file is written over (Downloads, attachments.go). *)
SavedIsThere == part = "downloads" => D!SavedIsThere

(* Accepted is what is reported, or lost (Outbox, send.go). *)
SentAsReported == part = "outbox" => O!SentAsReported

(* The best source heard in time decides (Autoconfig, autoconfig.go). *)
BestAnswerWins == part = "discovery" => A!BestAnswerWins

(* Numbers and links as the message has them (Shipments, shipments.go). *)
ShipmentsAreTheMessages == part = "shipments" => H!ShipmentsAreTheMessages

(* A wrong digit is seen (Checksums, shipments.go). *)
TypoIsCaught == part = "checksums" => C!TypoIsCaught

(* Every part can be reached (BodyParts, parse.go). *)
ReaderFindsEverything == part = "body" => B!ReaderFindsEverything

(* The comment of Reader.svelte about hidden attachments (BodyParts). *)
HiddenIsRendered == part = "body" => B!HiddenIsRendered
=============================================================================
