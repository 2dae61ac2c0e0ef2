----------------------------- MODULE Shipments ------------------------------
(***************************************************************************)
(* Shipments found in a message body: Extract of internal/shipments.       *)
(*                                                                         *)
(* Abstraction.  A token is the shape classifyToken sees in it, the parcel *)
(* it is the number of, whether its check digit is right, and the words    *)
(* within contextWindow of it: the carriers named and whether a shipping   *)
(* word is there.  A link is its carrier and the parcel it leads to.       *)
(* Tokens and links come in the order the scan meets them; scanning itself *)
(* (tags, entities, hrefs, bare URLs) is left out.                         *)
(***************************************************************************)
EXTENDS Integers, SequencesExt

CONSTANTS
  Parcel,    \* what a number or a link stands for
  Message,   \* [tokens, links, saysAmazon, order]: the bodies looked at
  Nothing    \* nil

VARIABLES message, found

vars == <<message, found>>

Carrier == {"ups", "fedex", "usps", "dhl", "royal_mail", "amazon"}

(* classifyToken: the carrier of a shape, if it has one. *)
Certain   == {"1Z", "s10gb", "s10us", "usps22"}
CarrierOf == [shape \in {"1Z", "s10gb", "s10us", "usps22", "digits10", "digits12", "digits20"} |->
                CASE shape = "1Z" -> "ups"
                  [] shape = "s10gb" -> "royal_mail"
                  [] shape \in {"s10us", "usps22"} -> "usps"
                  [] shape = "digits10" -> "dhl"
                  [] OTHER -> "fedex"]

(* A long number that fails USPS's check is who is named near it, if only  *)
(* one of USPS and FedEx is.                                               *)
Classify(t) ==
  LET named == t.near \intersect {"fedex", "usps"}
      long  == t.shape = "digits20" \/ (t.shape = "usps22" /\ ~t.valid)
      carrier == IF long
                   THEN IF \E c \in named : named = {c} THEN CHOOSE c \in named : TRUE ELSE Nothing
                   ELSE CarrierOf[t.shape]
  IN [carrier |-> carrier, parcel |-> t.parcel, near |-> t.near, generic |-> t.generic,
      deterministic |-> t.shape \in Certain /\ ~long, valid |-> t.valid]

(* findNumberCandidates. *)
Numbers(m) == {n \in {Classify(t) : t \in ToSet(m.tokens)} : n.carrier # Nothing}

(* captured: the first link of the carrier. *)
LinksOf(m, c)   == {i \in DOMAIN m.links : m.links[i].carrier = c}
Captured(m, c)  == IF LinksOf(m, c) = {} THEN Nothing ELSE m.links[Min(LinksOf(m, c))].parcel

(* resolveTrackingURL: a captured link, or the carrier's page for the      *)
(* number; Amazon has none.                                                *)
TrackingURL(m, c, parcel) ==
  IF Captured(m, c) # Nothing THEN Captured(m, c) ELSE IF c = "amazon" THEN Nothing ELSE parcel

Shipment(m, c, parcel) ==
  [carrier |-> c, number |-> parcel, url |-> TrackingURL(m, c, parcel), order |-> FALSE]

(* Step 1: numbers whose check digit is right. *)
Verified(m) ==
  {Shipment(m, n.carrier, n.parcel) : n \in {x \in Numbers(m) : x.deterministic /\ x.valid}}

(* Step 2: numbers without a check digit, near the right words, and only   *)
(* if step 1 has found none; without the carrier's name the first link     *)
(* names the carrier.                                                      *)
Guessed(m) ==
  {LET specific == n.carrier \in n.near
   IN Shipment(m, IF ~specific /\ m.links # <<>> THEN m.links[1].carrier ELSE n.carrier, n.parcel) :
     n \in {x \in Numbers(m) : ~x.deterministic /\ (x.generic \/ x.carrier \in x.near)}}

NumberedAlways(m) == Verified(m) \union Guessed(m)
Numbered(m) == IF Verified(m) # {} THEN Verified(m) ELSE Guessed(m)

(* Step 3: the first link of a carrier that has no shipment yet. *)
Linked(m) ==
  {[carrier |-> c, number |-> Nothing, url |-> Captured(m, c), order |-> FALSE] :
     c \in {l.carrier : l \in ToSet(m.links)} \ ({"amazon"} \union {s.carrier : s \in Numbered(m)})}

(* Step 4: Amazon, if the message names it. *)
OfAmazon(m) ==
  IF m.saysAmazon /\ (Captured(m, "amazon") # Nothing \/ m.order)
    THEN {[carrier |-> "amazon", number |-> Nothing, url |-> Captured(m, "amazon"), order |-> m.order]}
    ELSE {}

Extract(m) == Numbered(m) \union Linked(m) \union OfAmazon(m)

Init == message \in Message /\ found = Nothing

Next ==
  /\ found = Nothing
  /\ found' = Extract(message)
  /\ UNCHANGED message

Spec == Init /\ [][Next]_vars

-----------------------------------------------------------------------------
TypeOK ==
  found # Nothing =>
    found \subseteq [carrier : Carrier, number : Parcel \union {Nothing},
                     url : Parcel \union {Nothing}, order : BOOLEAN]

TokensOf(p) == {t \in ToSet(message.tokens) : t.parcel = p}

(* Two links of one carrier are in the message: see LeadsToItsParcel. *)
Ambiguous(c) == \E i, j \in LinksOf(message, c) : i # j

(* What is shown for a message: a number is never one whose check digit is *)
(* wrong, and never a guess beside a number that is certain; a parcel is   *)
(* shown under one carrier unless the message has it in two shapes; no     *)
(* carrier's tracking link is lost; and a number that has a link of its    *)
(* own leads there, whatever other carriers' links stand before it -- save *)
(* where the message has two links of the carrier, for then all its        *)
(* numbers get the first, or where the carrier is a guess.                 *)
ShipmentsAreTheMessages ==
  found # Nothing =>
    /\ \A s \in found : s.number # Nothing =>
         /\ \E t \in TokensOf(s.number) : t.shape \in Certain => t.valid \/ t.shape = "usps22"
         /\ (\E t \in ToSet(message.tokens) : t.shape \in Certain /\ t.valid)
              => \E t \in TokensOf(s.number) : t.shape \in Certain /\ t.valid
    /\ \A l \in ToSet(message.links) : l.carrier # "amazon" => \E s \in found : s.carrier = l.carrier
    /\ \A s \in found, l \in ToSet(message.links) :
         s.number = l.parcel /\ s.carrier = l.carrier /\ ~Ambiguous(l.carrier) => s.url = l.parcel
    /\ \A s, r \in found :
         s.number = r.number /\ s.number # Nothing /\ (\A t, u \in TokensOf(s.number) : t = u)
           => s = r
=============================================================================
