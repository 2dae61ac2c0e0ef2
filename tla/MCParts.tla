------------------------------ MODULE MCParts -------------------------------
(* Small instances of Parts for TLC; what is not here is in Parts.cfg. *)
EXTENDS Parts, FiniteSets, SequencesExt

(* Attachments named `report' and `report (1)', and one without a name. *)
MCRawName  == [report |-> <<"report">>, copy |-> <<"report", 1>>, scan |-> <<>>]
MCFallback == [a \in DOMAIN MCRawName |-> <<"attachment">>]

(* Documents with IMAP behind STARTTLS, SMTP for SSL only (on its port and *)
(* on another), a server without a name, and Google's host.                *)
In(socket, ok, host)  == [socket |-> socket, ok |-> ok, host |-> host]
Out(socket, ok, p)    == [socket |-> socket, ok |-> ok, port |-> p]
Doc(incoming, outgoing) == [incoming |-> incoming, outgoing |-> outgoing]
Html == Doc(<<>>, <<>>)
MCDocument ==
  {Html,
   Doc(<<In("STARTTLS", TRUE, "own"), In("SSL", TRUE, "own")>>,
       <<Out("SSL", TRUE, 465), Out("STARTTLS", TRUE, 587)>>),
   Doc(<<In("SSL", TRUE, "own")>>, <<Out("STARTTLS", FALSE, 587), Out("SSL", TRUE, 465)>>),
   Doc(<<In("SSL", TRUE, "own")>>, <<Out("SSL", TRUE, 587)>>),
   Doc(<<In("SSL", FALSE, "own"), In("SSL", TRUE, "own")>>, <<Out("STARTTLS", TRUE, 587)>>),
   Doc(<<In("SSL", TRUE, "google")>>, <<Out("STARTTLS", TRUE, 587)>>)}
Mx(host, pref) == [host |-> host, pref |-> pref]
MCMxAnswer ==
  {<<>>, <<Mx("own", 10)>>, <<Mx("google", 20), Mx("provider", 10)>>, <<Mx("own", 10), Mx("google", 5)>>}

(* Up to two numbers and two different links of two parcels. *)
Token(shape, valid, near, generic) ==
  {[shape |-> shape, parcel |-> p, valid |-> valid, near |-> near, generic |-> generic] : p \in {"p", "q"}}
MCTokens ==
  UNION {Token("1Z", TRUE, {}, FALSE), Token("1Z", FALSE, {"ups"}, TRUE), Token("s10gb", TRUE, {}, TRUE),
         Token("usps22", TRUE, {}, FALSE), Token("usps22", FALSE, {"fedex"}, TRUE),
         Token("usps22", FALSE, {"fedex", "usps"}, TRUE), Token("digits12", FALSE, {"fedex"}, FALSE),
         Token("digits12", FALSE, {}, TRUE), Token("digits10", FALSE, {}, FALSE),
         Token("digits10", FALSE, {"fedex"}, TRUE), Token("digits20", FALSE, {"usps"}, FALSE)}
MCLinks == [carrier : {"ups", "fedex", "dhl", "amazon"}, parcel : {"p", "q"}]
UpToTwo(S) == {<<>>} \union {<<x>> : x \in S} \union (S \X S)
MCMessage == [tokens : UpToTwo(MCTokens), links : {l \in UpToTwo(MCLinks) : Cardinality(ToSet(l)) = Len(l)},
              saysAmazon : BOOLEAN, order : BOOLEAN]

(* The sum is linear in each digit: two digits stand for any. *)
Digits == [ups |-> 15, usps |-> 21, s10 |-> 8]
MCSerial ==
  [s \in DOMAIN Digits |->
     {[j \in 1..Digits[s] |-> IF j = i THEN a ELSE IF j = (i % Digits[s]) + 1 THEN 3 ELSE 0] :
        i \in 1..Digits[s], a \in {0, 4, 9}}]

Piece(k, attached, named, cid) == [kind |-> k, attached |-> attached, named |-> named, cid |-> cid]
MCLeaves ==
  {Piece("plain", FALSE, FALSE, "none"), Piece("plain", FALSE, TRUE, "none"), Piece("plain", TRUE, FALSE, "none"),
   Piece("html", FALSE, FALSE, "none"), Piece("html", FALSE, FALSE, "unused"),
   Piece("image", FALSE, FALSE, "none"), Piece("image", FALSE, FALSE, "used"),
   Piece("image", TRUE, FALSE, "unused"), Piece("other", FALSE, FALSE, "unused"),
   Piece("textOther", FALSE, FALSE, "none")}

=============================================================================
