------------------------------ MODULE BodyParts -----------------------------
(***************************************************************************)
(* What becomes of the parts of a message: Parse, walk and ParseBody of    *)
(* internal/mailparse/parse.go, and the reader's list of attachments.      *)
(*                                                                         *)
(* The message is met part by part, in the order walk visits it; what the  *)
(* next part is, and where a container ends, is the message's choice.  A   *)
(* call of walk that is not over is a container on the stack.              *)
(*                                                                         *)
(* Abstraction.  A part is its kind after classify; mixed stands for every *)
(* multipart but alternative and related.  A multipart without a usable    *)
(* boundary is a textOther part, a nested message that cannot be read one  *)
(* with no parts; a multipart has one at least, and no leaf is empty.  A   *)
(* leaf is its kind, whether its disposition is attachment, whether its    *)
(* type has a name, and its Content-ID: none, used by the HTML body, or    *)
(* unused.  Headers, addresses and contents are left out, and so are audio *)
(* and video; the budget of inlined images counts images.                  *)
(***************************************************************************)
EXTENDS Integers, SequencesExt

CONSTANTS
  Leaves,    \* parts that are no containers: kind, attached, named, cid
  MaxParts,  \* bound: parts of a message
  MaxDepth,  \* bound: containers in one another
  Budget     \* InlineImageTotalBudget, in images of the largest size

Multipart == {"mixed", "alternative", "related"}
Leaf      == {"plain", "html", "textOther", "image", "other"}

VARIABLES
  stack,       \* the containerStates, innermost last
  parts,       \* the flat list of parts
  textBody, htmlBody, attachments,  \* indexes of parts
  within       \* history: of each part, the alternatives it is in

vars == <<stack, parts, textBody, htmlBody, attachments, within>>

(* A container: walk's state.  level counts the messages it is nested in,  *)
(* root says that it is a message and takes one part.  within is history:  *)
(* the alternatives it is in or is itself, whatever messages are between.  *)
Container(kind, inAlternative, needHTML, needText, level, root, alternatives) ==
  [kind |-> kind, inAlternative |-> inAlternative, parts |-> 0,
   needHTML |-> needHTML, needText |-> needText, level |-> level, root |-> root,
   within |-> alternatives]

Init ==
  /\ stack = <<Container("message", FALSE, TRUE, TRUE, 0, TRUE, {})>>
  /\ parts = <<>> /\ textBody = <<>> /\ htmlBody = <<>> /\ attachments = <<>>
  /\ within = <<>>

State  == Last(stack)
Counted == [State EXCEPT !.parts = @ + 1]

(* The container can take a part. *)
Open == stack # <<>> /\ Len(parts) < MaxParts /\ (State.root => State.parts = 0)

(* The alternatives that the parts of a container of that kind will be in. *)
Alternatives(kind) ==
  State.within \union IF kind = "alternative" THEN {Len(parts) + 1} ELSE {}

Group(kind) == [kind |-> kind, attached |-> FALSE, named |-> FALSE, cid |-> "none"]

(* walk, a multipart: its state begins with the flags of its container. *)
EnterMultipart(kind) ==
  /\ Open /\ Len(stack) < MaxDepth /\ (State.root => State.level = 0)
  /\ parts' = Append(parts, Group(kind)) /\ within' = Append(within, State.within)
  /\ stack' = Append(Front(stack), Counted) \o
       <<Container(kind, State.inAlternative \/ kind = "alternative",
                   State.needHTML, State.needText, State.level, FALSE,
                   Alternatives(kind))>>
  /\ UNCHANGED <<textBody, htmlBody, attachments>>

(* walk, a message: an attachment; walkNestedChildren goes on with fresh   *)
(* flags, and gives a nested multipart no index of its own.                *)
EnterMessage(kind) ==
  /\ Open /\ Len(stack) < MaxDepth
  /\ parts' = Append(parts, Group("message")) /\ within' = Append(within, State.within)
  /\ attachments' = Append(attachments, Len(parts'))
  /\ stack' = Append(Front(stack), Counted) \o
       (IF kind = "none" THEN <<>>
        ELSE <<Container(kind, kind = "alternative", TRUE, TRUE, State.level + 1,
                         kind = "message", Alternatives(kind))>>)
  /\ UNCHANGED <<textBody, htmlBody>>

(* The end of a container: a multipart of the same message hands its flags *)
(* back, a nested message does not.                                        *)
HandBack(outer, inner) ==
  IF outer.level = inner.level
    THEN [outer EXCEPT !.needHTML = inner.needHTML, !.needText = inner.needText]
    ELSE outer

Leave ==
  /\ stack # <<>> /\ State.parts > 0
  /\ stack' = IF Len(stack) = 1 THEN <<>>
              ELSE LET rest == Front(stack)
                   IN Append(Front(rest), HandBack(Last(rest), State))
  /\ UNCHANGED <<parts, textBody, htmlBody, attachments, within>>

(* walk, a leaf.  An inline part is part of the body that is still wanted; *)
(* in an alternative HTML and plain text each go to their own.             *)
Inline(leaf) ==
  /\ leaf.kind \in {"plain", "html", "image"} /\ ~leaf.attached
  /\ \/ Counted.parts = 1
     \/ State.kind # "related" /\ (leaf.kind = "image" \/ ~leaf.named)

(* state.needHTMLBody and needTextBody after the part. *)
Wanted(kind, inline) ==
  LET choosing == State.kind # "alternative" /\ inline /\ State.inAlternative
                    /\ (State.needText \/ State.needHTML)
  IN [Counted EXCEPT !.needText = @ /\ ~(choosing /\ kind = "html"),
                     !.needHTML = @ /\ ~(choosing /\ kind = "plain")]

AddTo(kind, inline) ==
  IF State.kind = "alternative"
    THEN [html |-> kind = "html", text |-> kind = "plain"]
    ELSE [html |-> inline /\ Wanted(kind, inline).needHTML,
          text |-> inline /\ Wanted(kind, inline).needText]

(* Text that is in no body is an attachment, and so is all that is no text. *)
ListedAsText(kind, add) ==
  IF kind = "html" THEN ~add.html
  ELSE IF kind \in {"plain", "textOther"} THEN ~add.text ELSE FALSE
Listed(kind, add) ==
  IF kind = "html" THEN ~add.html
  ELSE IF kind \in {"plain", "textOther"} THEN ~add.text ELSE TRUE

VisitLeaf(leaf) ==
  /\ Open
  /\ LET kind   == leaf.kind
         inline == Inline(leaf)
         add    == AddTo(kind, inline)
         index  == Len(parts) + 1
         With(s, yes) == IF yes THEN Append(s, index) ELSE s
     IN /\ parts' = Append(parts, leaf) /\ within' = Append(within, State.within)
        /\ htmlBody' = With(htmlBody, add.html)
        /\ textBody' = With(textBody, add.text)
        /\ attachments' = With(attachments, Listed(kind, add))
        /\ stack' = Append(Front(stack), Wanted(kind, inline))

Next ==
  \/ \E kind \in Multipart : EnterMultipart(kind)
  \/ \E kind \in Multipart \union {"message", "none"} : EnterMessage(kind)
  \/ \E leaf \in Leaves : VisitLeaf(leaf)
  \/ Leave

Spec == Init /\ [][Next]_vars

-----------------------------------------------------------------------------
(***************************************************************************)
(* What is made of the parts when all are met                              *)
(***************************************************************************)
Index  == DOMAIN parts
Parsed == stack = <<>>

(* bodyHTML, or without one bodyText: the reader shows the first part of   *)
(* the HTML list, and looks at the text list only if there is no HTML.     *)
Shown == IF htmlBody # <<>> THEN {htmlBody[1]}
         ELSE IF textBody # <<>> THEN {textBody[1]} ELSE {}

(* extractAttachments; one with a Content-ID that is no explicit           *)
(* attachment is inline, and Reader.svelte lists those that are not.       *)
Extracted == {i \in ToSet(attachments) : parts[i].kind # "message"}
IsInline(i) == parts[i].cid # "none" /\ ~parts[i].attached
Chips == {i \in Extracted : ~IsInline(i)}

(* inlineImageDataURIs and rewriteCIDReferences: images with a Content-ID, *)
(* until the budget is used, where the HTML refers to them.                *)
Inlined ==
  LET images == SelectSeq(attachments, LAMBDA i : parts[i].kind = "image" /\ parts[i].cid # "none")
  IN ToSet(SubSeq(images, 1, IF Len(images) < Budget THEN Len(images) ELSE Budget))
Rendered ==
  {i \in Inlined : parts[i].cid = "used" /\ htmlBody # <<>> /\ parts[htmlBody[1]].kind = "html"}

-----------------------------------------------------------------------------
TypeOK ==
  /\ Len(parts) <= MaxParts /\ Len(stack) <= MaxDepth
  /\ {textBody, htmlBody, attachments} \subseteq Seq(Index)
  /\ within \in [Index -> SUBSET Index]

Text(i) == parts[i].kind \in {"plain", "html"}

(* The first part that is not a container, if it is text and not sent as   *)
(* a file.                                                                 *)
Opening == {i \in Index : Text(i) /\ ~parts[i].attached /\ ~parts[i].named
                            /\ \A j \in 1..(i - 1) : parts[j].kind \in Multipart}

(* The sender offered the part shown in place of part i.                   *)
Superseded(i) == \E j \in Shown : within[i] \intersect within[j] # {}

(* A plain text in an alternative that has no HTML to offer.               *)
Lone(i) == /\ parts[i].kind = "plain"
           /\ \E a \in within[i] : \A j \in ToSet(htmlBody) : a \notin within[j]

(* Every part of a message that has content can be reached: it is the part *)
(* shown, rendered in it, or listed -- or it is a text after the one that  *)
(* is shown or offered as another form of it, or it has a Content-ID and   *)
(* the reader counts on its being rendered (HiddenIsRendered), or it is or *)
(* follows a plain text that is alone in its alternative, which HTML from  *)
(* elsewhere hides.  A message that opens with a text shows that text,     *)
(* with the last two of these exceptions.  What is shown is a text, or the *)
(* bytes of an image.                                                      *)
ReaderFindsEverything ==
  Parsed =>
    /\ \A i \in Index : parts[i].kind \in Leaf =>
         \/ i \in Shown \union Rendered \union Chips
         \/ Text(i) /\ (Superseded(i) \/ \E j \in Shown : j < i)
         \/ Text(i) /\ \E k \in 1..i : Lone(k)
         \/ i \in Extracted /\ IsInline(i)
    /\ \A i \in Opening : i \in Shown \/ Superseded(i) \/ Lone(i)
    /\ \A i \in Shown : Text(i) \/ parts[i].kind = "image"

(* The comment of Reader.svelte about the attachments it does not list:    *)
(* inline cid images already render in the body.                           *)
HiddenIsRendered == Parsed => Extracted \ Chips \subseteq Rendered \union Shown
=============================================================================
