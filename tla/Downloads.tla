----------------------------- MODULE Downloads ------------------------------
(***************************************************************************)
(* Saving attachments: SaveAttachment of app.go over SafeFilename and      *)
(* UniquePath of internal/attachments, among other programs that use the   *)
(* downloads directory.                                                    *)
(*                                                                         *)
(* UniquePath looks at one name after another, and os.WriteFile truncates  *)
(* or creates the file and then fills it; calls and other programs run in  *)
(* between.                                                                *)
(*                                                                         *)
(* Abstraction.  A name is a sequence: its stem, and the numbers in        *)
(* parentheses at the stem's end, which an attachment may bring with it    *)
(* and of which UniquePath adds one more.                                  *)
(***************************************************************************)
EXTENDS Integers, Sequences, FiniteSets, Functions

CONSTANTS
  Call,        \* the calls of SaveAttachment
  Attachment,
  RawName,     \* of each attachment: the cleaned base name, <<>> if nothing is left
  Fallback,    \* of each attachment: attachment-<id>, with the type's extension
  MaxSuffix,   \* bound: numbers UniquePath tries
  Foreign,     \* what other programs write
  Partial,     \* what a file holds between truncation and the last byte
  MaxForeign   \* bound: files other programs have there

VARIABLES
  files,    \* the directory: a function from names to contents
  pc, att, n, \* each call: where it is, its attachment, the number it tries
  clash,    \* names chosen by one and created by another before it wrote
  theirs    \* the files of other programs

vars == <<files, pc, att, n, clash, theirs>>

SafeFilename(a) == IF RawName[a] = <<>> THEN Fallback[a] ELSE RawName[a]

(* The n-th name UniquePath looks at. *)
Candidate(a, i) == IF i = 0 THEN SafeFilename(a) ELSE Append(SafeFilename(a), i)
Path(c) == Candidate(att[c], n[c])
Name    == {Candidate(a, i) : a \in Attachment, i \in 0..MaxSuffix}

Exists(p) == p \in DOMAIN files
Put(p, content) == [q \in DOMAIN files \union {p} |-> IF q = p THEN content ELSE files[q]]

Chosen(p) == {c \in Call : pc[c] \in {"chosen", "writing"} /\ Path(c) = p}

Init ==
  /\ files \in {[p \in there |-> Foreign] : there \in SUBSET {SafeFilename(a) : a \in Attachment}}
  /\ pc = [c \in Call |-> "idle"] /\ att \in [Call -> Attachment] /\ n = [c \in Call |-> 0]
  /\ clash = {} /\ theirs = DOMAIN files

(* Up to the message's bytes; any of it may fail. *)
Fetch(c) ==
  /\ pc[c] = "idle"
  /\ \E to \in {"look", "failed"} : pc' = [pc EXCEPT ![c] = to]
  /\ UNCHANGED <<files, att, n, clash, theirs>>

(* One round of UniquePath: a name that is taken is passed over. *)
LookOnce(c) ==
  /\ pc' = [pc EXCEPT ![c] = "chosen"]
  /\ UNCHANGED n
Look(c) ==
  IF Exists(Path(c))
    THEN n[c] < MaxSuffix /\ n' = [n EXCEPT ![c] = @ + 1] /\ UNCHANGED pc
    ELSE pc' = [pc EXCEPT ![c] = "chosen"] /\ UNCHANGED n
UniquePath(c) ==
  /\ pc[c] = "look"
  /\ Look(c)
  /\ UNCHANGED <<files, att, clash, theirs>>

(* os.WriteFile: open with O_CREATE|O_TRUNC, then write; it may fail       *)
(* before or after the file is there, and leaves what is written.          *)
Open(c) ==
  /\ pc[c] = "chosen"
  /\ \/ /\ pc' = [pc EXCEPT ![c] = "writing"]
        /\ files' = Put(Path(c), Partial)
        /\ clash' = IF Chosen(Path(c)) # {c} THEN clash \union {Path(c)} ELSE clash
     \/ /\ pc' = [pc EXCEPT ![c] = "failed"]
        /\ UNCHANGED <<files, clash>>
  /\ UNCHANGED <<att, n, theirs>>

Write(c) ==
  /\ pc[c] = "writing"
  /\ \/ /\ pc' = [pc EXCEPT ![c] = "saved"]
        /\ files' = IF Exists(Path(c)) THEN Put(Path(c), att[c]) ELSE files
     \/ /\ pc' = [pc EXCEPT ![c] = "failed"]
        /\ UNCHANGED files
  /\ UNCHANGED <<att, n, clash, theirs>>

(* Another program creates a file under a free name. *)
ForeignCreates(p) ==
  /\ Cardinality(theirs) < MaxForeign /\ ~Exists(p)
  /\ theirs' = theirs \union {p}
  /\ files' = Put(p, Foreign)
  /\ clash' = IF Chosen(p) # {} THEN clash \union {p} ELSE clash
  /\ UNCHANGED <<pc, att, n>>

(* The user deletes a file; a call that saved it there has nothing left. *)
UserDeletes(p) ==
  /\ Exists(p) /\ Chosen(p) = {}
  /\ files' = Restrict(files, DOMAIN files \ {p})
  /\ theirs' = theirs \ {p}
  /\ pc' = [c \in Call |-> IF pc[c] = "saved" /\ Path(c) = p THEN "deleted" ELSE pc[c]]
  /\ UNCHANGED <<att, n, clash>>

Next ==
  \/ \E c \in Call : Fetch(c) \/ UniquePath(c) \/ Open(c) \/ Write(c)
  \/ \E p \in Name : ForeignCreates(p) \/ UserDeletes(p)

Spec == Init /\ [][Next]_vars

-----------------------------------------------------------------------------
TypeOK ==
  /\ DOMAIN files \subseteq Name /\ clash \subseteq Name
  /\ \A p \in DOMAIN files : files[p] \in Attachment \union {Foreign, Partial}
  /\ pc \in [Call -> {"idle", "look", "chosen", "writing", "saved", "failed", "deleted"}]
  /\ att \in [Call -> Attachment] /\ n \in [Call -> 0..MaxSuffix]
  /\ theirs \subseteq DOMAIN files

(* A path returned to the user holds the attachment that was saved, a      *)
(* file of another program is as it was, and a half-written file is one of *)
(* a save that runs or has failed, whatever names attachments, suffixes    *)
(* and other programs' files share -- save where a name was taken by       *)
(* another between UniquePath's look and the open.                         *)
SavedIsThere ==
  \A p \in DOMAIN files \ clash :
    /\ p \in theirs => files[p] = Foreign
    /\ \A c \in Call : pc[c] = "saved" /\ Path(c) = p => files[p] = att[c]
    /\ files[p] = Partial => \E c \in Call : Path(c) = p /\ pc[c] \in {"writing", "failed"}
=============================================================================
