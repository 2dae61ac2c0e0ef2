----------------------------- MODULE MCIdleLoop -----------------------------
(* Small instances of IdleLoop for TLC. *)
EXTENDS IdleLoop

\* INBOX may come first or last in LIST, or not at all.
MCFolderLists == {<<"inbox", "other">>, <<"other", "inbox">>, <<"other">>, <<>>}

=============================================================================
