----------------------------- MODULE MCMailView -----------------------------
(* Three messages of the inbox, the newest of which arrives while the      *)
(* window is open, and one of another folder; the search finds one of      *)
(* each.                                                                   *)
EXTENDS MailView
MCHome == <<"inbox", "other", "inbox", "inbox">>
=============================================================================
