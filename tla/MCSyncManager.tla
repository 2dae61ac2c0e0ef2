--------------------------- MODULE MCSyncManager ---------------------------
(* A small instance of SyncManager for TLC. *)
EXTENDS SyncManager

=============================================================================
