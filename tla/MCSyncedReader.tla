--------------------------- MODULE MCSyncedReader ---------------------------
(* Model of SyncedReader for TLC; the bounds are in the .cfg. *)
EXTENDS SyncedReader
=============================================================================
