--------------------------- MODULE MCUploadSessions ---------------------------
(* UploadSessions for TLC. *)
EXTENDS UploadSessions
==============================================================================
