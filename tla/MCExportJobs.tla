----------------------------- MODULE MCExportJobs -----------------------------
(* ExportJobs for TLC. *)
EXTENDS ExportJobs
==============================================================================
