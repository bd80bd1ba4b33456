--------------------------- MODULE MCPreviewSession ---------------------------
(***************************************************************************)
(* Instances of PreviewSession for TLC: two preview processes.             *)
(***************************************************************************)
EXTENDS PreviewSession
================================================================================
