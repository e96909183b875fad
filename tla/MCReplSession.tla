--------------------------- MODULE MCReplSession ---------------------------
(***************************************************************************)
(* ReplSession with the vocabularies of ReplLines, for TLC.                *)
(***************************************************************************)
EXTENDS ReplSession, ReplLines
=============================================================================
