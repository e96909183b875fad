-------------------------- MODULE MCReplIndicator --------------------------
(***************************************************************************)
(* ReplIndicator with the vocabularies of ReplLines, for TLC.              *)
(***************************************************************************)
EXTENDS ReplIndicator, ReplLines, TLC

\* The databases are interchangeable.
MCSymmetry == Permutations(Databases)
=============================================================================
