----------------------------- MODULE ReplLines -----------------------------
(***************************************************************************)
(* Vocabularies for the runs of the interactive session: which lines of    *)
(* SQL the user types and which SQL the meta-commands run.                 *)
(***************************************************************************)
EXTENDS PgBackend

\* Lines the indicator's guess is about: every transaction statement alone,
\* and batches that can fail before they reach their last one.
MCLines == {<<s>> : s \in Stmt} \cup
           {<<"begin", "write">>, <<"write", "commit">>, <<"commit", "begin">>}
MCMetaLines == {<<"begin">>, <<"commit">>, <<"begin", "write">>}
MCNoLines == {}

\* A small vocabulary for the temporal runs.
MCFewLines == {<<"read">>, <<"begin", "write">>, <<"write", "commit">>}
MCFewMetaLines == {<<"read">>}
=============================================================================
