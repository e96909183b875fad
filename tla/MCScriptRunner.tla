-------------------------- MODULE MCScriptRunner ---------------------------
(***************************************************************************)
(* ScriptRunner for TLC: the vocabularies of the runs.                     *)
(***************************************************************************)
EXTENDS ScriptRunner

\* Scripts that leave the transaction to the runner.
MCPlain == {"begin", "read", "write"}
MCWriteOnly == {"write"}

MCAllModes == {"stop", "continue", "rollback"}
MCSingle == {"single"}
MCRun == {"run"}
MCStepOrRun == {"run", "step"}
=============================================================================
