--------------------------- MODULE ReplIndicator ---------------------------
(***************************************************************************)
(* ReplSession with a history variable that says whether the prompt's      *)
(* transaction indicator can keep up with the server, and the properties   *)
(* of the indicator that need it.                                           *)
(***************************************************************************)
EXTENDS ReplSession

VARIABLES
    blind   \* the program was not told of everything that ran on the backend

\* The batch ended before its last statement was answered.
CutShort ==
    /\ pc' # "exec"
    /\ \/ outcome' = "interrupted"
       \/ outcome' # "ok" /\ pos < Len(line)

\* The server and txn_block_open_after read these forms differently.
Misread(l) == \E i \in DOMAIN l : l[i] \in {"commit_and_chain", "rollback_work_to"}

HInit == Init /\ blind = FALSE

HNext ==
    /\ Next
    /\ blind' = (blind \/ (pc = "prompt" /\ pc' = "exec" /\ mode' # "sql")
                       \/ (pc = "exec" /\ mode = "sql" /\ (CutShort \/ Misread(line))))

HSpec == HInit /\ [][HNext]_<<vars, blind>>

\* As long as every statement went through complete lines of SQL in a form
\* the guess knows, the guess never misses a block: the prompt asks the server
\* whenever there is something to ask.
GuessCoversBlock ==
    pc = "prompt" /\ link = "up" /\ ~blind => (srv.block # "idle" => txn_block_open)

\* And then the indicator is complete: a block that has a transaction id shows
\* its '*' at the next prompt.
IndicatorComplete ==
    pc = "prompt" /\ link = "up" /\ ~blind /\ reading = "fresh"
        => (srv.block = "open" /\ srv.xid => txn_status = "*")
=============================================================================
