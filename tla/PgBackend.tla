----------------------------- MODULE PgBackend -----------------------------
(***************************************************************************)
(* What the program relies on of the server at the other end of its one    *)
(* connection: the transaction state of a PostgreSQL backend and how a     *)
(* statement moves it.  This is external code; only the distinctions that  *)
(* the program's own control flow can observe are kept.                    *)
(*                                                                         *)
(* A statement is abstracted to its effect on the transaction state:       *)
(*   begin                BEGIN, START TRANSACTION                         *)
(*   commit               COMMIT, END                                      *)
(*   commit_and_chain     COMMIT AND CHAIN                                 *)
(*   rollback             ROLLBACK, ABORT                                  *)
(*   rollback_to          ROLLBACK TO [SAVEPOINT] s                        *)
(*   rollback_work_to     ROLLBACK WORK TO s, ROLLBACK TRANSACTION TO s    *)
(*   prepare_transaction  PREPARE TRANSACTION 'id'                         *)
(*   read                 a statement that assigns no transaction id       *)
(*   write                a statement that assigns one                     *)
(***************************************************************************)

Stmt == {"begin", "commit", "commit_and_chain", "rollback", "rollback_to",
         "rollback_work_to", "prepare_transaction", "read", "write"}

\* block: outside a transaction block, inside one, inside one that failed.
\* xid: the block has been given a transaction id.
TxnState == {t \in [block : {"idle", "open", "failed"}, xid : BOOLEAN] :
                 t.block = "idle" => ~t.xid}

NoTxn == [block |-> "idle", xid |-> FALSE]
OpenTxn(hasXid) == [block |-> "open", xid |-> hasXid]

\* Statements that end the block whatever becomes of them.
EndsBlock == {"commit", "commit_and_chain", "rollback", "prepare_transaction"}

\* Statements that only make sense inside a block.
NeedsBlock == {"commit_and_chain", "rollback_to", "rollback_work_to"}

\* A failed block refuses everything but the statements that leave it or
\* return to a savepoint.
Accepts(t, s) ==
    /\ t.block = "idle" => s \notin NeedsBlock
    /\ t.block = "failed" => s \in EndsBlock \cup NeedsBlock

\* The state after the backend ran s to its end.
AfterSuccess(t, s) ==
    CASE s \in {"commit", "rollback", "prepare_transaction"}   -> NoTxn
      [] s = "commit_and_chain"                                -> OpenTxn(FALSE)
      [] s \in {"rollback_to", "rollback_work_to"}             -> OpenTxn(t.xid)
      [] s = "begin" /\ t.block = "idle"                       -> OpenTxn(FALSE)
      [] s = "write" /\ t.block = "open"                       -> OpenTxn(TRUE)
      [] OTHER                                                 -> t

\* The state after s was refused, failed or was cancelled.
\* Mutant: a failed COMMIT leaves the transaction id behind.
AfterErrorKeepsXid(t, s) ==
    IF t.block = "idle" \/ s \in EndsBlock
    THEN [t EXCEPT !.block = "idle"]
    ELSE [t EXCEPT !.block = "failed"]

AfterError(t, s) ==
    IF t.block = "idle" \/ s \in EndsBlock
    THEN NoTxn
    ELSE [t EXCEPT !.block = "failed"]

\* Every way the backend may answer s in state t.
Answers(t, s) ==
    {[ok |-> TRUE, next |-> AfterSuccess(t, s)] : x \in {y \in {s} : Accepts(t, y)}}
    \cup {[ok |-> FALSE, next |-> AfterError(t, s)] : x \in {s} \ {"rollback"}}
=============================================================================
