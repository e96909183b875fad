---------------------------- MODULE ReplSession ----------------------------
(***************************************************************************)
(* The interactive session of pgcli: one user, one connection, one         *)
(* command at a time.                                                      *)
(*                                                                         *)
(* A line of SQL (Session::run_sql, sql.rs) goes through                   *)
(*                                                                         *)
(*   prompt -> exec -> indicator [-> status] -> report                      *)
(*          [-> check [-> reconnect]] -> prompt                              *)
(*                                                                         *)
(* exec is the select! of execute_batch against Ctrl-C, indicator the      *)
(* guess whether a transaction block is open, status the query that asks   *)
(* the server when the guess says it may be, report the match on the       *)
(* result, check the liveness probe that leads to a reconnect.  The meta-  *)
(* commands that run SQL (handle_meta, meta_handler.rs) share the batch    *)
(* but stop there: they touch neither the indicator nor the connection.    *)
(*                                                                         *)
(* The server works on its own: a statement the client gave up on keeps    *)
(* running (orphan), and a cancel request is a message on another          *)
(* connection that hits whatever the backend is running when it arrives.   *)
(***************************************************************************)
EXTENDS Naturals, Sequences, PgBackend

CONSTANTS
    Lines,           \* lines of SQL the user may type: sequences of statements
    MetaLines,       \* SQL that a meta-command may run (\begin, \g, \i, \e, ...)
    Databases,       \* databases \c may name
    CancelDelivery,  \* ways a cancel request may fare: "reliable", "lossy",
                     \* "blocked" (the server wants TLS)
    MaxCancels,      \* bound on cancel requests on their way at one time
    Nil              \* no statement, no reply, no outcome

ASSUME LinesAssumption ==
    /\ Lines \subseteq Seq(Stmt)
    /\ MetaLines \subseteq Lines
    /\ \A l \in Lines : Len(l) > 0

ASSUME ParameterAssumption ==
    /\ CancelDelivery \subseteq {"reliable", "lossy", "blocked"}
    /\ MaxCancels \in Nat
    /\ Databases # {}
    /\ Nil \notin Stmt \cup {"ok", "error", "cancelled", "interrupted"}

VARIABLES
    pc,              \* where the session's only task stands
    mode,            \* "sql"; "meta" stops at an error, "meta_all" goes on
    line, pos,       \* the batch and the statement it has come to
    outcome,         \* exec_result
    txn_block_open,  \* Session.txn_block_open
    txn_status,      \* ReplEditor.txn_status
    shown_db,        \* ReplEditor.dbname, the database the prompt names
    last_sql,        \* MetaCommandDispatcher.last_sql, <<>> when empty
    config,          \* pool.config.database
    conn,            \* the database pool.client is connected to
    delivery,        \* whether this server can be sent a request without TLS
    link,            \* "up" while the connection under pool.client works
    srv,             \* transaction state of the backend behind it
    running,         \* statement it runs for the client, or Nil
    orphan,          \* statement it runs that the client gave up on, or Nil
    reply,           \* its answer on the way to the client, or Nil
    cancels,         \* cancel requests on the way to it
    \* History: read by no action of the program.
    sent,            \* statements the current command submitted
    last_db,         \* database last_sql last ran against
    reading          \* "fresh" when txn_status comes from a guess or an answer
                     \* since which only lines of SQL ran on this connection

cmdVars     == <<mode, line, pos>>
promptVars  == <<txn_block_open, txn_status, reading>>
lastVars    == <<last_sql, last_db>>
poolVars    == <<config, conn, delivery, shown_db>>
backendVars == <<link, srv, running, orphan, reply, cancels>>
vars == <<pc, cmdVars, outcome, promptVars, lastVars, poolVars, backendVars, sent>>

Modes == {"sql", "meta", "meta_all"}

CommandTypeOK ==
    /\ pc \in {"prompt", "exec", "indicator", "status", "report", "check",
            "reconnect"}
    /\ mode \in Modes
    /\ line \in Lines \cup {<<>>} /\ pos \in Nat /\ sent \in Nat
    /\ outcome \in {Nil, "ok", "error", "cancelled", "interrupted"}

SessionTypeOK ==
    /\ txn_block_open \in BOOLEAN
    /\ txn_status \in {"", "*"}
    /\ reading \in {"fresh", "unsure"}
    /\ last_sql \in Lines \cup {<<>>}
    /\ {config, conn, shown_db, last_db} \subseteq Databases
    /\ delivery \in CancelDelivery

BackendTypeOK ==
    /\ link \in {"up", "lost"}
    /\ srv \in TxnState
    /\ running \in Stmt \cup {Nil} /\ orphan \in Stmt \cup {Nil}
    /\ reply \in {Nil, "ok", "error", "cancelled"}
    /\ cancels \in Nat

TypeOK == CommandTypeOK /\ SessionTypeOK /\ BackendTypeOK

\* run_repl: connected, nothing run yet.
Init ==
    /\ pc = "prompt" /\ mode = "sql" /\ line = <<>> /\ pos = 0 /\ outcome = Nil
    /\ txn_block_open = FALSE /\ txn_status = "" /\ reading = "fresh"
    /\ config \in Databases /\ conn = config /\ shown_db = config
    /\ delivery \in CancelDelivery
    /\ last_sql = <<>> /\ last_db = config
    /\ link = "up" /\ srv = NoTxn
    /\ running = Nil /\ orphan = Nil /\ reply = Nil /\ cancels = 0
    /\ sent = 0

----------------------------------------------------------------------------
(* The prompt: the user enters a command. *)

StartBatch(m, l) ==
    /\ pc = "prompt"
    /\ pc' = "exec"
    /\ mode' = m /\ line' = l /\ pos' = 1
    /\ outcome' = Nil /\ sent' = 0
    /\ UNCHANGED <<poolVars, backendVars, txn_block_open, txn_status>>

RunSql(l) ==
    /\ StartBatch("sql", l)
    /\ UNCHANGED <<lastVars, reading>>

\* \begin, \commit, \rollback, \i and the introspection commands stop at the
\* first error; \gexec and the verbose \i print it and go on.
RunMeta(m, l) ==
    /\ StartBatch(m, l)
    /\ reading' = "unsure"
    /\ UNCHANGED lastVars

\* \g, \gx, \gset, \bench, \write and each round of \watch run last_sql again.
Repeat ==
    /\ last_sql # <<>>
    /\ StartBatch("meta", last_sql)
    /\ reading' = "unsure"
    /\ UNCHANGED lastVars

\* \e, and \run of a bookmark, remember the text before they run it.
EditAndExecute(l) ==
    /\ StartBatch("meta", l)
    /\ last_sql' = l /\ last_db' = conn
    /\ reading' = "unsure"

\* \r
ResetBuffer ==
    /\ pc = "prompt"
    /\ last_sql' = <<>>
    /\ UNCHANGED <<pc, cmdVars, outcome, promptVars, last_db, poolVars, backendVars, sent>>

\* A new connection is a new backend: no transaction, nothing on its way.
FreshBackend ==
    /\ link' = "up" /\ srv' = NoTxn
    /\ running' = Nil /\ orphan' = Nil /\ reply' = Nil /\ cancels' = 0

\* Mutant: the configuration is stored before the connection is tried.
ReconnectToStoresFirst(d) ==
    /\ pc = "prompt"
    /\ \/ FreshBackend /\ conn' = d
       \/ UNCHANGED <<backendVars, conn>>
    /\ config' = d /\ UNCHANGED <<delivery, shown_db>>
    /\ last_sql' = <<>> /\ last_db' = last_db /\ reading' = "unsure"
    /\ UNCHANGED <<pc, cmdVars, outcome, sent, txn_block_open, txn_status>>

\* Mutant: last_sql survives \c.
ReconnectToKeepsLast(d) ==
    /\ pc = "prompt"
    /\ \/ FreshBackend /\ conn' = d /\ config' = d /\ UNCHANGED <<delivery, shown_db>>
       \/ UNCHANGED <<backendVars, poolVars>>
    /\ reading' = "unsure"
    /\ UNCHANGED <<pc, cmdVars, outcome, lastVars, sent, txn_block_open, txn_status>>

\* \c and \reconnect: on failure the pool keeps its client and its
\* configuration; last_sql is forgotten either way.  The editor is not told.
ReconnectTo(d) ==
    /\ pc = "prompt"
    /\ \/ FreshBackend /\ conn' = d /\ config' = d /\ UNCHANGED <<delivery, shown_db>>
       \/ UNCHANGED <<backendVars, poolVars>>
    /\ last_sql' = <<>> /\ last_db' = last_db
    /\ reading' = "unsure"
    /\ UNCHANGED <<pc, cmdVars, outcome, sent, txn_block_open, txn_status>>

----------------------------------------------------------------------------
(* execute_batch: one statement after the other until one fails. *)

\* A statement is prepared before it is executed, so it cannot start while
\* the backend is still busy with an abandoned one.
Submit ==
    /\ pc = "exec" /\ link = "up"
    /\ running = Nil /\ orphan = Nil /\ reply = Nil
    /\ running' = line[pos] /\ sent' = sent + 1
    /\ UNCHANGED <<pc, cmdVars, outcome, promptVars, lastVars, poolVars,
                   link, srv, orphan, reply, cancels>>

NextStatement ==
    /\ pc = "exec" /\ pos < Len(line)
    /\ \/ reply = "ok"
       \/ reply # Nil /\ mode = "meta_all"
    /\ pos' = pos + 1 /\ reply' = Nil
    /\ UNCHANGED <<pc, mode, line, outcome, promptVars, lastVars, poolVars,
                   link, srv, running, orphan, cancels, sent>>

EndBatch(result) ==
    /\ outcome' = result /\ reply' = Nil
    /\ pc' = IF mode = "sql" THEN "indicator" ELSE "prompt"

\* Mutant: an error does not end the batch.
BatchDoneAtEndOnly ==
    /\ pc = "exec" /\ reply # Nil /\ pos = Len(line)
    /\ EndBatch(reply)
    /\ UNCHANGED <<cmdVars, promptVars, lastVars, poolVars,
                   link, srv, running, orphan, cancels, sent>>

BatchDone ==
    /\ pc = "exec" /\ reply # Nil
    /\ \/ pos = Len(line)
       \/ reply # "ok" /\ mode # "meta_all"
    /\ EndBatch(reply)
    /\ UNCHANGED <<cmdVars, promptVars, lastVars, poolVars,
                   link, srv, running, orphan, cancels, sent>>

\* Every request on a closed connection fails at once.
BatchLost ==
    /\ pc = "exec" /\ link = "lost" /\ reply = Nil
    /\ EndBatch("error")
    /\ UNCHANGED <<cmdVars, promptVars, lastVars, poolVars,
                   link, srv, running, orphan, cancels, sent>>

\* Mutant: Ctrl-C only abandons the statement, no request is sent.
InterruptWithoutCancel ==
    /\ pc = "exec" /\ mode = "sql"
    /\ orphan' = IF running # Nil THEN running ELSE orphan
    /\ running' = Nil /\ reply' = Nil
    /\ outcome' = "interrupted" /\ pc' = "indicator"
    /\ UNCHANGED <<cmdVars, promptVars, lastVars, poolVars, link, srv, cancels, sent>>

\* Mutant: an answer already on its way is left for the next request.
InterruptLeavesReply ==
    /\ pc = "exec" /\ mode = "sql" /\ cancels < MaxCancels
    /\ orphan' = IF running # Nil THEN running ELSE orphan
    /\ running' = Nil
    /\ outcome' = "interrupted" /\ pc' = "indicator"
    /\ cancels' = cancels + 1
    /\ UNCHANGED <<cmdVars, promptVars, lastVars, poolVars, link, srv, reply, sent>>

\* Ctrl-C wins the select!: the query future is dropped, a cancel request is
\* sent without TLS and its result ignored.
Interrupt ==
    /\ pc = "exec" /\ mode = "sql" /\ cancels < MaxCancels
    /\ orphan' = IF running # Nil THEN running ELSE orphan
    /\ running' = Nil /\ reply' = Nil
    /\ outcome' = "interrupted" /\ pc' = "indicator"
    /\ \/ cancels' = cancels + 1 /\ delivery # "blocked" /\ link = "up"
       \/ cancels' = cancels /\ (delivery # "reliable" \/ link = "lost")
    /\ UNCHANGED <<cmdVars, promptVars, lastVars, poolVars, link, srv, sent>>

----------------------------------------------------------------------------
(* The transaction indicator of the prompt. *)

Opening == {"begin"}
Closing == {"commit", "commit_and_chain", "rollback", "rollback_work_to",
            "prepare_transaction"}

\* Mutant: ROLLBACK TO counts as a ROLLBACK.
TxnBlockOpenAfterNoTo(wasOpen, l) ==
    LET marks == {i \in DOMAIN l : l[i] \in Opening \cup Closing \cup {"rollback_to"}}
    IN  IF marks = {}
        THEN wasOpen
        ELSE \E i \in marks : l[i] \in Opening /\ \A j \in marks : j <= i

\* Mutant: the first transaction statement on the line wins.
TxnBlockOpenAfterFirst(wasOpen, l) ==
    LET marks == {i \in DOMAIN l : l[i] \in Opening \cup Closing}
    IN  IF marks = {}
        THEN wasOpen
        ELSE \E i \in marks : l[i] \in Opening /\ \A j \in marks : i <= j

\* txn_block_open_after: the last transaction statement on the line wins; it
\* reads the whole line, also the part that never ran.
TxnBlockOpenAfter(wasOpen, l) ==
    LET marks == {i \in DOMAIN l : l[i] \in Opening \cup Closing}
    IN  IF marks = {}
        THEN wasOpen
        ELSE \E i \in marks : l[i] \in Opening /\ \A j \in marks : j <= i

\* Mutant: a closed block leaves the indicator alone.
IndicatorNotCleared ==
    /\ pc = "indicator"
    /\ txn_block_open' = TxnBlockOpenAfter(txn_block_open, line)
    /\ IF txn_block_open'
       THEN pc' = "status" /\ UNCHANGED reading
       ELSE pc' = "report" /\ reading' = "fresh"
    /\ UNCHANGED <<cmdVars, outcome, txn_status, lastVars, poolVars, backendVars, sent>>

\* Outside a block the indicator is cleared without asking.
Indicator ==
    /\ pc = "indicator"
    /\ txn_block_open' = TxnBlockOpenAfter(txn_block_open, line)
    /\ IF txn_block_open'
       THEN pc' = "status" /\ UNCHANGED <<txn_status, reading>>
       ELSE pc' = "report" /\ txn_status' = "" /\ reading' = "fresh"
    /\ UNCHANGED <<cmdVars, outcome, lastVars, poolVars, backendVars, sent>>

\* The status query: '*' when the block has a transaction id.  In a failed
\* block it is an error, and an error leaves the indicator as it was.
StatusReply ==
    /\ pc = "status" /\ link = "up" /\ orphan = Nil
    /\ txn_status' = IF srv.block = "failed" THEN txn_status
                     ELSE IF srv.xid THEN "*" ELSE ""
    /\ reading' = "fresh"
    /\ pc' = "report"
    /\ UNCHANGED <<cmdVars, outcome, txn_block_open, lastVars, poolVars,
                   backendVars, sent>>

StatusLost ==
    /\ pc = "status" /\ link = "lost"
    /\ reading' = "unsure"
    /\ pc' = "report"
    /\ UNCHANGED <<cmdVars, outcome, txn_block_open, txn_status, lastVars,
                   poolVars, backendVars, sent>>

----------------------------------------------------------------------------
(* The result, and the reconnect after a lost connection. *)

\* Only a line that ran to its end becomes last_sql.  An error that is not
\* the server's own cancellation message leads to the liveness probe.
Report ==
    /\ pc = "report"
    /\ IF outcome = "ok"
       THEN last_sql' = line /\ last_db' = conn
       ELSE UNCHANGED lastVars
    /\ pc' = IF outcome = "error" THEN "check" ELSE "prompt"
    /\ UNCHANGED <<cmdVars, outcome, promptVars, poolVars, backendVars, sent>>

\* The probe is answered. (A late cancel request may hit it: CancelProbe.)
IsAlive ==
    /\ pc = "check" /\ link = "up"
    /\ pc' = "prompt"
    /\ UNCHANGED <<cmdVars, outcome, promptVars, lastVars, poolVars,
                   backendVars, sent>>

\* Mutant: the batch is tried again on the new connection.
AutoReconnectReplays ==
    /\ pc = "reconnect" \/ (pc = "check" /\ link = "lost")
    /\ \/ FreshBackend /\ conn' = config /\ pc' = "exec"
       \/ UNCHANGED <<backendVars, conn>> /\ pc' = "prompt"
    /\ reading' = "unsure"
    /\ UNCHANGED <<cmdVars, outcome, txn_block_open, txn_status, lastVars,
                   config, delivery, shown_db, sent>>

\* reconnect() uses the stored configuration; the statement that was lost is
\* not run again. The probe has failed, on a lost connection at once.
AutoReconnect ==
    /\ pc = "reconnect" \/ (pc = "check" /\ link = "lost")
    /\ \/ FreshBackend /\ conn' = config
       \/ UNCHANGED <<backendVars, conn>>
    /\ pc' = "prompt"
    /\ reading' = "unsure"
    /\ UNCHANGED <<cmdVars, outcome, txn_block_open, txn_status, lastVars,
                   config, delivery, shown_db, sent>>

----------------------------------------------------------------------------
(* The backend and the network. *)

BackendAnswer ==
    /\ running # Nil
    /\ \E a \in Answers(srv, running) :
          /\ srv' = a.next
          /\ reply' = IF a.ok THEN "ok" ELSE "error"
    /\ running' = Nil
    /\ UNCHANGED <<pc, cmdVars, outcome, promptVars, lastVars, poolVars,
                   link, orphan, cancels, sent>>

OrphanEnds ==
    /\ orphan # Nil
    /\ \E a \in Answers(srv, orphan) : srv' = a.next
    /\ orphan' = Nil
    /\ UNCHANGED <<pc, cmdVars, outcome, promptVars, lastVars, poolVars,
                   link, running, reply, cancels, sent>>

CancelRunning ==
    /\ running # Nil
    /\ srv' = AfterError(srv, running) /\ reply' = "cancelled"
    /\ running' = Nil
    /\ UNCHANGED <<pc, reading, orphan>>

CancelOrphan ==
    /\ orphan # Nil
    /\ srv' = AfterError(srv, orphan)
    /\ orphan' = Nil
    /\ UNCHANGED <<pc, reading, running, reply>>

\* A late request can hit the status query, an error like any other to it.
CancelStatusQuery ==
    /\ pc = "status" /\ orphan = Nil
    /\ srv' = AfterError(srv, "read")
    /\ pc' = "report" /\ reading' = "unsure"
    /\ UNCHANGED <<running, orphan, reply>>

\* Or the liveness probe, an empty query: is_alive takes any error for the loss
\* of the connection, so a good one is given up with the block open on it.
CancelProbe ==
    /\ pc = "check" /\ orphan = Nil
    /\ srv' = AfterError(srv, "read")
    /\ pc' = "reconnect"
    /\ UNCHANGED <<reading, running, orphan, reply>>

\* Or find the backend between two statements.
CancelNothing ==
    /\ running = Nil /\ orphan = Nil
    /\ UNCHANGED <<pc, reading, srv, running, orphan, reply>>

CancelArrives ==
    /\ cancels > 0 /\ cancels' = cancels - 1
    /\ \/ CancelRunning \/ CancelOrphan \/ CancelStatusQuery \/ CancelProbe
       \/ CancelNothing
    /\ UNCHANGED <<cmdVars, outcome, txn_block_open, txn_status, lastVars,
                   poolVars, link, sent>>

\* The server closes the session or the network fails: the backend rolls its
\* transaction back; an answer already on its way may still be read.
ConnectionLost ==
    /\ link = "up"
    /\ link' = "lost" /\ srv' = NoTxn
    /\ running' = Nil /\ orphan' = Nil /\ cancels' = 0
    /\ reply' \in {reply, Nil}
    /\ UNCHANGED <<pc, cmdVars, outcome, promptVars, lastVars, poolVars, sent>>

----------------------------------------------------------------------------
User ==
    \/ \E l \in Lines : RunSql(l)
    \/ \E l \in MetaLines : \/ \E m \in {"meta", "meta_all"} : RunMeta(m, l)
                            \/ EditAndExecute(l)
    \/ Repeat
    \/ ResetBuffer
    \/ \E d \in Databases : ReconnectTo(d)
    \/ Interrupt

Program ==
    \/ Submit \/ NextStatement \/ BatchDone \/ BatchLost
    \/ Indicator \/ StatusReply \/ StatusLost
    \/ Report \/ IsAlive \/ AutoReconnect

Environment ==
    \/ BackendAnswer \/ OrphanEnds \/ CancelArrives \/ ConnectionLost

Next == User \/ Program \/ Environment

Spec == Init /\ [][Next]_vars

\* The runtime polls the task whenever it can go on, and a cancel request once
\* sent arrives; a statement may run for as long as it likes.
FairSpec == Spec /\ WF_vars(Program) /\ WF_vars(CancelArrives)

\* When statements end by themselves.
StatementsEnd == WF_vars(BackendAnswer) /\ WF_vars(OrphanEnds)

----------------------------------------------------------------------------
(* Properties. *)

\* A '*' in the prompt is never a leftover: unless a meta-command, a new
\* connection or a cancelled status query came in between, the backend really
\* is inside a transaction block.
StarMeansBlock ==
    pc = "prompt" /\ link = "up" /\ reading = "fresh" /\ txn_status = "*" => srv.block # "idle"

\* The client and the stored configuration agree, so the automatic reconnect
\* goes where the session was, however often \c failed before.
ClientMatchesConfig == conn = config

\* \watch, \g and the others never run a query of the database the session has
\* left ("Reset last_sql so \watch doesn't rerun the previous db's query").
LastSqlIsLocal == last_sql # <<>> => last_db = conn

\* A command submits each statement of its batch at most once, in order: the
\* reconnect in the middle of it never replays a statement whose fate is
\* unknown.
SubmittedOnce == pc # "prompt" => sent <= pos /\ pos <= Len(line)

\* Giving up on a statement frees the client, not the backend: it never works
\* for the client and on an abandoned statement at once, and an answer that
\* arrives is the answer to the statement the client waits for.
OneStatementAtATime ==
    /\ running # Nil => pc = "exec" /\ orphan = Nil /\ reply = Nil
    /\ reply # Nil => pc = "exec"

\* Whatever happens to the connection and however often the user interrupts,
\* every command comes back to the prompt when the statements it runs end.
ReturnsToPrompt == StatementsEnd => (pc # "prompt" ~> pc = "prompt")

\* Ctrl-C gives the prompt back although the statement would run for ever,
\* when a plain cancel request reaches the server.
InterruptReturns == delivery = "reliable" /\ outcome = "interrupted" ~> pc = "prompt"

\* The same of every server ("on interrupt, send a cancel request to the
\* server", run_sql).
CtrlCReturns == outcome = "interrupted" ~> pc = "prompt"

\* The prompt names the database the next statement runs in ("Update the
\* displayed database name (e.g. after `\c otherdb`)", ReplEditor::set_dbname).
\* TLC refutes it (README, section 7).
PromptNamesDatabase == pc = "prompt" => shown_db = conn

----------------------------------------------------------------------------
(* The inductive invariant behind these.  TypeOK and the shape of a command  *)
(* in flight say what the steps may rely on; StarInFlight carries            *)
(* StarMeansBlock from the answer of the status query through report and     *)
(* check to the prompt, where nothing may be running any more.               *)

LineInFlight ==
    pc # "prompt" => line \in Lines /\ pos \in 1..Len(line)

Submissions ==
    pc # "prompt" =>
        /\ sent <= pos
        /\ pc = "exec" /\ running = Nil /\ reply = Nil /\ link = "up" => sent < pos

MetaIsUnanswered ==
    pc # "prompt" /\ mode # "sql" => pc = "exec" /\ reading = "unsure"

StarInFlight ==
    pc \in {"prompt", "report", "check", "reconnect"} =>
        (link = "up" /\ reading = "fresh" /\ txn_status = "*"
           => srv.block # "idle" /\ orphan = Nil)

LostIsSilent ==
    link = "lost" => srv = NoTxn /\ running = Nil /\ orphan = Nil /\ cancels = 0

IInv ==
    /\ TypeOK
    /\ LineInFlight
    /\ LostIsSilent
    /\ Submissions
    /\ MetaIsUnanswered
    /\ OneStatementAtATime
    /\ StarInFlight
    /\ ClientMatchesConfig
    /\ LastSqlIsLocal
=============================================================================
