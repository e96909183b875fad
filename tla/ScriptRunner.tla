---------------------------- MODULE ScriptRunner ----------------------------
(***************************************************************************)
(* ScriptRunner (runner.rs): a script, read line by line, on one           *)
(* connection.  -f runs one and exits, \i runs one from the session.       *)
(*                                                                         *)
(* The script is not fixed in advance: each step reads any line the        *)
(* vocabulary allows.  A line of SQL adds to the statement being collected *)
(* and may end it; a directive first flushes what was collected.  A        *)
(* statement goes through                                                  *)
(*                                                                         *)
(*        read [-> confirm] -> exec -> read, handle or the end             *)
(*                                                                         *)
(* and `ahead' is the line that waits behind it.  With single_transaction  *)
(* the whole is between a BEGIN and a COMMIT or ROLLBACK of the runner.    *)
(* Variables of the script are abstracted: a condition is yes or no.       *)
(***************************************************************************)
EXTENDS Naturals, Sequences, PgBackend

CONSTANTS
    Vocabulary,   \* statements a script may contain
    OnErrorModes, \* arguments a script may give to \on_error
    Wraps,        \* "single" for -f with --single-transaction, "bare" without
    StepModes,    \* "step" for --single-step, "run" without
    ElseLast,     \* "yes" when no \elif or \else follows the \else of its \if
    MaxLines,     \* bound on the lines of a script
    MaxDepth,     \* bound on the nesting of \if
    Nil

ASSUME ScriptAssumption ==
    /\ Vocabulary \subseteq Stmt
    /\ Wraps \subseteq {"single", "bare"}
    /\ MaxLines \in Nat /\ MaxDepth \in Nat
    /\ Nil \notin Stmt \cup {"ok", "error"}

VARIABLES
    phase,          \* begin, read, confirm, exec, handle, commit, rollback,
                    \* done, killed
    wrap, step,     \* single_transaction and single_step of this run
    on_error_mode,
    if_stack,       \* frames [active, branch_taken]
    stmt_buf,       \* the statement being collected, or Nil
    ahead,          \* what follows the statement: a directive, the next line,
                    \* or the end of the source
    result,         \* of execute_source, then of the run
    lines,          \* lines read
    srv, link,      \* the backend and the connection
    answer,         \* the server's answer to the request of this phase
    writes,         \* writes the server accepted
    pending,        \* those in the open transaction
    committed,      \* those that are durable
    \* History: read by no action of the program.
    trouble,        \* "failed" once a statement failed or the script broke
                    \* off, else "declined" once one was declined, else "none"
    depth,          \* how many \if the lines read so far leave open
    shape           \* for every frame, the number of branches that were
                    \* active and whether it is past its \else

ifVars     == <<if_stack, shape>>
scriptVars == <<ifVars, on_error_mode, lines, depth>>
dbVars     == <<srv, link, answer, writes, pending, committed>>
vars == <<phase, wrap, step, trouble, scriptVars, stmt_buf, ahead, result, dbVars>>

Line == [name |-> "line", arg |-> "none"]
End  == [name |-> "end", arg |-> "none"]
Directives ==
    {[name |-> n, arg |-> c] : n \in {"if", "elif"}, c \in {"yes", "no"}}
    \cup {[name |-> n, arg |-> "none"] : n \in {"else", "endif", "other"}}
    \cup {[name |-> "on_error", arg |-> m] : m \in OnErrorModes}

Init ==
    /\ wrap \in Wraps /\ step \in StepModes
    /\ phase = (IF wrap = "single" THEN "begin" ELSE "read")
    /\ on_error_mode = "stop" /\ if_stack = <<>> /\ stmt_buf = Nil /\ ahead = Line
    /\ result = Nil /\ lines = 0 /\ depth = 0 /\ shape = <<>>
    /\ trouble = "none"
    /\ srv \in (IF wrap = "single" THEN {NoTxn} ELSE TxnState) /\ link = "up" /\ answer = Nil
    /\ writes = 0 /\ pending = 0 /\ committed = 0

----------------------------------------------------------------------------
(* The server. *)

\* The request the runner waits for.
Request ==
    CASE phase = "begin"    -> "begin"
      [] phase = "exec"     -> stmt_buf
      [] phase = "commit"   -> "commit"
      [] phase = "rollback" -> "rollback"
      [] OTHER              -> Nil

Waiting == Request # Nil /\ answer = Nil /\ link = "up"

\* A COMMIT of a sound block makes what is pending durable, a write outside a
\* block makes itself durable.
ServerAccepts ==
    /\ Waiting /\ Accepts(srv, Request)
    /\ srv' = AfterSuccess(srv, Request)
    /\ answer' = "ok"
    /\ writes' = IF Request = "write" THEN writes + 1 ELSE writes
    /\ committed' = CASE Request \in {"commit", "commit_and_chain"} /\ srv.block = "open" -> committed + pending
                      [] Request = "write" /\ srv.block = "idle" -> committed + 1
                      [] OTHER -> committed
    /\ pending' = CASE srv'.block = "idle" \/ Request = "commit_and_chain" -> 0
                    [] Request = "write" /\ srv.block = "open" -> pending + 1
                    [] OTHER -> pending
    /\ UNCHANGED <<phase, wrap, step, trouble, scriptVars, stmt_buf, ahead, result, link>>

ServerRefuses ==
    /\ Waiting /\ Request # "rollback"
    /\ srv' = AfterError(srv, Request)
    /\ answer' = "error"
    /\ pending' = IF srv'.block = "idle" THEN 0 ELSE pending
    /\ UNCHANGED <<phase, wrap, step, trouble, scriptVars, stmt_buf, ahead, result, link,
                   writes, committed>>

\* The backend rolls back; the answer on its way may be lost with it.
ConnectionLost ==
    /\ link = "up" /\ phase \notin {"done", "killed"}
    /\ link' = "lost" /\ srv' = NoTxn /\ pending' = 0
    /\ answer' \in {answer, Nil}
    /\ UNCHANGED <<phase, wrap, step, trouble, scriptVars, stmt_buf, ahead, result, writes, committed>>

\* The answer the runner gets, an error when the connection is gone.
Reply == IF answer = Nil /\ link = "lost" THEN "error" ELSE answer

Receive(r) ==
    /\ Reply = r
    /\ answer' = Nil
    /\ UNCHANGED <<srv, link, writes, pending, committed>>

----------------------------------------------------------------------------
(* run_source: the frame around the script. *)

Begin ==
    /\ phase = "begin"
    /\ \/ Receive("ok") /\ phase' = "read" /\ UNCHANGED result
       \/ Receive("error") /\ phase' = "done" /\ result' = "error"
    /\ UNCHANGED <<wrap, step, trouble, scriptVars, stmt_buf, ahead>>

\* Mutant: the transaction is committed whatever the script's result.
CloseAlwaysCommits(r) ==
    /\ result' = r
    /\ phase' = IF wrap = "bare" THEN "done" ELSE "commit"

\* execute_source returns r.
Close(r) ==
    /\ result' = r
    /\ phase' = IF wrap = "bare" THEN "done" ELSE IF r = "ok" THEN "commit" ELSE "rollback"

\* Mutant: a failed COMMIT is not reported.
CommitIgnored ==
    /\ phase = "commit" /\ \E r \in {"ok", "error"} : Receive(r)
    /\ phase' = "done"
    /\ UNCHANGED <<wrap, step, trouble, scriptVars, stmt_buf, ahead, result>>

Commit ==
    /\ phase = "commit"
    /\ \E r \in {"ok", "error"} : Receive(r) /\ result' = r
    /\ phase' = "done"
    /\ UNCHANGED <<wrap, step, trouble, scriptVars, stmt_buf, ahead>>

\* Whatever becomes of the ROLLBACK, the error of the script is returned.
Rollback ==
    /\ phase = "rollback" /\ \E r \in {"ok", "error"} : Receive(r)
    /\ phase' = "done"
    /\ UNCHANGED <<wrap, step, trouble, scriptVars, stmt_buf, ahead, result>>

----------------------------------------------------------------------------
(* execute_source: reading. *)

IsActive == \A i \in DOMAIN if_stack : if_stack[i].active

\* The statement collected so far is complete; d is behind it.
Flush(d) ==
    /\ ahead' = d
    /\ phase' = IF step = "step" THEN "confirm" ELSE "exec"

\* A line of SQL, ends when it is taken to end the statement.
ReadSql(s, ends) ==
    /\ phase = "read" /\ lines < MaxLines /\ IsActive
    /\ lines' = lines + 1
    /\ stmt_buf' = IF stmt_buf = Nil THEN s ELSE stmt_buf
    /\ IF ends THEN Flush(Line) ELSE UNCHANGED <<phase, ahead>>
    /\ UNCHANGED <<wrap, step, trouble, on_error_mode, ifVars, depth, result, dbVars>>

SkipSql ==
    /\ phase = "read" /\ lines < MaxLines /\ ~IsActive
    /\ lines' = lines + 1
    /\ UNCHANGED <<phase, wrap, step, trouble, on_error_mode, ifVars, depth, stmt_buf, ahead,
                   result, dbVars>>

\* A script that keeps its \else last, and whose nesting is bounded.
Wellformed(d) ==
    /\ d.name = "if" => depth < MaxDepth /\ Len(if_stack) < MaxDepth
    /\ d.name \in {"elif", "else"} /\ ElseLast = "yes" /\ shape # <<>> =>
          ~shape[Len(shape)].past_else

ReadDirective(d) ==
    /\ phase = "read" /\ lines < MaxLines /\ Wellformed(d)
    /\ lines' = lines + 1
    /\ IF stmt_buf = Nil THEN ahead' = d /\ phase' = "handle" ELSE Flush(d)
    /\ depth' = CASE d.name = "if"                  -> depth + 1
                  [] d.name = "endif" /\ depth > 0 -> depth - 1
                  [] OTHER                         -> depth
    /\ UNCHANGED <<wrap, step, trouble, on_error_mode, ifVars, stmt_buf, result, dbVars>>

\* The end of the source, with or without a statement that lacks its ';'.
EndOfSource ==
    /\ phase = "read"
    /\ IF stmt_buf = Nil THEN Close("ok") /\ UNCHANGED ahead
                         ELSE Flush(End) /\ UNCHANGED result
    /\ UNCHANGED <<wrap, step, trouble, scriptVars, stmt_buf, dbVars>>

----------------------------------------------------------------------------
(* execute_source: running a statement. *)

Confirm ==
    /\ phase = "confirm"
    /\ phase' = "exec"
    /\ UNCHANGED <<wrap, step, trouble, scriptVars, stmt_buf, ahead, result, dbVars>>

\* `continue' leaves the loop body: a directive that waited is not handled.
NextLine ==
    /\ phase' = "read" /\ ahead' = Line
    /\ UNCHANGED result

Decline ==
    /\ phase = "confirm"
    /\ IF ahead = End THEN Close("ok") /\ UNCHANGED ahead ELSE NextLine
    /\ stmt_buf' = Nil
    /\ trouble' = IF trouble = "none" THEN "declined" ELSE trouble
    /\ UNCHANGED <<wrap, step, scriptVars, dbVars>>

Quit ==
    /\ phase = "confirm"
    /\ Close("error") /\ trouble' = "failed"
    /\ UNCHANGED <<wrap, step, scriptVars, stmt_buf, ahead, dbVars>>

\* Mutant: the waiting directive is dropped after a success as well.
StatementOkDrops ==
    /\ phase = "exec" /\ Receive("ok")
    /\ stmt_buf' = Nil
    /\ IF ahead = End THEN Close("ok") /\ UNCHANGED ahead ELSE NextLine
    /\ UNCHANGED <<wrap, step, trouble, scriptVars>>

StatementOk ==
    /\ phase = "exec" /\ Receive("ok")
    /\ stmt_buf' = Nil
    /\ CASE ahead = End  -> Close("ok") /\ UNCHANGED ahead
         [] ahead = Line -> NextLine
         [] OTHER        -> phase' = "handle" /\ UNCHANGED <<ahead, result>>
    /\ UNCHANGED <<wrap, step, trouble, scriptVars>>

\* Only "continue" goes on, and not after the trailing statement.
StatementError ==
    /\ phase = "exec" /\ Receive("error")
    /\ stmt_buf' = Nil
    /\ IF ahead # End /\ on_error_mode = "continue"
       THEN NextLine
       ELSE Close("error") /\ UNCHANGED ahead
    /\ trouble' = "failed"
    /\ UNCHANGED <<wrap, step, scriptVars>>

----------------------------------------------------------------------------
(* handle_directive.  Directives are handled in inactive blocks as well. *)

Handle(name) == phase = "handle" /\ ahead.name = name
Handled ==
    /\ phase' = "read" /\ ahead' = Line
    /\ UNCHANGED <<wrap, step, trouble, lines, depth, stmt_buf, result, dbVars>>

Frame(active, taken) == [active |-> active, branch_taken |-> taken]
Top == if_stack[Len(if_stack)]

\* Branches of the current \if that ran, counting the one that begins now.
Ran(active) == shape[Len(shape)].ran + (IF active THEN 1 ELSE 0)

HandleIf ==
    /\ Handle("if")
    /\ if_stack' = Append(if_stack, Frame(ahead.arg = "yes", ahead.arg = "yes"))
    /\ shape' = Append(shape, [ran |-> IF ahead.arg = "yes" THEN 1 ELSE 0, past_else |-> FALSE])
    /\ UNCHANGED on_error_mode
    /\ Handled

\* Mutant: \elif does not look at the branches before it.
HandleElifAgain ==
    /\ Handle("elif") /\ if_stack # <<>>
    /\ LET taken == ahead.arg = "yes"
       IN  /\ if_stack' = [if_stack EXCEPT ![Len(if_stack)] = Frame(taken, Top.branch_taken \/ taken)]
           /\ shape' = [shape EXCEPT ![Len(shape)].ran = Ran(taken)]
    /\ UNCHANGED on_error_mode
    /\ Handled

HandleElif ==
    /\ Handle("elif") /\ if_stack # <<>>
    /\ LET taken == ~Top.branch_taken /\ ahead.arg = "yes"
       IN  /\ if_stack' = [if_stack EXCEPT ![Len(if_stack)] = Frame(taken, Top.branch_taken \/ taken)]
           /\ shape' = [shape EXCEPT ![Len(shape)].ran = Ran(taken)]
    /\ UNCHANGED on_error_mode
    /\ Handled

HandleElse ==
    /\ Handle("else") /\ if_stack # <<>>
    /\ LET active == ~Top.branch_taken
       IN  /\ if_stack' = [if_stack EXCEPT ![Len(if_stack)].active = active]
           /\ shape' = [shape EXCEPT ![Len(shape)] = [ran |-> Ran(active), past_else |-> TRUE]]
    /\ UNCHANGED on_error_mode
    /\ Handled

Pop(s) == SubSeq(s, 1, Len(s) - 1)

HandleEndif ==
    /\ Handle("endif") /\ if_stack # <<>>
    /\ if_stack' = Pop(if_stack) /\ shape' = Pop(shape)
    /\ UNCHANGED on_error_mode
    /\ Handled

HandleWithoutIf ==
    /\ \E n \in {"elif", "else", "endif"} : Handle(n)
    /\ if_stack = <<>>
    /\ Close("error") /\ trouble' = "failed"
    /\ UNCHANGED <<wrap, step, scriptVars, stmt_buf, ahead, dbVars>>

HandleOnError ==
    /\ Handle("on_error")
    /\ on_error_mode' = ahead.arg
    /\ UNCHANGED ifVars
    /\ Handled

\* \set, \unset, \gset, \echo, \! and all that is ignored.
HandleOther ==
    /\ Handle("other")
    /\ UNCHANGED <<ifVars, on_error_mode>>
    /\ Handled

\* The process is killed: the backend rolls back what is open.
Kill ==
    /\ phase \notin {"done", "killed"}
    /\ phase' = "killed" /\ link' = "lost"
    /\ srv' = NoTxn /\ pending' = 0
    /\ UNCHANGED <<wrap, step, trouble, scriptVars, stmt_buf, ahead, result, answer, writes, committed>>

----------------------------------------------------------------------------
Runner ==
    \/ Begin \/ Commit \/ Rollback
    \/ \E s \in Vocabulary, ends \in BOOLEAN : ReadSql(s, ends)
    \/ SkipSql
    \/ \E d \in Directives : ReadDirective(d)
    \/ EndOfSource
    \/ Confirm \/ Decline \/ Quit \/ StatementOk \/ StatementError
    \/ HandleIf \/ HandleElif \/ HandleElse \/ HandleEndif \/ HandleWithoutIf
    \/ HandleOnError \/ HandleOther

\* The end of a run is not a deadlock.
Stopped ==
    /\ phase \in {"done", "killed"}
    /\ UNCHANGED vars

Next == Runner \/ ServerAccepts \/ ServerRefuses \/ ConnectionLost \/ Kill \/ Stopped

Spec == Init /\ [][Next]_vars

----------------------------------------------------------------------------
(* Properties. *)

TypeOK ==
    /\ phase \in {"begin", "read", "confirm", "exec", "handle", "commit", "rollback",
                  "done", "killed"}
    /\ wrap \in Wraps /\ step \in StepModes /\ trouble \in {"none", "declined", "failed"}
    /\ on_error_mode \in OnErrorModes \cup {"stop"}
    /\ if_stack \in Seq([active : BOOLEAN, branch_taken : BOOLEAN])
    /\ shape \in Seq([ran : Nat, past_else : BOOLEAN])
    /\ DOMAIN if_stack = DOMAIN shape
    /\ stmt_buf \in Vocabulary \cup {Nil}
    /\ ahead \in Directives \cup {Line, End}
    /\ result \in {Nil, "ok", "error"} /\ answer \in {Nil, "ok", "error"}
    /\ lines \in Nat /\ depth \in Nat
    /\ srv \in TxnState /\ link \in {"up", "lost"}
    /\ writes \in Nat /\ pending \in Nat /\ committed \in Nat

\* "Execute as a single transaction (all-or-nothing)" (README), for scripts
\* that leave the transaction to the runner: at no moment, not after a lost
\* connection and not after a kill, is a part of the script's writes
\* durable, and nothing of a script that failed.
AllOrNothing ==
    wrap = "single" => \/ committed = 0
                       \/ /\ committed = writes /\ trouble # "failed"
                          /\ phase \in {"commit", "done", "killed"}

\* And success means all, when no statement failed on the way: the run as an
\* implementation of AtomicScript, in which a run that went on after an error
\* counts as failed whatever it returned.
Verdict == CASE phase = "done" /\ trouble = "failed" -> "error"
             [] phase = "done" /\ trouble # "failed" -> result
             [] phase = "killed"                     -> "gone"
             [] OTHER                                -> "running"
Atomic == INSTANCE AtomicScript WITH written <- writes, verdict <- Verdict
ImplementsAtomic == Atomic!Spec

\* Of the branches of an \if at most one runs, and \else runs exactly when
\* none before it did ("Whether any branch in this \if has already been taken").
OneBranchRuns ==
    \A i \in DOMAIN shape : /\ shape[i].ran <= 1
                            /\ shape[i].past_else => shape[i].ran = 1

\* Between two lines the runner is inside exactly the conditional blocks that
\* the lines read so far have opened, as long as every statement succeeded.
StackFollowsScript == phase = "read" /\ trouble = "none" => Len(if_stack) = depth

\* Of every \if at most one branch runs, the \else when no other did, and the runner's
\* stack is the nesting that the script shows.
ConditionalsNest == TypeOK /\ OneBranchRuns /\ StackFollowsScript

\* The same after an error, in a run that was told to continue ("Flush any
\* pending statement first", then the directive).
\* TLC refutes it (README, section 7).
StackSurvivesErrors == phase = "read" /\ trouble # "declined" => Len(if_stack) = depth

\* "all statements are wrapped in BEGIN / COMMIT (rollback on any error)": a
\* run that reports success has made everything the server accepted durable.
SuccessMeansCommitted ==
    wrap = "single" /\ phase = "done" /\ result = "ok" => committed = writes

----------------------------------------------------------------------------
(* The inductive invariant behind AllOrNothing and ImplementsAtomic, for a   *)
(* run with wrap = "single" and a vocabulary that opens and closes no block. *)

RequestPhases == {"begin", "exec", "commit", "rollback"}
BodyPhases    == {"read", "confirm", "exec", "handle"}

RunTypeOK ==
    /\ wrap = "single"
    /\ phase \in RequestPhases \cup BodyPhases \cup {"done", "killed"}
    /\ stmt_buf \in Vocabulary \cup {Nil}
    /\ result \in {Nil, "ok", "error"} /\ answer \in {Nil, "ok", "error"}
    /\ srv \in TxnState /\ link \in {"up", "lost"} /\ trouble \in {"none", "declined", "failed"}
    /\ writes \in Nat /\ pending \in Nat /\ committed \in Nat

AnswersAreAwaited == phase \notin RequestPhases \cup {"killed"} => answer = Nil

\* Before the runner's BEGIN took effect nothing has happened.
BeginsFresh ==
    phase = "begin" =>
        /\ writes = 0 /\ pending = 0 /\ committed = 0
        /\ link = "up" => IF answer = "ok" THEN srv.block = "open" ELSE srv = NoTxn

\* From then on to the COMMIT the block is there, and a sound block holds
\* every write so far.
InBlock == phase \in BodyPhases \/ (phase \in {"commit", "rollback"} /\ answer = Nil)
BodyInBlock ==
    InBlock /\ link = "up" => srv.block # "idle" /\ (srv.block = "open" => pending = writes)

NothingDurable ==
    /\ phase \in BodyPhases \cup {"rollback"} => committed = 0
    /\ phase = "commit" /\ answer = Nil /\ link = "up" => committed = 0

\* And a block in which a statement failed stays failed to the end, so its
\* COMMIT rolls back.
FailedBlock ==
    /\ phase = "begin" => trouble # "failed"
    /\ phase = "exec" /\ answer = "error" /\ link = "up" => srv.block = "failed"
    /\ trouble = "failed" /\ phase \in BodyPhases \cup {"commit"} /\ link = "up" => srv.block # "open"

RunInv ==
    /\ RunTypeOK /\ AnswersAreAwaited /\ BeginsFresh /\ BodyInBlock /\ NothingDurable
    /\ FailedBlock /\ AllOrNothing
    /\ phase = "rollback" => result = "error"

\* As long as no statement failed the block that is committed is sound, and
\* the server's answer to COMMIT means what it says.
SoundBlock ==
    trouble # "failed" =>
        /\ phase \in BodyPhases \cup {"commit"} /\ link = "up" /\ answer = Nil => srv.block = "open"
        /\ phase = "exec" /\ link = "up" /\ answer = "ok" => srv.block = "open"
        /\ phase = "commit" /\ answer = "ok" => committed = writes
----------------------------------------------------------------------------
(* The inductive invariant behind ConditionalsNest, for scripts that keep   *)
(* the \else of an \if last.  A directive that was read and waits in       *)
(* `ahead' is counted in depth, and is not yet on the stack.                *)

LineAtRead == phase \in {"begin", "read"} => ahead = Line

\* \else does not mark its frame as taken: only the frames that are not past
\* theirs say what ran.
FramesCountBranches ==
    \A i \in DOMAIN shape :
        IF shape[i].past_else
        THEN shape[i].ran = 1
        ELSE shape[i].ran = IF if_stack[i].branch_taken THEN 1 ELSE 0

ElseIsLast ==
    phase \in {"confirm", "exec", "handle"} /\ ahead.name \in {"elif", "else"} /\ shape # <<>>
        => ~shape[Len(shape)].past_else

DepthIsOwed ==
    trouble = "none" /\ phase \in {"begin", "read", "confirm", "exec", "handle"} =>
        CASE ahead.name = "if"    -> depth = Len(if_stack) + 1
          [] ahead.name = "endif" -> depth = IF if_stack = <<>> THEN 0 ELSE Len(if_stack) - 1
          [] OTHER                -> depth = Len(if_stack)

NestInv == TypeOK /\ LineAtRead /\ FramesCountBranches /\ ElseIsLast /\ DepthIsOwed
=============================================================================
