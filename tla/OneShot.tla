------------------------------ MODULE OneShot -------------------------------
(***************************************************************************)
(* The non-interactive modes: --list, --command and --file (oneshot.rs),   *)
(* with --repeat, --stats, --export, --output and --single-transaction,    *)
(* and the exit code (main.rs).  Statements are numbered; a result is the  *)
(* pair of the repetition and the statement it comes from.  What happens   *)
(* inside a script is the subject of ScriptRunner: here it is the list of  *)
(* the statements it comes to, none of them a transaction command, and it  *)
(* stops at the first one that fails, unless that one is executed under    *)
(* \on_error continue.                                                     *)
(***************************************************************************)
EXTENDS Naturals, Sequences, SequencesExt

CONSTANTS
    Tasks        \* [kind, n: statements, repeat, output, export, single,
                 \*  lenient: those of a script under \on_error continue]

Kinds == {"sql", "script", "file", "list", "text", "answer", "source",
          "extended", "other"}

Scripts == {"file", "script"}

TaskType ==
    {t \in [kind : Kinds, n : Nat, repeat : Nat, output : BOOLEAN, export : BOOLEAN,
            single : BOOLEAN, lenient : SUBSET (Nat \ {0})] :
        t.kind \notin Scripts => t.lenient = {}}

VARIABLES
    task,        \* what the command line asks for
    pc,          \* "start", "run", "write", "stats", "export", "exit"
    rep, pos,    \* repetition, and statements of it that are over
    results,     \* results of this repetition
    kept,        \* last_output / results_for_export: those of the first one
    chunks,      \* outputs still to be written
    out,         \* what stdout, or the file of --output, holds
    exported,    \* what the file of --export holds
    recorded,    \* runs in BenchStats
    status,      \* exit code, 9 while the program runs
    \* The server, and history.
    done,        \* results of all statements that succeeded
    durable,     \* those of them that are committed
    failed       \* statements that failed; 0 for any other step that did

progress == <<rep, pos, results, kept, recorded>>
server == <<done, durable>>
vars == <<task, pc, progress, chunks, out, exported, status, server, failed>>

-----------------------------------------------------------------------------
\* Mutant: a repeat count of zero runs nothing.
RunsRaw(t) == IF t.kind = "sql" THEN t.repeat ELSE 1

Runs(t) == IF t.kind # "sql" \/ t.repeat = 0 THEN 1 ELSE t.repeat

\* The failures that are only printed: the definition of a function or view,
\* and either half of an extended description.
Tolerates(t) == t.kind \in {"source", "extended"}

\* The statements whose errors are only printed: all of those, and what a
\* script executes under \on_error continue.
Forgiven(t) == IF Tolerates(t) THEN 1..t.n ELSE t.lenient

InBlock(t) == t.single /\ t.kind \in Scripts

\* A statement of the single transaction has failed: the server refuses every
\* other one and answers COMMIT with ROLLBACK.
Aborted == InBlock(task) /\ failed \ {0} # {}

\* What is written with one call: the file mode writes result by result, the
\* other modes everything at once.
ChunksOf(t, res) ==
    IF t.kind \in {"file", "extended"} THEN [k \in DOMAIN res |-> <<res[k]>>]
    ELSE <<res>>

Exit(code) == pc' = "exit" /\ status' = code

Init ==
    /\ task \in Tasks /\ pc = "start" /\ rep = 1 /\ pos = 0
    /\ results = <<>> /\ kept = <<>> /\ chunks = <<>> /\ out = <<>>
    /\ exported = <<>> /\ recorded = 0 /\ status = 9
    /\ done = <<>> /\ durable = <<>> /\ failed = {}

\* Connect, and dispatch a meta-command; either may fail.  A meta-command
\* without an answer in this mode ends the program quietly.
Start ==
    /\ pc = "start"
    /\ \/ Exit(1) /\ failed' = failed \cup {0} /\ UNCHANGED chunks
       \/ task.kind = "other" /\ Exit(0) /\ UNCHANGED <<failed, chunks>>
       \/ /\ task.kind = "text" /\ pc' = "write" /\ chunks' = << <<>> >>
          /\ UNCHANGED <<failed, status>>
       \/ /\ task.kind \notin {"other", "text"} /\ pc' = "run"
          /\ UNCHANGED <<failed, status, chunks>>
    /\ UNCHANGED <<task, progress, out, exported, server>>

\* The next statement succeeds, never in an aborted transaction.  Inside a
\* single transaction it is not committed yet.  The description of an extended table is written before the
\* next query is sent.
Succeed ==
    /\ pc = "run" /\ pos < task.n /\ ~Aborted
    /\ LET r == <<rep, pos + 1>> IN
        /\ results' = Append(results, r)
        /\ done' = Append(done, r)
        /\ durable' = IF InBlock(task) THEN durable ELSE Append(durable, r)
        /\ IF task.kind = "extended"
           THEN pc' = "write" /\ chunks' = << <<r>> >>
           ELSE UNCHANGED <<pc, chunks>>
    /\ pos' = pos + 1
    /\ UNCHANGED <<task, rep, kept, recorded, out, exported, status, failed>>

\* Mutant: a statement that fails is skipped in every mode.
FailSkips ==
    /\ pc = "run" /\ pos < task.n
    /\ failed' = failed \cup {pos + 1}
    /\ pos' = pos + 1 /\ UNCHANGED <<pc, status>>
    /\ UNCHANGED <<task, rep, results, kept, recorded, chunks, out, exported, server>>

\* Mutant: a forgiven error ends the script as if it were complete.
FailStops ==
    /\ pc = "run" /\ pos < task.n
    /\ failed' = failed \cup {pos + 1}
    /\ IF pos + 1 \in Forgiven(task) THEN pos' = task.n /\ UNCHANGED <<pc, status>>
       ELSE Exit(1) /\ UNCHANGED pos
    /\ UNCHANGED <<task, rep, results, kept, recorded, chunks, out, exported, server>>

\* The next statement fails.  Where that is forgiven it is printed and the
\* next one follows; everywhere else nothing of this or an earlier repetition
\* is shown, and an open block is rolled back.
Fail ==
    /\ pc = "run" /\ pos < task.n
    /\ failed' = failed \cup {pos + 1}
    /\ IF pos + 1 \in Forgiven(task) THEN pos' = pos + 1 /\ UNCHANGED <<pc, status>>
       ELSE Exit(1) /\ UNCHANGED pos
    /\ UNCHANGED <<task, rep, results, kept, recorded, chunks, out, exported, server>>

\* A directive of a script fails, whatever \on_error says: an open block is
\* rolled back.
DirectiveFails ==
    /\ pc = "run" /\ task.kind \in Scripts
    /\ failed' = failed \cup {0} /\ Exit(1)
    /\ UNCHANGED <<task, progress, chunks, out, exported, server>>

\* Mutant: the output and the results kept are those of the last repetition.
EndRunKeepsLast ==
    /\ pc = "run" /\ pos = task.n /\ ~InBlock(task) /\ task.kind # "extended"
    /\ kept' = results
    /\ recorded' = IF task.kind = "sql" THEN recorded + 1 ELSE recorded
    /\ results' = <<>>
    /\ IF rep < Runs(task)
       THEN rep' = rep + 1 /\ pos' = 0 /\ UNCHANGED <<pc, chunks>>
       ELSE pc' = "write" /\ chunks' = ChunksOf(task, kept') /\ UNCHANGED <<rep, pos>>
    /\ UNCHANGED <<task, out, exported, status, server, failed>>

\* A repetition is complete: the first one is kept, and only after the last
\* one is anything written.
EndRun ==
    /\ pc = "run" /\ pos = task.n /\ ~InBlock(task) /\ task.kind # "extended"
    /\ kept' = IF rep = 1 THEN results ELSE kept
    /\ recorded' = IF task.kind = "sql" THEN recorded + 1 ELSE recorded
    /\ results' = <<>>
    /\ IF rep < Runs(task)
       THEN rep' = rep + 1 /\ pos' = 0 /\ UNCHANGED <<pc, chunks>>
       ELSE pc' = "write" /\ chunks' = ChunksOf(task, kept') /\ UNCHANGED <<rep, pos>>
    /\ UNCHANGED <<task, out, exported, status, server, failed>>

\* Mutant: when COMMIT fails, a part of what was executed is there.
CommitPartly ==
    /\ pc = "run" /\ pos = task.n /\ InBlock(task)
    /\ \/ /\ durable' = (IF Aborted THEN <<>> ELSE done)
          /\ kept' = results /\ results' = <<>>
          /\ chunks' = ChunksOf(task, results) /\ pc' = "write"
          /\ UNCHANGED <<failed, status>>
       \/ /\ durable' = (IF done = <<>> THEN done ELSE Tail(done))
          /\ failed' = failed \cup {0} /\ Exit(1) /\ UNCHANGED <<kept, results, chunks>>
    /\ UNCHANGED <<task, rep, pos, recorded, out, exported, done>>

\* What COMMIT leaves on the server: an aborted transaction is rolled back.
Committed == IF Aborted THEN <<>> ELSE done

\* COMMIT of --single-transaction.  That it was answered by ROLLBACK is no
\* error: the results are printed all the same.  It may fail; when the
\* connection breaks, the server may have committed all the same.
Commit ==
    /\ pc = "run" /\ pos = task.n /\ InBlock(task)
    /\ \/ /\ durable' = Committed /\ kept' = results /\ results' = <<>>
          /\ chunks' = ChunksOf(task, results) /\ pc' = "write"
          /\ UNCHANGED <<failed, status>>
       \/ /\ durable' \in {<<>>, Committed}
          /\ failed' = failed \cup {0} /\ Exit(1) /\ UNCHANGED <<kept, results, chunks>>
    /\ UNCHANGED <<task, rep, pos, recorded, out, exported, done>>

\* write_output and write_output_or_pager: --output is created anew by every
\* call.
Written(chunk) == IF task.output THEN chunk ELSE out \o chunk

Write ==
    /\ pc = "write" /\ chunks # <<>>
    /\ out' = Written(Head(chunks)) /\ chunks' = Tail(chunks)
    /\ IF task.kind = "extended" /\ pos < task.n THEN pc' = "run" ELSE UNCHANGED pc
    /\ UNCHANGED <<task, progress, exported, status, server, failed>>

\* Only the file of --output can fail to be written: errors of the pager are
\* dropped.
WriteFails ==
    /\ pc = "write" /\ chunks # <<>> /\ task.output
    /\ failed' = failed \cup {0} /\ Exit(1)
    /\ UNCHANGED <<task, progress, chunks, out, exported, server>>

\* Everything is written.
EndWrite ==
    /\ \/ pc = "write" /\ chunks = <<>>
       \/ pc = "run" /\ task.kind = "extended" /\ pos = task.n
    /\ IF task.kind = "sql" THEN pc' = "stats" /\ UNCHANGED status ELSE Exit(0)
    /\ UNCHANGED <<task, progress, chunks, out, exported, server, failed>>

\* Mutant: the statement is run again for the export.
StatsAgain ==
    /\ pc = "stats"
    /\ IF task.export THEN pc' = "export" /\ UNCHANGED status ELSE Exit(0)
    /\ done' = IF task.export THEN Append(done, <<rep, 1>>) ELSE done
    /\ UNCHANGED <<task, progress, chunks, out, exported, durable, failed>>

\* The report of BenchStats, then the export of what was kept.
Stats ==
    /\ pc = "stats"
    /\ IF task.export THEN pc' = "export" /\ UNCHANGED status ELSE Exit(0)
    /\ UNCHANGED <<task, progress, chunks, out, exported, server, failed>>

Export ==
    /\ pc = "export"
    /\ \/ exported' = kept /\ Exit(0) /\ UNCHANGED failed
       \/ failed' = failed \cup {0} /\ Exit(1) /\ UNCHANGED exported
    /\ UNCHANGED <<task, progress, chunks, out, server>>

Next ==
    \/ Start \/ Succeed \/ Fail \/ DirectiveFails \/ EndRun \/ Commit
    \/ Write \/ WriteFails \/ EndWrite \/ Stats \/ Export

Spec == Init /\ [][Next]_vars

-----------------------------------------------------------------------------
Results == (1..Runs(task)) \X (1..task.n)

\* Results are those of the statements of the task.
TypeOK ==
    /\ task \in Tasks
    /\ pc \in {"start", "run", "write", "stats", "export", "exit"}
    /\ status \in {0, 1, 9} /\ (status = 9) = (pc # "exit")
    /\ rep \in 1..Runs(task) /\ pos \in 0..task.n /\ recorded \in 0..Runs(task)
    /\ failed \subseteq 0..task.n
    /\ results \in Seq(Results) /\ kept \in Seq(Results) /\ out \in Seq(Results)
    /\ exported \in Seq(Results) /\ done \in Seq(Results) /\ durable \in Seq(Results)

\* The result that is the j-th, when every run gives all of its own.
Nth(j) == <<((j - 1) \div task.n) + 1, ((j - 1) % task.n) + 1>>

\* All results of runs 1 to m, in the order of execution.
Complete(m) == [j \in 1..m * task.n |-> Nth(j)]

\* No error was forgiven.
Intact == failed \cap Forgiven(task) = {}

\* A statement given with --command is executed exactly as often as --repeat
\* says (once for 0), in order, whether its result is exported or not, and
\* after a failure nothing further is sent; --stats counts the same runs.
\* Where errors are forgiven the others still run in order and none runs twice.
RunsAsOften ==
    /\ Intact => IsPrefix(done, Complete(Runs(task)))
    /\ ~Intact => \A j, k \in DOMAIN done : j < k => done[j][2] < done[k][2]
    /\ status = 0 /\ task.kind = "sql" =>
            done = Complete(Runs(task)) /\ recorded = Runs(task)

\* When the program ends well, what is printed and what is exported are both
\* the results of the first run, complete and in order, however often it ran.
ShownIsFirstRun ==
    status = 0 /\ task.kind = "sql" =>
        /\ out = Complete(1)
        /\ task.export => exported = out

Durable(s) == \A k \in DOMAIN s : Contains(durable, s[k])

\* Nothing is printed or exported that was not executed, nor, although in a
\* single transaction every result exists before the commit, anything that the
\* server did not commit.  The exception is a transaction that a forgiven error
\* has aborted: its results are printed and nothing of it is on the server.  A
\* single transaction is committed as a whole or not at all, whatever fails and
\* whatever is forgiven.
ShownIsCommitted ==
    /\ \A s \in {out, exported} : \A k \in DOMAIN s : Contains(done, s[k])
    /\ ~Aborted => Durable(out) /\ Durable(exported)
    /\ Aborted => durable = <<>>
    /\ InBlock(task) => durable \in {<<>>, Complete(1)}

\* "Execute as a single transaction (all-or-nothing)" (README.md:246): what a
\* script says it did is there when the program has ended well.
\* TLC refutes it (README, section 7).
ShownIsOnServer == status = 0 => Durable(out)

\* The exit code is 0 only if every error was a forgiven one, and then every
\* statement, in every repetition, was executed or has failed: none was left
\* out because of an earlier one.
ExitCodeTells ==
    status = 0 =>
        /\ failed \subseteq Forgiven(task)
        /\ task.kind \notin {"text", "other"} =>
               \A r \in 1..Runs(task), k \in 1..task.n :
                   k \in failed \/ Contains(done, <<r, k>>)

\* What a caller would take it for, too (README.md:635 runs migrations with it):
\* after exit code 0 nothing has failed.
\* TLC refutes it (README, section 7).
ZeroMeansNoError == status = 0 => failed = {}

\* "Send query output to this file instead of stdout" (args.rs): after a
\* successful run the file holds the output of every statement.
OutputHoldsAll ==
    status = 0 /\ task.kind = "file" => out = kept

-----------------------------------------------------------------------------
(* The inductive invariant behind RunsAsOften, ShownIsFirstRun,               *)
(* ShownIsCommitted and ExitCodeTells.                                        *)

\* What is written with every call is a list of results.
ChunksOK == chunks \in Seq(Seq(Results))

\* Statements are still to come, or the result of one is being written.
Running == pc = "run" \/ (pc = "write" /\ task.kind = "extended")

\* Without a forgiven error what is over is there, and nothing else.
DoneInOrder ==
    Intact =>
        /\ \A j \in DOMAIN done : done[j] = Nth(j)
        /\ Len(done) <= Runs(task) * task.n
        /\ pc = "start" => Len(done) = 0
        /\ Running => Len(done) = (rep - 1) * task.n + pos
        /\ Running => Len(results) = pos /\ \A k \in DOMAIN results : results[k] = <<rep, k>>

\* A run of --repeat is counted when it is complete; once something is
\* written all are.
RunsCounted ==
    /\ pc = "start" => rep = 1 /\ pos = 0 /\ recorded = 0
    /\ pc = "start" => results = <<>> /\ kept = <<>> /\ out = <<>> /\ chunks = <<>>
    /\ task.kind # "sql" => rep = 1
    /\ task.kind = "sql" =>
           /\ pc = "run" => recorded = rep - 1 /\ out = <<>> /\ chunks = <<>>
           /\ pc = "run" => kept = IF rep = 1 THEN <<>> ELSE Complete(1)
           /\ pc \in {"write", "stats", "export"} =>
                  recorded = Runs(task) /\ Len(done) = Runs(task) * task.n /\ kept = Complete(1)
           /\ pc = "write" => \/ chunks = <<kept>> /\ out = <<>>
                              \/ chunks = <<>> /\ out = kept
           /\ pc \in {"stats", "export"} => out = kept
           /\ status = 0 => /\ recorded = Runs(task) /\ Len(done) = Runs(task) * task.n
                            /\ out = Complete(1)
                            /\ task.export => exported = out

\* Where nothing is repeated, the statements that are over were executed, in
\* order, or have failed; and the program that has not ended with 1 has
\* forgiven all it met and come to the end.
Accounted ==
    /\ status # 1 => failed \subseteq Forgiven(task)
    /\ pc = "start" => failed = {} /\ done = <<>>
    /\ pc \in {"stats", "export"} => task.kind = "sql"
    /\ task.kind # "sql" =>
           /\ \A j, k \in DOMAIN done : j < k => done[j][2] < done[k][2]
           /\ \A j \in DOMAIN done : done[j][2] <= pos
           /\ \A k \in 1..pos : k \in failed \/ Contains(done, <<1, k>>)
    /\ task.kind \notin {"sql", "text", "other"} =>
           /\ pc = "write" => pos = task.n \/ (task.kind = "extended" /\ chunks # <<>>)
           /\ status = 0 => pos = task.n

\* Whatever is kept, waits to be written or is written was executed; and it is
\* durable, but for an aborted transaction.
Executed(s) == \A k \in DOMAIN s : Contains(done, s[k])

OnlyExecutedLeaves ==
    /\ Executed(results) /\ Executed(kept) /\ Executed(out) /\ Executed(exported)
    /\ \A c \in DOMAIN chunks : Executed(chunks[c])

OnlyDurableLeaves ==
    ~Aborted =>
        /\ Durable(kept) /\ Durable(out) /\ Durable(exported)
        /\ \A c \in DOMAIN chunks : Durable(chunks[c])
        /\ ~InBlock(task) => Durable(results)

AllOrNothing ==
    InBlock(task) =>
        /\ durable \in {<<>>, Complete(1)}
        /\ Aborted \/ pc \in {"start", "run"} => durable = <<>>

IInv == /\ TypeOK /\ ChunksOK /\ DoneInOrder /\ RunsCounted /\ Accounted
        /\ OnlyExecutedLeaves /\ OnlyDurableLeaves /\ AllOrNothing
=============================================================================
