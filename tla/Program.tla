------------------------------ MODULE Program -------------------------------
(***************************************************************************)
(* A run of pgcli that does not open a prompt: main and app::run take the  *)
(* command line through Startup and hand it to one of the modes of         *)
(* OneShot, and main turns an error of either into the exit code.          *)
(***************************************************************************)
EXTENDS Startup

CONSTANT Tasks   \* what --list, --command and --file may ask for

VARIABLES task, pc, rep, pos, results, kept, chunks, out, exported, recorded,
          status, done, durable, failed

Shot == INSTANCE OneShot

ASSUME TasksAssumption == Tasks \subseteq Shot!TaskType /\ Tasks # {}

shotVars == <<task, pc, rep, pos, results, kept, chunks, out, exported, recorded,
              status, done, durable, failed>>

\* The tasks of each mode.  The prompt and the upgrade have none.
TasksOf ==
    LET OfKinds(kinds) == {t \in Tasks : t.kind \in kinds}
    IN  [list    |-> OfKinds({"list"}),
         file    |-> OfKinds({"file"}),
         command |-> OfKinds(Shot!Kinds \ {"list", "file"}),
         repl    |-> {CHOOSE t \in Tasks : TRUE}]

Begin ==
    /\ Init
    /\ task \in TasksOf[IF in.upgrade THEN "repl" ELSE Mode]
    /\ Shot!Init

\* run: until the mode is chosen.
Resolve == Next /\ UNCHANGED shotVars

\* main: an error before the mode is chosen.
Abort ==
    /\ phase = "failed" /\ pc = "start"
    /\ Shot!Exit(1) /\ failed' = failed \cup {0}
    /\ UNCHANGED <<vars, task, rep, pos, results, kept, chunks, out, exported, recorded,
                   done, durable>>

\* run_list, run_command and run_file.
Work ==
    /\ phase \in {"list", "command", "file"}
    /\ Shot!Next /\ UNCHANGED vars

Go == Resolve \/ Abort \/ Work

ProgramSpec == Begin /\ [][Go]_<<vars, shotVars>>

-----------------------------------------------------------------------------
\* The program connects where, as whom and how the command line, the URI, the
\* environment and the password file say, each where it has the say; and with
\* the password meant for that place, read as it was written.
ConnectsAsTold ==
    /\ TypeOK
    /\ Precedence /\ TlsFlagsDecide
    /\ PasswordFitsTarget /\ UriPasswordReadsBack

\* A statement runs as often as --repeat says; what is printed and exported is
\* the first of the runs, complete, and nothing the server did not commit, but
\* for a transaction that was aborted under \on_error continue.
ShownIsTrue ==
    Shot!TypeOK /\ Shot!RunsAsOften /\ Shot!ShownIsFirstRun /\ Shot!ShownIsCommitted

\* The exit code is 0 only if every error, from the first look at the command
\* line to the last write, was one of those that are only printed, and no
\* statement was left out because of one.
ExitCodeTells == Shot!ExitCodeTells /\ (status = 0 => phase # "failed")

\* "Send query output to this file instead of stdout" (args.rs:60): the file
\* holds the output of every statement.
OutputHoldsAll == Shot!OutputHoldsAll
=============================================================================
