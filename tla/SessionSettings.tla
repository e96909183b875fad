-------------------------- MODULE SessionSettings --------------------------
(***************************************************************************)
(* The settings of an interactive session and the backslash commands that  *)
(* read and write them.                                                    *)
(*                                                                         *)
(* The same choice is kept in several places: MetaCommandDispatcher has    *)
(* expanded, expanded_auto and timing; FormatOptions, the argument of      *)
(* every renderer, has expanded, timing and pager_enabled; Pager has       *)
(* disabled.  Each arm of Session::handle_meta and Session::run_sql copies *)
(* the dispatcher's flags into the options before it renders, or, for the  *)
(* catalog, forces them off, and leaves them so.                           *)
(*                                                                         *)
(* Dispatch is MetaCommandDispatcher::dispatch: it changes the             *)
(* dispatcher's own state and names what the session has to do.  A step    *)
(* here is dispatch and handle_meta (or run_sql) together; what happens    *)
(* between the client and the server meanwhile is ReplSession's subject,   *)
(* so a query here just succeeds or fails.                                 *)
(***************************************************************************)
EXTENDS Naturals, Sequences

CONSTANTS
    Lines,       \* SQL the user may type: [body, ref], ref a variable or NoRef
    Commands,    \* backslash commands the user may type: [name, arg]
    RcFiles,     \* contents of ~/.pgclirc: sequences of \pset directives
    Names,       \* variables of \set
    Values,      \* their values
    NoRef,       \* the line refers to no variable
    Unset,       \* the variable has no value: the reference stays in the text
    Empty,       \* no text: an empty query buffer
    OwnSql       \* SQL the program makes itself, for the catalog

ASSUME SettingsAssumption ==
    /\ \A l \in Lines : l.ref \in Names \cup {NoRef}
    /\ Unset \notin Values /\ NoRef \notin Names

(***************************************************************************)
(* A text is a line after substitution.  A reference to a variable without *)
(* a value is left as it is.                                               *)
(***************************************************************************)
Texts == [body : {l.body : l \in Lines}, val : Values \cup {Unset}]

ASSUME EmptyAssumption == Empty \notin Texts /\ OwnSql \notin Texts /\ Empty # OwnSql

VARIABLES
    pc,              \* "start", "prompt", "watch", "diff" (in a loop of \watch), "gone"
    settings,        \* dispatcher's expanded, auto, timing; opt_expanded,
                     \* opt_timing, pager_enabled of FormatOptions
    pager_disabled,  \* Pager.disabled
    output_file,     \* \o is on
    on_error,        \* dispatcher.on_error_mode
    variables,       \* dispatcher.variables
    last_sql,        \* dispatcher.last_sql
    sigint,          \* "default" until the program first listens for Ctrl-C
    pressed,         \* Ctrl-C was pressed in a loop of \watch
    shown,           \* what the last step sent and rendered, if anything
    said,            \* what the program last announced of each setting
    rc,              \* the directives of ~/.pgclirc that are still to be read
    pset_used        \* history: a \pset that sets an option was entered

fixedVars == <<pager_disabled, output_file, on_error, variables, sigint, pressed, pset_used, rc>>
vars == <<pc, settings, last_sql, shown, said, fixedVars>>

Settings == [expanded : BOOLEAN, auto : BOOLEAN, timing : BOOLEAN,
             opt_expanded : BOOLEAN, opt_timing : BOOLEAN, pager_enabled : BOOLEAN]
Nothing == [what |-> "nothing", sql |-> Empty, expanded |-> FALSE, timing |-> FALSE,
            to |-> "none"]
Kinds == {"sql", "query", "repeat", "gx", "watch", "diff", "file", "write", "catalog",
          "describe", "plain", "error"}

TypeOK ==
    /\ pc \in {"start", "prompt", "watch", "diff", "gone"}
    /\ settings \in Settings
    /\ pager_disabled \in BOOLEAN /\ output_file \in BOOLEAN /\ pset_used \in BOOLEAN
    /\ on_error \in {"stop", "continue", "rollback"}
    /\ variables \in [Names -> Values \cup {Unset}]
    /\ last_sql \in Texts \cup {Empty}
    /\ sigint \in {"default", "handled"} /\ pressed \in BOOLEAN
    /\ shown \in [what : Kinds \cup {"nothing"}, sql : Texts \cup {Empty, OwnSql},
                  expanded : BOOLEAN, timing : BOOLEAN,
                  to : {"none", "stdout", "pager", "file"}]
    /\ said \in [expanded : {"on", "off", "auto"}, timing : BOOLEAN]

-----------------------------------------------------------------------------
(***************************************************************************)
(* \pset, on the settings alone.  A bare option flips what FormatOptions   *)
(* holds, not what the dispatcher holds.  The options of layout only       *)
(* (null, border, title, footer, columns, ...) are one option, "layout".   *)
(***************************************************************************)
ParseOnOff(value, current) ==
    IF value = "on" THEN TRUE ELSE IF value = "off" THEN FALSE ELSE ~current

\* Mutant: timing is set for the renderer only.
ApplyPsetToOptions(s, key, value) ==
    IF key = "timing" THEN [s EXCEPT !.opt_timing = ParseOnOff(value, s.opt_timing)] ELSE s

ApplyPset(s, key, value) ==
    LET flag == IF key = "expanded" THEN ParseOnOff(value, s.opt_expanded)
                ELSE IF key = "timing" THEN ParseOnOff(value, s.opt_timing)
                ELSE ParseOnOff(value, s.pager_enabled)
    IN  IF key = "expanded" THEN [s EXCEPT !.opt_expanded = flag, !.expanded = flag]
        ELSE IF key = "timing" THEN [s EXCEPT !.opt_timing = flag, !.timing = flag]
        ELSE IF key = "pager" THEN [s EXCEPT !.pager_enabled = flag]
        ELSE s

Announce(a, s, key) ==
    IF key = "expanded" THEN [a EXCEPT !.expanded = IF s.opt_expanded THEN "on" ELSE "off"]
    ELSE IF key = "timing" THEN [a EXCEPT !.timing = s.opt_timing]
    ELSE a

(***************************************************************************)
(* Start of a session: the flags of the command line, then ~/.pgclirc line *)
(* by line, whose \pset goes through ApplyPset only: it does not reach the *)
(* Pager.                                                                  *)
(***************************************************************************)
DefaultSettings == [expanded |-> FALSE, auto |-> FALSE, timing |-> TRUE,
                    opt_expanded |-> FALSE, opt_timing |-> TRUE, pager_enabled |-> TRUE]

Init ==
    /\ rc \in RcFiles
    /\ pager_disabled \in BOOLEAN
    /\ variables \in [Names -> Values \cup {Unset}]
    /\ settings = DefaultSettings /\ said = [expanded |-> "off", timing |-> TRUE]
    /\ pc = "start" /\ output_file = FALSE /\ on_error = "stop"
    /\ last_sql = Empty /\ sigint = "default" /\ pressed = FALSE
    /\ shown = Nothing /\ pset_used = FALSE

LoadStartupFile ==
    /\ pc = "start" /\ shown' = Nothing
    /\ \/ /\ rc # <<>> /\ rc' = Tail(rc)
          /\ settings' = ApplyPset(settings, Head(rc).key, Head(rc).value)
          /\ said' = Announce(said, settings', Head(rc).key)
          /\ UNCHANGED pc
       \/ rc = <<>> /\ pc' = "prompt" /\ UNCHANGED <<rc, settings, said>>
    /\ UNCHANGED <<last_sql, pager_disabled, output_file, on_error, variables, sigint, pressed,
                   pset_used>>

-----------------------------------------------------------------------------
(***************************************************************************)
(* MetaCommandDispatcher::dispatch.  The tables give the names that lead   *)
(* to one kind of result; each kind is an action below.  A command that    *)
(* repeats the query buffer is refused while the buffer is empty, by       *)
(* dispatch or, for \write and \crosstabview, by the session; one that     *)
(* needs an argument is refused without.                                   *)
(***************************************************************************)
DescribeCommands == {
    <<"Quit", {"q", "quit", "q!", "exit"}>>,
    <<"Reconnect", {"c", "connect", "reconnect"}>>,
    <<"Introspect", {"d", "describe", "d+"}>>,
    <<"Source", {"sf", "sv"}>>,
    <<"Catalog", {"du", "dg"}>>,
    <<"Query", {"conninfo", "l", "list", "l+", "dt", "dv", "dm", "di", "ds", "df", "df+", "dn",
                "dn+", "dC", "dy", "dY", "dT+", "encoding", "dp", "z", "dconfig", "dc"}>>,
    <<"Output", {"password"}>> }

BufferCommands == {
    <<"Repeat", {"g"}>>, <<"RepeatExpanded", {"gx"}>>, <<"Reset", {"r"}>>,
    <<"Plain", {"gexec", "copy", "lo_import", "lo_export"}>>,
    <<"Query", {"lo_list", "lo_list+", "lo_unlink", "dT", "dx", "dA", "dRs", "drs", "dRg",
                "drg", "dD", "dd", "dO", "do", "dP", "dp_partitioned", "dF", "dFp", "dFd",
                "dFt"}>>,
    <<"Output", {"p"}>> }

FormatCommands == {
    <<"x", {"x"}>>, <<"timing", {"timing"}>>, <<"o", {"o"}>>, <<"pset", {"format", "pset"}>>,
    <<"set", {"set"}>>, <<"unset", {"unset"}>>, <<"Output", {"a", "t", "theme"}>> }

FileCommands == {
    <<"ExecuteFile", {"i", "include", "i+", "include+", "ir", "include_relative"}>>,
    <<"Output", {"echo", "print", "qecho", "!", "cd"}>> }

ExtensionCommands == {
    <<"Introspect", {"introspect"}>>, <<"Source", {"ddl"}>>, <<"Around", {"explain", "rows",
      "rowcount"}>>, <<"Watch", {"watch"}>>, <<"WriteResult", {"write", "W"}>>,
    <<"Query", {"vacuum", "analyze", "begin", "commit", "rollback", "savepoint", "release"}>>,
    <<"Output", {"sleep"}>> }

AnalyticsCommands == {
    <<"Query", {"size", "locks", "activity"}>>, <<"Plain", {"deps", "kill"}>>,
    <<"Catalog", {"indexes", "bloat", "stats", "partitions", "sequences", "dL", "dl"}>> }

ScriptCommands == {
    <<"on_error", {"on_error", "onerror"}>>, <<"set", {"prompt"}>>, <<"gset", {"gset"}>>,
    <<"Plain", {"crosstabview", "gdesc", "bench"}>>, <<"EditAndExecute", {"e"}>>,
    <<"run", {"run"}>>, <<"Output", {"warn", "hist", "history", "?", "help", "h"}>> }

AllCommands == UNION {DescribeCommands, BufferCommands, FormatCommands, FileCommands,
                      ExtensionCommands, AnalyticsCommands, ScriptCommands}

Result == [n \in UNION {p[2] : p \in AllCommands} |->
              (CHOOSE p \in AllCommands : n \in p[2])[1]]

NeedsBuffer == {"g", "gx", "gexec", "watch", "rows", "rowcount", "gset", "gdesc", "bench",
                "crosstabview", "write", "W"}
NeedsArg == {"d+", "sf", "sv", "copy", "lo_import", "lo_export", "lo_unlink", "i", "include",
             "i+", "include+", "ir", "include_relative", "introspect", "ddl", "savepoint",
             "release", "write", "W", "run", "kill"}

\* Mutant: the buffer is not checked by the session either.
RefusedByDispatch(c) ==
    \/ last_sql = Empty /\ c.name \in NeedsBuffer \ {"write", "W", "crosstabview"}
    \/ c.arg = "" /\ c.name \in NeedsArg

Refused(c) ==
    \/ last_sql = Empty /\ (c.name \in NeedsBuffer \/ (c.name = "explain" /\ c.arg = ""))
    \/ c.arg = "" /\ c.name \in NeedsArg
    \/ c.name \in {"on_error", "onerror"} /\ c.arg \notin {"", "stop", "continue", "rollback"}

\* \d with a pattern, or without a name, lists; with a name it describes.
ResultOf(c) ==
    IF c.name \notin DOMAIN Result THEN "Output"
    ELSE IF c.name \in {"d", "describe"} /\ c.arg \in {"", "*"} THEN "Query"
    ELSE Result[c.name]

Dispatch == [r \in {p[1] : p \in AllCommands} |-> {c \in Commands : ResultOf(c) = r}]

-----------------------------------------------------------------------------
\* The commands with this result that are accepted now.
Typed(result) == {c \in Dispatch[result] : ~Refused(c)}
At(result) == pc = "prompt" /\ Typed(result) # {}

TextOnly == shown' = Nothing
Fail(sql) == shown' = [Nothing EXCEPT !.what = "error", !.sql = sql]

\* A long result goes through the pager unless it is disabled.
PagerDest == IF pager_disabled THEN "stdout" ELSE "pager"

\* The expanded and timing options are overwritten, then the result rendered.
Render(what, sql, expanded, timing, to) ==
    /\ settings' = [settings EXCEPT !.opt_expanded = expanded, !.opt_timing = timing]
    /\ shown' = [what |-> what, sql |-> sql, expanded |-> expanded, timing |-> timing,
                 to |-> to]

\* Rendered without the options.
RenderPlain(sql, to) ==
    /\ shown' = [Nothing EXCEPT !.what = "plain", !.sql = sql, !.to = to]
    /\ UNCHANGED settings

EffectiveExpanded(wide) == settings.expanded \/ (settings.auto /\ wide)

Substitute(l) ==
    [body |-> l.body, val |-> IF l.ref = NoRef THEN Unset ELSE variables[l.ref]]

\* Mutant: the buffer takes the line as it was typed.
RunSqlKeepsReference(l) ==
    /\ pc = "prompt"
    /\ last_sql' = [body |-> l.body, val |-> Unset]
    /\ Render("sql", Substitute(l), settings.expanded, settings.timing, PagerDest)
    /\ sigint' = "handled"
    /\ UNCHANGED <<pc, pager_disabled, output_file, on_error, variables, pressed, said,
                   pset_used, rc>>

\* Mutant: timing is not put back after the catalog.
RunSqlStaleTiming(l) ==
    /\ pc = "prompt"
    /\ last_sql' = Substitute(l)
    /\ Render("sql", Substitute(l), settings.expanded, settings.opt_timing, PagerDest)
    /\ sigint' = "handled"
    /\ UNCHANGED <<pc, pager_disabled, output_file, on_error, variables, pressed, said,
                   pset_used, rc>>

(***************************************************************************)
(* A line of SQL.  The buffer takes the text that ran, after substitution, *)
(* once all of it has run.  While the query runs the program listens for   *)
(* Ctrl-C, and from then on the process no longer dies of it.              *)
(***************************************************************************)
RunSql(l) ==
    /\ pc = "prompt"
    /\ sigint' = "handled"
    /\ \/ /\ last_sql' = Substitute(l)
          /\ \E wide \in BOOLEAN :
                 Render("sql", Substitute(l), EffectiveExpanded(wide), settings.timing,
                        IF output_file THEN "file" ELSE PagerDest)
       \/ Fail(Substitute(l)) /\ UNCHANGED <<last_sql, settings>>
    /\ UNCHANGED <<pc, pager_disabled, output_file, on_error, variables, pressed, said,
                   pset_used, rc>>

(***************************************************************************)
(* Settings kept by the dispatcher.                                        *)
(***************************************************************************)
\* \x: a bare one goes off -> on -> auto -> off.
X ==
    /\ At("x")
    /\ \E c \in Typed("x") :
          LET mode == IF c.arg \in {"on", "off", "auto"} THEN c.arg
                      ELSE IF settings.auto THEN "off"
                      ELSE IF settings.expanded THEN "auto" ELSE "on"
          IN  /\ settings' = [settings EXCEPT !.expanded = (mode = "on"),
                                              !.auto = (mode = "auto")]
              /\ said' = [said EXCEPT !.expanded = mode]
    /\ TextOnly /\ UNCHANGED <<pc, last_sql, fixedVars>>

Timing ==
    /\ At("timing")
    /\ \E c \in Typed("timing") :
          LET state == ParseOnOff(c.arg, settings.timing)
          IN  /\ settings' = [settings EXCEPT !.timing = state]
              /\ said' = [said EXCEPT !.timing = state]
    /\ TextOnly /\ UNCHANGED <<pc, last_sql, fixedVars>>

Redirect ==
    /\ At("o")
    /\ \E c \in Typed("o") : output_file' = (c.arg # "")
    /\ TextOnly
    /\ UNCHANGED <<pc, settings, last_sql, said, pager_disabled, on_error, variables, sigint,
                   pressed, pset_used, rc>>

\* A bare \pset prints its help, and the prompts are the editor's: neither comes
\* to apply_pset.  (\set PROMPT1 is \pset prompt1.)
Setters == {c \in Typed("pset") : c.key \notin {"", "prompt"}}

\* Mutant: the pager's switch is left alone, as when ~/.pgclirc is read.
PsetLeavesPager ==
    /\ At("pset")
    /\ \E c \in Setters :
          /\ settings' = ApplyPset(settings, c.key, c.arg)
          /\ said' = Announce(said, settings', c.key)
    /\ pset_used' = TRUE /\ TextOnly
    /\ UNCHANGED <<pc, last_sql, pager_disabled, output_file, on_error, variables, sigint,
                   pressed, rc>>

\* \pset OPTION (and \format), which also resets the pager's switch.
Pset ==
    /\ At("pset")
    /\ \E c \in Setters :
          /\ settings' = ApplyPset(settings, c.key, c.arg)
          /\ said' = Announce(said, settings', c.key)
    /\ pager_disabled' = ~settings'.pager_enabled
    /\ pset_used' = TRUE
    /\ TextOnly
    /\ UNCHANGED <<pc, last_sql, output_file, on_error, variables, sigint, pressed, rc>>

SetVariable ==
    /\ At("set")
    /\ \E n \in Names, v \in Values : variables' = [variables EXCEPT ![n] = v]
    /\ TextOnly
    /\ UNCHANGED <<pc, settings, last_sql, said, pager_disabled, output_file, on_error, sigint,
                   pressed, pset_used, rc>>

UnsetVariable ==
    /\ At("unset")
    /\ \E n \in Names : variables' = [variables EXCEPT ![n] = Unset]
    /\ TextOnly
    /\ UNCHANGED <<pc, settings, last_sql, said, pager_disabled, output_file, on_error, sigint,
                   pressed, pset_used, rc>>

\* \gset runs the buffer again and names its variables after the columns.
GSet ==
    /\ At("gset")
    /\ \/ \E n \in Names, v \in Values :
             /\ variables' = [variables EXCEPT ![n] = v]
             /\ RenderPlain(last_sql, "stdout")
       \/ Fail(last_sql) /\ UNCHANGED <<variables, settings>>
    /\ UNCHANGED <<pc, last_sql, said, pager_disabled, output_file, on_error, sigint, pressed,
                   pset_used, rc>>

\* Mutant: the argument is stored before it is checked.
SetOnErrorUnchecked ==
    /\ pc = "prompt"
    /\ \E c \in Commands : c.name = "on_error" /\ on_error' = c.arg
    /\ TextOnly
    /\ UNCHANGED <<pc, settings, last_sql, said, pager_disabled, output_file, variables, sigint,
                   pressed, pset_used, rc>>

SetOnError ==
    /\ At("on_error")
    /\ \E c \in Typed("on_error") : on_error' = IF c.arg = "" THEN "stop" ELSE c.arg
    /\ TextOnly
    /\ UNCHANGED <<pc, settings, last_sql, said, pager_disabled, output_file, variables, sigint,
                   pressed, pset_used, rc>>

(***************************************************************************)
(* Commands that read or replace the query buffer.                         *)
(***************************************************************************)
Reset ==
    /\ At("Reset")
    /\ last_sql' = Empty /\ TextOnly
    /\ UNCHANGED <<pc, settings, said, fixedVars>>

\* Whether or not the new connection is made.
Reconnect ==
    /\ At("Reconnect")
    /\ last_sql' = Empty /\ TextOnly
    /\ UNCHANGED <<pc, settings, said, fixedVars>>

\* \g, to the pager or, with a file name, to that file; \o does not count.
Repeat ==
    /\ At("Repeat")
    /\ \/ \E c \in Typed("Repeat"), wide \in BOOLEAN :
             Render("repeat", last_sql, EffectiveExpanded(wide), settings.timing,
                    IF c.arg # "" THEN "file" ELSE PagerDest)
       \/ Fail(last_sql) /\ UNCHANGED settings
    /\ UNCHANGED <<pc, last_sql, said, fixedVars>>

\* Mutant: \gx turns expanded display on for good.
RepeatExpandedForGood ==
    /\ At("RepeatExpanded")
    /\ settings' = [settings EXCEPT !.expanded = TRUE, !.opt_expanded = TRUE]
    /\ shown' = [Nothing EXCEPT !.what = "gx", !.sql = last_sql, !.to = PagerDest]
    /\ UNCHANGED <<pc, last_sql, said, fixedVars>>

RepeatExpanded ==
    /\ At("RepeatExpanded")
    /\ \/ Render("gx", last_sql, TRUE, settings.timing, PagerDest)
       \/ Fail(last_sql) /\ UNCHANGED settings
    /\ UNCHANGED <<pc, last_sql, said, fixedVars>>

\* \explain and \rows: a query made around the buffer, or (\explain SQL) none.
Around ==
    /\ At("Around")
    /\ \E c \in Typed("Around"), wide \in BOOLEAN :
          LET sql == IF c.arg = "" THEN last_sql ELSE OwnSql IN
          \/ Render("query", sql, EffectiveExpanded(wide), settings.timing, PagerDest)
          \/ Fail(sql) /\ UNCHANGED settings
    /\ UNCHANGED <<pc, last_sql, said, fixedVars>>

\* \write: timing is forced off and stays off in the options.
WriteResult ==
    /\ At("WriteResult")
    /\ \/ Render("write", last_sql, settings.expanded, FALSE, "file")
       \/ Fail(last_sql) /\ UNCHANGED settings
    /\ UNCHANGED <<pc, last_sql, said, fixedVars>>

\* \gexec, \gdesc, \bench, \crosstabview on the buffer; \copy, \deps, \kill,
\* \lo_import, \lo_export on their argument.  None uses the options.
Plain ==
    /\ At("Plain")
    /\ \E c \in Typed("Plain") :
          LET sql == IF c.name \in NeedsBuffer THEN last_sql ELSE OwnSql IN
          \/ RenderPlain(sql, "stdout")
          \/ Fail(sql) /\ UNCHANGED settings
    /\ UNCHANGED <<pc, last_sql, said, fixedVars>>

\* \e: the edited text becomes the buffer before it runs, unsubstituted, and
\* whether or not it succeeds.
EditAndExecute ==
    /\ At("EditAndExecute")
    /\ \/ \E l \in Lines :
             LET sql == [body |-> l.body, val |-> Unset] IN
             /\ last_sql' = sql
             /\ \/ Render("file", sql, settings.expanded, settings.timing, PagerDest)
                \/ Fail(sql) /\ UNCHANGED settings
       \/ TextOnly /\ UNCHANGED <<last_sql, settings>>
    /\ UNCHANGED <<pc, said, fixedVars>>

\* \run NAME: likewise, with the text of a bookmark.
RunBookmark ==
    /\ At("run")
    /\ \E sql \in Texts, wide \in BOOLEAN :
          /\ last_sql' = sql
          /\ \/ Render("query", sql, EffectiveExpanded(wide), settings.timing, PagerDest)
             \/ Fail(sql) /\ UNCHANGED settings
    /\ UNCHANGED <<pc, said, fixedVars>>

(***************************************************************************)
(* Commands that query the catalog or run a file.                          *)
(***************************************************************************)
Query ==
    /\ At("Query")
    /\ \E wide \in BOOLEAN :
          \/ Render("query", OwnSql, EffectiveExpanded(wide), settings.timing, PagerDest)
          \/ Fail(OwnSql) /\ UNCHANGED settings
    /\ UNCHANGED <<pc, last_sql, said, fixedVars>>

Introspect ==
    /\ At("Introspect")
    /\ \/ Render("describe", OwnSql, settings.expanded, FALSE, PagerDest)
       \/ Fail(OwnSql) /\ UNCHANGED settings
    /\ UNCHANGED <<pc, last_sql, said, fixedVars>>

\* \ddl, \sf, \sv print text.
Source ==
    /\ At("Source")
    /\ \/ RenderPlain(OwnSql, PagerDest)
       \/ Fail(OwnSql) /\ UNCHANGED settings
    /\ UNCHANGED <<pc, last_sql, said, fixedVars>>

\* \stats and \partitions render only when there are rows.
Catalog ==
    /\ At("Catalog")
    /\ \/ Render("catalog", OwnSql, FALSE, FALSE, PagerDest)
       \/ (Fail(OwnSql) \/ RenderPlain(OwnSql, "stdout")) /\ UNCHANGED settings
    /\ UNCHANGED <<pc, last_sql, said, fixedVars>>

\* \i: a new ScriptRunner, whose on_error mode is not the dispatcher's.
ExecuteFile ==
    /\ At("ExecuteFile")
    /\ \/ Render("file", OwnSql, settings.expanded, settings.timing, PagerDest)
       \/ Fail(OwnSql) /\ UNCHANGED settings
    /\ UNCHANGED <<pc, last_sql, said, fixedVars>>

(***************************************************************************)
(* \watch: the session stays in a loop that only ends with the process.    *)
(***************************************************************************)
Watch ==
    /\ At("Watch")
    /\ \E c \in Typed("Watch") : pc' = IF c.arg = "diff" THEN "diff" ELSE "watch"
    /\ TextOnly /\ UNCHANGED <<settings, last_sql, said, fixedVars>>

WatchTick ==
    /\ pc = "watch"
    /\ \/ \E wide \in BOOLEAN :
             Render("watch", last_sql, EffectiveExpanded(wide), settings.timing, "stdout")
       \/ Fail(last_sql) /\ UNCHANGED settings
    /\ UNCHANGED <<pc, last_sql, said, fixedVars>>

\* The options are used as the last command left them.
DiffTick ==
    /\ pc = "diff"
    /\ \/ Render("diff", last_sql, settings.opt_expanded, settings.opt_timing, "stdout")
       \/ Fail(last_sql) /\ UNCHANGED settings
    /\ UNCHANGED <<pc, last_sql, said, fixedVars>>

\* Ctrl-C in the loop: nobody listens, so it either kills or does nothing.
CtrlC ==
    /\ pc \in {"watch", "diff"}
    /\ pc' = IF sigint = "default" THEN "gone" ELSE pc
    /\ pressed' = (sigint = "handled")
    /\ TextOnly
    /\ UNCHANGED <<settings, last_sql, said, pager_disabled, output_file, on_error, variables,
                   sigint, pset_used, rc>>

Quit ==
    /\ At("Quit")
    /\ pc' = "gone" /\ TextOnly /\ UNCHANGED <<settings, last_sql, said, fixedVars>>

\* Text only, every refusal, and a \pset that sets no option.
Output ==
    /\ pc = "prompt"
    /\ \/ Dispatch["Output"] # {} \/ Typed("pset") \ Setters # {}
       \/ \E c \in Commands : Refused(c)
    /\ TextOnly /\ UNCHANGED <<pc, settings, last_sql, said, fixedVars>>

Next ==
    \/ LoadStartupFile
    \/ \E l \in Lines : RunSql(l)
    \/ X \/ Timing \/ Redirect \/ Pset \/ SetVariable \/ UnsetVariable \/ GSet \/ SetOnError
    \/ Reset \/ Reconnect \/ Repeat \/ RepeatExpanded \/ Around \/ WriteResult \/ Plain
    \/ EditAndExecute \/ RunBookmark
    \/ Query \/ Introspect \/ Source \/ Catalog \/ ExecuteFile
    \/ Watch \/ WatchTick \/ DiffTick \/ CtrlC \/ Quit \/ Output

Spec == Init /\ [][Next]_vars

\* The loop of \watch goes on by itself; nobody has to type anything.
FairSpec == Spec /\ WF_vars(WatchTick \/ DiffTick)

-----------------------------------------------------------------------------
(***************************************************************************)
(* Properties.                                                             *)
(***************************************************************************)
\* A result of the user's own SQL is rendered as the dispatcher's flags say,
\* whatever the commands before it left in the shared options: \d and the
\* catalog commands leave timing off, \gx leaves expanded on.
UserKinds == {"sql", "query", "repeat", "watch"}
ShownAsSet ==
    [][shown'.what \in UserKinds =>
          /\ shown'.timing = settings.timing
          /\ settings.expanded => shown'.expanded
          /\ shown'.expanded => settings.expanded \/ settings.auto]_vars

\* What the program last said of timing, by \timing or by \pset, is what the
\* dispatcher holds; and when it said that expanded display is on or auto,
\* it is.  (When it said off, auto may still be on: \pset leaves it.)
SettingsAsAnnounced ==
    /\ said.timing = settings.timing
    /\ said.expanded = "on" => settings.expanded
    /\ said.expanded = "auto" => settings.auto /\ ~settings.expanded
    /\ said.expanded = "off" => ~settings.expanded

\* The buffer only ever takes a text that was sent just as it stands: what
\* \g, \watch or \bookmark take later is what ran, with the values the
\* variables had then.
BufferIsWhatRan == [][last_sql' \in {last_sql, Empty, shown'.sql}]_vars

\* No command sends an empty text, although the check on the buffer is in the
\* dispatcher for some commands and in the session for others.
NothingEmptySent ==
    /\ shown.what # "nothing" => shown.sql # Empty
    /\ pc \in {"watch", "diff"} => last_sql # Empty

\* Once the user has set any option with \pset at the prompt, the pager is used
\* exactly when pager_enabled says so, whatever --no-pager and ~/.pgclirc said
\* before.  Until then, and after \pset prompt1 or a bare \pset alone, the two
\* may differ.
PagerFollowsPset == pset_used => (pager_disabled <=> ~settings.pager_enabled)

\* Only \o and \set-like commands last: a query, a listing or a script
\* changes none of the dispatcher's choices.
ChoicesPersist ==
    [][shown'.what # "nothing" =>
          /\ settings'.expanded = settings.expanded
          /\ settings'.auto = settings.auto
          /\ settings'.timing = settings.timing
          /\ settings'.pager_enabled = settings.pager_enabled
          /\ output_file' = output_file /\ said' = said]_vars

\* "press Ctrl-C to stop" (meta_handler.rs): Ctrl-C ends the loop of \watch.
\* TLC refutes it (README, section 7).
CtrlCStopsWatch == pressed ~> pc \notin {"watch", "diff"}
=============================================================================
