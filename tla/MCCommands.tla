---------------------------- MODULE MCCommands -----------------------------
(***************************************************************************)
(* The backslash commands: those that read and write the settings of the   *)
(* session (SessionSettings), one or two of every kind, and what those     *)
(* that list and describe select from the server's catalogs (Catalog); and *)
(* COPY, typed or with a file (ClientCopy).  They have no state in common, *)
(* so in one behaviour only one of them moves.                             *)
(***************************************************************************)
EXTENDS SessionSettings, FiniteSets, SequencesExt

MCLines == {[body |-> "q", ref |-> "v"]}

Plainly(names) == [name : names, key : {""}, arg : {""}]
Named(names) == [name : names, key : {""}, arg : {"t"}]
MCCommands ==
    Plainly({"q", "c", "d", "d+", "g", "gx", "gexec", "r", "x", "timing", "o", "set", "unset",
             "explain", "rows", "watch", "write", "locks", "kill", "bloat", "on_error", "gset",
             "gdesc", "bench", "crosstabview", "e", "run", "warn"})
    \cup Named({"d", "sf", "g", "o", "i", "explain", "write", "run", "on_error", "kill"})
    \cup [name : {"x"}, key : {""}, arg : {"on", "off", "auto"}]
    \cup [name : {"timing"}, key : {""}, arg : {"off"}]
    \cup [name : {"watch"}, key : {""}, arg : {"diff"}]
    \cup [name : {"pset"}, key : {"expanded", "timing", "pager"}, arg : {"", "on", "off"}]
    \cup [name : {"pset"}, key : {"layout", "prompt"}, arg : {"x"}]
    \cup [name : {"pset"}, key : {""}, arg : {""}]

MCRcFiles == {<<>>, <<[key |-> "pager", value |-> "off"], [key |-> "timing", value |-> "off"]>>,
              <<[key |-> "expanded", value |-> ""], [key |-> "layout", value |-> "x"]>>}

-----------------------------------------------------------------------------
(***************************************************************************)
(* One catalog with an object of every kind for every name and schema, and *)
(* databases whose tables are easily confused.                             *)
(***************************************************************************)
small == <<"a">>
capital == <<"A">>
joined == <<"a", "_", "b">>
quoted == <<"a", "'">>

MCSpelling == [none |-> <<>>, hr |-> <<"b">>, public |-> <<"p">>,
               pg_catalog |-> <<"p", "_", "c">>, information_schema |-> <<"i">>,
               pgac |-> <<"p", "a", "c">>, pgAc |-> <<"p", "A", "c">>,
               pg_temp |-> <<"p", "_", "t">>, pg_toast |-> <<"p", "_", "o">>]

Global == {"database", "event_trigger", "access_method", "role", "cast", "extension",
           "language"}
SchemaKinds == {"r", "v", "m", "S", "f", "p", "i", "function", "type", "domain", "collation",
                "ts_config", "ts_parser", "ts_dict", "ts_template"}

ObjectNames == {small, capital, <<"b", "a">>, joined, <<"a", "b", "b">>, quoted, <<"b", ".", "a">>}

MCObjects ==
    [kind : SchemaKinds, schema : {"hr", "public", "pg_catalog"}, name : ObjectNames]
    \cup [kind : Global, schema : {"none"}, name : ObjectNames]
    \cup {[kind |-> "schema", schema |-> s, name |-> MCSpelling[s]] :
            s \in DOMAIN MCSpelling \ {"none"}}

In(s, n) == [schema |-> s, name |-> n]

MCSchemaOrder == <<"hr", "pgAc", "pg_catalog", "pgac", "public", "pg_temp">>

MCTableSets ==
    {{In("hr", small)}, {In("hr", small), In("hr", capital)}, {In("hr", small), In("public", small)},
     {In("hr", quoted), In("pg_catalog", joined)},
     {In("pgac", small), In("pgAc", small)},
     {In("pg_catalog", small), In("pgac", small), In("pgAc", capital)},
     {In("public", small), In("hr", capital), In("hr", quoted), In("pg_temp", small)}}

MCSchemas == {"none", "hr", "public", "pg_catalog", "pgAc"}
MCMembers == {<<"alice", "staff">>, <<"staff", "everyone">>}

PatternsUpTo(n) == SeqOf({"a", "b", "_", "*", "?", "'"}, n)

MCPatterns ==
    PatternsUpTo(2)
      \cup {<<x, y, x>> : x \in {"a", "b", "*", "?"}, y \in {"a", "b", "*", "_"}}
      \cup {s \o <<".">> \o n : s \in {<<"b">>, <<"*">>, <<"?">>, <<"'">>, <<>>},
                               n \in PatternsUpTo(1) \cup {<<"a", "*">>, <<"a", "'">>}}
      \cup ObjectNames \cup {MCSpelling[s] : s \in DOMAIN MCSpelling}

-----------------------------------------------------------------------------
MCTables == {<<>>, <<"r1">>, <<"r1", "r2">>}

\* \copy with plain and quoted paths, a query, options, keywords inside the
\* path, a path that is missing and one that is not closed.
MCSpecs ==
    {<<"t", "TO", "f">>, <<"t", "FROM", "'f'", "WITH", "options">>,
     <<"(q", "FROM", "t)", "TO", "f">>, <<"t", "TO", "'g", "TO", "h'">>,
     <<"t", "FROM", "'g", "FROM", "h'">>, <<"t", "FROM", "'g", "TO", "h'">>,
     <<"t", "TO">>, <<"t", "TO", "'g">>}

-----------------------------------------------------------------------------
CONSTANTS
    MaxTyped, Tables, Specs, Absent,    \* see ClientCopy
    Objects, TableSets, Members, Backends, Patterns, NamesTyped, Schemas,
    SchemaOrder, Spelling               \* see Catalog

ASSUME TablesAssumption == \A t \in Tables : t \in Seq(Range(t) \ {Absent})

VARIABLES part,   \* the module that moves
          tables, asked, selected, columns, sections, pairs, message, alive, failing,
          stage, buffer, data, row_count, spec, path, chunks, pending, files, stored, told,
          typed, ended, exported

Db == INSTANCE Catalog WITH Names <- NamesTyped, said <- message

ASSUME CatalogAssumption == Db!CatalogAssumption

Copy == INSTANCE ClientCopy

settingsVars == vars
serverVars == <<tables, asked, selected, columns, sections, pairs, message, alive, failing>>
copyVars == <<stage, buffer, data, row_count, spec, path, chunks, pending, files, stored, told,
              typed, ended, exported>>

CommandsInit ==
    /\ part \in {"settings", "catalog", "typed copy", "file copy"}
    /\ Init /\ Db!Init /\ Copy!Init
    /\ part # "catalog" => tables = CHOOSE ts \in TableSets : TRUE
    /\ part # "settings" => rc = <<>> /\ ~pager_disabled /\ variables = [n \in Names |-> Unset]
    /\ part # "file copy" => \A p \in Copy!Paths : files[p] = Absent

SettingsStep  == part = "settings" /\ Next /\ UNCHANGED <<part, serverVars, copyVars>>
CatalogStep   == part = "catalog" /\ Db!Next /\ UNCHANGED <<part, settingsVars, copyVars>>
TypedCopyStep == part = "typed copy" /\ Copy!Typing /\ UNCHANGED <<part, settingsVars, serverVars>>
FileCopyStep  == part = "file copy" /\ Copy!Copying /\ UNCHANGED <<part, settingsVars, serverVars>>

CommandsNext == SettingsStep \/ CatalogStep \/ TypedCopyStep \/ FileCopyStep

CommandsSpec ==
    CommandsInit /\ [][CommandsNext]_<<part, settingsVars, serverVars, copyVars>>

-----------------------------------------------------------------------------
\* The dispatcher's flags are what the program last said they are, and the
\* switch of the pager agrees with pager_enabled from the first \pset OPTION on.
SettingsAgree == TypeOK /\ SettingsAsAnnounced /\ PagerFollowsPset

\* A result of the user's SQL is rendered as the user chose, whatever the
\* commands before it rendered, and none of them changes a choice.
ResultsAsChosen == ShownAsSet /\ ChoicesPersist

\* The query buffer holds what ran, and no command sends an empty one.
BufferIsSound == BufferIsWhatRan /\ []NothingEmptySent

\* A listing shows the objects its pattern selects: by the syntax of README.md
\* where schema_pattern_filter builds it, and everywhere for a plain name.
ListingsSelect ==
    Db!TypeOK /\ Db!PatternsSelect /\ Db!NamesFindThemselves

\* A name finds its table, once and whole, by whichever command it is looked
\* up, and the sections below a description belong to it.
LookupsFind ==
    Db!DescribeFindsTable /\ Db!LookupsAgree /\ Db!SectionsMatch

\* Of the rows typed after COPY the server gets a beginning without holes, and
\* all of them when \. ended them.
TypedRowsArrive == Copy!TypeOK /\ Copy!TypedRowsArrive

\* What \copy says it wrote is in the file, and comes back from there.
FileRoundTrips == Copy!FileRoundTrips
=============================================================================
