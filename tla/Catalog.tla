------------------------------ MODULE Catalog -------------------------------
(***************************************************************************)
(* What the listing and describing meta-commands select from the system    *)
(* catalogs: the query builders of commands.rs, and introspection.rs.      *)
(* A query is abstracted to the objects it selects: the kinds of object it *)
(* reads, the schemas it leaves out, and what the name typed by the user   *)
(* becomes on its way into the query's text.                               *)
(*                                                                         *)
(* Names and patterns are sequences of characters; "A" is the only capital *)
(* letter.  Every table has two columns and one of each kind of            *)
(* constraint, named after it.                                             *)
(***************************************************************************)
EXTENDS Naturals, Sequences, FiniteSets, SequencesExt, FiniteSetsExt

CONSTANTS
    Objects,     \* the catalog: [kind, schema, name]
    TableSets,   \* sets of tables [schema, name] a database may hold
    Members,     \* pairs <<role, group>>: the role belongs to the group
    Backends,    \* process ids that exist
    Patterns,    \* what is typed after a listing command
    Names,       \* table names typed
    Schemas,     \* schemas typed, None without one
    SchemaOrder, \* the schemas that hold tables, in the order of their names
    Spelling     \* the name of each schema as characters

None == "none"
System == {"pg_catalog", "information_schema"}
Temporary == {"pg_temp", "pg_toast"}
Internal == System \cup {"pg_toast"}
Letter == STRING
Text == Seq(Letter)

\* A database holds any finite set of tables in its schemas.  The names of
\* schemas have no quotes and no wildcards; tables and patterns may.
CatalogAssumption ==
    /\ SchemaOrder \in Seq(STRING) /\ IsInjective(SchemaOrder)
    /\ Objects \subseteq [kind : STRING, schema : DOMAIN Spelling, name : Text]
    /\ \A s \in DOMAIN Spelling :
            Spelling[s] \in Text /\ Range(Spelling[s]) \cap {"'", "*", "?"} = {}
    /\ \A s, t \in DOMAIN Spelling : Spelling[s] = Spelling[t] => s = t
    /\ (Schemas \ {None}) \cup {"public"} \cup Range(SchemaOrder) \subseteq DOMAIN Spelling
    /\ \A ts \in TableSets : /\ IsFiniteSet(ts)
                              /\ ts \subseteq [schema : Range(SchemaOrder), name : Text]
    /\ Patterns \subseteq Text /\ Names \subseteq Text

VARIABLES
    tables,      \* the tables of this database
    asked,       \* the last command: [name, pattern, schema, table]
    selected,    \* objects in the listing shown
    columns,     \* columns shown, in order
    sections,    \* sections shown: <<section, schema, table>>
    pairs,       \* "Role" and "Member of" in a list of memberships
    said,        \* message about a backend
    alive,       \* processes that still exist
    failing      \* sections whose query failed

answer == <<selected, columns, sections, pairs, said, failing>>
vars == <<tables, asked, answer, alive>>

-----------------------------------------------------------------------------
\* External: the wildcards of ILIKE.
One == "_"
Many == "%"

\* External: ILIKE, and a string literal as the server reads it.
Lower(s) == [k \in DOMAIN s |-> IF s[k] = "A" THEN "a" ELSE s[k]]

Like(name, pattern) ==
    LET s == Lower(name)
        p == Lower(pattern)
        M[at \in (1..Len(s) + 1) \X (1..Len(p) + 1)] ==
            LET i == at[1]
                j == at[2]
            IN  IF j > Len(p) THEN i > Len(s)
                ELSE IF p[j] = Many THEN M[<<i, j + 1>>] \/ (i <= Len(s) /\ M[<<i + 1, j>>])
                ELSE i <= Len(s) /\ p[j] \in {One, s[i]} /\ M[<<i + 1, j + 1>>]
    IN  M[<<1, 1>>]

\* A text that ends early makes the query fail: it selects nothing.
Broken == <<"broken">>

Literal(text) ==
    LET Read[k \in 1..Len(text) + 2] ==
            IF k > Len(text) THEN <<>>
            ELSE IF text[k] # "'" THEN <<text[k]>> \o Read[k + 1]
            ELSE IF k < Len(text) /\ text[k + 1] = "'" THEN <<"'">> \o Read[k + 2]
            ELSE Broken
    IN  Read[1]

\* Mutant: quotes are not doubled.
EscapedNot(s) == s

\* replace('\'', "''")
Escaped(s) == FlattenSeq([k \in DOMAIN s |-> IF s[k] = "'" THEN <<"'", "'">> ELSE <<s[k]>>])

\* replace('*', "%").replace('?', "_")
Wild(s) == [k \in DOMAIN s |-> CASE s[k] = "*" -> Many [] s[k] = "?" -> One [] OTHER -> s[k]]

Dot(s) == SelectInSeq(s, LAMBDA c : c = ".")

\* pattern_filter: the pattern is looked for anywhere in the name.
Anywhere(p, o) == Like(o.name, <<Many>> \o Literal(Wild(Escaped(p))) \o <<Many>>)

\* Mutant: a pattern with a schema only looks at the name.
QualifiedNameOnly(p, o) ==
    LET e == Escaped(p)
        d == Dot(e)
    IN  Like(o.name, Literal(Wild(SubSeq(e, d + 1, Len(e)))))

\* schema_pattern_filter
Qualified(p, o) ==
    LET e == Escaped(p)
        d == Dot(e)
    IN  /\ d > 0 => Like(Spelling[o.schema], Literal(Wild(SubSeq(e, 1, d - 1))))
        /\ Like(o.name, Literal(Wild(SubSeq(e, d + 1, Len(e)))))

\* The filters written in place: the pattern goes to ILIKE as it is typed.
AsTyped(p, o) == Like(o.name, Literal(Escaped(p)))

\* A builder: the commands it serves, the kinds it reads, the schemas it
\* leaves out and its filter.  The condition of \dx belongs to the join of the
\* descriptions, so that it leaves out no extension.
Listing(names, kinds, hidden, filter) ==
    [names |-> names, kinds |-> kinds, hidden |-> hidden, filter |-> filter]

DatabaseListings == {
    Listing({"l", "l+"}, {"database"}, {}, "none"),
    Listing({"df+"}, {"function"}, System, "contains") }

RelationListings == {
    Listing({"d"}, {"r", "v", "m", "S", "f", "p"}, System, "contains"),
    Listing({"dt"}, {"r"}, System, "qualified"),
    Listing({"dv"}, {"v"}, System, "qualified"),
    Listing({"dm"}, {"m"}, System, "qualified") }

TriggerAndTypeListings == {
    Listing({"dy"}, {"event_trigger"}, {}, "typed"),
    Listing({"dT+"}, {"type"}, Internal, "qualified") }

TextSearchListings == {
    Listing({"dF"}, {"ts_config"}, {}, "qualified"),
    Listing({"dFp"}, {"ts_parser"}, {}, "qualified"),
    Listing({"dFd"}, {"ts_dict"}, {}, "qualified"),
    Listing({"dFt"}, {"ts_template"}, {}, "qualified") }

DomainListings == {
    Listing({"dD"}, {"domain"}, System, "qualified"),
    Listing({"dO"}, {"collation"}, System, "qualified"),
    Listing({"dP"}, {"p"}, System, "qualified") }

RoleListings == {
    Listing({"dA"}, {"access_method"}, {}, "typed"),
    Listing({"dRs"}, {"role"}, {}, "typed") }

IndexListings == {
    Listing({"di"}, {"i"}, System, "qualified"),
    Listing({"ds"}, {"S"}, {}, "qualified"),
    Listing({"df"}, {"function"}, System, "qualified") }

SchemaListings == {
    Listing({"dn", "dn+"}, {"schema"}, Temporary, "contains") }

TypeListings == {
    Listing({"dC"}, {"cast"}, {}, "typed"),
    Listing({"dp"}, {"r", "v", "S"}, {}, "contains"),
    Listing({"dT"}, {"type"}, System, "contains"),
    Listing({"dx"}, {"extension"}, {}, "none") }

IntrospectedListings == {
    Listing({"du"}, {"role"}, {}, "typed"),
    Listing({"sequences"}, {"S"}, System, "typed"),
    Listing({"dL"}, {"language"}, {}, "typed") }

Listings == UNION {DatabaseListings, RelationListings, TriggerAndTypeListings,
                   TextSearchListings, DomainListings, RoleListings, IndexListings,
                   SchemaListings, TypeListings, IntrospectedListings}

Passes(filter, p, o) ==
    \/ p = <<>> \/ filter = "none"
    \/ filter = "contains" /\ Anywhere(p, o)
    \/ filter = "qualified" /\ Qualified(p, o)
    \/ filter = "typed" /\ AsTyped(p, o)

\* Mutant: the kind is not looked at.
SelectAnyKind(l, p) ==
    {o \in Objects : o.schema \notin l.hidden /\ Passes(l.filter, p, o)}

Select(l, p) ==
    {o \in Objects : o.kind \in l.kinds /\ o.schema \notin l.hidden
                     /\ Passes(l.filter, p, o)}

ListingOf(name) == CHOOSE l \in Listings : name \in l.names

-----------------------------------------------------------------------------
(***************************************************************************)
(* Tables by name.                                                         *)
(***************************************************************************)
Exactly(s, n) == {t \in tables : t.schema = s /\ t.name = n}

\* External: 'schema.table'::regclass, which folds capital letters.
Regclass(s, n) ==
    {t \in tables : /\ Spelling[t.schema] = Lower(Literal(Escaped(Spelling[s])))
                    /\ t.name = Lower(Literal(n))}

\* split_schema_table
SchemaOf(typed) == IF typed = None THEN "public" ELSE typed

\* Mutant: a table is looked for in the schema alone.
DescribedInSchema(s, n) == Exactly(s, Literal(Escaped(n)))

\* describe_table_sql: public stands for every schema but the temporary ones.
Described(s, n) ==
    IF s = "public"
    THEN {t \in tables : t.name = Literal(Escaped(n)) /\ t.schema \notin Temporary}
    ELSE Exactly(s, Literal(Escaped(n)))

\* Their columns, by schema and position.
ColumnsOf(ts) ==
    FlattenSeq([k \in DOMAIN SchemaOrder |->
        FlattenSeq(SetToSeq({ <<<<t.schema, t.name, 1>>, <<t.schema, t.name, 2>>>> :
                             t \in {u \in ts : u.schema = SchemaOrder[k]}}))])

Named(section, ts) == {<<section, t.schema, t.name>> : t \in ts}

\* describe_table_constraints: indexes by name, the others by regclass.
Constraints(s, n) ==
    Named("index", Exactly(s, Literal(Escaped(n))))
      \cup UNION {Named(k, Regclass(s, Escaped(n))) : k \in {"check", "foreign_key"}}

\* Mutant: foreign keys are left out.
ExtendedWithoutKeys(s, n) ==
    Named("trigger", Exactly(s, Literal(Escaped(n))))
      \cup UNION {Named(k, Regclass(s, Escaped(n))) : k \in {"check", "referenced_by"}}

\* describe_table_extended
Extended(s, n) ==
    Named("trigger", Exactly(s, Literal(Escaped(n))))
      \cup UNION {Named(k, Regclass(s, Escaped(n))) :
                    k \in {"check", "foreign_key", "referenced_by"}}

\* The other commands that look for a table by name: by comparison, or both
\* schema and name by ILIKE, as they are typed.
ShowColumnStats(s, n) == Exactly(s, Literal(Escaped(n)))
ShowPartitions(s, n) == Exactly(s, Literal(Escaped(n)))
ShowViewDefinition(s, n) == Exactly(s, Literal(Escaped(n)))

\* Mutant: the schema is not looked at.
ShowIndexesAnySchema(s, n) ==
    {t \in tables : Like(t.name, Literal(Escaped(n)))}

ShowDeps(s, n) ==
    {t \in tables : /\ Like(Spelling[t.schema], Literal(Escaped(Spelling[s])))
                    /\ Like(t.name, Literal(Escaped(n)))}

\* pg_stat_user_indexes has no index of the system's own schemas.
ShowIndexes(s, n) == {t \in ShowDeps(s, n) : t.schema \notin Internal}

\* generate_ddl escapes the names, and describe_table once more.
DdlColumns(s, n) == ColumnsOf(Described(s, Escaped(n)))

-----------------------------------------------------------------------------
Nothing == [name |-> None, pattern |-> <<>>, schema |-> None, table |-> <<>>]

Init ==
    /\ tables \in TableSets /\ asked = Nothing /\ alive = Backends
    /\ selected = {} /\ columns = <<>> /\ sections = {} /\ pairs = {}
    /\ said = None /\ failing = {}

\* \d lists only for a pattern; a plain name is described.
Lists(name, p) == name = "d" /\ p # <<>> => \E c \in {"*", "?", Many} : Contains(p, c)

\* \du shows the groups of each role as well.
List ==
    /\ asked = Nothing
    /\ \E l \in Listings : \E name \in l.names, p \in Patterns :
        /\ Lists(name, p)
        /\ asked' = [Nothing EXCEPT !.name = name, !.pattern = p]
        /\ selected' = Select(l, p)
        /\ pairs' = IF name = "du" THEN Members ELSE {}
        /\ columns' = <<>> /\ sections' = {} /\ said' = None
        /\ failing' = {} /\ UNCHANGED <<tables, alive>>

Ask(name, s, n) ==
    /\ asked = Nothing
    /\ asked' = [Nothing EXCEPT !.name = name, !.schema = s, !.table = n]
    /\ selected' = {} /\ said' = None /\ UNCHANGED <<tables, alive>>

\* \d TABLE, \introspect; \d+ TABLE.  A section whose query fails is left out
\* without a word.
Describe ==
    \E s \in Schemas, n \in Names, extended \in BOOLEAN :
        LET all == IF extended THEN Extended(SchemaOf(s), n)
                   ELSE Constraints(SchemaOf(s), n)
        IN  /\ Ask(IF extended THEN "d+" ELSE "introspect", s, n)
            /\ columns' = ColumnsOf(Described(SchemaOf(s), n)) /\ pairs' = {}
            /\ failing' \in SUBSET {x[1] : x \in all}
            /\ sections' = {x \in all : x[1] \notin failing'}

\* \ddl, and the commands that find a table by its name.
Ddl ==
    \E s \in Schemas, n \in Names :
        /\ Ask("ddl", s, n)
        /\ columns' = DdlColumns(SchemaOf(s), n)
        /\ pairs' = {} /\ sections' = {} /\ failing' = {}

Lookup(name, s, n) ==
    CASE name = "stats"      -> ShowColumnStats(s, n)
      [] name = "partitions" -> ShowPartitions(s, n)
      [] name = "sv"         -> ShowViewDefinition(s, n)
      [] name = "indexes"    -> ShowIndexes(s, n)
      [] name = "deps"       -> ShowDeps(s, n)

Find ==
    \E s \in Schemas, n \in Names,
       name \in {"stats", "partitions", "sv", "indexes", "deps"} :
        /\ Ask(name, s, n)
        /\ columns' = ColumnsOf(Lookup(name, SchemaOf(s), n))
        /\ pairs' = {} /\ sections' = {} /\ failing' = {}

\* \drg.  pg_auth_members has the group in roleid and the member in member;
\* the query shows the one as "Role" and the other as "Member of".
Memberships ==
    /\ Ask("drg", None, <<>>)
    /\ pairs' = {<<m[2], m[1]>> : m \in Members}
    /\ columns' = <<>> /\ sections' = {} /\ failing' = {}

\* \kill PID force.  The server answers a Boolean, which is shown as "true"
\* or "false"; the handler compares what is shown with "t".
Shown(b) == IF b THEN "true" ELSE "false"

Kill ==
    /\ asked = Nothing
    /\ \E pid \in Backends \cup {0} :
        /\ asked' = [Nothing EXCEPT !.name = "kill"]
        /\ alive' = alive \ {pid}
        /\ said' = IF Shown(pid \in alive) = "t" THEN "terminated" ELSE "not found"
        /\ selected' = {} /\ columns' = <<>> /\ sections' = {} /\ pairs' = {}
        /\ failing' = {} /\ UNCHANGED tables

\* The next prompt.
Again ==
    /\ asked # Nothing /\ asked' = Nothing
    /\ selected' = {} /\ columns' = <<>> /\ sections' = {} /\ pairs' = {}
    /\ said' = None /\ failing' = {} /\ UNCHANGED <<tables, alive>>

Next == Again \/ List \/ Describe \/ Ddl \/ Find \/ Memberships \/ Kill

Spec == Init /\ [][Next]_vars

-----------------------------------------------------------------------------
(***************************************************************************)
(* Properties.                                                             *)
(***************************************************************************)
\* A listing shows objects of one family; sections are of tables there are.
TypeOK ==
    /\ selected \subseteq Objects
    /\ asked.name \in UNION {l.names : l \in Listings} =>
            \A o \in selected : o.kind \in ListingOf(asked.name).kinds
    /\ \A x \in sections : \E t \in tables : x[2] = t.schema /\ x[3] = t.name
    /\ alive \subseteq Backends

\* What a pattern means: one stretch of the name for each character of the
\* pattern, of any length for a star and of length one for the others.
Glob(name, p) ==
    \E cut \in [0..Len(p) -> 0..Len(name)] :
        /\ cut[0] = 0 /\ cut[Len(p)] = Len(name)
        /\ \A k \in 1..Len(p) :
            IF p[k] = "*" THEN cut[k - 1] <= cut[k]
            ELSE /\ cut[k] = cut[k - 1] + 1
                 /\ Lower(p)[k] \in {"?", Lower(name)[cut[k]]}

Characters(p) == {p[k] : k \in DOMAIN p}
InSchema(p) == SubSeq(p, 1, Dot(p) - 1)
OfName(p) == SubSeq(p, Dot(p) + 1, Len(p))

FollowsSyntax(o, p) ==
    /\ Dot(p) > 0 => Glob(Spelling[o.schema], InSchema(p))
    /\ Glob(o.name, OfName(p))

\* "* matches anything, ? matches a single character, schema.name filters by
\* both schema and object name" (README.md): so it is for every listing built
\* with schema_pattern_filter, quotes in the pattern included, unless the
\* pattern holds a character that LIKE reads in its own way.
PatternsSelect ==
    asked.name \in UNION {l.names : l \in {k \in Listings : k.filter = "qualified"}}
    /\ asked.pattern # <<>> /\ Characters(asked.pattern) \cap {One, Many} = {} =>
        LET l == ListingOf(asked.name) IN
        selected = {o \in Objects : /\ o.kind \in l.kinds /\ o.schema \notin l.hidden
                                    /\ FollowsSyntax(o, asked.pattern)}

\* The same syntax, promised for the listings of that table in README.md.
\* TLC refutes it (README, section 7).
PatternSyntax ==
    asked.name \in {"dt", "dv", "di", "ds", "df", "du"}
    /\ asked.pattern # <<>> /\ Characters(asked.pattern) \cap {One, Many, "."} = {} =>
        LET l == ListingOf(asked.name) IN
        selected = {o \in Objects : /\ o.kind \in l.kinds /\ o.schema \notin l.hidden
                                    /\ FollowsSyntax(o, asked.pattern)}

\* The name of an object, typed as the pattern of any listing, finds the
\* object, with whatever quotes or wildcards it contains; a dot in it would be
\* read as the end of a schema by schema_pattern_filter.
NamesFindThemselves ==
    \A l \in {k \in Listings : asked.name \in k.names} : \A o \in Objects :
        (/\ o.kind \in l.kinds /\ o.schema \notin l.hidden /\ o.name = asked.pattern
         /\ l.filter = "qualified" => Dot(o.name) = 0)
            => o \in selected

\* Without a schema a table is described in whatever schema it is, and when
\* there is one table of that name, its columns are shown once and in order
\* (the comment in describe_table_sql: system views must be found too).
DescribeFindsTable ==
    asked.name \in {"introspect", "d+"} =>
        \A t \in tables :
            /\ t.name = asked.table /\ t.schema \notin Temporary
            /\ asked.schema \in {None, t.schema}
            => /\ IsInjective(columns)
               /\ Contains(columns, <<t.schema, t.name, 1>>)
               /\ {u \in tables : u.name = t.name} = {t} =>
                    columns = <<<<t.schema, t.name, 1>>, <<t.schema, t.name, 2>>>>

\* A name in lower case without quotes or LIKE characters.
Plain == asked.table # <<>> /\ Characters(asked.table) \cap {"A", One, Many, "'"} = {}

\* The names a text stands for when LIKE reads it.
StandsFor(text, name) ==
    Glob(name, [k \in DOMAIN text |-> CASE text[k] = One -> "?" [] text[k] = Many -> "*"
                                         [] OTHER -> text[k]])

\* The commands that find a table by name use four different rules.  For a
\* plain name each of them finds the table named, in public when no schema is;
\* \indexes only knows the tables of users.  And no other table, but for two
\* rules: without a schema (or with public) columns come from every table of
\* the name; and \indexes and \deps do not tell capital letters apart and take
\* a "_" or a "%" in the schema for what it means to LIKE.
LookupsAgree ==
    LET s     == SchemaOf(asked.schema)
        found == {t \in tables : Contains(columns, <<t.schema, t.name, 1>>)}
        exact == Exactly(s, asked.table)
    IN  Plain =>
            /\ {t \in exact : asked.name = "indexes" => t.schema \notin Internal} \subseteq found
            /\ \A t \in found \ exact :
                \/ /\ asked.name \in {"introspect", "d+", "ddl"} /\ s = "public"
                   /\ t.name = asked.table /\ t.schema \notin Temporary
                \/ /\ asked.name \in {"indexes", "deps"} /\ Lower(t.name) = asked.table
                   /\ StandsFor(Spelling[s], Spelling[t.schema])

\* The sections below a description of a plain name are those of the table in
\* the schema typed, in public without one, whatever tables the columns above
\* them came from: exactly those whose query did not fail.
SectionsMatch ==
    Plain /\ asked.name \in {"introspect", "d+"}
    /\ "A" \notin Characters(Spelling[SchemaOf(asked.schema)]) =>
        sections = {<<k, t.schema, t.name>> :
            k \in (IF asked.name = "introspect" THEN {"index", "check", "foreign_key"}
                   ELSE {"check", "foreign_key", "referenced_by", "trigger"}) \ failing,
            t \in Exactly(SchemaOf(asked.schema), asked.table)}

\* "\introspect TABLE: describe table columns, constraints, and indexes"
\* (help_text): when one table is described and no query fails, its indexes
\* and constraints are shown with it.
\* TLC refutes it (README, section 7).
DescriptionIsWhole ==
    asked.name = "introspect" /\ failing = {} /\ Len(columns) = 2 =>
        {x[1] : x \in sections} = {"index", "check", "foreign_key"}

\* "\ddl TABLE: show CREATE TABLE DDL for a table" (help_text): of one table.
\* TLC refutes it (README, section 7).
DdlOfOneTable ==
    asked.name = "ddl" => Len(columns) <= 2

\* \drg shows who belongs to whom as \du does.
\* TLC refutes it (README, section 7).
MembershipsAgree == asked.name \in {"drg", "du"} => pairs = Members

\* "Backend ... not found or permission denied" is only said when no process
\* was ended.
\* TLC refutes it (README, section 7).
KillTellsTruth == [][asked'.name = "kill" /\ alive' # alive => said' = "terminated"]_vars
=============================================================================
