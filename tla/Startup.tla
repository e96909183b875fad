------------------------------ MODULE Startup -------------------------------
(***************************************************************************)
(* From the command line to a connection configuration: clap's parse       *)
(* (args.rs), ConnectionConfig::from_args and its helpers (config.rs), the *)
(* password prompt and the choice of a mode (app.rs, main.rs).             *)
(*                                                                         *)
(* The value of a setting is the name of the place it comes from, since    *)
(* nothing else about it matters to the resolution.  A password comes with *)
(* the line of the file it was read from, or with the text of the URI,     *)
(* since that is decoded.                                                  *)
(***************************************************************************)
EXTENDS Naturals, Sequences, FiniteSets, SequencesExt

CONSTANTS
    Inputs,      \* command lines with their environments
    Pgpass       \* contents of the pgpass file: sequences of lines

None == "none"
Maybe(S) == S \cup {None}

\* The text of a password as it stands in a URI; it may be empty.
Characters == {"a", "%", "1", "2", "3", "5", "6", "9", "A", "C"}
NoText == <<None>>
Text == Seq(Characters)

UriType ==
    [host : Maybe({"uri", "bad"}), port : Maybe({"uri", "bad"}), user : Maybe({"uri"}),
     database : Maybe({"uri"}), password : Text \cup {NoText}]

\* The flags, the positional argument (with the text its password was made
\* from), the environment, and the switches.
InputType ==
    [host : Maybe({"flag"}), port : Maybe({"flag", "bad"}), username : Maybe({"flag"}),
     dbname : Maybe({"flag"}),
     positional : Maybe({"uri", "name"}), uri : UriType, intended : Text,
     PGHOST : Maybe({"env"}), PGPORT : Maybe({"env", "bad"}), PGUSER : Maybe({"env"}),
     PGDATABASE : Maybe({"env"}), USER : Maybe({"os"}), PGPASSWORD : Maybe({"env"}),
     PGSSLMODE : Maybe({"disable", "allow", "prefer", "require", "verify-ca",
                        "verify-full", "bad"}),
     no_tls : BOOLEAN, require_tls : BOOLEAN, tls_ca : BOOLEAN,
     password : BOOLEAN, no_password : BOOLEAN,
     upgrade : BOOLEAN, list : BOOLEAN, command : BOOLEAN, file : BOOLEAN]

\* A line of the pgpass file is a comment, has too few fields, or is an entry.
LineType ==
    [kind : {"comment", "short", "entry"},
     host : STRING, port : STRING, database : STRING, user : STRING]

ASSUME InputAssumption == Inputs \subseteq InputType /\ Pgpass \subseteq Seq(LineType)

VARIABLES
    phase,       \* "start", "parsed", "resolved", "list", "command", "file",
                 \* "repl", "upgrade", or "usage" (exit 2), "failed" (exit 1)
    in,          \* what the user gave
    file,        \* the lines of the pgpass file
    args,        \* the parsed arguments: host, port, username, dbname
    cfg          \* ConnectionConfig

vars == <<phase, in, file, args, cfg>>

-----------------------------------------------------------------------------
\* Text in a URI is a sequence of bytes.  The letters used are hexadecimal
\* digits as well, so that escapes can be malformed or overlap.
HexPairs == [two_five |-> <<"2", "5">>, six_one |-> <<"6", "1">>,
             c_three |-> <<"C", "3">>, a_nine |-> <<"A", "9">>]

ByteOf(pair) ==
    CASE pair = HexPairs.two_five -> "%"
      [] pair = HexPairs.six_one  -> "a"
      [] pair = HexPairs.c_three  -> "byte C3"
      [] pair = HexPairs.a_nine   -> "byte A9"
      [] OTHER                    -> None

\* Mutant: an escape that ends the text is not decoded.
PercentDecodeShort(s) ==
    LET Decode[i \in 1..Len(s) + 1] ==
            IF i > Len(s) THEN <<>>
            ELSE IF /\ s[i] = "%" /\ i + 2 < Len(s)
                    /\ ByteOf(SubSeq(s, i + 1, i + 2)) # None
                 THEN <<ByteOf(SubSeq(s, i + 1, i + 2))>> \o Decode[i + 3]
                 ELSE <<s[i]>> \o Decode[i + 1]
    IN  Decode[1]

\* Bytes become characters one by one; an escape that is none stays as it is.
PercentDecode(s) ==
    LET Decode[i \in 1..Len(s) + 1] ==
            IF i > Len(s) THEN <<>>
            ELSE IF /\ s[i] = "%" /\ i + 2 <= Len(s)
                    /\ ByteOf(SubSeq(s, i + 1, i + 2)) # None
                 THEN <<ByteOf(SubSeq(s, i + 1, i + 2))>> \o Decode[i + 3]
                 ELSE <<s[i]>> \o Decode[i + 1]
    IN  Decode[1]

\* Passwords, and where they come from.
NoPassword == [from |-> None]
OfVariable == [from |-> "PGPASSWORD"]
Typed      == [from |-> "prompt"]
OfUri(text) == [from |-> "uri", text |-> text]
OfLine(k)   == [from |-> "pgpass", line |-> k]

-----------------------------------------------------------------------------
\* An argument that is not given is taken from its environment variable by
\* the parser itself (clap's `env`).
ArgOf(flag, variable) == IF flag # None THEN flag ELSE variable

Defaults ==
    [host |-> "localhost", port |-> "5432", user |-> "", database |-> "",
     password |-> NoPassword, tls |-> "prefer"]

UriOk(uri) == uri.host # "bad" /\ uri.port # "bad"

\* Mutant: a host that the URI leaves out is taken as given.
FromUriRaw(uri) ==
    [Defaults EXCEPT
        !.host = uri.host,
        !.port = IF uri.port = None THEN @ ELSE uri.port,
        !.user = IF uri.user = None THEN @ ELSE uri.user,
        !.database = IF uri.database = None THEN @ ELSE uri.database,
        !.password = IF uri.password = NoText THEN @
                     ELSE OfUri(PercentDecode(uri.password))]

FromUri(uri) ==
    [Defaults EXCEPT
        !.host = IF uri.host = None THEN @ ELSE uri.host,
        !.port = IF uri.port = None THEN @ ELSE uri.port,
        !.user = IF uri.user = None THEN @ ELSE uri.user,
        !.database = IF uri.database = None THEN @ ELSE uri.database,
        !.password = IF uri.password = NoText THEN @
                     ELSE OfUri(PercentDecode(uri.password))]

\* What differs from the defaults wins.
Merge(base, other) ==
    [f \in DOMAIN base |->
        IF f = "tls" \/ other[f] = Defaults[f] THEN base[f] ELSE other[f]]

Positional(i) ==
    CASE i.positional = "uri"  -> Merge(Defaults, FromUri(i.uri))
      [] i.positional = "name" -> [Defaults EXCEPT !.database = "positional"]
      [] OTHER                 -> Defaults

UriSuppliesUser(i) == i.positional = "uri" /\ i.uri.user # None

\* Mutant: a user name in the URI wins over a flag as well.
UserOfUriFirst(a, i) ==
    LET base == Positional(i).user
    IN  IF UriSuppliesUser(i) THEN base
        ELSE IF a.username # None THEN a.username
        ELSE IF i.PGUSER # None THEN i.PGUSER
        ELSE IF i.USER # None THEN i.USER ELSE base

UserOf(a, i) ==
    LET base == Positional(i).user
    IN  IF a.username # None THEN a.username
        ELSE IF UriSuppliesUser(i) THEN base
        ELSE IF i.PGUSER # None THEN i.PGUSER
        ELSE IF i.USER # None THEN i.USER ELSE base

DatabaseOf(a, i) ==
    IF a.dbname # None THEN a.dbname
    ELSE IF i.positional # None THEN Positional(i).database
    ELSE IF i.PGDATABASE # None THEN i.PGDATABASE
    ELSE UserOf(a, i)

HostOf(a, i) == IF a.host # None THEN a.host ELSE Positional(i).host
PortOf(a, i) == IF a.port # None THEN a.port ELSE Positional(i).port

\* The settings without password and TLS mode.
Where(a, i) ==
    [Positional(i) EXCEPT !.host = HostOf(a, i), !.port = PortOf(a, i),
                          !.user = UserOf(a, i), !.database = DatabaseOf(a, i)]

-----------------------------------------------------------------------------
Fields == {"host", "port", "database", "user"}

\* Mutant: the port is not compared.
MatchesAnyPort(line, c) ==
    /\ line.kind = "entry"
    /\ \A f \in Fields \ {"port"} : line[f] \in {"*", c[f]}

Matches(line, c) ==
    /\ line.kind = "entry"
    /\ \A f \in Fields : line[f] \in {"*", c[f]}

PgpassLine(lines, c) == SelectInSeq(lines, LAMBDA line : Matches(line, c))

ReadPgpass(lines, c) ==
    LET k == PgpassLine(lines, c) IN IF k = 0 THEN NoPassword ELSE OfLine(k)

\* Mutant: the password file is searched with the settings of the positional
\* argument, before flags and environment are applied.
PasswordOfEarly(a, i, lines) ==
    IF i.PGPASSWORD # None THEN OfVariable
    ELSE IF Positional(i).password # NoPassword THEN Positional(i).password
    ELSE ReadPgpass(lines, Positional(i))

PasswordOf(a, i, lines) ==
    IF i.PGPASSWORD # None THEN OfVariable
    ELSE IF Positional(i).password # NoPassword THEN Positional(i).password
    ELSE ReadPgpass(lines, Where(a, i))

\* Mutant: PGSSLMODE is read although a flag decides.
TlsModeVariableFirst(i) ==
    CASE i.PGSSLMODE \in {"disable", "prefer", "require", "verify-full"} -> i.PGSSLMODE
      [] i.PGSSLMODE = "allow"     -> "prefer"
      [] i.PGSSLMODE = "verify-ca" -> "verify-full"
      [] i.PGSSLMODE = "bad"       -> "bad"
      [] i.no_tls                  -> "disable"
      [] i.require_tls             -> "require"
      [] i.tls_ca                  -> "verify-full"
      [] OTHER                     -> "prefer"

ResolveTlsMode(i) ==
    CASE i.no_tls -> "disable"
      [] ~i.no_tls /\ i.require_tls -> "require"
      [] ~i.no_tls /\ ~i.require_tls /\ i.tls_ca -> "verify-full"
      [] OTHER ->
            CASE i.PGSSLMODE \in {None, "allow"} -> "prefer"
              [] i.PGSSLMODE = "verify-ca" -> "verify-full"
              [] OTHER -> i.PGSSLMODE

-----------------------------------------------------------------------------
NoArgs == [host |-> None, port |-> None, username |-> None, dbname |-> None]

Init ==
    /\ phase = "start" /\ in \in Inputs /\ file \in Pgpass
    /\ args = NoArgs /\ cfg = Defaults

\* CliArgs::parse: a port that is not a number ends the program.
Parse ==
    /\ phase = "start"
    /\ args' = [host     |-> ArgOf(in.host, in.PGHOST),
                port     |-> ArgOf(in.port, in.PGPORT),
                username |-> ArgOf(in.username, in.PGUSER),
                dbname   |-> ArgOf(in.dbname, in.PGDATABASE)]
    /\ phase' = IF args'.port = "bad" THEN "usage"
                ELSE IF in.upgrade THEN "upgrade" ELSE "parsed"
    /\ UNCHANGED <<in, file, cfg>>

\* from_args
FromArgs ==
    /\ phase = "parsed"
    /\ in.positional = "uri" => UriOk(in.uri)
    /\ ResolveTlsMode(in) # "bad"
    /\ cfg' = [Where(args, in) EXCEPT !.password = PasswordOf(args, in, file),
                                      !.tls = ResolveTlsMode(in)]
    /\ phase' = "resolved"
    /\ UNCHANGED <<in, file, args>>

FromArgsFails ==
    /\ phase = "parsed"
    /\ \/ in.positional = "uri" /\ ~UriOk(in.uri)
       \/ ResolveTlsMode(in) = "bad"
    /\ phase' = "failed"
    /\ UNCHANGED <<in, file, args, cfg>>

MustPrompt == cfg.password = NoPassword /\ ~in.no_password /\ in.password

\* The mode, in the order run tries them.
Mode == IF in.list THEN "list" ELSE IF in.command THEN "command"
        ELSE IF in.file THEN "file" ELSE "repl"

Prompt ==
    /\ phase = "resolved" /\ MustPrompt
    /\ \/ cfg' = [cfg EXCEPT !.password = Typed] /\ phase' = Mode
       \/ phase' = "failed" /\ UNCHANGED cfg
    /\ UNCHANGED <<in, file, args>>

Proceed ==
    /\ phase = "resolved" /\ ~MustPrompt
    /\ phase' = Mode
    /\ UNCHANGED <<in, file, args, cfg>>

Next == Parse \/ FromArgs \/ FromArgsFails \/ Prompt \/ Proceed

Spec == Init /\ [][Next]_vars

-----------------------------------------------------------------------------
Ready == phase \in {"resolved", "list", "command", "file", "repl"}

\* Every setting is one of the values its sources can give.
TypeOK ==
    /\ phase \in {"start", "parsed", "resolved", "list", "command", "file",
                  "repl", "upgrade", "usage", "failed"}
    /\ cfg.host \in {"localhost", "flag", "env", "uri"}
    /\ cfg.port \in {"5432", "flag", "env", "uri"}
    /\ cfg.user \in {"", "flag", "env", "uri", "os"}
    /\ cfg.database \in {"", "flag", "env", "uri", "positional", "os"}
    /\ cfg.tls \in {"disable", "prefer", "require", "verify-full"}

\* The first of a list of sources that gives a value.
FirstGiven(sources) ==
    LET Silent(k) == \A j \in 1..k : sources[j] = None
    IN  sources[CHOOSE k \in DOMAIN sources : sources[k] # None /\ Silent(k - 1)]

InUri(i, f) == IF i.positional = "uri" THEN i.uri[f] ELSE None

\* The order listed above from_args (config.rs:88-92: flags, environment, URI,
\* defaults) is the order in which host, port, user and database are really
\* taken, for every combination given: the parser, which fills an absent flag
\* from the environment, and from_args, which lets a URI win over the
\* environment, together come to it.  A database given by position counts like
\* one in a URI.
Precedence ==
    Ready =>
        /\ cfg.host = FirstGiven(<<in.host, in.PGHOST, InUri(in, "host"), "localhost">>)
        /\ cfg.port = FirstGiven(<<in.port, in.PGPORT, InUri(in, "port"), "5432">>)
        /\ cfg.user = FirstGiven(<<in.username, in.PGUSER, InUri(in, "user"), in.USER, "">>)
        /\ \/ cfg.database = FirstGiven(<<in.dbname, in.PGDATABASE,
                    InUri(in, "database"),
                    IF in.positional = "name" THEN "positional" ELSE None, cfg.user>>)
           \/ in.positional = "uri" /\ in.uri.database = None

\* The comments inside from_args (config.rs:102, 131) say the contrary: the
\* environment is applied only to what neither a flag nor the URI has set.
\* TLC refutes it (README, section 7).
UriBeforeEnvironment ==
    Ready /\ in.positional = "uri" =>
        /\ in.host = None /\ in.uri.host # None => cfg.host = in.uri.host
        /\ in.username = None /\ in.uri.user # None => cfg.user = in.uri.user

\* An entry of the password file that speaks of a connection: server, port,
\* database and user are each what is connected to, or left open by a star.
MeantFor(line, c) ==
    /\ line.kind = "entry"
    /\ line.host = c.host \/ line.host = "*"
    /\ line.port = c.port \/ line.port = "*"
    /\ line.database = c.database \/ line.database = "*"
    /\ line.user = c.user \/ line.user = "*"

\* A password from the password file is the one of the first line that is
\* meant for the server, port, database and user really connected to, never of
\* the one the positional argument alone describes; and the file is only used
\* when neither PGPASSWORD nor the URI gives a password.  There is no password
\* at all only if no line is meant for the connection.
PasswordFitsTarget ==
    Ready =>
        /\ \A k \in DOMAIN file : cfg.password = OfLine(k) =>
              /\ MeantFor(file[k], cfg)
              /\ \A j \in 1..k - 1 : ~MeantFor(file[j], cfg)
              /\ in.PGPASSWORD = None
              /\ in.positional = "uri" => in.uri.password = NoText
        /\ cfg.password = NoPassword => \A k \in DOMAIN file : ~MeantFor(file[k], cfg)

\* How a character may be written in a URI: the percent sign escaped, a letter
\* as it is or escaped.
Encodings(c) ==
    CASE c = "%" -> {<<"%", "2", "5">>}
      [] c = "a" -> {<<"a">>, <<"%", "6", "1">>}
      [] OTHER   -> {<<c>>}

\* The ways to write a text.
WaysToWrite(text) ==
    LET Pieces == {p \in [DOMAIN text -> UNION {Encodings(text[k]) : k \in DOMAIN text}] :
                      \A k \in DOMAIN text : p[k] \in Encodings(text[k])}
    IN  {FlattenSeq(p) : p \in Pieces}

\* An ASCII password written into the URI with percent escapes is the
\* password that is used, wherever in it the escapes are; what was decoded
\* once is not decoded again.
UriPasswordReadsBack ==
    (/\ Ready /\ in.PGPASSWORD = None
     /\ in.positional = "uri" /\ in.uri.password \in WaysToWrite(in.intended))
        => cfg.password = OfUri(in.intended)

\* No environment variable weakens or changes what a TLS flag asks for, and
\* a mode nobody knows stops the program instead of being ignored, unless a
\* flag has already decided.
TlsFlagsDecide ==
    /\ Ready /\ in.no_tls => cfg.tls = "disable"
    /\ Ready /\ in.require_tls /\ ~in.no_tls => cfg.tls = "require"
    /\ Ready /\ in.tls_ca /\ ~in.require_tls /\ ~in.no_tls => cfg.tls = "verify-full"
    /\ Ready /\ in.PGSSLMODE = "bad" => in.no_tls \/ in.require_tls \/ in.tls_ca

\* The option table of README.md: the database defaults to $PGDATABASE or the
\* user name.
\* TLC refutes it (README, section 7).
DatabaseDefaultsToUser ==
    Ready /\ cfg.user # "" => cfg.database # ""
=============================================================================
