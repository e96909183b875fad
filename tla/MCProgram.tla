----------------------------- MODULE MCProgram ------------------------------
(* Three families of inputs: who and where, ports with TLS and prompts, and *)
(* the text of a password in a URI; and every kind of task with every        *)
(* combination of the options it looks at.                                  *)
EXTENDS Program

NoUri == [host |-> None, port |-> None, user |-> None, database |-> None,
          password |-> NoText]

Plain ==
    [host |-> None, port |-> None, username |-> None, dbname |-> None,
     positional |-> None, uri |-> NoUri, intended |-> <<>>,
     PGHOST |-> None, PGPORT |-> None, PGUSER |-> None, PGDATABASE |-> None,
     USER |-> None, PGPASSWORD |-> None, PGSSLMODE |-> None,
     no_tls |-> FALSE, require_tls |-> FALSE, tls_ca |-> FALSE,
     password |-> FALSE, no_password |-> FALSE,
     upgrade |-> FALSE, list |-> FALSE, command |-> FALSE, file |-> FALSE]

Positionals ==
    {<<None, NoUri>>, <<"name", NoUri>>} \cup
    {<<"uri", [NoUri EXCEPT !.host = h, !.user = u, !.database = d, !.password = p]>> :
        h \in Maybe({"uri"}), u \in Maybe({"uri"}), d \in Maybe({"uri"}),
        p \in {NoText, <<"a">>}}

WhoAndWhere ==
    {[Plain EXCEPT !.host = h, !.username = u, !.dbname = d,
                   !.PGHOST = eh, !.PGUSER = eu, !.PGDATABASE = ed, !.USER = os,
                   !.PGPASSWORD = pw, !.positional = p[1], !.uri = p[2],
                   !.intended = <<"a">>] :
        h \in Maybe({"flag"}), u \in Maybe({"flag"}), d \in Maybe({"flag"}),
        eh \in Maybe({"env"}), eu \in Maybe({"env"}), ed \in Maybe({"env"}),
        os \in Maybe({"os"}), pw \in Maybe({"env"}), p \in Positionals}

PortsAndTls ==
    {[Plain EXCEPT !.port = p, !.PGPORT = ep, !.positional = "uri",
                   !.uri = [NoUri EXCEPT !.port = up, !.host = uh],
                   !.no_tls = n, !.require_tls = r, !.tls_ca = ca, !.PGSSLMODE = m] :
        p \in Maybe({"flag", "bad"}), ep \in Maybe({"env", "bad"}),
        up \in Maybe({"uri", "bad"}), uh \in {None, "bad"},
        n \in BOOLEAN, r \in BOOLEAN, ca \in BOOLEAN,
        m \in {None, "disable", "allow", "prefer", "require", "verify-ca",
               "verify-full", "bad"}}

\* Every combination of the modes, and every mode with every way to a password.
Modes ==
    {[Plain EXCEPT !.upgrade = up, !.list = l, !.command = c, !.file = f] :
        up \in BOOLEAN, l \in BOOLEAN, c \in BOOLEAN, f \in BOOLEAN} \cup
    {[Plain EXCEPT !.password = w, !.no_password = nw, !.PGPASSWORD = pw, ![m] = TRUE] :
        w \in BOOLEAN, nw \in BOOLEAN, pw \in Maybe({"env"}),
        m \in {"upgrade", "list", "command", "file"}}

\* A text with one way to write it.  The digits are those of an escape.
Written ==
    UNION {{<<t, w>> : w \in WaysToWrite(t)} :
        t \in UNION {[1..n -> {"a", "%", "2", "5"}] : n \in 0..3}}

Passwords ==
    {[Plain EXCEPT !.positional = "uri", !.intended = w[1],
                   !.uri = [NoUri EXCEPT !.user = "uri", !.password = w[2]]] :
        w \in Written}

MCInputs == WhoAndWhere \cup PortsAndTls \cup Modes \cup Passwords

Line(h, p, d, u) == [kind |-> "entry", host |-> h, port |-> p, database |-> d, user |-> u]

\* A comment, a line with too few fields, a line for one server and user, for
\* one port, and one for everything, in the orders that matter.
MCPgpass ==
    LET comment  == [Line("*", "*", "*", "*") EXCEPT !.kind = "comment"]
        short    == [comment EXCEPT !.kind = "short"]
        exact    == Line("env", "*", "*", "flag")
        fromUri  == Line("uri", "5432", "uri", "uri")
        onPort   == Line("*", "uri", "*", "*")
        byFlag   == Line("localhost", "flag", "*", "*")
        anything == Line("*", "*", "*", "*")
    IN  {<<>>, <<comment, fromUri, exact>>, <<exact, fromUri, anything>>,
         <<short, onPort, anything, exact>>, <<onPort, byFlag>>}

Task(kind, n, repeat, output, export, single) ==
    [kind |-> kind, n |-> n, repeat |-> repeat, output |-> output,
     export |-> export, single |-> single, lenient |-> {}]

\* Scripts with every part of them under \on_error continue.
MCTasks ==
    {Task("sql", n, r, o, e, FALSE) :
        n \in 0..3, r \in 0..4, o \in BOOLEAN, e \in BOOLEAN} \cup
    UNION {{[Task(k, n, 1, o, FALSE, s) EXCEPT !.lenient = l] :
        k \in {"script", "file"}, o \in BOOLEAN, s \in BOOLEAN, l \in SUBSET (1..n)} :
            n \in 0..3} \cup
    {Task(k, 1, 1, o, FALSE, FALSE) :
        k \in {"list", "answer", "source"}, o \in BOOLEAN} \cup
    {Task("extended", 2, 1, o, FALSE, FALSE) : o \in BOOLEAN} \cup
    {Task(k, 0, 1, o, FALSE, FALSE) : k \in {"text", "other"}, o \in BOOLEAN}
=============================================================================
