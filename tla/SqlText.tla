------------------------------ MODULE SqlText ------------------------------
(***************************************************************************)
(* The text of SQL between the keyboard and the server.                    *)
(*                                                                         *)
(* Four hand-written scanners read the same characters: is_incomplete      *)
(* decides when the line editor hands a text on, split_statements cuts it  *)
(* into the statements that are sent, split_script cuts script files, and  *)
(* highlight_tokens colours the line on every key press. Between the first *)
(* and the second, substitute_variables rewrites the text. Nothing in the  *)
(* code makes them agree; this module types short texts and compares them. *)
(***************************************************************************)
EXTENDS SqlScanners

CONSTANTS Wide,         \* the characters that take two bytes in UTF-8
          Keyboards,    \* sets of pieces a user types or pastes
          MaxTyped,     \* bound: pieces and line breaks in one input
          Environments  \* session variables: functions from names to values

VARIABLES keys,     \* the keyboard in use, one of Keyboards
          buffer,   \* the lines already entered, joined by line breaks
          line,     \* the line being edited
          typed,    \* how many pieces and line breaks the input consists of
          painted,  \* what the highlighter made of the line
          sent      \* the statements of the text just handed to the server

vars == <<keys, buffer, line, typed, painted, sent>>

\* What the scanners test for, and what At gives at the end of a text: neither a
\* letter nor wider than a byte.
Marks == {"'", "\"", ";", "$", "-", "/", "*", "(", ")", ":", "\n", "end"}

ASSUME SqlTextAssumption ==
    /\ MaxTyped \in Nat
    /\ Letters \cap Marks = {} /\ Wide \cap Marks = {}
    /\ \A k \in Keyboards : \A piece \in k : piece \in Seq(STRING) /\ piece # <<>>
    /\ \A env \in Environments :
          /\ IsFiniteSet(DOMAIN env)
          /\ \A name \in DOMAIN env : name \in Seq(STRING) /\ env[name] \in Seq(STRING)

(***************************************************************************)
(* highlight_tokens, which sees one line and reads it token by token. Each *)
(* operator gives the position after the token that begins at i. The one   *)
(* for block comments steps over a closing mark without asking whether     *)
(* there is one: the slice then ends past the text, and slicing panics.    *)
(***************************************************************************)
BlockStop(t, i) ==
    LeastOf({k \in i + 2 .. Len(t) + 1 :
               k >= Len(t) \/ (t[k] = "*" /\ t[k + 1] = "/")}) + 2

QuoteStop(t, i) ==
    LET after[k \in i + 1 .. Len(t) + 1] ==
            IF k > Len(t) THEN k
            ELSE IF t[k] # "'" THEN after[k + 1]
            ELSE IF At(t, k + 1) = "'" THEN after[k + 2]
            ELSE k + 1
    IN  after[i + 1]

DollarStop(t, i) ==
    LET k == LeastOf({k \in i + 2 .. Len(t) + 1 :
                        k >= Len(t) \/ (t[k] = "$" /\ t[k + 1] = "$")})
    IN  IF k < Len(t) THEN k + 2 ELSE k

\* Mutant: an identifier ends before its closing quote, which opens another.
StopAfterShort(t, i, S) ==
    LeastOf({k \in i .. Len(t) : t[k] \in S} \cup {Len(t) + 1})

\* The position after the first character of S from i on, or the end.
StopAfter(t, i, S) ==
    LET found == {k \in i .. Len(t) : t[k] \in S}
    IN  IF found = {} THEN Len(t) + 1 ELSE LeastOf(found) + 1

StopBefore(t, i, S) ==
    LeastOf({k \in i .. Len(t) : t[k] \in S} \cup {Len(t) + 1})

Token(t, i) ==
    LET c == t[i]
        n == At(t, i + 1)
    IN  CASE c = "-" /\ n = "-" -> [kind |-> "line",  stop |-> StopBefore(t, i, {"\n"})]
          [] c = "/" /\ n = "*" -> [kind |-> "block", stop |-> BlockStop(t, i)]
          [] c = "'"            -> [kind |-> "quote", stop |-> QuoteStop(t, i)]
          [] c = "$" /\ n = "$" -> [kind |-> "dollar", stop |-> DollarStop(t, i)]
          [] c = "\""           -> [kind |-> "ident", stop |-> StopAfter(t, i + 1, {"\""})]
          [] c \in Letters      -> [kind |-> "word",  stop |-> TagEnd(t, i)]
          [] OTHER              -> [kind |-> "plain", stop |-> i + 1]

Highlight(t) ==
    LET paint(s, k) ==
            IF s.panicked \/ s.at > Len(t) THEN s
            ELSE LET token == Token(t, s.at)
                 IN  IF token.stop > Len(t) + 1 THEN [s EXCEPT !.panicked = TRUE]
                     ELSE [s EXCEPT !.at = token.stop, !.last = token.kind]
    IN  FoldLeft(paint, [at |-> 1, last |-> "plain", panicked |-> FALSE], t)

(***************************************************************************)
(* substitute_variables: one variable after the other is replaced in the   *)
(* whole text, its quoted forms first, longer names before shorter ones.   *)
(* Names of equal length come in the order of a hash map, so any order of  *)
(* theirs may happen.                                                      *)
(***************************************************************************)
\* Mutant: a value is put between quotes as it is.
LiteralUnescaped(value) == QuotedBy(value, "'")

Literal(value) == QuotedBy(Doubled(value, "'"), "'")

\* The forms a variable is referred to by, and what each becomes.
Forms(name, value) ==
    << <<<<":">> \o QuotedBy(name, "'"),  Literal(value)>>,
       <<<<":">> \o QuotedBy(name, "\""), QuotedBy(Doubled(value, "\""), "\"")>>,
       <<<<":">> \o name, value>> >>

\* Mutant: the variables are taken in any order, short names too.
OrdersUnsorted(env) == SetToSeqs(DOMAIN env)

Orders(env) == {o \in SetToSeqs(DOMAIN env) :
                  \A i, j \in DOMAIN o : i < j => Len(o[i]) >= Len(o[j])}

Substitute(t, env, order) ==
    FoldLeft(LAMBDA text, name :
               FoldLeft(LAMBDA u, form : Replace(u, form[1], form[2]),
                        text, Forms(name, env[name])),
             t, order)

(***************************************************************************)
(* format_db_error: the server counts characters from 1, the code takes    *)
(* the number for an offset in bytes when it looks for the line, and the   *)
(* difference to the start of that line for a column.                      *)
(***************************************************************************)
Offset(t, i) == (i - 1) + Cardinality({j \in 1 .. i - 1 : t[j] \in Wide})

\* Mutant: the loop stops one character late.
BreaksBeforeLate(t, pos) == {i \in DOMAIN t : t[i] = "\n" /\ Offset(t, i) <= pos}

BreaksBefore(t, pos) == {i \in DOMAIN t : t[i] = "\n" /\ Offset(t, i) < pos}

\* The position of the character the caret is printed under, or the one after
\* the end of the line shown.
Caret(t, position) ==
    LET pos    == position - 1
        breaks == BreaksBefore(t, pos)
        first  == IF breaks = {} THEN 1 ELSE (CHOOSE i \in breaks : \A j \in breaks : i >= j) + 1
        stop   == StopBefore(t, first, {"\n"})
        width  == Offset(t, stop) - Offset(t, first)
        col    == pos - Offset(t, first)
    IN  first + (IF col > width THEN width ELSE IF col < 0 THEN 0 ELSE col)

-----------------------------------------------------------------------------
\* What Enter makes of the buffer and the line.
Input == IF buffer = <<>> THEN line ELSE buffer \o <<"\n">> \o line

\* Mutant: empty statements are sent too.
BatchWithEmpty(t) == [i \in DOMAIN SplitStatements(t) |-> Trim(SplitStatements(t)[i])]

\* execute_batch: the statements of the substituted text, without empty ones.
Batch(t) ==
    FoldLeft(LAMBDA batch, statement :
               IF Trim(statement) = <<>> THEN batch ELSE Append(batch, Trim(statement)),
             <<>>, SplitStatements(t))

Blankline == Highlight(<<>>)

Init == /\ keys \in Keyboards
        /\ buffer = <<>> /\ line = <<>> /\ typed = 0
        /\ painted = Blankline /\ sent = <<>>

\* A key or a paste: the line is repainted, and a panic of the highlighter ends
\* the program.
Type(piece) ==
    /\ ~painted.panicked
    /\ typed < MaxTyped
    /\ line' = line \o piece
    /\ typed' = typed + 1
    /\ painted' = Highlight(line')
    /\ sent' = <<>>
    /\ UNCHANGED <<keys, buffer>>

\* Enter on a blank input: it is dropped.
EnterBlank ==
    /\ ~painted.panicked
    /\ Trim(Input) = <<>>
    /\ buffer' = <<>> /\ line' = <<>> /\ typed' = 0
    /\ painted' = Blankline /\ sent' = <<>>
    /\ UNCHANGED keys

\* Enter on a text that is not complete: the continuation prompt.
EnterMore ==
    /\ ~painted.panicked
    /\ typed < MaxTyped
    /\ Trim(Input) # <<>>
    /\ IsIncomplete(Trim(Input))
    /\ buffer' = Input
    /\ line' = <<>>
    /\ typed' = typed + 1
    /\ painted' = Blankline
    /\ sent' = <<>>
    /\ UNCHANGED keys

\* Enter on a complete text: variables are replaced and the statements sent.
EnterSend ==
    /\ ~painted.panicked
    /\ Trim(Input) # <<>>
    /\ ~IsIncomplete(Trim(Input))
    /\ \E env \in Environments : \E order \in Orders(env) :
         sent' = Batch(Substitute(Trim(Input), env, order))
    /\ buffer' = <<>> /\ line' = <<>> /\ typed' = 0
    /\ painted' = Blankline
    /\ UNCHANGED keys

\* Ctrl-C throws the input away.
CtrlC ==
    /\ ~painted.panicked
    /\ buffer' = <<>> /\ line' = <<>> /\ typed' = 0
    /\ painted' = Blankline /\ sent' = <<>>
    /\ UNCHANGED keys

Next == \/ \E piece \in keys : Type(piece)
        \/ EnterBlank
        \/ EnterMore
        \/ EnterSend
        \/ CtrlC

Spec == Init /\ [][Next]_vars

-----------------------------------------------------------------------------
Has(t, part) == \E i \in DOMAIN t : IsPrefix(part, SubSeq(t, i, Len(t)))

\* A closing tag that shares its first dollar sign with the opening one, such as
\* $$$ or $a$a$: the splitter closes the quote there, the editor does not.
SharesDollar(t) ==
    \E i \in DOMAIN t : /\ t[i] = "$"
                        /\ LET j == TagEnd(t, i)
                               k == TagEnd(t, j)
                           IN  /\ At(t, j) = "$"
                               /\ At(t, k) = "$"
                               /\ SubSeq(t, i, j) = SubSeq(t, j, k)

\* The input, the line and the result are texts of the right kind.
TypeOK ==
    /\ keys \in Keyboards
    /\ typed \in 0 .. MaxTyped
    /\ \A i \in DOMAIN sent : sent[i] # <<>> /\ Trim(sent[i]) = sent[i]
    /\ painted = Highlight(line)
    /\ Trim(buffer) # <<>> \/ buffer = <<>>

(***************************************************************************)
(* Two scanners, one text. Whatever is typed, the editor and the splitter  *)
(* end in the same kind of token, unless the text has a double quote (the  *)
(* splitter knows no identifiers) or a closing tag that shares a dollar    *)
(* sign with the opening one. So a text that is handed on is never cut in  *)
(* the middle of a literal. (query.rs:190-314 against query.rs:320-427)    *)
(***************************************************************************)
ScannersAgree ==
    \/ Has(Input, <<"\"">>)
    \/ SharesDollar(Input)
    \/ LET e == Scan(Completer, Input)
           s == Scan(Splitter, Input)
       IN  /\ e.mode = s.mode
           /\ e.done = s.done
           /\ ~IsIncomplete(Input) => s.mode \in {"code", "line"}

(***************************************************************************)
(* Cutting loses and repeats nothing: the statements put together again    *)
(* with their semicolons are the text, up to white space at its end, and   *)
(* what follows a cut is split as if it had been typed alone.              *)
(* (query.rs:190-314, and the batches the scripts and the prompt send)     *)
(***************************************************************************)
CutsAreTheText ==
    LET s     == Scan(Splitter, Input)
        glued == FlattenSeq([i \in DOMAIN s.done |-> s.done[i] \o <<";">>])
        rest  == SubSeq(Input, Len(glued) + 1, Len(Input))
    IN  /\ IsPrefix(glued, Input)
        /\ SplitStatements(Input) = s.done \o SplitStatements(rest)
        /\ Scan(Splitter, rest).done = <<>>

(***************************************************************************)
(* In a text of quotes, semicolons and letters only, a semicolon cuts if   *)
(* and only if the number of quotes before it is even: doubling a quote    *)
(* inside a literal makes no difference. (query.rs:233-247)                *)
(***************************************************************************)
CutsByParity ==
    ToSet(Input) \subseteq {"'", ";"} \cup Letters =>
    Len(Scan(Splitter, Input).done) =
      Cardinality({i \in DOMAIN Input :
                     /\ Input[i] = ";"
                     /\ Cardinality({j \in 1 .. i : Input[j] = "'"}) % 2 = 0})

(***************************************************************************)
(* What the editor is waiting for when Enter is pressed is what it shows:  *)
(* where it is inside a literal, an identifier or a comment, the last      *)
(* token of the line is painted as one. Only an open block comment may     *)
(* make the highlighter panic, and then nothing is painted. Texts with     *)
(* dollar signs (the highlighter knows $$ only) and with /*/ (a whole      *)
(* comment for the editor) are set apart.                                  *)
(* (highlighter.rs:350-463 against query.rs:320-427)                       *)
(***************************************************************************)
ColoursFollowScanner ==
    \/ buffer # <<>> \/ line = <<>>
    \/ Has(line, <<"$">>) \/ Has(line, <<"/", "*", "/">>)
    \/ LET s == Scan(Completer, line)
       IN  IF painted.panicked THEN s.mode = "block"
           ELSE s.mode \in {"quote", "ident", "line", "block"} => painted.last = s.mode

\* \set takes any word for a name; these are read as names in every form.
PlainNames(env) ==
    \A name \in DOMAIN env : name # <<>> /\ ToSet(name) \cap {":", "'", "\""} = {}

(***************************************************************************)
(* Values are data: if every reference in the text is the quoted form      *)
(* :'name', outside of any literal or comment, then the text has as many   *)
(* statements after the replacement as before, whatever quotes and         *)
(* semicolons the values hold. (vars.rs:16-32, query.rs:190-314)           *)
(***************************************************************************)
ValuesStayData ==
    \A env \in {e \in Environments : PlainNames(e)} :
      LET colons == {i \in DOMAIN Input : Input[i] = ":"}
          safe   == /\ ~Has(Input, <<"-", "-">>) /\ ~Has(Input, <<"/", "*">>)
                    /\ \A i \in colons :
                         /\ Scan(Splitter, SubSeq(Input, 1, i)).mode = "code"
                         /\ \E name \in DOMAIN env :
                              IsPrefix(<<":">> \o QuotedBy(name, "'"),
                                       SubSeq(Input, i, Len(Input)))
          plain  == \A name \in DOMAIN env : ~Has(env[name], <<":">>)
      IN  colons # {} /\ safe /\ plain =>
            \A order \in Orders(env) :
              Len(Scan(Splitter, Substitute(Input, env, order)).done)
                = Len(Scan(Splitter, Input).done)

\* The references that begin at i, each with what it becomes.
References(t, env, i) ==
    {f \in UNION {ToSet(Forms(n, env[n])) : n \in DOMAIN env} :
       IsPrefix(f[1], SubSeq(t, i, Len(t)))}

\* The text with every reference replaced once, from left to right, by the
\* longest name that fits.
OnePass(t, env) ==
    LET from[i \in 1 .. Len(t) + 1] ==
            IF i > Len(t) THEN <<>>
            ELSE IF References(t, env, i) = {} THEN <<t[i]>> \o from[i + 1]
            ELSE LET f == CHOOSE f \in References(t, env, i) :
                            \A g \in References(t, env, i) : Len(f[1]) >= Len(g[1])
                 IN  f[2] \o from[i + Len(f[1])]
    IN  from[1]

\* Every colon of the text begins a reference, and values hold no colon: one that
\* begins none could join a value into a new reference.
OnlyReferences(t, env) ==
    /\ \A name \in DOMAIN env : ~Has(env[name], <<":">>)
    /\ \A i \in DOMAIN t : t[i] = ":" => References(t, env, i) # {}

\* From one colon to the next goes the beginning of a longer name, as in :a:b
\* with a variable ab: what replaces the second reference can complete it.
Grows(t, env) ==
    \E i, j \in DOMAIN t : \E name \in DOMAIN env :
      /\ i < j /\ t[i] = ":" /\ t[j] = ":"
      /\ j - i <= Len(name) /\ SubSeq(t, i + 1, j - 1) = SubSeq(name, 1, j - i - 1)

(***************************************************************************)
(* Replacing one variable after the other gives what replacing all at once *)
(* would, in whatever order the map yields names of one length: longer     *)
(* names come first, so that none is read as a shorter one and a rest.     *)
(* (vars.rs:16-32)                                                         *)
(***************************************************************************)
SubstitutionIsSimultaneous ==
    Has(Input, <<":">>) =>
    \A env \in {e \in Environments : PlainNames(e)} :
      OnlyReferences(Input, env) /\ ~Grows(Input, env) =>
        \A order \in Orders(env) : Substitute(Input, env, order) = OnePass(Input, env)

(***************************************************************************)
(* The comment of substitute_variables says ":name becomes the raw value"  *)
(* (vars.rs:12). When the value holds a reference itself, what :name       *)
(* becomes depends on which of the two comes first in the hash map.        *)
(***************************************************************************)
NameBecomesValue ==
    \A env \in {e \in Environments : PlainNames(e)} :
      \A name \in DOMAIN env :
        Input = <<":">> \o name =>
          \A order \in Orders(env) : Substitute(Input, env, order) = env[name]

(***************************************************************************)
(* The caret under an error stands under the character the server counted  *)
(* to, unless a character of two bytes stands on an earlier line.          *)
(* (query.rs:431-459)                                                      *)
(***************************************************************************)
CaretPoints ==
    \A k \in DOMAIN sent : \A p \in DOMAIN sent[k] :
      LET t == sent[k]
      IN  \/ \E i \in 1 .. p - 1 : t[i] \in Wide /\ \E j \in i .. p - 1 : t[j] = "\n"
          \/ Caret(t, p) = p

(***************************************************************************)
(* The tests highlight_unclosed_double_quote_does_not_panic and            *)
(* highlight_unclosed_dollar_quote_does_not_panic (highlighter.rs:520-532) *)
(* say that pasting something incomplete must not panic; an open block     *)
(* comment does (highlighter.rs:374).                                      *)
(* TLC refutes it (README, section 7).                                     *)
(***************************************************************************)
HighlightNeverPanics == ~painted.panicked
=============================================================================
