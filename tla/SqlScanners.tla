---------------------------- MODULE SqlScanners ----------------------------
(***************************************************************************)
(* The scanners that read SQL character by character: split_statements,    *)
(* is_incomplete and split_script. A text is a sequence of one-character   *)
(* strings. Words, white space other than a line break, and every          *)
(* character no scanner tests are abstracted to Letters.                   *)
(***************************************************************************)
EXTENDS Integers, Sequences, FiniteSets, SequencesExt

CONSTANT Letters    \* the characters a word or a dollar tag is made of

At(t, i) == IF i \in DOMAIN t THEN t[i] ELSE "end"
LeastOf(S) == CHOOSE n \in S : \A m \in S : n <= m
Blank == {"\n"}

\* str::trim, over the white space this model has.
Trim(t) ==
    LET solid == {i \in DOMAIN t : t[i] \notin Blank}
    IN  IF solid = {} THEN <<>>
        ELSE SubSeq(t, LeastOf(solid), CHOOSE n \in solid : \A m \in solid : n >= m)

(***************************************************************************)
(* The three statement scanners are copies of one loop with three          *)
(* differences, collected in a dialect: whether a double quote opens an    *)
(* identifier, whether dollar quotes are known, and whether the test for   *)
(* the closing tag looks at the whole statement (with the opening tag in   *)
(* it) or at the body only.                                                *)
(***************************************************************************)
Splitter  == [idents |-> FALSE, dollars |-> TRUE,  whole |-> TRUE]
Completer == [idents |-> TRUE,  dollars |-> TRUE,  whole |-> FALSE]
Scripter  == [idents |-> FALSE, dollars |-> FALSE, whole |-> FALSE]

\* The state of a scanner: where it reads, in what kind of token, the tag of an
\* open dollar quote and where the text tested for it begins, where the current
\* statement begins, the statements cut off, the parentheses open.
Scanner == [at |-> 1, mode |-> "code", tag |-> <<>>, body |-> 1, start |-> 1,
            done |-> <<>>, depth |-> 0]

Enter(s, mode) == [s EXCEPT !.mode = mode, !.at = @ + 1]
Leave(s, n) == [s EXCEPT !.mode = "code", !.at = @ + n]
Stay(s, n) == [s EXCEPT !.at = @ + n]

\* Where the letters after a dollar sign at i stop.
TagEnd(t, i) == LeastOf({j \in i + 1 .. Len(t) + 1 : At(t, j) \notin Letters})

\* $tag$ opens a dollar quote; a dollar sign followed by anything else, or by
\* letters without a second dollar sign, is text.
Dollar(d, t, s) ==
    LET j   == TagEnd(t, s.at)
        tag == SubSeq(t, s.at + 1, j - 1)
    IN  IF At(t, j) = "$"
        THEN [s EXCEPT !.mode = "dollar", !.tag = tag, !.at = j + 1,
                       !.body = IF d.whole THEN s.start ELSE j + 1]
        ELSE [s EXCEPT !.at = j]

InDollar(t, s) ==
    IF IsSuffix(<<"$">> \o s.tag \o <<"$">>, SubSeq(t, s.body, s.at))
    THEN Leave(s, 1)
    ELSE Stay(s, 1)

\* Mutant: a doubled quote is skipped but ends the literal all the same.
InQuoteNoEscape(t, s) ==
    IF t[s.at] # "'" THEN Stay(s, 1)
    ELSE IF At(t, s.at + 1) = "'" THEN Leave(s, 2)
    ELSE Leave(s, 1)

InQuote(t, s) ==
    IF t[s.at] # "'" THEN Stay(s, 1)
    ELSE IF At(t, s.at + 1) = "'" THEN Stay(s, 2)
    ELSE Leave(s, 1)

InBlock(t, s) ==
    IF t[s.at] = "/" /\ t[s.at - 1] = "*" THEN Leave(s, 1) ELSE Stay(s, 1)

\* Mutant: cutting at a semicolon forgets to clear what was collected.
CutKeepsText(t, s) == [s EXCEPT !.done = Append(@, SubSeq(t, s.start, s.at - 1)), !.at = @ + 1]

Cut(t, s) == [s EXCEPT !.done = Append(@, SubSeq(t, s.start, s.at - 1)),
                       !.at = @ + 1, !.start = s.at + 1]

InCode(d, t, s) ==
    LET c == t[s.at]
        n == At(t, s.at + 1)
    IN  CASE c = "-" /\ n = "-"        -> Enter(s, "line")
          [] c = "/" /\ n = "*"        -> Enter(s, "block")
          [] c = "'"                   -> Enter(s, "quote")
          [] c = "\"" /\ d.idents      -> Enter(s, "ident")
          [] c = "$" /\ d.dollars      -> Dollar(d, t, s)
          [] c = ";"                   -> Cut(t, s)
          [] c = "("                   -> [Stay(s, 1) EXCEPT !.depth = @ + 1]
          [] c = ")"                   -> [Stay(s, 1) EXCEPT !.depth = @ - 1]
          [] OTHER                     -> Stay(s, 1)

Step(d, t, s) ==
    CASE s.mode = "dollar" -> InDollar(t, s)
      [] s.mode = "line"   -> IF t[s.at] = "\n" THEN Leave(s, 1) ELSE Stay(s, 1)
      [] s.mode = "block"  -> InBlock(t, s)
      [] s.mode = "quote"  -> InQuote(t, s)
      [] s.mode = "ident"  -> IF t[s.at] = "\"" THEN Leave(s, 1) ELSE Stay(s, 1)
      [] OTHER             -> InCode(d, t, s)

Scan(d, t) ==
    FoldLeft(LAMBDA s, k : IF s.at > Len(t) THEN s ELSE Step(d, t, s), Scanner, t)

\* The statements of a text, as they are cut, and the trimmed rest.
Cuts(d, t) ==
    LET s    == Scan(d, t)
        rest == Trim(SubSeq(t, s.start, Len(t)))
    IN  IF rest = <<>> THEN s.done ELSE Append(s.done, rest)

SplitStatements(t) == Cuts(Splitter, t)
SplitScript(t) == Cuts(Scripter, t)

\* Mutant: an open dollar quote does not keep the editor waiting.
IsIncompleteForgetsDollar(t) ==
    LET s == Scan(Completer, t)
    IN  s.mode \in {"quote", "ident", "block"} \/ s.depth > 0 \/ s.done = <<>>

\* Whether the editor shows the continuation prompt: an open literal, comment or
\* parenthesis, or no semicolon outside of them. An open line comment is closed
\* by the line break the user just typed.
IsIncomplete(t) ==
    LET s == Scan(Completer, t)
    IN  s.mode \in {"quote", "ident", "block", "dollar"} \/ s.depth > 0 \/ s.done = <<>>

\* str::replace.
Replace(t, old, new) ==
    LET from[i \in 1 .. Len(t) + 1] ==
            IF i > Len(t) THEN <<>>
            ELSE IF i + Len(old) <= Len(t) + 1 /\ SubSeq(t, i, i + Len(old) - 1) = old
                 THEN new \o from[i + Len(old)]
            ELSE <<t[i]>> \o from[i + 1]
    IN  from[1]

\* A quote character doubled; a text between two of them.
Doubled(t, q) == Replace(t, <<q>>, <<q, q>>)
QuotedBy(t, q) == <<q>> \o t \o <<q>>
=============================================================================
