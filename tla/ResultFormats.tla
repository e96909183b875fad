--------------------------- MODULE ResultFormats ---------------------------
(***************************************************************************)
(* What becomes of the rows of a result: collected one by one as they      *)
(* arrive, then printed in the format of the session or written to a file. *)
(* Every format is given as the text it produces, and the properties read  *)
(* that text back the way its reader would (the server's COPY and its SQL  *)
(* parser, a browser, a Markdown or LaTeX processor).                      *)
(*                                                                         *)
(* Texts are sequences of one-character strings, as in SqlScanners; a tag, *)
(* a keyword or a control word of an output language is one element.       *)
(***************************************************************************)
EXTENDS SqlScanners

CONSTANTS Shapes,   \* the results there are: their columns, cells and size
          Options,  \* the display settings in use
          Formats   \* the formats to print in

VARIABLES shape,    \* what is selected: [columns, cells, rows]
          options,  \* the display settings while it runs
          rows,     \* the rows received
          row,      \* the cells of the row being converted
          out       \* what was printed last: [format, text, lines]

vars == <<shape, options, rows, row, out>>

ResultFormatsAssumption ==
    /\ \A s \in Shapes :
         /\ Len(s.columns) > 0 /\ s.cells # {} /\ s.rows \in Nat
         /\ \A cell \in s.cells : \A c \in ToSet(cell.text) : c \notin {"$", ":"}
    /\ \A o \in Options : o.border \in 0 .. 2 /\ o.width \in Nat

Null == [kind |-> "null", text |-> <<>>]
Numeric(cell) == cell.kind = "number"

\* The sequences put one after the other, with a separator between them.
Join(texts, separator) ==
    FlattenSeq([i \in DOMAIN texts |->
                  IF i = 1 THEN texts[i] ELSE separator \o texts[i]])

Line(texts, separator) == Join(texts, separator) \o <<"\n">>
Each(r, Op(_)) == [i \in DOMAIN r |-> Op(r[i])]
Lines(rs, Op(_)) == FlattenSeq([i \in DOMAIN rs |-> Op(rs[i])])

-----------------------------------------------------------------------------
\* Texts with every character of a table replaced, one character after the
\* other over the whole text, as chained calls of str::replace do.
Escape(t, table) ==
    FoldLeft(LAMBDA text, entry : Replace(text, <<entry[1]>>, entry[2]), t, table)

\* Mutant: the ampersands are escaped last, those of the entities with them.
HtmlTableLast == << <<"<", <<"&", "lt;">>>>, <<">", <<"&", "gt;">>>>,
                    <<"\"", <<"&", "quot;">>>>, <<"&", <<"&", "amp;">>>> >>

HtmlTable == << <<"&", <<"&", "amp;">>>>, <<"<", <<"&", "lt;">>>>,
                <<">", <<"&", "gt;">>>>, <<"\"", <<"&", "quot;">>>> >>

\* The backslash comes first, so the braces of its replacement are escaped by
\* the entries that follow.
LatexTable == << <<"\\", <<"\\", "textbackslash", "{", "}">>>>,
                 <<"&", <<"\\", "&">>>>, <<"_", <<"\\", "_">>>>,
                 <<"{", <<"\\", "{">>>>, <<"}", <<"\\", "}">>>> >>

\* Mutant: the backslash is not escaped.
CopyTableNoBackslash == << <<"\t", <<"\\", "t">>>>, <<"\n", <<"\\", "n">>>>,
                           <<"\r", <<"\\", "r">>>> >>

CopyTable == << <<"\\", <<"\\", "\\">>>>, <<"\t", <<"\\", "t">>>>,
                <<"\n", <<"\\", "n">>>>, <<"\r", <<"\\", "r">>>> >>

MarkdownTable == << <<"|", <<"\\", "|">>>>, <<"\n", <<"<br>">>>> >>

\* tsv, html and unaligned test for an empty text, not for NULL.
ShownIfEmpty(o, cell) == IF cell.text = <<>> THEN o.null ELSE cell.text

\* Mutant: NULL is shown as the empty text it converts to.
ShownIfNullEmpty(o, cell) == cell.text

\* markdown, latex, asciidoc and the table show NULL, and only NULL, as set.
ShownIfNull(o, cell) == IF cell.kind = "null" THEN o.null ELSE cell.text

Header(o, line) == IF o.tuples_only THEN <<>> ELSE line

Separated(o, columns, rs, separator) ==
    Header(o, Line(columns, separator)) \o
    Lines(rs, LAMBDA r : Line(Each(r, LAMBDA c : ShownIfEmpty(o, c)), separator))

HtmlRow(tag, texts) ==
    <<"<tr>">> \o
    FlattenSeq(Each(texts, LAMBDA t : <<tag>> \o Escape(t, HtmlTable) \o <<"</td>">>))
    \o <<"</tr>">>

Html(o, columns, rs) ==
    <<"<table>">> \o Header(o, HtmlRow("<th>", columns)) \o
    Lines(rs, LAMBDA r : HtmlRow("<td>", Each(r, LAMBDA c : ShownIfEmpty(o, c))))
    \o <<"</table>">>

MarkdownCell(o, cell) ==
    IF cell.kind = "null" THEN o.null ELSE Escape(cell.text, MarkdownTable)

MarkdownRow(texts) ==
    <<"|">> \o FlattenSeq(Each(texts, LAMBDA t : <<" ">> \o t \o <<" ", "|">>)) \o <<"\n">>

Markdown(o, columns, rs) ==
    Header(o, MarkdownRow(columns) \o MarkdownRow(Each(columns, LAMBDA c : <<"---">>))) \o
    Lines(rs, LAMBDA r : MarkdownRow(Each(r, LAMBDA c : MarkdownCell(o, c))))

LatexRow(texts) == Join(Each(texts, LAMBDA t : Escape(t, LatexTable)), <<"&">>) \o <<"\\\\">>

Latex(o, columns, rs) ==
    <<"\\begin">> \o Header(o, LatexRow(columns)) \o
    Lines(rs, LAMBDA r : LatexRow(Each(r, LAMBDA c : ShownIfNull(o, c))))
    \o <<"\\end">>

Asciidoc(o, columns, rs) ==
    <<"|===">> \o Header(o, Lines(columns, LAMBDA c : <<"| ">> \o c) \o <<"\n">>) \o
    Lines(rs, LAMBDA r : FlattenSeq(Each(r, LAMBDA c :
                           <<"| ">> \o ShownIfNull(o, c) \o <<"\n">>)) \o <<"\n">>)
    \o <<"|===">>

-----------------------------------------------------------------------------
\* The exporters. The csv library puts a field between quotes when it holds a
\* separator, a quote or a line break, or is alone in its record and empty.
CsvField(t, alone) ==
    IF (\E i \in DOMAIN t : t[i] \in {",", "\"", "\n", "\r"}) \/ (alone /\ t = <<>>)
    THEN QuotedBy(Doubled(t, "\""), "\"")
    ELSE t

CsvRecord(texts) == Line(Each(texts, LAMBDA t : CsvField(t, Len(texts) = 1)), <<",">>)

Csv(columns, rs) ==
    CsvRecord(columns) \o Lines(rs, LAMBDA r : CsvRecord(Each(r, LAMBDA c : c.text)))

\* A row as an object: of two columns with one name the later one stays.
JsonObject(columns, r) ==
    [name \in ToSet(columns) |->
       r[CHOOSE i \in DOMAIN r : columns[i] = name /\
           \A j \in DOMAIN r : columns[j] = name => j <= i]]

\* Mutant: the quotes in a text are not doubled.
SqlLiteralRaw(cell) ==
    CASE cell.kind = "null" -> <<"NULL">>
      [] cell.kind \in {"number", "bool"} -> cell.text
      [] OTHER -> QuotedBy(cell.text, "'")

SqlLiteral(cell) ==
    CASE cell.kind = "null" -> <<"NULL">>
      [] cell.kind \in {"number", "bool"} -> cell.text
      [] OTHER -> QuotedBy(Doubled(cell.text, "'"), "'")

\* One INSERT statement for every row; its names are not quoted.
InsertOf(columns, r) ==
    <<"INSERT">> \o Join(columns, <<",">>) \o <<"VALUES">> \o
    Join(Each(r, SqlLiteral), <<",">>) \o <<")", ";", "\n">>

Insert(columns, rs) == Lines(rs, LAMBDA r : InsertOf(columns, r))

CopyLiteral(cell) ==
    IF cell.kind = "null" THEN <<"\\", "N">> ELSE Escape(cell.text, CopyTable)

Copy(columns, rs) ==
    <<"COPY", "\n">> \o Lines(rs, LAMBDA r : Line(Each(r, CopyLiteral), <<"\t">>))
    \o <<"\\.", "\n">>

-----------------------------------------------------------------------------
\* The aligned table, as the sequence of its lines.
Fill(c, n) == [k \in 1 .. n |-> c]
AtLeast0(n) == IF n < 0 THEN 0 ELSE n
Largest(S) == CHOOSE n \in S : \A m \in S : n >= m
Digits == {"0", "1", "2", "3", "4", "5", "6", "7", "8", "9"}

\* Mutant: the groups of three are counted from the left.
GroupedFromLeft(digits) ==
    FlattenSeq([i \in DOMAIN digits |->
                  IF i > 1 /\ (i - 1) % 3 = 0 THEN <<",", digits[i]>> ELSE <<digits[i]>>])

Grouped(digits) ==
    FlattenSeq([i \in DOMAIN digits |->
                  IF i > 1 /\ (Len(digits) - i + 1) % 3 = 0 THEN <<",", digits[i]>>
                  ELSE <<digits[i]>>])

\* apply_numeric_locale: a sign, digits in groups, the fraction as it is; any
\* other text (NaN, an exponent) stays.
WithCommas(t) ==
    LET dots == {i \in DOMAIN t : t[i] = "."}
        dot  == IF dots = {} THEN Len(t) + 1 ELSE LeastOf(dots)
        sign == IF dot > 1 /\ t[1] \in {"-", "+"} THEN <<t[1]>> ELSE <<>>
        int  == SubSeq(t, Len(sign) + 1, dot - 1)
    IN  IF int = <<>> \/ \E i \in DOMAIN int : int[i] \notin Digits THEN t
        ELSE sign \o Grouped(int) \o SubSeq(t, dot, Len(t))

Truncated(t, width) ==
    IF width = 0 \/ Len(t) <= width THEN t ELSE SubSeq(t, 1, width - 1) \o <<"...">>

\* A cell as it is printed; it is measured without the thousands separators.
Shown(o, cell) ==
    Truncated(IF o.locale /\ Numeric(cell) THEN WithCommas(ShownIfNull(o, cell))
              ELSE ShownIfNull(o, cell), o.width)

\* Mutant: the header does not count for the width of its column.
WidthsOfData(o, columns, rs) ==
    [i \in DOMAIN columns |->
       Largest({1} \cup {Len(Truncated(ShownIfNull(o, rs[k][i]), o.width)) : k \in DOMAIN rs})]

Widths(o, columns, rs) ==
    [i \in DOMAIN columns |->
       Largest({1, Len(columns[i])} \cup
               {Len(Truncated(ShownIfNull(o, rs[k][i]), o.width)) : k \in DOMAIN rs})]

\* Numbers stand at the right of their column, everything else at the left.
Padded(t, width, right) ==
    LET blanks == Fill(" ", AtLeast0(width - Len(t)))
    IN  IF right THEN blanks \o t ELSE t \o blanks

\* A line of fields: between bars, or two blanks apart without a border.
TableLine(o, fields) ==
    IF o.border = 0 THEN Join(fields, <<" ", " ">>)
    ELSE <<"|">> \o FlattenSeq(Each(fields, LAMBDA f : <<" ">> \o f \o <<" ", "|">>))

Rule(o, widths) ==
    IF o.border = 0 THEN Join(Each(widths, LAMBDA w : Fill("-", w)), <<" ", " ">>)
    ELSE <<"+">> \o Join(Each(widths, LAMBDA w : Fill("-", w + 2)), <<"+">>) \o <<"+">>

NoResults == Fill("x", 12)

EmptyLine(o, widths) ==
    LET inner == Len(Rule(o, widths)) - 2
        left  == AtLeast0(inner - Len(NoResults)) \div 2
    IN  IF o.border = 0 THEN NoResults
        ELSE <<"|">> \o Fill(" ", left) \o NoResults \o
             Fill(" ", AtLeast0(inner - Len(NoResults)) - left) \o <<"|">>

Table(o, columns, rs) ==
    LET widths == Widths(o, columns, rs)
        edge   == IF o.border = 0 THEN <<>> ELSE <<Rule(o, widths)>>
        head   == <<TableLine(o, [i \in DOMAIN columns |->
                                    Padded(columns[i], widths[i], FALSE)]),
                    Rule(o, widths)>>
        body   == IF rs = <<>> /\ ~o.tuples_only THEN <<EmptyLine(o, widths)>>
                  ELSE Each(rs, LAMBDA r :
                         TableLine(o, [i \in DOMAIN r |->
                           Padded(Shown(o, r[i]), widths[i], Numeric(r[i]))]))
    IN  edge \o Header(o, head) \o body \o edge

\* One line for every column of every row; nothing is cut off here.
Expanded(o, columns, rs) ==
    Lines(rs, LAMBDA r :
      <<<<"RECORD">>>> \o
      [i \in DOMAIN r |->
         Padded(columns[i], 20, FALSE) \o <<" ", "|", " ">> \o
         Shown([o EXCEPT !.width = 0], r[i])])

\* Mutant: the first row for a place stays.
CrosstabFirst(rs) ==
    [place \in {<<r[2].text, r[1].text>> : r \in ToSet(rs)} |->
       rs[LeastOf({k \in DOMAIN rs : <<rs[k][2].text, rs[k][1].text>> = place})][3].text]

\* \crosstabview: the values of the first column become the columns, those of
\* the second the rows. Several rows for one place overwrite each other.
Crosstab(rs) ==
    [place \in {<<r[2].text, r[1].text>> : r \in ToSet(rs)} |->
       rs[Largest({k \in DOMAIN rs : <<rs[k][2].text, rs[k][1].text>> = place})][3].text]

CrosstabHeaders(rs) == {r[1].text : r \in ToSet(rs)}

-----------------------------------------------------------------------------
\* The parts between the separators of a text.
Parts(t, separator) ==
    LET cuts == SetToSortSeq({i \in DOMAIN t : t[i] = separator} \cup {0, Len(t) + 1}, <)
    IN  [k \in 1 .. Len(cuts) - 1 |-> SubSeq(t, cuts[k] + 1, cuts[k + 1] - 1)]

White == {" ", "\t", "\r", "\n"}
Solid(t) == {i \in DOMAIN t : t[i] \notin White}
TrimEnd(t) == SubSeq(t, 1, Largest(Solid(t) \cup {0}))
IsDirective(line) == Solid(line) # {} /\ line[LeastOf(Solid(line))] = "\\"
Comment == <<";", " ", "-", "-">>

\* Whether the runner takes a line for the end of a statement: by its last
\* character, or the one before a comment, in a literal or not.
EndsStatement(line) ==
    LET comments == {i \in DOMAIN line : IsPrefix(Comment, SubSeq(line, i, Len(line)))}
    IN  comments # {} \/ (line # <<>> /\ Last(line) = ";")

\* Mutant: the lines of a statement are put together with a blank.
CollectOnOneLine(s, raw) ==
    LET line   == TrimEnd(raw)
        longer == IF s.buffer = <<>> THEN line ELSE s.buffer \o <<" ">> \o line
        flushed(buffer) ==
            IF Solid(buffer) = {} THEN s.done ELSE Append(s.done, TrimEnd(buffer))
    IN  IF IsDirective(line) THEN [done |-> flushed(s.buffer), buffer |-> <<>>]
        ELSE IF EndsStatement(line) THEN [done |-> flushed(longer), buffer |-> <<>>]
        ELSE [s EXCEPT !.buffer = longer]

\* execute_source of a file without directives of its own: the lines, without
\* the white space at their end, are put together to statements. A line that
\* begins with a backslash ends the statement before it and is no text.
Collect(s, raw) ==
    LET line   == TrimEnd(raw)
        longer == IF s.buffer = <<>> THEN line ELSE s.buffer \o <<"\n">> \o line
        flushed(buffer) ==
            IF Solid(buffer) = {} THEN s.done ELSE Append(s.done, TrimEnd(buffer))
    IN  IF IsDirective(line) THEN [done |-> flushed(s.buffer), buffer |-> <<>>]
        ELSE IF EndsStatement(line) THEN [done |-> flushed(longer), buffer |-> <<>>]
        ELSE [s EXCEPT !.buffer = longer]

RunnerCut(source) ==
    LET s == FoldLeft(Collect, [done |-> <<>>, buffer |-> <<>>], Parts(source, "\n"))
    IN  IF Solid(s.buffer) = {} THEN s.done ELSE Append(s.done, TrimEnd(s.buffer))

-----------------------------------------------------------------------------
\* format_result, and the exporters behind \g, \write and --export.
Text(format, o, columns, rs) ==
    CASE format = "tsv"       -> Separated(o, columns, rs, <<"\t">>)
      [] format = "unaligned" -> Separated(o, columns, rs, <<o.separator>>)
      [] format = "html"      -> Html(o, columns, rs)
      [] format = "markdown"  -> Markdown(o, columns, rs)
      [] format = "latex"     -> Latex(o, columns, rs)
      [] format = "asciidoc"  -> Asciidoc(o, columns, rs)
      [] format = "csv"       -> Csv(columns, rs)
      [] format = "json"      -> Each(rs, LAMBDA r : JsonObject(columns, r))
      [] format = "insert"    -> Insert(columns, rs)
      [] format = "copy"      -> Copy(columns, rs)
      [] format = "table"     -> Table(o, columns, rs)
      [] format = "expanded"  -> Expanded(o, columns, rs)

Nothing == [format |-> "none", text |-> <<>>]

Init == /\ shape \in Shapes
        /\ options \in Options
        /\ rows = <<>> /\ row = <<>>
        /\ out = Nothing

\* Mutant: the cells collected are not cleared after a row.
ReceiveKeepsRow(cell) ==
    /\ out = Nothing
    /\ Len(rows) < shape.rows
    /\ row' = Append(row, cell)
    /\ rows' = IF Len(row') >= Len(shape.columns) THEN Append(rows, row') ELSE rows
    /\ UNCHANGED <<shape, options, out>>

\* extract_cell and the loop around it: one cell after the other, a complete
\* row is kept before the next one is read.
Receive(cell) ==
    /\ out = Nothing
    /\ Len(rows) < shape.rows
    /\ IF Len(row) + 1 = Len(shape.columns)
       THEN rows' = Append(rows, Append(row, cell)) /\ row' = <<>>
       ELSE row' = Append(row, cell) /\ UNCHANGED rows
    /\ UNCHANGED <<shape, options, out>>

\* The stream has ended: the result is printed, in one format or another.
Format(format) ==
    /\ row = <<>>
    /\ out = Nothing
    /\ out' = [format |-> format, text |-> Text(format, options, shape.columns, rows)]
    /\ UNCHANGED <<shape, options, rows, row>>

\* \crosstabview of the same result.
CrosstabView ==
    /\ row = <<>>
    /\ out = Nothing
    /\ Len(shape.columns) >= 3
    /\ out' = [format |-> "crosstab", text |-> Crosstab(rows)]
    /\ UNCHANGED <<shape, options, rows, row>>

Next == \/ \E cell \in shape.cells : Receive(cell)
        \/ \E format \in Formats : Format(format)
        \/ CrosstabView

Spec == Init /\ [][Next]_vars

-----------------------------------------------------------------------------
Ncols == Len(shape.columns)
Printed(format) == out.format = format
CellsOf(rs) == UNION {ToSet(r) : r \in ToSet(rs)}

StopOf(t, i, S) == LeastOf({k \in i .. Len(t) : t[k] \in S} \cup {Len(t) + 1})
Has(t, part) == \E i \in DOMAIN t : IsPrefix(part, SubSeq(t, i, Len(t)))

\* A reader that undoes escapes: every sequence of the table, read from left to
\* right, is the character it stands for.
Unescape(t, table) ==
    LET entries(i) == {e \in ToSet(table) : IsPrefix(e[2], SubSeq(t, i, Len(t)))}
        from[i \in 1 .. Len(t) + 1] ==
            IF i > Len(t) THEN <<>>
            ELSE IF entries(i) = {} THEN <<t[i]>> \o from[i + 1]
            ELSE LET e == CHOOSE e \in entries(i) : TRUE
                 IN  <<e[1]>> \o from[i + Len(e[2])]
    IN  from[1]

TypeOK ==
    /\ shape \in Shapes /\ options \in Options
    /\ Len(rows) <= shape.rows
    /\ Len(row) < Ncols
    /\ \A k \in DOMAIN rows : Len(rows[k]) = Ncols
    /\ CellsOf(rows) \subseteq shape.cells
    /\ out.format \in Formats \cup {"none", "crosstab"}

(***************************************************************************)
(* What COPY writes, the server reads back: as many lines as rows, as many *)
(* fields as columns, NULL where there was NULL and nowhere else, and the  *)
(* same text in every field, whatever tabs, line breaks and backslashes it *)
(* holds; a carriage return, which COPY refuses in a line, is not written. *)
(* (export/sql.rs:46-66 and 101-114)                                       *)
(***************************************************************************)
CopyReadsBack ==
    Printed("copy") =>
      LET body   == SubSeq(out.text, 3, Len(out.text) - 2)
          lines  == Parts(body, "\n")
          field(k, i) == Parts(lines[k], "\t")[i]
      IN  /\ Len(lines) = Len(rows) + 1
          /\ lines[Len(lines)] = <<>>
          /\ ~Contains(body, "\r")
          /\ \A k \in DOMAIN rows :
               /\ Len(Parts(lines[k], "\t")) = Ncols
               /\ \A i \in 1 .. Ncols :
                    LET cell == rows[k][i]
                    IN  IF field(k, i) = <<"\\", "N">> THEN cell.kind = "null"
                        ELSE /\ cell.kind # "null"
                             /\ Unescape(field(k, i), CopyTable) = cell.text

\* The server's reading of the literals in a statement: the texts between
\* quotes, where two quotes in a literal are one.
Literals(t) ==
    LET read(s, c) ==
          CASE c = "'" /\ s.open   -> [s EXCEPT !.open = FALSE, !.justClosed = TRUE]
            [] c = "'" /\ s.justClosed ->
                 [s EXCEPT !.open = TRUE, !.justClosed = FALSE,
                           !.texts[Len(s.texts)] = Append(@, "'")]
            [] c = "'"             -> [s EXCEPT !.open = TRUE, !.texts = Append(@, <<>>)]
            [] OTHER -> IF s.open THEN [s EXCEPT !.texts[Len(s.texts)] = Append(@, c)]
                        ELSE [s EXCEPT !.justClosed = FALSE]
        all == FoldLeft(read, [texts |-> <<>>, open |-> FALSE, justClosed |-> FALSE], t)
    IN  [texts |-> all.texts, open |-> all.open]

\* The text of a cell that the runner leaves whole: no line of it but the last
\* ends in a semicolon (or has a comment after one) or in white space, and no
\* line but the first begins with a backslash.
SurvivesLines(t) ==
    LET lines == Parts(t, "\n")
    IN  \A k \in DOMAIN lines :
          /\ k < Len(lines) => ~EndsStatement(lines[k]) /\ TrimEnd(lines[k]) = lines[k]
          /\ k > 1 => ~IsDirective(lines[k])

\* The file of INSERT statements, run by \i or -f, inserts the rows again.
RunInsertsTheRows ==
    LET done == RunnerCut(out.text)
        isText(cell) == cell.kind = "text"
        textOf(cell) == cell.text
    IN  /\ Len(done) = Len(rows)
        /\ \A k \in DOMAIN rows :
             Literals(done[k]) = [texts |-> Each(SelectSeq(rows[k], isText), textOf),
                                  open |-> FALSE]

(***************************************************************************)
(* A file of INSERT statements can be run again with \i and -f: the runner *)
(* cuts it into one statement for every row, whose literals are the texts  *)
(* of that row and end in it, if every text SurvivesLines. The cut goes by *)
(* lines and knows no quotes, so semicolons, backslashes, quotes and empty *)
(* lines in a text are safe, except next to a line break as excluded.      *)
(* (export/sql.rs:16-39, 70-98 and 117-119, runner.rs:131-234)             *)
(***************************************************************************)
InsertReplays ==
    Printed("insert") /\ (\A cell \in CellsOf(rows) : SurvivesLines(cell.text)) =>
      RunInsertsTheRows

(***************************************************************************)
(* The exporter promises a series of INSERT statements (export/sql.rs:11), *)
(* which for some texts the program cannot run again: \i cuts them in a    *)
(* literal, drops a line of it or the white space at the end of one.       *)
(* (TLC refutes it: README, section 7.)                                    *)
(***************************************************************************)
EveryInsertReplays == Printed("insert") => RunInsertsTheRows

(***************************************************************************)
(* Markup says what the cell holds: an HTML page and a LaTeX table shows   *)
(* each cell as its text, no matter which special characters it contains,  *)
(* except that a backslash comes out of LaTeX with a pair of braces; and a *)
(* line of Markdown has a bar more than columns, not counting those in     *)
(* cells. (formats.rs:292-317, 347-430 and 463-468)                        *)
(***************************************************************************)
MarkupReadsBack ==
    /\ Printed("html") =>
         LET cells == FlattenSeq(Each(rows, LAMBDA r :
                        Each(r, LAMBDA c : ShownIfEmpty(options, c))))
             opens == SetToSortSeq({i \in DOMAIN out.text : out.text[i] = "<td>"}, <)
             text(k) == LET stop == StopOf(out.text, opens[k] + 1, {"</td>"})
                        IN  SubSeq(out.text, opens[k] + 1, stop - 1)
         IN  /\ Len(opens) = Len(cells)
             /\ \A k \in DOMAIN cells : Unescape(text(k), HtmlTable) = cells[k]
    /\ \A cell \in CellsOf(rows) :
         Printed("latex") /\ ~Contains(cell.text, "\\") =>
           Unescape(Escape(cell.text, LatexTable), LatexTable) = cell.text
    /\ Printed("markdown") =>
         LET lines == Parts(out.text, "\n")
             bars(t) == {i \in DOMAIN t : t[i] = "|" /\ (i = 1 \/ t[i - 1] # "\\")}
         IN  /\ Len(lines) = Len(rows) + (IF options.tuples_only THEN 1 ELSE 3)
             /\ \A k \in 1 .. Len(lines) - 1 : Cardinality(bars(lines[k])) = Ncols + 1

(***************************************************************************)
(* The table is a rectangle: all its lines are equally long. Three things  *)
(* make it ragged: a cell with a line break, thousands separators (widths  *)
(* are measured without them), and a result without rows whose columns are *)
(* narrower than the message in their place.                               *)
(* (table.rs:131-345)                                                      *)
(***************************************************************************)
TableIsRectangular ==
    Printed("table") /\ rows # <<>> /\ ~options.locale
    /\ (\A cell \in CellsOf(rows) : ~Contains(cell.text, "\n")) =>
      \A i, j \in DOMAIN out.text : Len(out.text[i]) = Len(out.text[j])

(***************************************************************************)
(* Thousands separators change how a number looks, not which it is: taken  *)
(* away they leave the text the server sent, and each stands before a      *)
(* multiple of three digits. (table.rs:392-424)                            *)
(***************************************************************************)
SeparatorsKeepNumber ==
    Printed("expanded") /\ options.locale =>
      \A k \in DOMAIN out.text :
        LET t    == out.text[k]
            dots == {i \in DOMAIN t : t[i] = "."}
            stop == IF dots = {} THEN Len(t) + 1 ELSE LeastOf(dots)
            n    == (k - 1) \div (Ncols + 1) + 1
            i    == (k - 1) % (Ncols + 1)
        IN  i > 0 /\ Numeric(rows[n][i]) =>
              LET value == SubSeq(t, 24, Len(t))
              IN  /\ SelectSeq(value, LAMBDA c : c # ",") = rows[n][i].text
                  /\ \A j \in 24 .. Len(t) :
                       t[j] = "," => /\ t[j - 1] \in Digits
                                     /\ (stop - j) % 4 = 0

(***************************************************************************)
(* NULL looks like what \pset null says in every format that is shown on   *)
(* the screen, and in these formats the text of a cell is never lost: each *)
(* row still has its line. (formats.rs:264-460, table.rs:372-387)          *)
(***************************************************************************)
NullShownAsSet ==
    \A k \in DOMAIN rows : \A i \in 1 .. Ncols :
      rows[k][i].kind = "null" =>
        /\ Printed("expanded") =>
             LET t == out.text[(k - 1) * (Ncols + 1) + 1 + i]
             IN  SubSeq(t, 24, Len(t)) = options.null
        /\ Printed("markdown") =>
             LET line == Parts(out.text, "\n")[k + (IF options.tuples_only THEN 0 ELSE 2)]
             IN  i = 1 => IsPrefix(<<"|", " ">> \o options.null \o <<" ", "|">>, line)
        /\ Printed("asciidoc") =>
             Has(out.text, <<"| ">> \o options.null \o <<"\n">>)

(***************************************************************************)
(* A cross table has a place for every pair of keys in the result, filled  *)
(* by the last row with that pair; so it shows all rows only if no pair    *)
(* occurs twice. (crosstab.rs:36-60)                                       *)
(***************************************************************************)
CrosstabShowsLast ==
    Printed("crosstab") =>
      /\ \A k \in DOMAIN rows :
           \/ out.text[<<rows[k][2].text, rows[k][1].text>>] = rows[k][3].text
           \/ \E j \in k + 1 .. Len(rows) : /\ rows[j][1].text = rows[k][1].text
                                            /\ rows[j][2].text = rows[k][2].text
      /\ {place[2] : place \in DOMAIN out.text} = CrosstabHeaders(rows)

(***************************************************************************)
(* FormatOptions says null_display is "displayed in place of NULL values"; *)
(* tsv, html and unaligned also display it in place of an empty text.      *)
(* (formats.rs:277, 304 and 333; TLC refutes it: README, section 7.)       *)
(***************************************************************************)
EmptyIsNotNull ==
    \A k \in DOMAIN rows :
      Printed("tsv") /\ Ncols = 1 /\ rows[k][1].kind = "text" /\ rows[k][1].text = <<>> =>
        Parts(out.text, "\n")[k + (IF options.tuples_only THEN 0 ELSE 1)] = <<>>
=============================================================================
