------------------------------ MODULE MCTexts ------------------------------
(***************************************************************************)
(* The three modules about text, each with what plays together in it: what *)
(* the user types (SqlText), what the screen shows of a result             *)
(* (ResultFormats) and how numbers and times are written (Numbers).  No    *)
(* state is common to them, so in one behaviour only one of them moves.    *)
(***************************************************************************)
EXTENDS SqlText

CONSTANTS Shapes, Options, Formats,                              \* of ResultFormats
          DigitsUsed, MaxInt, MaxFrac, MicrosPerSecond, Micros,  \* of Numbers
          Days, Months, Durations, Buckets, Samples, MaxRuns

VARIABLES part,                            \* the module that moves
          shape, options, rows, row, out,  \* of ResultFormats
          received, shown, samples         \* of Numbers

-----------------------------------------------------------------------------
(***************************************************************************)
(* Keyboards: each holds the characters that play together in one part of  *)
(* the scanners, so that texts can be longer than with all of them at once.*)
(***************************************************************************)
MCLetters == {"a", "b"}
MCDigits == {0, 7}
MCWide == {"w"}

Single(S) == {<<c>> : c \in S}

MCKeyboards ==
    { Single({"'", "\"", ";", "-", "a"}),
      Single({"$", ";", "'", "a"}) \cup {<<"$", "a", "$">>},
      Single({"/", "*", "-", "'", ";"}),
      Single({"(", ")", ";", "\"", "w"}),
      Single({":", ";", "'", "a", "b"}) \cup {<<":", "'", "a", "'">>} }

\* No variable; values with what a literal must escape; values that are names;
\* a name that begins with another, and names of one length; a value that refers
\* to another variable; a value that continues a name to a longer one.
MCEnvironments ==
    { [n \in {} |-> <<>>],
      [n \in {<<"a">>} |-> <<"'", ";">>],
      [n \in {<<"a">>, <<"b">>, <<"a", "b">>} |->
         CASE n = <<"a">> -> <<"b">> [] n = <<"b">> -> <<"a">> [] OTHER -> <<";">>],
      [n \in {<<"a">>, <<"b">>} |-> IF n = <<"a">> THEN <<":", "b">> ELSE <<"a">>],
      [n \in {<<"a">>, <<"a", "a">>, <<"a", "b">>} |->
         IF n = <<"a", "a">> THEN <<"b">> ELSE <<";">>] }

-----------------------------------------------------------------------------
(***************************************************************************)
(* Results: one column with every short text over the characters that      *)
(* matter somewhere, two columns side by side, numbers, and three columns  *)
(* to pivot.                                                               *)
(***************************************************************************)
CellOf(kind, text) == [kind |-> kind, text |-> text]
NullCell == CellOf("null", <<>>)
Special == {"'", ";", "\\", "\t", "\n", "\r", "|", "&", "<", "{", "\"", ",", "a", "N"}
Short == {<<>>} \cup {<<c>> : c \in Special}
\* A comment after a semicolon, and line breaks in the middle of a text.
LongTexts == { <<";", " ", "-", "-", "\n", "a">>, <<"a", "\n", "\\", "\n", "a">>,
               <<"'", "\n", "\n", ";", "a">>, <<"a", " ", "\n", "\t", "a">>,
               <<"a", "\n", "\t", "\\">>, <<";", "\t", "\n", "'">> }
Texts(S) == {CellOf("text", t) : t \in S}

MCNumerals ==
    LET digits == <<"1", "2", "3", "4", "5", "6", "7">>
    IN  {CellOf("number", sign \o SubSeq(digits, 1, n) \o fraction) :
           sign \in {<<>>, <<"-">>}, n \in {1, 3, 4, 6, 7}, fraction \in {<<>>, <<".", "2", "5", "0", "1">>}}
        \cup {CellOf("number", <<"NaN">>)}

MCShapes ==
    { [columns |-> <<<<"a">>>>, rows |-> 1,
       cells |-> {NullCell} \cup
                 Texts(Short \cup LongTexts \cup {<<c, d>> : c \in Special, d \in Special})],
      [columns |-> <<<<"a">>, <<"N", "N", "N">>>>, rows |-> 1,
       cells |-> {NullCell, CellOf("bool", <<"true">>), CellOf("number", <<"-", "1">>)} \cup Texts(Short)],
      [columns |-> <<<<"N">>>>, rows |-> 2, cells |-> {NullCell} \cup MCNumerals],
      [columns |-> <<<<"h">>, <<"v">>, <<"d">>>>, rows |-> 2,
       cells |-> Texts({<<"a">>, <<"N">>})] }

MCOptions ==
    { [null |-> n, tuples_only |-> t, locale |-> l, border |-> b, width |-> w, separator |-> "|"] :
        n \in {<<>>, <<"n", "u", "l">>}, t \in {FALSE}, l \in {FALSE, TRUE}, b \in {0, 1}, w \in {0}}
    \cup
    { [null |-> <<"-">>, tuples_only |-> TRUE, locale |-> FALSE, border |-> 2, width |-> 2,
       separator |-> ","] }

MCFormats == {"tsv", "unaligned", "html", "markdown", "latex", "asciidoc", "csv", "json",
              "insert", "copy", "table", "expanded"}

-----------------------------------------------------------------------------
(***************************************************************************)
(* Decimals of two groups before and after the point, and times around     *)
(* every boundary.                                                         *)
(***************************************************************************)
\* A second has 10 units here instead of a million.
MCMicros == {s * m + f : s \in {-1, 1}, f \in {-1, 0, 1, 9},
                         m \in {0, 10, 590, 600, 35990, 36000, 360050}}
MCDays == {-1, 0, 1, 40}
MCMonths == {-13, -12, -1, 0, 1, 11, 12, 25}
MCDurations == {0, 1, 999, 1000, 1001, 59999, 60000, 60001, 119999, 120000, 3599999, 3600000}
MCSamples == {0, 1, 9, 10, 11, 29}

-----------------------------------------------------------------------------
Printer == INSTANCE ResultFormats
Figures == INSTANCE Numbers

ASSUME PrinterAssumption == Printer!ResultFormatsAssumption
ASSUME FiguresAssumption == Figures!NumbersAssumption

editorVars  == vars
printerVars == <<shape, options, rows, row, out>>
figuresVars == <<received, shown, samples>>

\* The parts that rest have one state.
AnyOne(S) == CHOOSE x \in S : TRUE
RestingEditor  == keys = AnyOne(Keyboards)
RestingPrinter == shape = AnyOne(Shapes) /\ options = AnyOne(Options)

TextsInit ==
    /\ part \in {"editor", "printer", "figures"}
    /\ Init /\ Printer!Init /\ Figures!Init
    /\ part # "editor" => RestingEditor
    /\ part # "printer" => RestingPrinter

EditorStep  == part = "editor" /\ Next /\ UNCHANGED <<part, printerVars, figuresVars>>
PrinterStep == part = "printer" /\ Printer!Next /\ UNCHANGED <<part, editorVars, figuresVars>>
FiguresStep == part = "figures" /\ Figures!Next /\ UNCHANGED <<part, editorVars, printerVars>>

TextsSpec ==
    TextsInit /\ [][EditorStep \/ PrinterStep \/ FiguresStep]_<<part, editorVars, printerVars,
                                                                 figuresVars>>

-----------------------------------------------------------------------------
\* The three that read the text being typed agree on it: the editor waits for
\* more exactly when the splitter would cut inside a literal, and the
\* highlighter, unless it panics in an open block comment, paints the token the
\* editor is in.
ReadersAgree == TypeOK /\ ScannersAgree /\ ColoursFollowScanner

\* The statements sent are the text, cut where the quotes allow it, and the
\* caret of an error points into them where the server meant.
StatementsAreTheText == CutsAreTheText /\ CutsByParity /\ CaretPoints

\* The value of a variable is data: it neither changes the statements of the
\* text nor is it read for further references.
VariablesAreData == ValuesStayData /\ SubstitutionIsSimultaneous

\* What COPY, INSERT and the markups write reads back as the result it was, and
\* tables, NULLs, numbers and cross tables show it undistorted.
ResultsReadBack ==
    /\ Printer!TypeOK
    /\ Printer!CopyReadsBack /\ Printer!InsertReplays /\ Printer!MarkupReadsBack
    /\ Printer!TableIsRectangular /\ Printer!SeparatorsKeepNumber
    /\ Printer!NullShownAsSet /\ Printer!CrosstabShowsLast

\* Numerics, intervals and durations are shown as the value they are, and the
\* percentiles and the histogram of \bench are those of its samples.
FiguresAreRight ==
    /\ Figures!TypeOK
    /\ Figures!NumericReadsBack /\ Figures!IntervalAddsUp /\ Figures!DurationReadsBack
    /\ Figures!PercentileIsNearestRank /\ Figures!HistogramIsComplete
=============================================================================
