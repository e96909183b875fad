--------------------------- MODULE CommandsProofs ---------------------------
(***************************************************************************)
(* Theorems about the backslash commands, for every vocabulary of lines    *)
(* and commands, every ~/.pgclirc and every set of variables; and about    *)
(* COPY, for any number of rows, any tables and any arguments of \copy.    *)
(*                                                                         *)
(* In a behaviour of CommandsSpec one module moves and the others stand    *)
(* still, so each has an inductive invariant of its own.                   *)
(***************************************************************************)
EXTENDS MCCommands, Recursion

----------------------------------------------------------------------------
(* SessionSettings: what the tables of dispatch say. *)

LEMMA Dispatched ==
    \A p \in AllCommands : Dispatch[p[1]] = {c \in Commands : ResultOf(c) = p[1]}
  BY DEF Dispatch

\* A result has the name that some pair of the tables gives it.
LEMMA ResultIsListed ==
    ASSUME NEW c, ResultOf(c) \notin {"Output", "Query"}
    PROVE  \E p \in AllCommands : c.name \in p[2] /\ ResultOf(c) = p[1]
<1>1. c.name \in DOMAIN Result /\ ResultOf(c) = Result[c.name]
  BY DEF ResultOf
<1>2. PICK p \in AllCommands : c.name \in p[2]
  BY <1>1 DEF Result
<1>3. Result[c.name] = (CHOOSE q \in AllCommands : c.name \in q[2])[1]
  BY <1>1 DEF Result
<1> QED
  BY <1>1, <1>2, <1>3

\* The commands that lead to the results below.
NamesOf(result) ==
    CASE result = "Repeat" -> {"g"} [] result = "RepeatExpanded" -> {"gx"}
      [] result = "WriteResult" -> {"write", "W"} [] result = "Watch" -> {"watch"}
      [] result = "gset" -> {"gset"} [] result = "Around" -> {"explain", "rows", "rowcount"}
      [] result = "on_error" -> {"on_error", "onerror"}

Named7 == {"Repeat", "RepeatExpanded", "WriteResult", "Watch", "gset", "Around", "on_error"}

LEMMA TableNames ==
    \A p \in AllCommands : p[1] \in Named7 => p[2] = NamesOf(p[1])
<1>1. \A p \in DescribeCommands : p[1] \notin Named7
  BY DEF DescribeCommands, Named7
<1>2. \A p \in BufferCommands : p[1] \in Named7 => p[2] = NamesOf(p[1])
  BY DEF BufferCommands, Named7, NamesOf
<1>3. \A p \in FormatCommands : p[1] \notin Named7
  BY DEF FormatCommands, Named7
<1>4. \A p \in FileCommands : p[1] \notin Named7
  BY DEF FileCommands, Named7
<1>5. \A p \in ExtensionCommands : p[1] \in Named7 => p[2] = NamesOf(p[1])
  BY DEF ExtensionCommands, Named7, NamesOf
<1>6. \A p \in AnalyticsCommands : p[1] \notin Named7
  BY DEF AnalyticsCommands, Named7
<1>7. \A p \in ScriptCommands : p[1] \in Named7 => p[2] = NamesOf(p[1])
  BY DEF ScriptCommands, Named7, NamesOf
<1> QED
  BY <1>1, <1>2, <1>3, <1>4, <1>5, <1>6, <1>7 DEF AllCommands

LEMMA AreListed == \A r \in Named7 : \E p \in AllCommands : p[1] = r
<1>1. \A r \in {"Repeat", "RepeatExpanded"} : \E p \in BufferCommands : p[1] = r
  BY DEF BufferCommands
<1>2. \A r \in {"WriteResult", "Watch", "Around"} : \E p \in ExtensionCommands : p[1] = r
  BY DEF ExtensionCommands
<1>3. \A r \in {"gset", "on_error"} : \E p \in ScriptCommands : p[1] = r
  BY DEF ScriptCommands
<1> QED
  BY <1>1, <1>2, <1>3 DEF AllCommands, Named7

LEMMA TypedNames ==
    \A r \in Named7 : \A c \in Typed(r) : c.name \in NamesOf(r) /\ ~Refused(c)
<1> SUFFICES ASSUME NEW r \in Named7, NEW c \in Typed(r)
             PROVE  c.name \in NamesOf(r) /\ ~Refused(c)
  OBVIOUS
<1>1. ResultOf(c) = r
  BY Dispatched, AreListed DEF Typed
<1>2. PICK p \in AllCommands : c.name \in p[2] /\ r = p[1]
  BY <1>1, ResultIsListed DEF Named7
<1> QED
  BY <1>2, TableNames DEF Typed

\* An accepted command that repeats the buffer finds one.
LEMMA BufferIsThere ==
    /\ At("Repeat") \/ At("RepeatExpanded") \/ At("WriteResult") \/ At("Watch") \/ At("gset")
          => last_sql # Empty
    /\ \A c \in Typed("Around") : c.arg = "" => last_sql # Empty
    /\ \A c : ~Refused(c) /\ c.name \in NeedsBuffer => last_sql # Empty
<1>1. \A c : ~Refused(c) /\ c.name \in NeedsBuffer => last_sql # Empty
  BY DEF Refused
<1>2. \A r \in Named7 \ {"Around", "on_error"} : NamesOf(r) \subseteq NeedsBuffer
  BY DEF Named7, NamesOf, NeedsBuffer
<1>3. \A r \in Named7 \ {"Around", "on_error"} : At(r) => last_sql # Empty
  BY <1>1, <1>2, TypedNames DEF At
<1>4. ASSUME NEW c \in Typed("Around"), c.arg = ""
      PROVE  last_sql # Empty
  <2>1. c.name \in {"explain", "rows", "rowcount"} /\ ~Refused(c)
    BY TypedNames DEF Named7, NamesOf
  <2> QED
    BY <2>1, <1>4 DEF Refused, NeedsBuffer
<1> QED
  BY <1>1, <1>3, <1>4 DEF Named7

----------------------------------------------------------------------------
(* SessionSettings: what one step shows and keeps. *)

Content == Texts \cup {OwnSql}
Dest == {"none", "stdout", "pager", "file"}
ShownType == [what : Kinds \cup {"nothing"}, sql : Texts \cup {Empty, OwnSql},
              expanded : BOOLEAN, timing : BOOLEAN, to : Dest]

\* The renderer is given what the user chose.
AsChosen(expanded, timing) ==
    /\ timing = settings.timing
    /\ settings.expanded => expanded
    /\ expanded => settings.expanded \/ settings.auto

\* The ways a step may end: text, an error, a result without or with options.
Prints == TextOnly /\ UNCHANGED settings
Fails == \E sql \in Content : Fail(sql) /\ UNCHANGED settings
Lists == \E sql \in Content, to \in Dest : RenderPlain(sql, to)
Renders ==
    \E what \in Kinds, sql \in Content, expanded \in BOOLEAN, timing \in BOOLEAN, to \in Dest :
        /\ Render(what, sql, expanded, timing, to)
        /\ what \in UserKinds => AsChosen(expanded, timing)

Displays == Prints \/ ((Fails \/ Lists \/ Renders) /\ UNCHANGED output_file)

KeepsChoices ==
    /\ settings' \in Settings
    /\ settings'.expanded = settings.expanded /\ settings'.auto = settings.auto
    /\ settings'.timing = settings.timing
    /\ settings'.pager_enabled = settings.pager_enabled

ShowsSomething ==
    /\ shown' \in ShownType
    /\ shown'.what # "nothing" => shown'.sql # Empty /\ output_file' = output_file
    /\ shown'.what \in UserKinds => AsChosen(shown'.expanded, shown'.timing)

LEMMA EmptyIsNotSent == Empty \notin Content
  BY EmptyAssumption DEF Content

LEMMA DisplayStep ==
    ASSUME settings \in Settings, Displays
    PROVE  KeepsChoices /\ ShowsSomething
<1>1. CASE Prints
  BY <1>1 DEF Prints, TextOnly, KeepsChoices, ShowsSomething, Nothing, ShownType, Dest, UserKinds
<1>2. CASE Fails /\ UNCHANGED output_file
  <2>1. PICK sql \in Content : Fail(sql) /\ UNCHANGED settings
    BY <1>2 DEF Fails
  <2>2. shown' = [what |-> "error", sql |-> sql, expanded |-> FALSE, timing |-> FALSE,
                  to |-> "none"]
    BY <2>1 DEF Fail, Nothing
  <2>3. sql # Empty
    BY EmptyIsNotSent
  <2> QED
    BY <1>2, <2>1, <2>2, <2>3
    DEF KeepsChoices, ShowsSomething, ShownType, Dest, UserKinds, Kinds, Content
<1>3. CASE Lists /\ UNCHANGED output_file
  <2>1. PICK sql \in Content, to \in Dest : RenderPlain(sql, to)
    BY <1>3 DEF Lists
  <2>2. /\ shown' = [what |-> "plain", sql |-> sql, expanded |-> FALSE, timing |-> FALSE,
                     to |-> to]
        /\ UNCHANGED settings
    BY <2>1 DEF RenderPlain, Nothing
  <2>3. sql # Empty
    BY EmptyIsNotSent
  <2> QED
    BY <1>3, <2>1, <2>2, <2>3
    DEF KeepsChoices, ShowsSomething, ShownType, Dest, UserKinds, Kinds, Content
<1>4. CASE Renders /\ UNCHANGED output_file
  <2>1. PICK what \in Kinds, sql \in Content, expanded \in BOOLEAN, timing \in BOOLEAN,
             to \in Dest :
            /\ Render(what, sql, expanded, timing, to)
            /\ what \in UserKinds => AsChosen(expanded, timing)
    BY <1>4 DEF Renders
  <2>2. KeepsChoices
    BY <2>1 DEF Render, KeepsChoices, Settings
  <2>3. shown' = [what |-> what, sql |-> sql, expanded |-> expanded, timing |-> timing,
                  to |-> to]
    BY <2>1 DEF Render
  <2>4. sql # Empty
    BY EmptyIsNotSent
  <2>5. shown' \in ShownType
    BY <2>3 DEF ShownType, Content
  <2> QED
    BY <1>4, <2>1, <2>2, <2>3, <2>4, <2>5 DEF ShowsSomething
<1> QED
  BY <1>1, <1>2, <1>3, <1>4 DEF Displays

LEMMA SentBuffer ==
    ASSUME TypeOK, last_sql # Empty
    PROVE  last_sql \in Content
  BY DEF TypeOK, Content

LEMMA SubstitutedText ==
    ASSUME TypeOK, NEW l \in Lines
    PROVE  Substitute(l) \in Texts
<1>1. (IF l.ref = NoRef THEN Unset ELSE variables[l.ref]) \in Values \cup {Unset}
  BY SettingsAssumption DEF TypeOK
<1> QED
  BY <1>1 DEF Substitute, Texts

LEMMA WideExpands ==
    ASSUME TypeOK, NEW wide \in BOOLEAN
    PROVE  /\ EffectiveExpanded(wide) \in BOOLEAN /\ settings.expanded \in BOOLEAN
           /\ settings.timing \in BOOLEAN
           /\ AsChosen(EffectiveExpanded(wide), settings.timing)
  BY DEF TypeOK, Settings, EffectiveExpanded, AsChosen

LEMMA WherePaged == PagerDest \in Dest
  BY DEF PagerDest, Dest

Quiet == UNCHANGED <<said, pager_disabled, pset_used>>

\* A query, as the dispatcher's flags have it.
LEMMA QueryDisplays ==
    ASSUME TypeOK, NEW what \in Kinds, NEW sql \in Content, NEW wide \in BOOLEAN, NEW to \in Dest,
           Render(what, sql, EffectiveExpanded(wide), settings.timing, to)
    PROVE  Renders
  BY WideExpands DEF Renders

\* What is no result of the user's own query may be rendered otherwise.
LEMMA OtherDisplays ==
    ASSUME NEW what \in Kinds \ UserKinds, NEW sql \in Content, NEW expanded \in BOOLEAN,
           NEW timing \in BOOLEAN, NEW to \in Dest, Render(what, sql, expanded, timing, to)
    PROVE  Renders
  BY DEF Renders

\* Commands that only print, and change at most what is neither shown nor said.
LEMMA PrintersDisplay ==
    ASSUME \/ Redirect \/ SetVariable \/ UnsetVariable \/ SetOnError \/ Reset \/ Reconnect
           \/ Watch \/ CtrlC \/ Quit \/ Output
    PROVE  Displays /\ Quiet
  BY DEF Redirect, SetVariable, UnsetVariable, SetOnError, Reset, Reconnect, Watch, CtrlC, Quit,
         Output, Displays, Prints, Quiet, fixedVars

\* Commands that send the buffer.
LEMMA BufferDisplays ==
    ASSUME TypeOK, NothingEmptySent,
           GSet \/ Repeat \/ RepeatExpanded \/ WriteResult \/ WatchTick \/ DiffTick
    PROVE  Displays /\ Quiet
<1> USE SentBuffer, WherePaged DEF Kinds, UserKinds
<1>0. Quiet /\ UNCHANGED output_file
  BY DEF GSet, Repeat, RepeatExpanded, WriteResult, WatchTick, DiffTick, Quiet, fixedVars
<1>1. last_sql \in Content
  <2>1. last_sql # Empty
    BY BufferIsThere DEF GSet, Repeat, RepeatExpanded, WriteResult, WatchTick, DiffTick,
                         NothingEmptySent
  <2> QED
    BY <2>1
<1>2. settings \in Settings
  BY DEF TypeOK
<1>3. Fail(last_sql) /\ UNCHANGED settings => Fails
  BY <1>1 DEF Fails
<1>4. CASE GSet
  BY <1>0, <1>1, <1>3, <1>4 DEF GSet, Lists, Displays, Dest
<1>5. CASE Repeat
  <2>1. ASSUME NEW c \in Typed("Repeat"), NEW wide \in BOOLEAN,
               Render("repeat", last_sql, EffectiveExpanded(wide), settings.timing,
                      IF c.arg # "" THEN "file" ELSE PagerDest)
        PROVE  Renders
    BY <2>1, <1>1, QueryDisplays DEF Dest
  <2> QED
    BY <1>0, <1>3, <1>5, <2>1 DEF Repeat, Displays
<1>6. CASE RepeatExpanded
  <2>1. Render("gx", last_sql, TRUE, settings.timing, PagerDest) => Renders
    BY <1>1, <1>2, OtherDisplays DEF Settings
  <2> QED
    BY <1>0, <1>3, <1>6, <2>1 DEF RepeatExpanded, Displays
<1>7. CASE WriteResult
  <2>1. Render("write", last_sql, settings.expanded, FALSE, "file") => Renders
    BY <1>1, <1>2, OtherDisplays DEF Settings, Dest
  <2> QED
    BY <1>0, <1>3, <1>7, <2>1 DEF WriteResult, Displays
<1>8. CASE WatchTick
  <2>1. ASSUME NEW wide \in BOOLEAN,
               Render("watch", last_sql, EffectiveExpanded(wide), settings.timing, "stdout")
        PROVE  Renders
    BY <2>1, <1>1, QueryDisplays DEF Dest
  <2> QED
    BY <1>0, <1>3, <1>8, <2>1 DEF WatchTick, Displays
<1>9. CASE DiffTick
  <2>1. Render("diff", last_sql, settings.opt_expanded, settings.opt_timing, "stdout") => Renders
    BY <1>1, <1>2, OtherDisplays DEF Settings, Dest
  <2> QED
    BY <1>0, <1>3, <1>9, <2>1 DEF DiffTick, Displays
<1> QED
  BY <1>4, <1>5, <1>6, <1>7, <1>8, <1>9

\* Commands that send a text of their own, a line, or something around the buffer.
LEMMA TextDisplays ==
    ASSUME TypeOK,
           \/ \E l \in Lines : RunSql(l)
           \/ Around \/ Plain \/ EditAndExecute \/ RunBookmark \/ Query \/ Introspect \/ Source
           \/ Catalog \/ ExecuteFile
    PROVE  Displays /\ Quiet
<1> USE SentBuffer, WherePaged DEF Kinds, UserKinds
<1>0. Quiet /\ UNCHANGED output_file
  BY DEF RunSql, Around, Plain, EditAndExecute, RunBookmark, Query, Introspect, Source, Catalog,
         ExecuteFile, Quiet, fixedVars
<1>1. OwnSql \in Content /\ Texts \subseteq Content
  BY DEF Content
<1>2. settings \in Settings
  BY DEF TypeOK
<1>3. \A sql \in Content : Fail(sql) /\ UNCHANGED settings => Fails
  BY DEF Fails
<1>4. ASSUME NEW l \in Lines, RunSql(l)
      PROVE  Displays
  <2>1. Substitute(l) \in Content
    BY <1>1, SubstitutedText
  <2>2. ASSUME NEW wide \in BOOLEAN,
               Render("sql", Substitute(l), EffectiveExpanded(wide), settings.timing,
                      IF output_file THEN "file" ELSE PagerDest)
        PROVE  Renders
    <3>1. (IF output_file THEN "file" ELSE PagerDest) \in Dest
      BY DEF Dest
    <3> QED
      BY <2>1, <2>2, <3>1, QueryDisplays
  <2> QED
    BY <1>0, <1>3, <1>4, <2>1, <2>2 DEF RunSql, Displays
<1>5. CASE Around
  <2>1. PICK c \in Typed("Around"), wide \in BOOLEAN :
            LET sql == IF c.arg = "" THEN last_sql ELSE OwnSql IN
            \/ Render("query", sql, EffectiveExpanded(wide), settings.timing, PagerDest)
            \/ Fail(sql) /\ UNCHANGED settings
    BY <1>5 DEF Around
  <2>2. (IF c.arg = "" THEN last_sql ELSE OwnSql) \in Content
    BY <1>1, BufferIsThere
  <2> QED
    BY <1>0, <1>3, <2>1, <2>2, QueryDisplays DEF Displays
<1>6. CASE Plain
  <2>1. PICK c \in Typed("Plain") :
            LET sql == IF c.name \in NeedsBuffer THEN last_sql ELSE OwnSql IN
            \/ RenderPlain(sql, "stdout")
            \/ Fail(sql) /\ UNCHANGED settings
    BY <1>6 DEF Plain
  <2>2. (IF c.name \in NeedsBuffer THEN last_sql ELSE OwnSql) \in Content
    BY <1>1, BufferIsThere DEF Typed
  <2> QED
    BY <1>0, <1>3, <2>1, <2>2 DEF Displays, Lists, Dest
<1>7. CASE EditAndExecute
  <2>1. ASSUME NEW l \in Lines
        PROVE  [body |-> l.body, val |-> Unset] \in Content
    BY <1>1 DEF Texts
  <2>2. ASSUME NEW sql \in Content,
               Render("file", sql, settings.expanded, settings.timing, PagerDest)
        PROVE  Renders
    BY <2>2, <1>2, OtherDisplays DEF Settings
  <2> QED
    BY <1>0, <1>3, <1>7, <2>1, <2>2 DEF EditAndExecute, Displays, Prints
<1>8. CASE RunBookmark
  <2>1. PICK sql \in Texts, wide \in BOOLEAN :
            \/ Render("query", sql, EffectiveExpanded(wide), settings.timing, PagerDest)
            \/ Fail(sql) /\ UNCHANGED settings
    BY <1>8 DEF RunBookmark
  <2> QED
    BY <1>0, <1>1, <1>3, <2>1, QueryDisplays DEF Displays
<1>9. CASE Query
  <2>1. ASSUME NEW wide \in BOOLEAN,
               Render("query", OwnSql, EffectiveExpanded(wide), settings.timing, PagerDest)
        PROVE  Renders
    BY <2>1, <1>1, QueryDisplays
  <2> QED
    BY <1>0, <1>1, <1>3, <1>9, <2>1 DEF Query, Displays
<1>10. CASE Introspect
  <2>1. Render("describe", OwnSql, settings.expanded, FALSE, PagerDest) => Renders
    BY <1>1, <1>2, OtherDisplays DEF Settings
  <2> QED
    BY <1>0, <1>1, <1>3, <1>10, <2>1 DEF Introspect, Displays
<1>11. CASE Source
  BY <1>0, <1>1, <1>3, <1>11 DEF Source, Displays, Lists
<1>12. CASE Catalog
  <2>1. Render("catalog", OwnSql, FALSE, FALSE, PagerDest) => Renders
    BY <1>1, OtherDisplays
  <2>2. RenderPlain(OwnSql, "stdout") => Lists
    BY <1>1 DEF Lists, Dest
  <2> QED
    BY <1>0, <1>1, <1>3, <1>12, <2>1, <2>2 DEF Catalog, Displays
<1>13. CASE ExecuteFile
  <2>1. Render("file", OwnSql, settings.expanded, settings.timing, PagerDest) => Renders
    BY <1>1, <1>2, OtherDisplays DEF Settings
  <2> QED
    BY <1>0, <1>1, <1>3, <1>13, <2>1 DEF ExecuteFile, Displays
<1> QED
  BY <1>0, <1>4, <1>5, <1>6, <1>7, <1>8, <1>9, <1>10, <1>11, <1>12, <1>13

----------------------------------------------------------------------------
(* SessionSettings: the invariant. *)

\* \pset at the prompt comes after ~/.pgclirc, whose \pset pager the Pager
\* never hears of.
AtStart == pc = "start" => ~pset_used

SettingsInv ==
    TypeOK /\ SettingsAsAnnounced /\ PagerFollowsPset /\ NothingEmptySent /\ AtStart

LEMMA InitSettings == Init => SettingsInv
<1> SUFFICES ASSUME Init PROVE SettingsInv
  OBVIOUS
<1>1. TypeOK
  BY DEF Init, TypeOK, DefaultSettings, Settings, Nothing
<1> QED
  BY <1>1 DEF Init, SettingsInv, SettingsAsAnnounced, PagerFollowsPset, NothingEmptySent, AtStart,
     DefaultSettings, Nothing

Setting == LoadStartupFile \/ X \/ Timing \/ Pset
Command ==
    \/ \E l \in Lines : RunSql(l)
    \/ Redirect \/ SetVariable \/ UnsetVariable \/ GSet \/ SetOnError
    \/ Reset \/ Reconnect \/ Repeat \/ RepeatExpanded \/ Around \/ WriteResult \/ Plain
    \/ EditAndExecute \/ RunBookmark
    \/ Query \/ Introspect \/ Source \/ Catalog \/ ExecuteFile
    \/ Watch \/ WatchTick \/ DiffTick \/ CtrlC \/ Quit \/ Output

LEMMA StepKinds == Next => Setting \/ Command
  BY DEF Next, Setting, Command

LEMMA CommandDisplays ==
    ASSUME TypeOK, NothingEmptySent, Command
    PROVE  KeepsChoices /\ ShowsSomething /\ Quiet
<1>1. Displays /\ Quiet
  BY PrintersDisplay, BufferDisplays, TextDisplays DEF Command
<1> QED
  BY <1>1, DisplayStep DEF TypeOK

----------------------------------------------------------------------------
(* The copies of a setting. *)

LEMMA OnOffType ==
    ASSUME NEW value, NEW current \in BOOLEAN
    PROVE  ParseOnOff(value, current) \in BOOLEAN
  BY DEF ParseOnOff

\* What \pset leaves of the settings, option by option.
LEMMA PsetApplies ==
    ASSUME NEW s \in Settings, NEW key, NEW value
    PROVE  LET t == ApplyPset(s, key, value) IN
           /\ t \in Settings /\ t.auto = s.auto
           /\ key # "expanded" => t.expanded = s.expanded
           /\ key = "expanded" => t.expanded = t.opt_expanded
           /\ key # "timing" => t.timing = s.timing
           /\ key = "timing" => t.timing = t.opt_timing
<1>1. \A flag \in BOOLEAN :
          /\ [s EXCEPT !.opt_expanded = flag, !.expanded = flag] \in Settings
          /\ [s EXCEPT !.opt_timing = flag, !.timing = flag] \in Settings
          /\ [s EXCEPT !.pager_enabled = flag] \in Settings
  BY DEF Settings
<1>2. /\ ParseOnOff(value, s.opt_expanded) \in BOOLEAN
      /\ ParseOnOff(value, s.opt_timing) \in BOOLEAN
      /\ ParseOnOff(value, s.pager_enabled) \in BOOLEAN
  BY OnOffType DEF Settings
<1>3. CASE key = "expanded"
  BY <1>1, <1>2, <1>3 DEF ApplyPset, Settings
<1>4. CASE key = "timing"
  BY <1>1, <1>2, <1>4 DEF ApplyPset, Settings
<1>5. CASE key = "pager"
  BY <1>1, <1>2, <1>5 DEF ApplyPset, Settings
<1>6. CASE key \notin {"expanded", "timing", "pager"}
  BY <1>6 DEF ApplyPset
<1> QED
  BY <1>3, <1>4, <1>5, <1>6

SaidType == [expanded : {"on", "off", "auto"}, timing : BOOLEAN]

\* One \pset, at the prompt or in ~/.pgclirc, changes the setting and what was
\* said of it together.
LEMMA PsetAgrees ==
    ASSUME settings \in Settings, said \in SaidType, SettingsAsAnnounced, NEW key, NEW value,
           settings' = ApplyPset(settings, key, value), said' = Announce(said, settings', key)
    PROVE  settings' \in Settings /\ said' \in SaidType /\ SettingsAsAnnounced'
<1>1. /\ settings' \in Settings /\ settings'.auto = settings.auto
      /\ key # "expanded" => settings'.expanded = settings.expanded
      /\ key = "expanded" => settings'.expanded = settings'.opt_expanded
      /\ key # "timing" => settings'.timing = settings.timing
      /\ key = "timing" => settings'.timing = settings'.opt_timing
  BY PsetApplies
<1>2. settings'.opt_expanded \in BOOLEAN /\ settings'.opt_timing \in BOOLEAN
  BY <1>1 DEF Settings
<1>3. CASE key = "expanded"
  <2>1. said' = [said EXCEPT !.expanded = IF settings'.opt_expanded THEN "on" ELSE "off"]
    BY <1>3 DEF Announce
  <2> QED
    BY <1>1, <1>2, <1>3, <2>1 DEF SettingsAsAnnounced, SaidType
<1>4. CASE key = "timing"
  <2>1. said' = [said EXCEPT !.timing = settings'.opt_timing]
    BY <1>4 DEF Announce
  <2> QED
    BY <1>1, <1>2, <1>4, <2>1 DEF SettingsAsAnnounced, SaidType
<1>5. CASE key \notin {"expanded", "timing"}
  <2>1. said' = said
    BY <1>5 DEF Announce
  <2> QED
    BY <1>1, <1>5, <2>1 DEF SettingsAsAnnounced
<1> QED
  BY <1>3, <1>4, <1>5

LEMMA AnnouncedStep ==
    ASSUME SettingsInv, Next
    PROVE  settings' \in Settings /\ said' \in SaidType /\ SettingsAsAnnounced'
<1>0. settings \in Settings /\ said \in SaidType /\ SettingsAsAnnounced
  BY DEF SettingsInv, TypeOK, SaidType
<1>1. CASE LoadStartupFile
  BY <1>0, <1>1, PsetAgrees DEF LoadStartupFile, SettingsAsAnnounced
<1>2. CASE X
  <2>1. PICK mode \in {"on", "off", "auto"} :
            /\ settings' = [settings EXCEPT !.expanded = (mode = "on"), !.auto = (mode = "auto")]
            /\ said' = [said EXCEPT !.expanded = mode]
    BY <1>2 DEF X
  <2>2. /\ settings'.expanded = (mode = "on") /\ settings'.auto = (mode = "auto")
        /\ settings'.timing = settings.timing /\ settings' \in Settings
    BY <1>0, <2>1 DEF Settings
  <2>3. said'.expanded = mode /\ said'.timing = said.timing /\ said' \in SaidType
    BY <1>0, <2>1 DEF SaidType
  <2> QED
    BY <1>0, <2>2, <2>3 DEF SettingsAsAnnounced
<1>3. CASE Timing
  <2>1. PICK state \in BOOLEAN :
            /\ settings' = [settings EXCEPT !.timing = state]
            /\ said' = [said EXCEPT !.timing = state]
    BY <1>0, <1>3, OnOffType DEF Timing, Settings
  <2> QED
    BY <1>0, <2>1 DEF SettingsAsAnnounced, Settings, SaidType
<1>4. CASE Pset
  BY <1>0, <1>4, PsetAgrees DEF Pset
<1>5. CASE Command
  <2>1. KeepsChoices /\ said' = said
    BY <1>5, CommandDisplays DEF SettingsInv, Quiet
  <2> QED
    BY <1>0, <2>1 DEF KeepsChoices, SettingsAsAnnounced
<1> QED
  BY <1>1, <1>2, <1>3, <1>4, <1>5, StepKinds DEF Setting

LEMMA PagerStep ==
    ASSUME SettingsInv, Next
    PROVE  PagerFollowsPset' /\ AtStart' /\ pager_disabled' \in BOOLEAN /\ pset_used' \in BOOLEAN
<1>0. /\ settings \in Settings /\ pager_disabled \in BOOLEAN /\ pset_used \in BOOLEAN
      /\ PagerFollowsPset /\ AtStart
  BY DEF SettingsInv, TypeOK
<1>1. CASE LoadStartupFile
  BY <1>0, <1>1 DEF LoadStartupFile, AtStart, PagerFollowsPset
<1>2. CASE X \/ Timing
  <2>1. settings'.pager_enabled = settings.pager_enabled
    <3>1. CASE X
      BY <1>0, <3>1 DEF X, Settings
    <3>2. CASE Timing
      BY <1>0, <3>2 DEF Timing, Settings
    <3> QED
      BY <1>2, <3>1, <3>2
  <2>2. UNCHANGED <<pc, pager_disabled, pset_used>>
    BY <1>2 DEF X, Timing, fixedVars
  <2> QED
    BY <1>0, <2>1, <2>2 DEF AtStart, PagerFollowsPset
<1>3. CASE Pset
  <2>1. settings'.pager_enabled \in BOOLEAN
    BY AnnouncedStep DEF Settings
  <2> QED
    BY <1>3, <2>1 DEF Pset, At, AtStart, PagerFollowsPset
<1>4. CASE Command
  <2>1. KeepsChoices /\ UNCHANGED <<pager_disabled, pset_used>>
    BY <1>4, CommandDisplays DEF SettingsInv, Quiet
  <2>2. pc' # "start"
    BY <1>4 DEF Command, RunSql, Redirect, SetVariable, UnsetVariable, GSet, SetOnError, Reset,
       Reconnect, Repeat, RepeatExpanded, Around, WriteResult, Plain, EditAndExecute, RunBookmark,
       Query, Introspect, Source, Catalog, ExecuteFile, Watch, WatchTick, DiffTick, CtrlC, Quit,
       Output, At
  <2> QED
    BY <1>0, <2>1, <2>2 DEF KeepsChoices, PagerFollowsPset, AtStart
<1> QED
  BY <1>1, <1>2, <1>3, <1>4, StepKinds DEF Setting

----------------------------------------------------------------------------
(* The query buffer. *)

BufferFollows ==
    /\ last_sql' \in Texts \cup {Empty}
    /\ last_sql' \in {last_sql, Empty, shown'.sql}
    /\ pc' \in {"watch", "diff"} => last_sql' # Empty

LEMMA ShownSql ==
    ASSUME NEW sql
    PROVE  /\ Fail(sql) => shown'.sql = sql
           /\ \A what, expanded, timing, to :
                 Render(what, sql, expanded, timing, to) => shown'.sql = sql
<1>1. Fail(sql) => shown'.sql = sql
  BY DEF Fail, Nothing
<1>2. \A what, expanded, timing, to :
          Render(what, sql, expanded, timing, to) => shown'.sql = sql
  BY DEF Render
<1> QED
  BY <1>1, <1>2

LEMMA BufferStep ==
    ASSUME SettingsInv, Next
    PROVE  BufferFollows
<1>0. /\ last_sql \in Texts \cup {Empty} /\ TypeOK
      /\ pc \in {"watch", "diff"} => last_sql # Empty
  BY DEF SettingsInv, TypeOK, NothingEmptySent
<1>1. ASSUME NEW l \in Lines, RunSql(l)
      PROVE  BufferFollows
  <2>1. Substitute(l) \in Texts /\ pc' = "prompt"
    BY <1>0, <1>1, SubstitutedText DEF RunSql
  <2>2. \/ last_sql' = last_sql
        \/ last_sql' = Substitute(l) /\ shown'.sql = Substitute(l)
    BY <1>1, ShownSql DEF RunSql
  <2> QED
    BY <1>0, <2>1, <2>2 DEF BufferFollows
<1>2. CASE EditAndExecute
  <2>1. pc' = "prompt"
    BY <1>2 DEF EditAndExecute, At
  <2>2. ASSUME NEW l \in Lines
        PROVE  [body |-> l.body, val |-> Unset] \in Texts
    BY DEF Texts
  <2>3. \/ last_sql' = last_sql
        \/ last_sql' \in Texts /\ last_sql' = shown'.sql
    BY <1>2, <2>2, ShownSql DEF EditAndExecute
  <2> QED
    BY <1>0, <2>1, <2>3 DEF BufferFollows
<1>3. CASE RunBookmark
  <2>1. pc' = "prompt"
    BY <1>3 DEF RunBookmark, At
  <2>2. last_sql' \in Texts /\ last_sql' = shown'.sql
    BY <1>3, ShownSql DEF RunBookmark
  <2> QED
    BY <2>1, <2>2 DEF BufferFollows
<1>4. CASE Reset \/ Reconnect
  BY <1>4 DEF Reset, Reconnect, At, BufferFollows
<1>5. CASE Watch
  <2>1. last_sql # Empty /\ last_sql' = last_sql
    BY <1>5, BufferIsThere DEF Watch
  <2> QED
    BY <1>0, <2>1 DEF BufferFollows
<1>6. CASE \/ LoadStartupFile \/ X \/ Timing \/ Pset \/ Redirect \/ SetVariable \/ UnsetVariable
           \/ GSet \/ SetOnError \/ Repeat \/ RepeatExpanded \/ Around \/ WriteResult \/ Plain
           \/ Query \/ Introspect \/ Source \/ Catalog \/ ExecuteFile
           \/ WatchTick \/ DiffTick \/ CtrlC \/ Quit \/ Output
  <2>1. last_sql' = last_sql
    BY <1>6 DEF LoadStartupFile, X, Timing, Pset, Redirect, SetVariable, UnsetVariable, GSet,
       SetOnError, Repeat, RepeatExpanded, Around, WriteResult, Plain, Query, Introspect, Source,
       Catalog, ExecuteFile, WatchTick, DiffTick, CtrlC, Quit, Output
  <2>2. pc' \in {pc, "prompt", "gone"}
    BY <1>6 DEF LoadStartupFile, X, Timing, Pset, Redirect, SetVariable, UnsetVariable, GSet,
       SetOnError, Repeat, RepeatExpanded, Around, WriteResult, Plain, Query, Introspect, Source,
       Catalog, ExecuteFile, WatchTick, DiffTick, CtrlC, Quit, Output
  <2> QED
    BY <1>0, <2>1, <2>2 DEF BufferFollows
<1> QED
  BY <1>1, <1>2, <1>3, <1>4, <1>5, <1>6 DEF Next

----------------------------------------------------------------------------
(* The remaining types. *)

\* The three modes of \on_error, whatever follows the command.
LEMMA OnErrorStep ==
    ASSUME TypeOK, SetOnError
    PROVE  on_error' \in {"stop", "continue", "rollback"}
<1>1. PICK c \in Typed("on_error") : on_error' = IF c.arg = "" THEN "stop" ELSE c.arg
  BY DEF SetOnError
<1>2. c.name \in {"on_error", "onerror"} /\ ~Refused(c)
  BY TypedNames DEF Named7, NamesOf
<1>3. c.arg \in {"", "stop", "continue", "rollback"}
  BY <1>2 DEF Refused
<1> QED
  BY <1>1, <1>3

LEMMA FixedStep ==
    ASSUME TypeOK, Next
    PROVE  /\ pc' \in {"start", "prompt", "watch", "diff", "gone"}
           /\ output_file' \in BOOLEAN
           /\ on_error' \in {"stop", "continue", "rollback"}
           /\ variables' \in [Names -> Values \cup {Unset}]
           /\ sigint' \in {"default", "handled"} /\ pressed' \in BOOLEAN
<1> DEFINE Fixed == /\ pc' \in {"start", "prompt", "watch", "diff", "gone"}
                    /\ output_file' \in BOOLEAN
                    /\ on_error' \in {"stop", "continue", "rollback"}
                    /\ variables' \in [Names -> Values \cup {Unset}]
                    /\ sigint' \in {"default", "handled"} /\ pressed' \in BOOLEAN
<1>0. /\ pc \in {"start", "prompt", "watch", "diff", "gone"}
      /\ output_file \in BOOLEAN /\ on_error \in {"stop", "continue", "rollback"}
      /\ variables \in [Names -> Values \cup {Unset}]
      /\ sigint \in {"default", "handled"} /\ pressed \in BOOLEAN
  BY DEF TypeOK
<1>1. CASE LoadStartupFile \/ (\E l \in Lines : RunSql(l)) \/ X \/ Timing \/ Redirect \/ Pset
  BY <1>0, <1>1 DEF LoadStartupFile, RunSql, X, Timing, Redirect, Pset, fixedVars
<1>2. CASE SetVariable \/ UnsetVariable \/ GSet
  BY <1>0, <1>2 DEF SetVariable, UnsetVariable, GSet
<1>3. CASE SetOnError
  <2>1. UNCHANGED <<pc, output_file, variables, sigint, pressed>>
    BY <1>3 DEF SetOnError
  <2> QED
    BY <1>0, <1>3, <2>1, OnErrorStep
<1>4. CASE \/ Reset \/ Reconnect \/ Repeat \/ RepeatExpanded \/ Around \/ WriteResult \/ Plain
           \/ EditAndExecute \/ RunBookmark \/ Query \/ Introspect \/ Source \/ Catalog
           \/ ExecuteFile \/ WatchTick \/ DiffTick \/ Output
  <2>1. UNCHANGED <<pc, output_file, on_error, variables, sigint, pressed>>
    BY <1>4 DEF Reset, Reconnect, Repeat, RepeatExpanded, Around, WriteResult, Plain,
       EditAndExecute, RunBookmark, Query, Introspect, Source, Catalog, ExecuteFile, WatchTick,
       DiffTick, Output, fixedVars
  <2> QED
    BY <1>0, <2>1
<1>5. CASE Watch \/ CtrlC \/ Quit
  BY <1>0, <1>5 DEF Watch, CtrlC, Quit, fixedVars
<1> QED
  BY <1>1, <1>2, <1>3, <1>4, <1>5 DEF Next

\* What a step shows is of the right type and not empty.
LEMMA ShownStep ==
    ASSUME SettingsInv, Next
    PROVE  ShowsSomething
<1>1. CASE Setting
  <2>1. shown' = Nothing
    BY <1>1 DEF Setting, LoadStartupFile, X, Timing, Pset, TextOnly
  <2> QED
    BY <2>1 DEF ShowsSomething, Nothing, ShownType, Dest, UserKinds
<1>2. CASE Command
  BY <1>2, CommandDisplays DEF SettingsInv
<1> QED
  BY <1>1, <1>2, StepKinds

LEMMA NextSettings == SettingsInv /\ [Next]_vars => SettingsInv'
<1> SUFFICES ASSUME SettingsInv, [Next]_vars PROVE SettingsInv'
  OBVIOUS
<1>1. CASE Next
  <2>1. TypeOK'
    BY <1>1, AnnouncedStep, PagerStep, BufferStep, FixedStep, ShownStep
    DEF SettingsInv, TypeOK, SaidType, BufferFollows, ShowsSomething, ShownType, Dest
  <2>2. NothingEmptySent'
    BY <1>1, BufferStep, ShownStep DEF NothingEmptySent, BufferFollows, ShowsSomething
  <2> QED
    BY <1>1, <2>1, <2>2, AnnouncedStep, PagerStep DEF SettingsInv
<1>2. CASE UNCHANGED vars
  BY <1>2 DEF vars, fixedVars, SettingsInv, TypeOK, SettingsAsAnnounced, PagerFollowsPset,
     NothingEmptySent, AtStart
<1> QED
  BY <1>1, <1>2

----------------------------------------------------------------------------
(* The settings in a behaviour of all commands. *)

LEMMA CommandsSettings ==
    /\ CommandsInit => Init
    /\ [CommandsNext]_<<part, settingsVars, serverVars, copyVars>> => [Next]_vars
  BY DEF CommandsInit, CommandsNext, SettingsStep, CatalogStep, TypedCopyStep, FileCopyStep,
         settingsVars

\* The inductive invariant of the settings: the types, the copies that agree,
\* the pager as \pset left it, and the quiet state that ~/.pgclirc starts from.
THEOREM SettingsInvariance == CommandsSpec => []SettingsInv
<1>1. CommandsInit => SettingsInv
  BY CommandsSettings, InitSettings
<1>2. SettingsInv /\ [CommandsNext]_<<part, settingsVars, serverVars, copyVars>> => SettingsInv'
  BY CommandsSettings, NextSettings
<1> QED
  BY <1>1, <1>2, PTL DEF CommandsSpec

\* The copies agree: what the program last said of timing and of expanded
\* display, by \x, \timing or \pset, is what the dispatcher holds, and the
\* pager follows \pset (meta_handler.rs, pset.rs).
THEOREM CopiesAgree == CommandsSpec => []SettingsAgree
<1>1. SettingsInv => SettingsAgree
  BY DEF SettingsInv, SettingsAgree
<1> QED
  BY <1>1, SettingsInvariance, PTL

\* A result of the user's SQL is rendered as the dispatcher's flags have it,
\* whatever the commands before it left in the shared options, and no query,
\* listing or script changes a choice (run_sql, handle_meta).
THEOREM ResultsFollowChoices == CommandsSpec => ResultsAsChosen
<1>1. ASSUME SettingsInv, [Next]_vars
      PROVE  /\ [shown'.what \in UserKinds =>
                    /\ shown'.timing = settings.timing
                    /\ settings.expanded => shown'.expanded
                    /\ shown'.expanded => settings.expanded \/ settings.auto]_vars
             /\ [shown'.what # "nothing" =>
                    /\ settings'.expanded = settings.expanded
                    /\ settings'.auto = settings.auto
                    /\ settings'.timing = settings.timing
                    /\ settings'.pager_enabled = settings.pager_enabled
                    /\ output_file' = output_file /\ said' = said]_vars
  <2>1. CASE UNCHANGED vars
    BY <2>1
  <2>2. CASE Next
    <3>1. ShowsSomething
      BY <1>1, <2>2, ShownStep
    <3>2. CASE Command
      BY <1>1, <3>1, <3>2, CommandDisplays
      DEF SettingsInv, KeepsChoices, ShowsSomething, Quiet, AsChosen
    <3>3. CASE Setting
      <4>1. shown' = Nothing
        BY <3>3 DEF Setting, LoadStartupFile, X, Timing, Pset, TextOnly
      <4>2. shown'.what = "nothing"
        BY <4>1 DEF Nothing
      <4> QED
        BY <4>2 DEF UserKinds
    <3> QED
      BY <2>2, <3>2, <3>3, StepKinds
  <2> QED
    BY <1>1, <2>1, <2>2
<1>2. [CommandsNext]_<<part, settingsVars, serverVars, copyVars>> => [Next]_vars
  BY CommandsSettings
<1> QED
  BY <1>1, <1>2, SettingsInvariance, PTL
  DEF CommandsSpec, ResultsAsChosen, ShownAsSet, ChoicesPersist

\* The query buffer takes only a text that was sent as it stands, and no
\* command sends an empty one, wherever the check on the buffer is (dispatch,
\* handle_meta).
THEOREM BufferStaysSound == CommandsSpec => BufferIsSound
<1>1. ASSUME SettingsInv, [Next]_vars
      PROVE  [last_sql' \in {last_sql, Empty, shown'.sql}]_vars
  BY <1>1, BufferStep DEF BufferFollows
<1>2. [CommandsNext]_<<part, settingsVars, serverVars, copyVars>> => [Next]_vars
  BY CommandsSettings
<1>3. SettingsInv => NothingEmptySent
  BY DEF SettingsInv
<1> QED
  BY <1>1, <1>2, <1>3, SettingsInvariance, PTL DEF CommandsSpec, BufferIsSound, BufferIsWhatRan

----------------------------------------------------------------------------
(* ClientCopy: the rows typed. *)

\* What has been typed is what was taken and the entry under way; once the
\* input has ended, what was taken and what ended it or was cut off.
Collected ==
    /\ {data, buffer} \subseteq Seq(Copy!TypedLines) /\ row_count \in Nat
    /\ typed = data \o buffer /\ row_count <= Len(data)

CutOff ==
    /\ data \in Seq(Copy!TypedLines) /\ row_count \in Nat /\ row_count <= Len(data)
    /\ \E rest \in Seq(Copy!TypedLines) :
          typed = data \o rest /\ (ended = "marker" => rest = <<"\\.">>)

TypedInv ==
    /\ Copy!TypeOK /\ Copy!TypedRowsArrive
    /\ stage # "prompt" => told = "" /\ stored = <<>>
    /\ stage = "collect" => Collected
    /\ stage = "send" => CutOff

LEMMA InitTyped == Copy!Init => TypedInv
<1> SUFFICES ASSUME Copy!Init PROVE TypedInv
  OBVIOUS
<1>0. buffer = <<>> /\ typed = <<>>
  BY Zenon DEF Copy!Init
<1>1. buffer \in Seq(Copy!TypedLines) /\ typed \in Seq(Copy!TypedLines)
  BY <1>0
<1>2. Copy!TypeOK
  BY <1>1 DEF Copy!Init, Copy!TypeOK
<1> QED
  BY <1>2 DEF Copy!Init, TypedInv, Copy!TypedRowsArrive

\* Sequences: an entry grows, is alone, is taken or is cut off.
LEMMA AloneInEntry == \A x : Append(<<>>, x) = <<x>>
  OBVIOUS

LEMMA SingleEntry ==
    ASSUME NEW S, NEW b \in Seq(S), NEW x \in S, NEW y, Append(b, x) = <<y>>
    PROVE  b = <<>> /\ x = y
<1>1. Len(Append(b, x)) = Len(b) + 1 /\ Len(b) \in Nat
  BY AppendProperties, LenProperties
<1>2. Len(b) = 0
  BY <1>1
<1>3. b = <<>>
  BY <1>2, EmptySeq
<1>4. Append(b, x)[1] = x
  BY <1>2, AppendProperties
<1> QED
  BY <1>3, <1>4

LEMMA BeginningOf ==
    ASSUME NEW S, NEW d \in Seq(S), NEW r \in Seq(S)
    PROVE  /\ IsPrefix(d, d \o r)
           /\ \A x : r = <<x>> => Front(d \o r) = d
<1>1. d \o r \in Seq(S) /\ Len(d \o r) = Len(d) + Len(r)
  OBVIOUS
<1>2. SubSeq(d \o r, 1, Len(d)) = d
  <2>1. CASE d = <<>>
    BY <2>1, <1>1, SubSeqEmpty
  <2>2. CASE d # <<>>
    <3>1. 1 \in 1..Len(d) /\ Len(d) \in 1..Len(d)
      BY <2>2, EmptySeq
    <3> QED
      BY <3>1, SubSeqOfConcat1, SubSeqFull
  <2> QED
    BY <2>1, <2>2
<1>3. SubSeq(d, 1, Len(d)) = d
  BY SubSeqFull
<1>4. ASSUME NEW x, r = <<x>>
      PROVE  Front(d \o r) = d
  <2>1. Len(d \o r) - 1 = Len(d)
    BY <1>1, <1>4
  <2> QED
    BY <1>2, <2>1 DEF Front
<1> QED
  BY <1>1, <1>2, <1>3, <1>4 DEF IsPrefix

\* The editor skips a blank line of its own and nothing else of what is typed.
LEMMA OnlyBlankSkipped ==
    ASSUME buffer \in Seq(Copy!TypedLines), NEW l \in Copy!TypedLines
    PROVE  LET entry == Append(buffer, l) IN
           /\ Copy!SkipBlank(entry) => buffer = <<>> /\ l = ""
           /\ Copy!Continue(entry) \/ Copy!Marker(entry) \/ Copy!TakeEntry(entry)
                 => ~(buffer = <<>> /\ l = "")
<1> DEFINE entry == Append(buffer, l)
           blank == ""
           backslashed == {"\\N", "\\."}
<1>1. Copy!SkipBlank(entry) => buffer = <<>> /\ l = blank
  <2>1. \A y : entry = <<y>> => buffer = <<>> /\ l = y
    BY SingleEntry
  <2> QED
    BY <2>1 DEF Copy!SkipBlank
<1>2. ASSUME buffer = <<>>, l = blank
      PROVE  entry = <<blank>> /\ entry[1] = blank /\ DOMAIN entry = {1}
  <2>1. entry = <<blank>>
    BY <1>2, AloneInEntry
  <2>2. <<blank>>[1] = blank /\ DOMAIN <<blank>> = {1}
    OBVIOUS
  <2> QED
    BY <2>1, <2>2
<1>3. ASSUME buffer = <<>>, l = blank
      PROVE  ~Copy!StartsWithBackslash(entry) /\ Copy!IsIncomplete(entry)
  <2>1. ~Copy!StartsWithBackslash(entry)
    BY <1>2, <1>3 DEF Copy!StartsWithBackslash
  <2>2. \A i \in DOMAIN entry : entry[i] # "row;"
    BY <1>2, <1>3
  <2> QED
    BY <2>1, <2>2, Zenon DEF Copy!IsIncomplete
<1>4. ASSUME buffer = <<>>, l = blank
      PROVE  ~(Copy!Continue(entry) \/ Copy!Marker(entry) \/ Copy!TakeEntry(entry))
  <2>1. ~Copy!Continue(entry)
    BY <1>2, <1>4 DEF Copy!Continue
  <2>2. ~Copy!Marker(entry)
    <3> DEFINE marker == "\\."
    <3>1. marker # blank
      OBVIOUS
    <3>2. Copy!Marker(entry) => entry = <<marker>>
      BY DEF Copy!Marker
    <3> HIDE DEF marker, blank
    <3>3. entry = <<marker>> => entry[1] = marker
      OBVIOUS
    <3> QED
      BY <1>2, <1>4, <3>1, <3>2, <3>3
  <2>3. ~Copy!TakeEntry(entry)
    BY <1>3, <1>4 DEF Copy!TakeEntry
  <2> QED
    BY <2>1, <2>2, <2>3
<1> QED
  BY <1>1, <1>4

LEMMA LineTyped ==
    ASSUME TypedInv, NEW l \in Copy!TypedLines, Copy!TypeLine(l)
    PROVE  TypedInv'
<1> DEFINE entry == Append(buffer, l)
<1>0. /\ stage = "collect" /\ Collected /\ told = "" /\ stored = <<>>
      /\ {buffer, typed} \subseteq Seq(Copy!TypedLines) /\ row_count \in Nat
      /\ ended \in {"", "marker", "interrupt", "eof"}
      /\ path \in Copy!Paths \cup {Absent} /\ DOMAIN files = Copy!Paths
  BY DEF Copy!TypeLine, TypedInv, Copy!TypeOK
<1>1. /\ UNCHANGED <<stored, told, path, files>>
      /\ Copy!SkipBlank(entry) \/ Copy!Continue(entry) \/ Copy!Marker(entry)
            \/ Copy!TakeEntry(entry)
      /\ typed' = IF buffer = <<>> /\ l = "" THEN typed ELSE Append(typed, l)
  BY DEF Copy!TypeLine, Copy!fileVars
<1>2. /\ entry \in Seq(Copy!TypedLines) /\ Len(entry) = Len(buffer) + 1
      /\ Append(data \o buffer, l) = data \o entry
      /\ \A y : entry = <<y>> => buffer = <<>> /\ l = y
      /\ Append(typed, l) \in Seq(Copy!TypedLines)
  <2>1. /\ data \in Seq(Copy!TypedLines) /\ buffer \in Seq(Copy!TypedLines)
        /\ typed \in Seq(Copy!TypedLines)
    BY <1>0 DEF Collected
  <2>2. Append(typed, l) \in Seq(Copy!TypedLines)
    BY <2>1, AppendProperties
  <2>3. entry \in Seq(Copy!TypedLines) /\ Len(entry) = Len(buffer) + 1
    BY <2>1, AppendProperties
  <2>4. Append(data \o buffer, l) = data \o entry
    <3>1. data \o buffer \in Seq(Copy!TypedLines)
      BY <2>1, ConcatProperties
    <3>2. /\ Append(data \o buffer, l) = (data \o buffer) \o <<l>>
          /\ entry = buffer \o <<l>> /\ <<l>> \in Seq(Copy!TypedLines)
      BY <2>1, <3>1, AppendIsConcat
    <3> QED
      BY <2>1, <3>2, ConcatAssociative
  <2>5. \A y : entry = <<y>> => buffer = <<>> /\ l = y
    BY <2>1, SingleEntry
  <2> QED
    BY <2>2, <2>3, <2>4, <2>5
<1>3. CASE Copy!SkipBlank(entry)
  <2>1. UNCHANGED <<stage, buffer, data, row_count, ended, typed>>
    BY <1>0, <1>1, <1>3, OnlyBlankSkipped DEF Copy!SkipBlank
  <2> QED
    BY <1>0, <1>1, <2>1 DEF TypedInv, Copy!TypeOK, Copy!TypedRowsArrive, Collected
<1>4. CASE Copy!Continue(entry)
  <2>1. buffer' = entry /\ UNCHANGED <<stage, data, row_count, ended>>
    BY <1>4 DEF Copy!Continue
  <2>2. typed' = Append(typed, l)
    BY <1>0, <1>1, <1>4, OnlyBlankSkipped
  <2>3. Collected'
    BY <1>0, <1>2, <2>1, <2>2 DEF Collected
  <2>4. typed' \in Seq(Copy!TypedLines) /\ buffer' \in Seq(Copy!TypedLines)
    BY <1>2, <2>1, <2>2
  <2> QED
    BY <1>0, <1>1, <2>1, <2>3, <2>4 DEF TypedInv, Copy!TypeOK, Copy!TypedRowsArrive
<1>5. CASE Copy!Marker(entry)
  <2> DEFINE marker == "\\."
  <2>1. /\ entry = <<marker>> /\ stage' = "send" /\ ended' = "marker"
        /\ UNCHANGED <<buffer, data, row_count>>
    BY <1>5 DEF Copy!Marker
  <2>2. typed' = Append(typed, l)
    BY <1>0, <1>1, <1>5, OnlyBlankSkipped
  <2>3. typed' = data \o <<marker>> /\ <<marker>> \in Seq(Copy!TypedLines)
    BY <1>0, <1>2, <2>1, <2>2 DEF Collected
  <2>4. CutOff'
    BY <1>0, <2>1, <2>3 DEF Collected, CutOff
  <2>5. typed' \in Seq(Copy!TypedLines)
    BY <1>2, <2>2
  <2> QED
    BY <1>0, <1>1, <2>1, <2>4, <2>5 DEF TypedInv, Copy!TypeOK, Copy!TypedRowsArrive
<1>6. CASE Copy!TakeEntry(entry)
  <2>1. /\ data' = data \o entry /\ row_count' = row_count + 1 /\ buffer' = <<>>
        /\ UNCHANGED <<stage, ended>>
    BY <1>6 DEF Copy!TakeEntry
  <2>2. typed' = Append(typed, l)
    BY <1>0, <1>1, <1>6, OnlyBlankSkipped
  <2>3. /\ data' \in Seq(Copy!TypedLines) /\ Len(data') = Len(data) + Len(entry)
        /\ typed' = data' /\ data' = data' \o <<>>
    BY <1>0, <1>2, <2>1, <2>2, ConcatProperties, ConcatEmptySeq DEF Collected
  <2>4. Collected'
    <3>1. Len(data) \in Nat /\ Len(buffer) \in Nat
      BY <1>0, LenProperties DEF Collected
    <3>2. row_count' \in Nat /\ row_count' <= Len(data')
      <4>1. row_count \in Nat /\ row_count <= Len(data) /\ row_count' = row_count + 1
        BY <1>0, <2>1 DEF Collected
      <4>2. Len(data') = Len(data) + (Len(buffer) + 1)
        BY <1>2, <2>3
      <4> QED
        BY <3>1, <4>1, <4>2
    <3>3. {data', buffer'} \subseteq Seq(Copy!TypedLines) /\ typed' = data' \o buffer'
      BY <2>1, <2>3
    <3> QED
      BY <3>2, <3>3 DEF Collected
  <2>5. typed' \in Seq(Copy!TypedLines) /\ buffer' \in Seq(Copy!TypedLines)
    BY <2>1, <2>3
  <2> QED
    BY <1>0, <1>1, <2>1, <2>4, <2>5 DEF TypedInv, Copy!TypeOK, Copy!TypedRowsArrive, Collected
<1> QED
  BY <1>1, <1>3, <1>4, <1>5, <1>6

LEMMA TypingStep ==
    ASSUME TypedInv, Copy!Typing
    PROVE  TypedInv'
<1>0. /\ buffer \in Seq(Copy!TypedLines) /\ typed \in Seq(Copy!TypedLines) /\ row_count \in Nat
      /\ stage \in {"prompt", "collect", "send", "create", "write", "load"}
      /\ ended \in {"", "marker", "interrupt", "eof"}
      /\ path \in Copy!Paths \cup {Absent} /\ DOMAIN files = Copy!Paths
      /\ told \in {"", "error", "copied", "wrote", "loaded"}
  BY DEF TypedInv, Copy!TypeOK
<1>1. CASE Copy!BeginCopy
  <2>1. /\ stage' = "collect" /\ UNCHANGED <<path, files>> /\ told' = "" /\ stored' = <<>>
        /\ buffer' = <<>> /\ data' = <<>> /\ row_count' = 0 /\ typed' = <<>> /\ ended' = ""
    BY <1>1 DEF Copy!BeginCopy, Copy!fileVars
  <2>2. <<>> \in Seq(Copy!TypedLines) /\ Len(<<>>) = 0 /\ <<>> \o <<>> = <<>>
    BY EmptySeq, ConcatEmptySeq
  <2>3. /\ buffer' \in Seq(Copy!TypedLines) /\ typed' \in Seq(Copy!TypedLines)
        /\ data' \in Seq(Copy!TypedLines) /\ typed' = data' \o buffer'
        /\ row_count' \in Nat /\ row_count' <= Len(data')
    <3>1. typed' = data' \o buffer'
      BY <2>1, <2>2, Zenon
    <3>2. Len(data') = 0 /\ row_count' = 0
      BY <2>1, <2>2, Zenon
    <3>3. /\ buffer' \in Seq(Copy!TypedLines) /\ typed' \in Seq(Copy!TypedLines)
          /\ data' \in Seq(Copy!TypedLines)
      BY <2>1, <2>2, Zenon
    <3> QED
      BY <3>1, <3>2, <3>3
  <2>4. Collected'
    BY <2>3 DEF Collected
  <2> QED
    BY <1>0, <2>1, <2>3, <2>4 DEF TypedInv, Copy!TypeOK, Copy!TypedRowsArrive
<1>2. ASSUME NEW l \in Copy!TypedLines, Copy!TypeLine(l)
      PROVE  TypedInv'
  BY <1>2, LineTyped
<1>3. ASSUME NEW key \in {"interrupt", "eof"}, Copy!EndInput(key)
      PROVE  TypedInv'
  <2>1. /\ stage = "collect" /\ stage' = "send" /\ ended' = key /\ buffer' = <<>>
        /\ UNCHANGED <<data, row_count, stored, told, typed, path, files>>
    BY <1>3 DEF Copy!EndInput, Copy!fileVars
  <2>2. Collected /\ told = "" /\ stored = <<>>
    BY <2>1 DEF TypedInv
  <2>3. CutOff'
    BY <2>1, <2>2 DEF Collected, CutOff
  <2>4. buffer' \in Seq(Copy!TypedLines)
    BY <2>1
  <2> QED
    BY <1>0, <2>1, <2>2, <2>3, <2>4 DEF TypedInv, Copy!TypeOK, Copy!TypedRowsArrive
<1>4. CASE Copy!Send
  <2>1. /\ stage = "send" /\ stage' = "prompt" /\ stored' = data /\ told' = "copied"
        /\ UNCHANGED <<data, row_count, buffer, typed, ended, path, files>>
    BY <1>4 DEF Copy!Send, Copy!typingVars, Copy!fileVars
  <2>2. CutOff
    BY <2>1 DEF TypedInv
  <2>3. PICK rest \in Seq(Copy!TypedLines) :
            typed = data \o rest /\ (ended = "marker" => rest = <<"\\.">>)
    BY <2>2 DEF CutOff
  <2>4. data \in Seq(Copy!TypedLines) /\ row_count <= Len(data)
    BY <2>2 DEF CutOff
  <2>5. IsPrefix(data, typed) /\ (ended = "marker" => data = Front(typed))
    BY <2>3, <2>4, BeginningOf
  <2>6. IsPrefix(stored', typed') /\ (ended' = "marker" => stored' = Front(typed'))
    BY <2>1, <2>5, Zenon
  <2>7. row_count' <= Len(stored')
    BY <2>1, <2>4
  <2>8. Copy!TypedRowsArrive'
    <3>1. told' # "error"
      BY <2>1
    <3> QED
      BY <2>6, <2>7, <3>1, Zenon
      DEF Copy!TypedRowsArrive, IsPrefix, Front, Copy!IsPrefix, Copy!Front
  <2> QED
    BY <1>0, <2>1, <2>8 DEF TypedInv, Copy!TypeOK
<1>5. CASE stage = "send" /\ Copy!SendFails
  <2>1. /\ stage # "prompt" /\ stage' = "prompt" /\ told' = "error"
        /\ UNCHANGED <<data, row_count, stored, buffer, typed, ended, path, files>>
    BY <1>5 DEF Copy!SendFails, Copy!typingVars, Copy!fileVars
  <2> QED
    BY <1>0, <2>1 DEF TypedInv, Copy!TypeOK, Copy!TypedRowsArrive
<1> QED
  BY <1>1, <1>2, <1>3, <1>4, <1>5 DEF Copy!Typing

\* \copy leaves what was typed alone.
LEMMA CopyingStep ==
    ASSUME TypedInv, Copy!Copying
    PROVE  TypedInv'
<1>0. /\ buffer \in Seq(Copy!TypedLines) /\ typed \in Seq(Copy!TypedLines) /\ row_count \in Nat
      /\ stage \in {"prompt", "collect", "send", "create", "write", "load"}
      /\ ended \in {"", "marker", "interrupt", "eof"}
      /\ path \in Copy!Paths \cup {Absent} /\ DOMAIN files = Copy!Paths
      /\ told \in {"", "error", "copied", "wrote", "loaded"}
      /\ stage # "prompt" => told = "" /\ stored = <<>>
      /\ stage \in {"create", "write", "load"} => path \in Copy!Paths
  BY DEF TypedInv, Copy!TypeOK
<1>1. ASSUME NEW s \in Specs, Copy!Refuse(s) \/ Copy!CopyTo(s) \/ Copy!CopyFrom(s)
      PROVE  TypedInv'
  <2>1. /\ UNCHANGED <<row_count, files, buffer, typed, ended>> /\ stored' = <<>>
        /\ path' \in Copy!Paths \cup {Absent}
        /\ stage' \in {"prompt", "create", "load"} /\ stage = "prompt"
        /\ stage' # "prompt" => told' = "" /\ path' \in Copy!Paths
        /\ told' \in {"", "error"}
    BY <1>1 DEF Copy!Refuse, Copy!CopyTo, Copy!CopyFrom, Copy!BeginClientCopy, Copy!typingVars
  <2> QED
    BY <1>0, <2>1 DEF TypedInv, Copy!TypeOK, Copy!TypedRowsArrive
<1>2. CASE Copy!Create \/ Copy!WriteNext
  <2>1. /\ UNCHANGED <<data, row_count, stored, told, buffer, typed, ended, path>>
        /\ stage \in {"create", "write"} /\ stage' = "write" /\ DOMAIN files' = DOMAIN files
    BY <1>2 DEF Copy!Create, Copy!WriteNext, Copy!typingVars
  <2> QED
    BY <1>0, <2>1 DEF TypedInv, Copy!TypeOK, Copy!TypedRowsArrive
<1>3. CASE Copy!ThreadWrites
  <2>1. /\ UNCHANGED <<stage, data, row_count, stored, told, buffer, typed, ended, path>>
        /\ DOMAIN files' = DOMAIN files
    BY <1>3 DEF Copy!ThreadWrites, Copy!typingVars
  <2> QED
    BY <1>0, <2>1 DEF TypedInv, Copy!TypeOK, Copy!TypedRowsArrive, Collected, CutOff
<1>4. CASE Copy!FileFails \/ Copy!Flush \/ (stage = "load" /\ Copy!SendFails)
  <2>1. /\ UNCHANGED <<data, row_count, stored, buffer, typed, ended, path, files>>
        /\ stage # "prompt" /\ stage' = "prompt" /\ told' \in {"error", "wrote"}
    BY <1>4 DEF Copy!FileFails, Copy!Flush, Copy!SendFails, Copy!typingVars, Copy!fileVars
  <2> QED
    BY <1>0, <2>1 DEF TypedInv, Copy!TypeOK, Copy!TypedRowsArrive
<1>5. CASE Copy!Load
  <2>1. /\ UNCHANGED <<data, row_count, buffer, typed, ended, path, files>>
        /\ stage' = "prompt" /\ told' = "loaded"
    BY <1>5 DEF Copy!Load, Copy!typingVars, Copy!fileVars
  <2> QED
    BY <1>0, <2>1 DEF TypedInv, Copy!TypeOK, Copy!TypedRowsArrive
<1> QED
  BY <1>1, <1>2, <1>3, <1>4, <1>5 DEF Copy!Copying

----------------------------------------------------------------------------
(* ClientCopy: the file. *)

Rows == (UNION {Range(t) : t \in Tables}) \ {Absent}

\* While \copy writes: the file, the row the thread has and the rows to come
\* are what the server sent.
Writing ==
    /\ chunks \in Seq(Rows) /\ pending \in Rows \cup {Absent}
    /\ stage = "create" => pending = Absent /\ exported[path] = chunks
    /\ stage = "write" =>
          /\ files[path] \in Seq(Rows)
          /\ exported[path] =
                (files[path] \o (IF pending = Absent THEN <<>> ELSE <<pending>>)) \o chunks

\* A file that nobody writes is as the last \copy left it, if that succeeded.
FilesAtRest ==
    \A p \in Copy!Paths :
        exported[p] # Absent /\ ~(stage \in {"create", "write"} /\ p = path)
            => files[p] = exported[p]

FilesInv ==
    /\ DOMAIN exported = Copy!Paths
    /\ FilesAtRest
    /\ pending # Absent => stage = "write"
    /\ stage \in {"create", "write"} => Writing
    /\ stage = "load" /\ exported[path] # Absent => data = exported[path]
    /\ told \in {"wrote", "loaded"} => path \in Copy!Paths
    /\ Copy!FileRoundTrips

LEMMA InitFiles == Copy!Init => FilesInv
<1> SUFFICES ASSUME Copy!Init PROVE FilesInv
  OBVIOUS
<1>1. /\ exported = [p \in Copy!Paths |-> Absent] /\ pending = Absent /\ stage = "prompt"
      /\ told = ""
  BY Zenon DEF Copy!Init
<1> QED
  BY <1>1 DEF FilesInv, FilesAtRest, Copy!FileRoundTrips

LEMMA ServedRows ==
    ASSUME NEW t \in Tables
    PROVE  t \in Seq(Rows)
<1>1. Range(t) \ {Absent} \subseteq Rows
  BY DEF Rows
<1> QED
  BY <1>1, TablesAssumption, SeqMonotonic

\* A row on its way from the server to the file.
LEMMA RowMoves ==
    ASSUME NEW S, NEW f \in Seq(S), NEW c \in Seq(S)
    PROVE  /\ (<<>> \o <<>>) \o c = c
           /\ (f \o <<>>) \o <<>> = f
           /\ c # <<>> => /\ Head(c) \in S /\ Tail(c) \in Seq(S)
                          /\ (f \o <<>>) \o c = (f \o <<Head(c)>>) \o Tail(c)
           /\ \A x \in S : /\ Append(f, x) \in Seq(S)
                           /\ (Append(f, x) \o <<>>) \o c = (f \o <<x>>) \o c
<1>1. f \o <<>> = f /\ <<>> \o c = c /\ <<>> \o <<>> = <<>>
  BY ConcatEmptySeq, EmptySeq
<1>2. ASSUME c # <<>>
      PROVE  /\ Head(c) \in S /\ Tail(c) \in Seq(S)
             /\ (f \o <<>>) \o c = (f \o <<Head(c)>>) \o Tail(c)
  <2>1. Head(c) \in S /\ Tail(c) \in Seq(S)
    BY <1>2, HeadTailProperties
  <2>2. c = <<Head(c)>> \o Tail(c)
    BY <1>2, <2>1
  <2>3. f \o (<<Head(c)>> \o Tail(c)) = (f \o <<Head(c)>>) \o Tail(c)
    BY <2>1
  <2> QED
    BY <1>1, <2>1, <2>2, <2>3
<1>3. ASSUME NEW x \in S
      PROVE  /\ Append(f, x) \in Seq(S)
             /\ (Append(f, x) \o <<>>) \o c = (f \o <<x>>) \o c
  <2>1. Append(f, x) \in Seq(S) /\ Append(f, x) = f \o <<x>>
    BY AppendProperties, AppendIsConcat
  <2>2. Append(f, x) \o <<>> = Append(f, x)
    BY <2>1, ConcatEmptySeq
  <2> QED
    BY <2>1, <2>2
<1> QED
  BY <1>1, <1>2, <1>3

\* Typing leaves the files alone.
LEMMA TypingFiles ==
    ASSUME TypedInv, FilesInv, Copy!Typing
    PROVE  FilesInv'
<1>1. /\ UNCHANGED <<path, chunks, pending, files, exported>>
      /\ stage \in {"prompt", "collect", "send"} /\ stage' \in {"prompt", "collect", "send"}
      /\ told' \in {"", "error", "copied"}
  <2>1. stage \in {"prompt", "collect", "send"} /\ (stage # "prompt" => told = "")
    BY DEF TypedInv, Copy!Typing, Copy!BeginCopy, Copy!TypeLine, Copy!EndInput, Copy!Send
  <2>2. CASE Copy!BeginCopy \/ (\E key \in {"interrupt", "eof"} : Copy!EndInput(key))
    BY <2>1, <2>2 DEF Copy!BeginCopy, Copy!EndInput, Copy!fileVars
  <2>3. ASSUME NEW l \in Copy!TypedLines, Copy!TypeLine(l)
        PROVE  /\ UNCHANGED <<path, chunks, pending, files, exported, told>>
               /\ stage = "collect" /\ stage' \in {"collect", "send"}
    BY <2>3 DEF Copy!TypeLine, Copy!SkipBlank, Copy!Continue, Copy!Marker, Copy!TakeEntry,
       Copy!fileVars
  <2>4. CASE Copy!Send \/ (stage = "send" /\ Copy!SendFails)
    BY <2>1, <2>4 DEF Copy!Send, Copy!SendFails, Copy!fileVars
  <2> QED
    BY <2>1, <2>2, <2>3, <2>4 DEF Copy!Typing
<1> QED
  BY <1>1 DEF FilesInv, FilesAtRest, Copy!FileRoundTrips

LEMMA CopyingFiles ==
    ASSUME TypedInv, FilesInv, Copy!Copying
    PROVE  FilesInv'
<1>0. /\ DOMAIN exported = Copy!Paths /\ DOMAIN files = Copy!Paths /\ FilesAtRest
      /\ pending # Absent => stage = "write"
      /\ stage # "prompt" => told = ""
      /\ stage \in {"create", "write"} => Writing /\ path \in Copy!Paths
      /\ stage = "load" /\ exported[path] # Absent => data = exported[path]
      /\ stage = "load" => path \in Copy!Paths
  BY DEF TypedInv, Copy!TypeOK, FilesInv
<1>1. ASSUME NEW s \in Specs, Copy!Refuse(s)
      PROVE  FilesInv'
  <2>1. /\ UNCHANGED <<stage, chunks, pending, files, exported>> /\ stage = "prompt"
        /\ told' = "error"
    BY <1>1 DEF Copy!Refuse, Copy!BeginClientCopy
  <2> QED
    BY <1>0, <2>1 DEF FilesInv, FilesAtRest, Copy!FileRoundTrips
<1>2. ASSUME NEW s \in Specs, Copy!CopyTo(s)
      PROVE  FilesInv'
  <2>1. PICK t \in Tables : chunks' = t /\ exported' = [exported EXCEPT ![path'] = t]
    BY <1>2 DEF Copy!CopyTo, Copy!BeginClientCopy
  <2>2. /\ path' \in Copy!Paths /\ stage = "prompt" /\ stage' = "create" /\ told' = ""
        /\ UNCHANGED <<pending, files>>
    BY <1>2 DEF Copy!CopyTo, Copy!BeginClientCopy
  <2>3. Writing'
    BY <1>0, <2>1, <2>2, ServedRows DEF Writing
  <2> QED
    BY <1>0, <2>1, <2>2, <2>3 DEF FilesInv, FilesAtRest, Copy!FileRoundTrips
<1>3. ASSUME NEW s \in Specs, Copy!CopyFrom(s)
      PROVE  FilesInv'
  <2>1. /\ path' \in Copy!Paths /\ stage = "prompt" /\ stage' = "load" /\ told' = ""
        /\ UNCHANGED <<pending, files, exported>> /\ data' = files[path']
    BY <1>3 DEF Copy!CopyFrom, Copy!BeginClientCopy
  <2> QED
    BY <1>0, <2>1 DEF FilesInv, FilesAtRest, Copy!FileRoundTrips
<1>4. CASE Copy!Create
  <2>1. /\ stage = "create" /\ stage' = "write" /\ files' = [files EXCEPT ![path] = <<>>]
        /\ UNCHANGED <<path, chunks, pending, exported, told>>
    BY <1>4 DEF Copy!Create
  <2>2. /\ chunks \in Seq(Rows) /\ pending = Absent /\ exported[path] = chunks
        /\ path \in Copy!Paths
    BY <1>0, <2>1 DEF Writing
  <2>3. files'[path] = <<>> /\ (<<>> \o <<>>) \o chunks = chunks /\ <<>> \in Seq(Rows)
    BY <1>0, <2>1, <2>2, RowMoves, EmptySeq
  <2>4. Writing'
    BY <2>1, <2>2, <2>3 DEF Writing
  <2> QED
    BY <1>0, <2>1, <2>2, <2>4 DEF FilesInv, FilesAtRest, Copy!FileRoundTrips
<1>5. CASE Copy!WriteNext
  <2>1. /\ stage = "write" /\ stage' = "write" /\ pending = Absent /\ chunks # <<>>
        /\ pending' = Head(chunks) /\ chunks' = Tail(chunks)
        /\ UNCHANGED <<path, files, exported, told>>
    BY <1>5 DEF Copy!WriteNext
  <2>2. /\ chunks \in Seq(Rows) /\ files[path] \in Seq(Rows) /\ path \in Copy!Paths
        /\ exported[path] = (files[path] \o <<>>) \o chunks
    BY <1>0, <2>1 DEF Writing
  <2>3. /\ Head(chunks) \in Rows /\ Tail(chunks) \in Seq(Rows)
        /\ exported[path] = (files[path] \o <<Head(chunks)>>) \o Tail(chunks)
    BY <2>1, <2>2, RowMoves
  <2>4. pending' # Absent
    BY <2>1, <2>3 DEF Rows
  <2>5. Writing'
    BY <2>1, <2>2, <2>3, <2>4 DEF Writing
  <2> QED
    BY <1>0, <2>1, <2>2, <2>5 DEF FilesInv, FilesAtRest, Copy!FileRoundTrips
<1>6. CASE Copy!ThreadWrites
  <2>1. /\ stage = "write" /\ stage' = "write" /\ pending # Absent /\ pending' = Absent
        /\ files' = [files EXCEPT ![path] = Append(files[path], pending)]
        /\ UNCHANGED <<path, chunks, exported, told>>
    BY <1>0, <1>6 DEF Copy!ThreadWrites
  <2>2. /\ chunks \in Seq(Rows) /\ files[path] \in Seq(Rows) /\ path \in Copy!Paths
        /\ pending \in Rows /\ exported[path] = (files[path] \o <<pending>>) \o chunks
    BY <1>0, <2>1 DEF Writing
  <2>3. files'[path] = Append(files[path], pending)
    BY <1>0, <2>1, <2>2
  <2>4. /\ Append(files[path], pending) \in Seq(Rows)
        /\ exported[path] = (Append(files[path], pending) \o <<>>) \o chunks
    BY <2>2, RowMoves
  <2>5. Writing'
    BY <2>1, <2>2, <2>3, <2>4 DEF Writing
  <2> QED
    BY <1>0, <2>1, <2>2, <2>5 DEF FilesInv, FilesAtRest, Copy!FileRoundTrips
<1>7. CASE Copy!FileFails
  <2>1. /\ stage \in {"create", "write"} /\ stage' = "prompt" /\ told' = "error"
        /\ pending' = Absent /\ exported' = [exported EXCEPT ![path] = Absent]
        /\ UNCHANGED <<path, files>>
    BY <1>7 DEF Copy!FileFails
  <2> QED
    BY <1>0, <2>1 DEF FilesInv, FilesAtRest, Copy!FileRoundTrips
<1>8. CASE Copy!Flush
  <2>1. /\ stage = "write" /\ stage' = "prompt" /\ told' = "wrote" /\ chunks = <<>>
        /\ pending = Absent /\ UNCHANGED <<path, chunks, pending, files, exported>>
    BY <1>8 DEF Copy!Flush, Copy!fileVars
  <2>2. /\ chunks \in Seq(Rows) /\ files[path] \in Seq(Rows) /\ path \in Copy!Paths
        /\ exported[path] = (files[path] \o <<>>) \o chunks
    BY <1>0, <2>1 DEF Writing
  <2>3. exported[path] = files[path]
    BY <2>1, <2>2, RowMoves
  <2> QED
    BY <1>0, <2>1, <2>2, <2>3 DEF FilesInv, FilesAtRest, Copy!FileRoundTrips
<1>9. CASE Copy!Load
  <2>1. /\ stage = "load" /\ stage' = "prompt" /\ told' = "loaded" /\ stored' = data
        /\ UNCHANGED <<path, chunks, pending, files, exported>>
    BY <1>9 DEF Copy!Load, Copy!fileVars
  <2> QED
    BY <1>0, <2>1 DEF FilesInv, FilesAtRest, Copy!FileRoundTrips
<1>10. CASE stage = "load" /\ Copy!SendFails
  <2>1. /\ stage' = "prompt" /\ told' = "error"
        /\ UNCHANGED <<path, chunks, pending, files, exported>>
    BY <1>10 DEF Copy!SendFails, Copy!fileVars
  <2> QED
    BY <1>0, <1>10, <2>1 DEF FilesInv, FilesAtRest, Copy!FileRoundTrips
<1> QED
  BY <1>1, <1>2, <1>3, <1>4, <1>5, <1>6, <1>7, <1>8, <1>9, <1>10 DEF Copy!Copying

----------------------------------------------------------------------------
(* COPY in a behaviour of all commands. *)

CopyInv == TypedInv /\ FilesInv

\* Every command either takes a step of COPY or leaves its state alone.
LEMMA CommandsCopy ==
    /\ CommandsInit => Copy!Init
    /\ [CommandsNext]_<<part, settingsVars, serverVars, copyVars>>
          => Copy!Typing \/ Copy!Copying \/ UNCHANGED copyVars
  BY DEF CommandsInit, CommandsNext, SettingsStep, CatalogStep, TypedCopyStep, FileCopyStep

LEMMA NextCopy ==
    CopyInv /\ [CommandsNext]_<<part, settingsVars, serverVars, copyVars>> => CopyInv'
<1> SUFFICES ASSUME CopyInv, [CommandsNext]_<<part, settingsVars, serverVars, copyVars>>
             PROVE  CopyInv'
  OBVIOUS
<1>1. CASE Copy!Typing
  BY <1>1, TypingStep, TypingFiles DEF CopyInv
<1>2. CASE Copy!Copying
  BY <1>2, CopyingStep, CopyingFiles DEF CopyInv
<1>3. CASE UNCHANGED copyVars
  <2>1. Copy!TypeOK => Copy!TypeOK'
    BY <1>3 DEF copyVars, Copy!TypeOK
  <2>2. Copy!TypedRowsArrive => Copy!TypedRowsArrive'
    BY <1>3, Zenon DEF copyVars, Copy!TypedRowsArrive
  <2>3. (Collected => Collected') /\ (CutOff => CutOff')
    BY <1>3 DEF copyVars, Collected, CutOff
  <2>4. TypedInv'
    BY <1>3, <2>1, <2>2, <2>3 DEF copyVars, CopyInv, TypedInv
  <2>5. Writing => Writing'
    BY <1>3, Zenon DEF copyVars, Writing
  <2>6. FilesInv'
    BY <1>3, <2>5 DEF copyVars, CopyInv, FilesInv, FilesAtRest, Copy!FileRoundTrips
  <2> QED
    BY <2>4, <2>6 DEF CopyInv
<1> QED
  BY <1>1, <1>2, <1>3, CommandsCopy

\* The inductive invariant of COPY: where each typed row went (sql.rs), and what
\* of a file's rows is on the disk, with tokio's thread and still to come (copy.rs).
THEOREM CopyInvariance == CommandsSpec => []CopyInv
<1>1. CommandsInit => CopyInv
  BY CommandsCopy, InitTyped, InitFiles DEF CopyInv
<1> QED
  BY <1>1, NextCopy, PTL DEF CommandsSpec

\* The server gets a beginning of what was typed after COPY ... FROM STDIN,
\* without holes and in order, and all of it when \. ended it (sql.rs).
THEOREM TypedRowsAreKept == CommandsSpec => []TypedRowsArrive
<1>1. CopyInv => TypedRowsArrive
  BY DEF CopyInv, TypedInv, TypedRowsArrive
<1> QED
  BY <1>1, CopyInvariance, PTL

\* When \copy says that it wrote a file, every row is in the file, and until
\* the file is written again that is what comes back from it (copy.rs).
THEOREM WrittenFilesHold == CommandsSpec => []FileRoundTrips
<1>1. CopyInv => FileRoundTrips
  BY DEF CopyInv, FilesInv, FileRoundTrips
<1> QED
  BY <1>1, CopyInvariance, PTL

----------------------------------------------------------------------------
(* Catalog: its instance has copies of the library's operators. *)

LEMMA SameOperators ==
    /\ \A S : Db!Min(S) = Min(S)
    /\ \A S : Db!IsFiniteSet(S) <=> IsFiniteSet(S)
    /\ \A f : Db!Range(f) = Range(f)
    /\ \A s : Db!IsInjective(s) <=> IsInjective(s)
    /\ \A s, e : Db!Contains(s, e) <=> Contains(s, e)
    /\ \A s : Db!FlattenSeq(s) = FlattenSeq(s)
    /\ \A S : Db!SetToSeq(S) = SetToSeq(S)
<1>1. \A S : Db!Min(S) = Min(S)
  BY DEF Db!Min, Min
<1>2. \A S : Db!IsFiniteSet(S) <=> IsFiniteSet(S)
  BY DEF Db!IsFiniteSet, IsFiniteSet
<1>3. \A f : Db!Range(f) = Range(f)
  BY DEF Db!Range, Range
<1>4. \A s : Db!IsInjective(s) <=> IsInjective(s)
  BY DEF Db!IsInjective, IsInjective
<1>5. \A s, e : Db!Contains(s, e) <=> Contains(s, e)
  BY DEF Db!Contains, Contains
<1>6. \A s : Db!FlattenSeq(s) = FlattenSeq(s)
  BY DEF Db!FlattenSeq, FlattenSeq
<1>7. \A S : Db!Cardinality(S) = Cardinality(S)
  BY DEF Db!Cardinality, Cardinality
<1>8. \A S : Db!SetToSeq(S) = SetToSeq(S)
  BY <1>4, <1>7 DEF Db!SetToSeq, SetToSeq
<1>9. QED
  BY <1>1, <1>2, <1>3, <1>4, <1>5, <1>6, <1>8

(* Catalog: what a typed text becomes in a query. *)

\* Where the first dot is.
LEMMA FirstDot ==
    ASSUME NEW S, NEW s \in Seq(S)
    PROVE  /\ Db!Dot(s) \in 0..Len(s)
           /\ Db!Dot(s) = 0 => \A i \in 1..Len(s) : s[i] # "."
           /\ Db!Dot(s) > 0 => s[Db!Dot(s)] = "." /\ \A i \in 1..Db!Dot(s) - 1 : s[i] # "."
<1> DEFINE I == {i \in 1..Len(s) : s[i] = "."}
<1>1. Db!Dot(s) = IF I # {} THEN Min(I) ELSE 0
  BY SameOperators DEF Db!Dot, Db!SelectInSeq
<1>2. CASE I = {}
  <2>1. Len(s) \in Nat
    OBVIOUS
  <2>2. QED
    BY <1>1, <1>2, <2>1
<1>3. CASE I # {}
  <2>1. I \subseteq Nat
    OBVIOUS
  <2>2. PICK m \in I : \A k \in I : m <= k
    <3> HIDE DEF I
    <3>1. QED
      BY <1>3, <2>1, LeastNumber
  <2>3. Min(I) \in I /\ \A k \in I : Min(I) <= k
    <3> HIDE DEF I
    <3>1. QED
      BY <2>2 DEF Min
  <2>4. Db!Dot(s) \in 1..Len(s) /\ s[Db!Dot(s)] = "." /\ \A k \in I : Db!Dot(s) <= k
    <3> HIDE DEF I
    <3>1. Db!Dot(s) \in I /\ \A k \in I : Db!Dot(s) <= k
      BY <1>1, <1>3, <2>3
    <3>2. QED
      BY <3>1 DEF I
  <2>5. ASSUME NEW i \in 1..Db!Dot(s) - 1 PROVE s[i] # "."
    <3>1. i \in 1..Len(s) /\ ~(Db!Dot(s) <= i)
      BY <2>4
    <3>2. QED
      BY <2>4, <3>1
  <2>6. QED
    BY <2>4, <2>5
<1>4. QED
  BY <1>2, <1>3

\* The first dot is where there is one with none before it.
LEMMA DotIs ==
    ASSUME NEW S, NEW s \in Seq(S), NEW d \in 1..Len(s), s[d] = ".", \A i \in 1..d - 1 : s[i] # "."
    PROVE  Db!Dot(s) = d
<1>1. Db!Dot(s) \in Nat /\ d \in Nat /\ Len(s) \in Nat /\ Db!Dot(s) <= Len(s)
  BY FirstDot
<1>2. Db!Dot(s) > 0
  BY <1>1, FirstDot
<1>3. ~(Db!Dot(s) < d) /\ ~(d < Db!Dot(s))
  BY <1>1, <1>2, FirstDot
<1>4. QED
  BY <1>1, <1>3

\* Character k of s stands in e behind cut[k - 1], a quote twice.
IsDoubled(cut, e, s) ==
    /\ cut \in [0..Len(s) -> Nat] /\ cut[0] = 0 /\ cut[Len(s)] = Len(e)
    /\ \A k \in 1..Len(s) :
          /\ cut[k] <= Len(e)
          /\ IF s[k] = "'"
             THEN /\ cut[k] = cut[k - 1] + 2
                  /\ e[cut[k - 1] + 1] = "'" /\ e[cut[k - 1] + 2] = "'"
             ELSE cut[k] = cut[k - 1] + 1 /\ e[cut[k - 1] + 1] = s[k]

\* The doubling of quotes keeps a text's characters, each in its stretch.
LEMMA EscapedIs ==
    ASSUME NEW s \in Db!Text
    PROVE  Db!Escaped(s) \in Db!Text /\ \E cut : IsDoubled(cut, Db!Escaped(s), s)
<1> DEFINE p == [k \in DOMAIN s |-> IF s[k] = "'" THEN <<"'", "'">> ELSE <<s[k]>>]
<1>1. DOMAIN s = 1..Len(s) /\ Len(s) \in Nat /\ \A k \in 1..Len(s) : s[k] \in Db!Letter
  BY DEF Db!Text
<1>2. \A k \in 1..Len(s) :
          /\ s[k] = "'" => p[k] = <<"'", "'">>
          /\ s[k] # "'" => p[k] = <<s[k]>>
  BY <1>1
<1>3. p \in Seq(Seq(Db!Letter)) /\ Len(p) = Len(s)
  <2>1. \A k \in 1..Len(s) : p[k] \in Seq(Db!Letter)
    BY <1>1, <1>2
  <2>2. p = [k \in 1..Len(s) |-> p[k]]
    BY <1>1
  <2> HIDE DEF p
  <2>3. QED
    BY <1>1, <2>1, <2>2
<1>4. Db!Escaped(s) = FlattenSeq(p)
  BY SameOperators DEF Db!Escaped
<1> HIDE DEF p
<1>5. PICK cut : IsCut(cut, Db!Escaped(s), p)
  BY <1>3, <1>4, FlattenParts
<1>6. Db!Escaped(s) \in Db!Text
  BY <1>3, <1>4, FlattenParts DEF Db!Text
<1>7. ASSUME NEW k \in 1..Len(s)
      PROVE  /\ cut[k] <= Len(Db!Escaped(s))
             /\ IF s[k] = "'"
                THEN /\ cut[k] = cut[k - 1] + 2
                     /\ Db!Escaped(s)[cut[k - 1] + 1] = "'" /\ Db!Escaped(s)[cut[k - 1] + 2] = "'"
                ELSE cut[k] = cut[k - 1] + 1 /\ Db!Escaped(s)[cut[k - 1] + 1] = s[k]
  <2>1. /\ cut[k] = cut[k - 1] + Len(p[k]) /\ cut[k] <= Len(Db!Escaped(s))
        /\ \A j \in 1..Len(p[k]) : Db!Escaped(s)[cut[k - 1] + j] = p[k][j]
    BY <1>3, <1>5 DEF IsCut
  <2>2. CASE s[k] = "'"
    <3>0. p[k] = <<"'", "'">>
      BY <1>2, <2>2
    <3>1. /\ Len(p[k]) = 2 /\ p[k][1] = "'" /\ p[k][2] = "'"
          /\ 1 \in 1..Len(p[k]) /\ 2 \in 1..Len(p[k])
      BY <3>0
    <3>2. QED
      BY <2>1, <2>2, <3>1
  <2>3. CASE s[k] # "'"
    <3>0. p[k] = <<s[k]>>
      BY <1>2, <2>3
    <3>1. Len(p[k]) = 1 /\ p[k][1] = s[k] /\ 1 \in 1..Len(p[k])
      BY <3>0
    <3>2. QED
      BY <2>1, <2>3, <3>1
  <2>4. QED
    BY <2>2, <2>3
<1>8. IsDoubled(cut, Db!Escaped(s), s)
  BY <1>3, <1>5, <1>7 DEF IsCut, IsDoubled
<1>9. QED
  BY <1>6, <1>8

\* f[k] is what the server has read from character k on.
Reads(f, text) ==
    \A k \in 1..Len(text) + 2 :
        f[k] = IF k > Len(text) THEN <<>>
               ELSE IF text[k] # "'" THEN <<text[k]>> \o f[k + 1]
               ELSE IF k < Len(text) /\ text[k + 1] = "'" THEN <<"'">> \o f[k + 2]
               ELSE Db!Broken

\* The literal of the server as a recursion that has a solution.
LEMMA LiteralIs ==
    ASSUME NEW S, NEW text \in Seq(S)
    PROVE  \E f : Db!Literal(text) = f[1] /\ Reads(f, text)
<1> DEFINE D == 1..Len(text) + 2
           C == S \cup {"'", "broken"}
           V == Seq(C)
           body(f, k) ==
               IF k > Len(text) THEN <<>>
               ELSE IF text[k] # "'" THEN <<text[k]>> \o f[k + 1]
               ELSE IF k < Len(text) /\ text[k + 1] = "'" THEN <<"'">> \o f[k + 2]
               ELSE Db!Broken
           Body == [k \in D |-> [f \in [D -> V] |-> body(f, k)]]
           rank == [k \in D |-> (Len(text) + 2) - k]
           Is(f) == f = [k \in D |-> body(f, k)]
<1>1. Db!Literal(text) = (CHOOSE f : Is(f))[1]
  BY DEF Db!Literal
<1>2. Len(text) \in Nat /\ \A k \in 1..Len(text) : text[k] \in C
  OBVIOUS
<1>3. \A k \in D : /\ k > Len(text) \/ k \in 1..Len(text)
                   /\ k \in 1..Len(text) => k + 1 \in D /\ k + 2 \in D
  BY <1>2
<1>4. \A i, j \in D : rank[j] < rank[i] <=> i < j
  BY <1>2
<1>5. rank \in [D -> 0..Len(text) + 1]
  BY <1>2
<1> HIDE DEF rank
<1>6. ASSUME NEW k \in D, NEW f, NEW g, \A j \in D : rank[j] < rank[k] => f[j] = g[j]
      PROVE  body(f, k) = body(g, k)
  <2>1. k \in 1..Len(text) => f[k + 1] = g[k + 1] /\ f[k + 2] = g[k + 2]
    BY <1>2, <1>3, <1>4, <1>6
  <2>2. QED
    BY <1>3, <2>1
<1> HIDE DEF D, V
<1>7. ASSUME NEW k \in D, NEW f \in [D -> V]
      PROVE  body(f, k) \in V
  <2>1. k \in 1..Len(text) => f[k + 1] \in V /\ f[k + 2] \in V
    BY <1>3
  <2>2. \A x \in C, q \in V : <<x>> \o q \in V
    <3> HIDE DEF C
    <3>1. QED
      BY DEF V
  <2>3. <<>> \in V /\ Db!Broken \in V /\ "'" \in C
    BY DEF V, Db!Broken
  <2> HIDE DEF C
  <2>4. QED
    BY <1>2, <1>3, <2>1, <2>2, <2>3
<1>8. \A f : Is(f) => \A k \in D : f[k] = body(f, k)
  OBVIOUS
<1> HIDE DEF body
<1>9. \A k \in D : \A f \in [D -> V] : Body[k][f] = body(f, k)
  OBVIOUS
<1>10. IsRecursion(D, V, rank, Body)
  <2>0. <<>> \in V
    BY DEF V
  <2>1. Body \in [D -> [[D -> V] -> V]]
    BY <1>7
  <2> HIDE DEF Body
  <2>2. ASSUME NEW k \in D, NEW f \in [D -> V], NEW g \in [D -> V],
               \A j \in D : rank[j] < rank[k] => f[j] = g[j]
        PROVE  Body[k][f] = Body[k][g]
    <3>1. body(f, k) = body(g, k)
      BY <1>6, <2>2
    <3>2. QED
      BY <1>9, <3>1
  <2>3. Len(text) + 1 \in Nat
    BY <1>2
  <2>4. QED
    BY <1>5, <2>0, <2>1, <2>2, <2>3 DEF IsRecursion
<1> HIDE DEF Body
<1>11. \E f : Is(f)
  <2>1. PICK f \in [D -> V] : \A k \in D : f[k] = Body[k][f]
    BY <1>10, RecursiveFunction
  <2>2. QED
    BY <1>9, <2>1
<1> DEFINE h == CHOOSE f : Is(f)
<1>12. Is(h)
  <2> HIDE DEF Is
  <2>1. QED
    BY <1>11
<1>13. \A k \in D : h[k] = body(h, k)
  <2> HIDE DEF h
  <2>1. QED
    BY <1>12
<1> HIDE DEF h, Is
<1>14. Reads(h, text)
  BY <1>13 DEF body, Reads, D
<1>15. QED
  BY <1>1, <1>14 DEF h

\* The server reads a text whose quotes were doubled as the text itself.
LEMMA LiteralUndoubles ==
    ASSUME NEW S, NEW s \in Seq(S), NEW e \in Seq(S), NEW cut, IsDoubled(cut, e, s)
    PROVE  Db!Literal(e) = s
<1> DEFINE n == Len(s)
<1>1. n \in Nat /\ Len(e) \in Nat /\ s \in Seq(S)
  OBVIOUS
<1>2. PICK f : Db!Literal(e) = f[1] /\ Reads(f, e)
  BY LiteralIs
<1> HIDE DEF n
<1>3. /\ cut \in [0..n -> Nat] /\ cut[0] = 0 /\ cut[n] = Len(e)
      /\ \A k \in 1..n :
          /\ cut[k] <= Len(e)
          /\ IF s[k] = "'"
             THEN /\ cut[k] = cut[k - 1] + 2
                  /\ e[cut[k - 1] + 1] = "'" /\ e[cut[k - 1] + 2] = "'"
             ELSE cut[k] = cut[k - 1] + 1 /\ e[cut[k - 1] + 1] = s[k]
  BY DEF IsDoubled, n
<1> DEFINE Suffix(k) == SubSeq(s, k + 1, n)
           D == 0..n
           rank == [k \in D |-> n - k]
           T == {k \in D : f[cut[k] + 1] = Suffix(k)}
<1>4. rank \in [D -> Nat] /\ \A k \in 1..n : k \in D /\ k - 1 \in D /\ rank[k] < rank[k - 1]
  BY <1>1
<1>5. n \in T
  <2>1. n \in D /\ Suffix(n) = <<>>
    BY <1>1 DEF n
  <2>2. f[Len(e) + 1] = <<>>
    <3>1. Len(e) + 1 \in 1..Len(e) + 2 /\ Len(e) + 1 > Len(e)
      BY <1>1
    <3>2. QED
      BY <1>2, <3>1 DEF Reads
  <2>3. QED
    BY <1>3, <2>1, <2>2
<1>6. ASSUME NEW k \in 1..n, k \in T PROVE k - 1 \in T
  <2> DEFINE i == cut[k - 1] + 1
  <2>1. k - 1 \in D /\ k \in D
    BY <1>4
  <2>2. cut[k - 1] \in Nat /\ i \in Nat /\ 1 <= i /\ cut[k - 1] + 1 = i
    BY <1>3, <2>1
  <2>3. /\ cut[k] <= Len(e)
        /\ IF s[k] = "'" THEN /\ cut[k] = cut[k - 1] + 2
                              /\ e[cut[k - 1] + 1] = "'" /\ e[cut[k - 1] + 2] = "'"
           ELSE cut[k] = cut[k - 1] + 1 /\ e[cut[k - 1] + 1] = s[k]
    BY <1>3
  <2>4. f[cut[k] + 1] = Suffix(k)
    BY <1>6
  <2>5. Suffix(k - 1) = <<s[k]>> \o Suffix(k)
    <3>1. (k - 1) + 1 = k
      OBVIOUS
    <3>2. k \in 1..Len(s) /\ n \in k..Len(s)
      BY <1>1 DEF n
    <3>3. QED
      BY <1>1, <3>1, <3>2, SubSeqRecursiveFirst
  <2> SUFFICES f[i] = <<s[k]>> \o f[cut[k] + 1]
    BY <2>1, <2>2, <2>4, <2>5
  <2> HIDE DEF i, Suffix, T
  <2>6. CASE s[k] = "'"
    <3>1. /\ cut[k] = i + 1 /\ i + 1 <= Len(e) /\ cut[k - 1] + 2 = i + 1 /\ i < Len(e)
          /\ i \in 1..Len(e) + 2 /\ ~(i > Len(e))
      BY <1>1, <2>2, <2>3, <2>6
    <3>2. e[i] = "'" /\ e[i + 1] = "'"
      BY <2>2, <2>3, <2>6, <3>1
    <3>3. f[i] = <<"'">> \o f[i + 2]
      BY <1>2, <3>1, <3>2 DEF Reads
    <3>4. (i + 1) + 1 = i + 2
      BY <2>2
    <3>5. QED
      BY <2>6, <3>1, <3>3, <3>4
  <2>7. CASE s[k] # "'"
    <3>1. cut[k] = i /\ i \in 1..Len(e) + 2 /\ ~(i > Len(e)) /\ e[i] = s[k]
      BY <1>1, <2>2, <2>3, <2>7
    <3>2. QED
      BY <1>2, <2>7, <3>1 DEF Reads
  <2>8. QED
    BY <2>6, <2>7
<1>7. D \subseteq T
  <2>1. ASSUME NEW k \in D, \A j \in D : rank[j] < rank[k] => j \in T
        PROVE  k \in T
    <3>1. CASE k = n
      BY <1>5, <3>1
    <3>2. CASE k # n
      <4>1. k + 1 \in 1..n /\ (k + 1) - 1 = k
        BY <1>1, <3>2
      <4>2. k + 1 \in T
        BY <1>4, <2>1, <4>1
      <4>3. QED
        BY <1>6, <4>1, <4>2
    <3>3. QED
      BY <3>1, <3>2
  <2> HIDE DEF D, rank, T
  <2>2. QED
    BY <1>4, <2>1, RankInduction
<1>8. 0 \in T
  <2>1. 0 \in D
    BY <1>1
  <2> HIDE DEF D, T
  <2>2. QED
    BY <1>7, <2>1
<1>9. f[1] = SubSeq(s, 1, n)
  BY <1>3, <1>8
<1>10. SubSeq(s, 1, n) = s
  BY <1>1 DEF n
<1>11. QED
  BY <1>2, <1>9, <1>10

LEMMA WildsDiffer ==
    /\ Db!One # Db!Many
    /\ Db!One \notin {"'", ".", "*", "?", "A", "a"} /\ Db!Many \notin {"'", ".", "*", "?", "A", "a"}
  BY Zenon DEF Db!One, Db!Many

LEMMA WildIs ==
    ASSUME NEW S, NEW s \in Seq(S)
    PROVE  /\ Db!Wild(s) \in Seq(S \cup {Db!Many, Db!One}) /\ Len(Db!Wild(s)) = Len(s)
           /\ \A k \in 1..Len(s) :
                /\ s[k] = "*" => Db!Wild(s)[k] = Db!Many
                /\ s[k] = "?" => Db!Wild(s)[k] = Db!One
                /\ s[k] \notin {"*", "?"} => Db!Wild(s)[k] = s[k]
<1> DEFINE g == [k \in 1..Len(s) |->
                    CASE s[k] = "*" -> Db!Many [] s[k] = "?" -> Db!One [] OTHER -> s[k]]
<1>1. Len(s) \in Nat /\ DOMAIN s = 1..Len(s) /\ \A k \in 1..Len(s) : s[k] \in S
  OBVIOUS
<1>2. Db!Wild(s) = g
  BY <1>1 DEF Db!Wild
<1>3. \A k \in 1..Len(s) :
          /\ s[k] = "*" => g[k] = Db!Many
          /\ s[k] = "?" => g[k] = Db!One
          /\ s[k] \notin {"*", "?"} => g[k] = s[k]
  OBVIOUS
<1>4. DOMAIN g = 1..Len(s) /\ g = [k \in 1..Len(s) |-> g[k]]
  OBVIOUS
<1> HIDE DEF g
<1>5. \A k \in 1..Len(s) : g[k] \in S \cup {Db!Many, Db!One}
  BY <1>1, <1>3
<1>6. g \in Seq(S \cup {Db!Many, Db!One}) /\ Len(g) = Len(s)
  <2> DEFINE C == S \cup {Db!Many, Db!One}
  <2>1. \A k \in 1..Len(s) : g[k] \in C
    BY <1>5
  <2> HIDE DEF C
  <2>2. g \in Seq(C) /\ Len(g) = Len(s)
    BY <1>1, <1>4, <2>1
  <2>3. QED
    BY <2>2 DEF C
<1>7. QED
  BY <1>2, <1>3, <1>6

LEMMA LowerIs ==
    ASSUME NEW S, NEW s \in Seq(S)
    PROVE  /\ Len(Db!Lower(s)) = Len(s)
           /\ \A k \in 1..Len(s) :
                /\ s[k] = "A" => Db!Lower(s)[k] = "a"
                /\ s[k] # "A" => Db!Lower(s)[k] = s[k]
           /\ DOMAIN Db!Lower(s) = 1..Len(s)
           /\ Db!Lower(s) = [k \in 1..Len(s) |-> Db!Lower(s)[k]]
<1> DEFINE g == [k \in 1..Len(s) |-> IF s[k] = "A" THEN "a" ELSE s[k]]
<1>1. Len(s) \in Nat /\ DOMAIN s = 1..Len(s)
  OBVIOUS
<1>2. Db!Lower(s) = g
  BY <1>1 DEF Db!Lower
<1>3. \A k \in 1..Len(s) : /\ s[k] = "A" => g[k] = "a"
                           /\ s[k] # "A" => g[k] = s[k]
  OBVIOUS
<1>4. Len(g) = Len(s) /\ DOMAIN g = 1..Len(s) /\ g = [k \in 1..Len(s) |-> g[k]]
  BY <1>1
<1> HIDE DEF g
<1>5. QED
  BY <1>2, <1>3, <1>4

\* Wildcards are no quotes and become none.
LEMMA WildDoubled ==
    ASSUME NEW S, NEW s \in Seq(S), NEW e \in Seq(S), NEW cut, IsDoubled(cut, e, s)
    PROVE  IsDoubled(cut, Db!Wild(e), Db!Wild(s))
<1>1. /\ Len(s) \in Nat /\ Len(e) \in Nat
      /\ cut \in [0..Len(s) -> Nat] /\ cut[0] = 0 /\ cut[Len(s)] = Len(e)
  BY DEF IsDoubled
<1>2. /\ Len(Db!Wild(s)) = Len(s) /\ Len(Db!Wild(e)) = Len(e)
  BY WildIs
<1>3. ASSUME NEW k \in 1..Len(s)
      PROVE  /\ cut[k] <= Len(e)
             /\ IF Db!Wild(s)[k] = "'"
                THEN /\ cut[k] = cut[k - 1] + 2
                     /\ Db!Wild(e)[cut[k - 1] + 1] = "'" /\ Db!Wild(e)[cut[k - 1] + 2] = "'"
                ELSE cut[k] = cut[k - 1] + 1 /\ Db!Wild(e)[cut[k - 1] + 1] = Db!Wild(s)[k]
  <2>1. /\ cut[k] <= Len(e)
        /\ IF s[k] = "'" THEN /\ cut[k] = cut[k - 1] + 2
                              /\ e[cut[k - 1] + 1] = "'" /\ e[cut[k - 1] + 2] = "'"
           ELSE cut[k] = cut[k - 1] + 1 /\ e[cut[k - 1] + 1] = s[k]
    BY DEF IsDoubled
  <2>2. k - 1 \in 0..Len(s) /\ cut[k - 1] \in Nat
    BY <1>1
  <2>3. /\ s[k] = "*" => Db!Wild(s)[k] = Db!Many
        /\ s[k] = "?" => Db!Wild(s)[k] = Db!One
        /\ s[k] \notin {"*", "?"} => Db!Wild(s)[k] = s[k]
    BY WildIs
  <2>4. \A x \in 1..Len(e) :
        /\ e[x] = "*" => Db!Wild(e)[x] = Db!Many
        /\ e[x] = "?" => Db!Wild(e)[x] = Db!One
        /\ e[x] \notin {"*", "?"} => Db!Wild(e)[x] = e[x]
    BY WildIs
  <2>5. CASE s[k] = "'"
    <3>1. cut[k - 1] + 1 \in 1..Len(e) /\ cut[k - 1] + 2 \in 1..Len(e)
      BY <1>1, <2>1, <2>2, <2>5
    <3>2. Db!Wild(s)[k] = "'"
      BY <2>3, <2>5
    <3>3. Db!Wild(e)[cut[k - 1] + 1] = "'" /\ Db!Wild(e)[cut[k - 1] + 2] = "'"
      BY <2>1, <2>4, <2>5, <3>1
    <3>4. QED
      BY <2>1, <2>5, <3>2, <3>3
  <2>6. CASE s[k] # "'"
    <3>1. cut[k - 1] + 1 \in 1..Len(e) /\ cut[k] = cut[k - 1] + 1 /\ e[cut[k - 1] + 1] = s[k]
      BY <1>1, <2>1, <2>2, <2>6
    <3>2. Db!Wild(s)[k] # "'" /\ Db!Wild(e)[cut[k - 1] + 1] = Db!Wild(s)[k]
      BY <2>3, <2>4, <2>6, <3>1, WildsDiffer
    <3>3. QED
      BY <2>1, <3>1, <3>2
  <2>7. QED
    BY <2>5, <2>6
<1>4. QED
  BY <1>1, <1>2, <1>3 DEF IsDoubled

\* The stretches of a doubled text follow each other.
LEMMA CutsRise ==
    ASSUME NEW S, NEW s \in Seq(S), NEW e \in Seq(S), NEW cut, IsDoubled(cut, e, s),
           NEW b \in 0..Len(s), NEW a \in 0..b
    PROVE  cut[a] <= cut[b] /\ cut[b] <= Len(e)
<1> DEFINE n == Len(s)
           T == {j \in 0..n : \A i \in 0..j : cut[i] <= cut[j]}
<1>1. n \in Nat /\ Len(e) \in Nat /\ cut \in [0..n -> Nat] /\ cut[0] = 0 /\ cut[n] = Len(e)
  BY DEF IsDoubled
<1> HIDE DEF n
<1>2. 0 \in T
  BY <1>1
<1>3. ASSUME NEW j \in 0..n - 1, j \in T PROVE j + 1 \in T
  <2>1. j + 1 \in 1..n /\ (j + 1) - 1 = j /\ j \in 0..n /\ j + 1 \in 0..n
    BY <1>1
  <2>2. cut[j + 1] = cut[j] + 1 \/ cut[j + 1] = cut[j] + 2
    BY <2>1 DEF IsDoubled, n
  <2>3. cut[j] \in Nat /\ cut[j] <= cut[j + 1]
    BY <1>1, <2>1, <2>2
  <2>4. ASSUME NEW i \in 0..j + 1 PROVE cut[i] <= cut[j + 1]
    <3>1. i \in 0..n /\ (i = j + 1 \/ i \in 0..j)
      BY <1>1, <2>1
    <3>2. CASE i = j + 1
      <4>1. cut[i] \in Nat
        BY <1>1, <3>1
      <4>2. QED
        BY <3>2, <4>1
    <3>3. CASE i \in 0..j
      <4>1. cut[i] \in Nat /\ cut[j + 1] \in Nat /\ cut[i] <= cut[j]
        BY <1>1, <1>3, <2>1, <3>1, <3>3
      <4>2. QED
        BY <2>3, <4>1
    <3>4. QED
      BY <3>1, <3>2, <3>3
  <2>5. QED
    BY <2>1, <2>4
<1> HIDE DEF T
<1>4. 0..n \subseteq T
  BY <1>1, <1>2, <1>3, InductionUpTo
<1>5. b \in T /\ n \in T /\ n \in 0..n
  BY <1>1, <1>4 DEF n
<1>6. cut[a] <= cut[b] /\ cut[b] <= cut[n]
  BY <1>1, <1>5 DEF T, n
<1>7. QED
  BY <1>1, <1>6

\* A part of a text, doubled, is the part of the doubled text between the cuts.
LEMMA SliceDoubled ==
    ASSUME NEW S, NEW s \in Seq(S), NEW e \in Seq(S), NEW cut, IsDoubled(cut, e, s),
           NEW b \in 0..Len(s), NEW a \in 0..b
    PROVE  /\ SubSeq(s, a + 1, b) \in Seq(S)
           /\ SubSeq(e, cut[a] + 1, cut[b]) \in Seq(S)
           /\ \E c : IsDoubled(c, SubSeq(e, cut[a] + 1, cut[b]), SubSeq(s, a + 1, b))
<1> DEFINE n == Len(s)
           t == SubSeq(s, a + 1, b)
           f == SubSeq(e, cut[a] + 1, cut[b])
           c == [k \in 0..b - a |-> cut[a + k] - cut[a]]
<1>1. n \in Nat /\ Len(e) \in Nat /\ cut \in [0..n -> Nat]
      /\ a \in 0..n /\ b \in 0..n /\ a \in Nat /\ b \in Nat /\ a <= b
      /\ cut[a] \in Nat /\ cut[b] \in Nat
      /\ cut[a] <= cut[b] /\ cut[b] <= Len(e)
  <2>1. n \in Nat /\ Len(e) \in Nat /\ cut \in [0..n -> Nat]
    BY DEF IsDoubled
  <2>2. cut[a] <= cut[b] /\ cut[b] <= Len(e)
    BY CutsRise
  <2>3. a \in 0..n /\ b \in 0..n /\ a \in Nat /\ b \in Nat /\ a <= b
    BY <2>1
  <2> HIDE DEF n
  <2>4. QED
    BY <2>1, <2>2, <2>3
<1>2. t \in Seq(S) /\ Len(t) = b - a /\ \A k \in 1..b - a : t[k] = s[a + k]
  <2>1. SubSeq(s, a + 1, b) \in Seq(S)
    BY <1>1, SubSeqProperties
  <2>2. Len(t) = b - a
    BY <1>1, SubSeqProperties
  <2>3. \A k \in 1..b - a : t[k] = s[a + k]
    BY <1>1, SubSeqProperties
  <2>4. QED
    BY <2>1, <2>2, <2>3
<1>3. f \in Seq(S) /\ Len(f) = cut[b] - cut[a]
      /\ \A k \in 1..cut[b] - cut[a] : f[k] = e[cut[a] + k]
  <2> DEFINE u == cut[a]
             v == cut[b]
  <2>1. u \in Nat /\ v \in Nat /\ u <= v /\ v <= Len(e) /\ f = SubSeq(e, u + 1, v)
    BY <1>1
  <2> HIDE DEF u, v, f
  <2>2. f \in Seq(S) /\ Len(f) = v - u
    BY <1>1, <2>1, SubSeqProperties
  <2>3. \A k \in 1..v - u : f[k] = e[u + k]
    BY <1>1, <2>1, SubSeqProperties
  <2>4. QED
    BY <2>2, <2>3 DEF u, v
<1> HIDE DEF n, t, f
<1>4. c \in [0..b - a -> Nat] /\ c[0] = 0 /\ c[b - a] = cut[b] - cut[a]
      /\ \A k \in 0..b - a : c[k] = cut[a + k] - cut[a] /\ a + k \in 0..n
  <2>1. \A k \in 0..b - a : a + k \in 0..Len(s) /\ a \in 0..a + k
    BY <1>1 DEF n
  <2>2. \A k \in 0..b - a : cut[a] <= cut[a + k]
    BY <2>1, CutsRise
  <2>3. \A k \in 0..b - a : cut[a + k] \in Nat /\ cut[a + k] - cut[a] \in Nat
    <3>1. \A x, y \in Nat : x <= y => y - x \in Nat
      OBVIOUS
    <3>2. \A k \in 0..b - a : cut[a + k] \in Nat
      BY <1>1, <2>1 DEF n
    <3>3. QED
      BY <1>1, <2>2, <3>1, <3>2
  <2>4. a + (b - a) = b /\ a + 0 = a /\ 0 \in 0..b - a /\ b - a \in 0..b - a
    BY <1>1
  <2>5. \A k \in 0..b - a : c[k] = cut[a + k] - cut[a]
    OBVIOUS
  <2>6. c \in [0..b - a -> Nat]
    BY <2>3
  <2>7. c[0] = 0 /\ c[b - a] = cut[b] - cut[a]
    BY <1>1, <2>4, <2>5
  <2> HIDE DEF c
  <2>8. QED
    BY <2>1, <2>5, <2>6, <2>7 DEF n
<1> HIDE DEF c
<1>5. ASSUME NEW k \in 1..b - a
      PROVE  /\ c[k] <= Len(f)
             /\ IF t[k] = "'"
                THEN /\ c[k] = c[k - 1] + 2
                     /\ f[c[k - 1] + 1] = "'" /\ f[c[k - 1] + 2] = "'"
                ELSE c[k] = c[k - 1] + 1 /\ f[c[k - 1] + 1] = t[k]
  <2> DEFINE j == a + k
             u == cut[a]
             v == cut[b]
             x == cut[j - 1]
             z == cut[j]
  <2>1. /\ k - 1 \in 0..b - a /\ k \in 0..b - a /\ a + (k - 1) = j - 1 /\ j \in 1..n
        /\ j \in 0..b /\ a \in 0..j - 1 /\ j - 1 \in 0..Len(s)
    BY <1>1 DEF n
  <2>2. c[k - 1] = x - u /\ c[k] = z - u /\ t[k] = s[j]
    BY <1>2, <1>4, <2>1
  <2>3. IF s[j] = "'" THEN z = x + 2 /\ e[x + 1] = "'" /\ e[x + 2] = "'"
        ELSE z = x + 1 /\ e[x + 1] = s[j]
    BY <2>1 DEF IsDoubled, n
  <2>4. u <= x /\ z <= v
    BY <2>1, CutsRise
  <2>5. /\ x \in Nat /\ z \in Nat /\ u \in Nat /\ v \in Nat
        /\ Len(f) = v - u /\ \A y \in 1..v - u : f[y] = e[u + y]
    <3>1. j \in 0..n /\ j - 1 \in 0..n
      BY <1>1, <2>1 DEF n
    <3>2. x \in Nat /\ z \in Nat
      BY <1>1, <3>1
    <3>3. u \in Nat /\ v \in Nat
      BY <1>1
    <3>4. Len(f) = v - u /\ \A y \in 1..v - u : f[y] = e[u + y]
      BY <1>3
    <3>5. QED
      BY <3>2, <3>3, <3>4
  <2> HIDE DEF j, u, v, x, z
  <2>6. z - u <= v - u
    BY <2>4, <2>5
  <2>7. CASE s[j] = "'"
    <3>1. /\ z - u = (x - u) + 2 /\ (x - u) + 1 \in 1..v - u /\ (x - u) + 2 \in 1..v - u
          /\ u + ((x - u) + 1) = x + 1 /\ u + ((x - u) + 2) = x + 2
      BY <2>3, <2>4, <2>5, <2>7
    <3>2. \A y \in 1..v - u : f[y] = e[u + y]
      BY <2>5
    <3>3. f[(x - u) + 1] = e[u + ((x - u) + 1)] /\ f[(x - u) + 2] = e[u + ((x - u) + 2)]
      BY <3>1, <3>2, Zenon
    <3>4. f[(x - u) + 1] = e[x + 1] /\ f[(x - u) + 2] = e[x + 2]
      BY <3>1, <3>3, Zenon
    <3>5. QED
      BY <2>2, <2>3, <2>5, <2>6, <2>7, <3>1, <3>4
  <2>8. CASE s[j] # "'"
    <3>1. /\ z - u = (x - u) + 1 /\ (x - u) + 1 \in 1..v - u /\ u + ((x - u) + 1) = x + 1
      BY <2>3, <2>4, <2>5, <2>8
    <3>2. f[(x - u) + 1] = e[x + 1]
      BY <2>5, <3>1
    <3>3. QED
      BY <2>2, <2>3, <2>5, <2>6, <2>8, <3>1, <3>2
  <2>9. QED
    BY <2>7, <2>8
<1>6. IsDoubled(c, f, t)
  BY <1>2, <1>3, <1>4, <1>5 DEF IsDoubled
<1>7. QED
  BY <1>2, <1>3, <1>6 DEF t, f

\* Doubling quotes moves the first dot to where it is now.
LEMMA DotDoubled ==
    ASSUME NEW S, NEW s \in Seq(S), NEW e \in Seq(S), NEW cut, IsDoubled(cut, e, s)
    PROVE  /\ Db!Dot(s) \in 0..Len(s) /\ Db!Dot(e) = cut[Db!Dot(s)]
           /\ Db!Dot(s) > 0 => /\ Db!Dot(s) - 1 \in 0..Len(s) /\ cut[Db!Dot(s) - 1] = cut[Db!Dot(s)] - 1
                               /\ cut[Db!Dot(s)] > 0
<1> DEFINE n == Len(s)
           T == {k \in 0..n : \A x \in 1..cut[k] :
                                  e[x] = "'" \/ \E j \in 1..k : e[x] = s[j]}
<1>1. n \in Nat /\ Len(e) \in Nat /\ cut \in [0..n -> Nat] /\ cut[0] = 0 /\ cut[n] = Len(e)
  BY DEF IsDoubled
<1> HIDE DEF n
<1>2. 0 \in T
  BY <1>1
<1>3. ASSUME NEW k \in 0..n - 1, k \in T PROVE k + 1 \in T
  <2>1. k + 1 \in 1..n /\ (k + 1) - 1 = k /\ k \in 0..n /\ k + 1 \in 0..n /\ k + 1 \in 1..k + 1
        /\ 1..k \subseteq 1..k + 1
    BY <1>1
  <2>2. IF s[k + 1] = "'" THEN cut[k + 1] = cut[k] + 2 /\ e[cut[k] + 1] = "'" /\ e[cut[k] + 2] = "'"
        ELSE cut[k + 1] = cut[k] + 1 /\ e[cut[k] + 1] = s[k + 1]
    BY <2>1 DEF IsDoubled, n
  <2>3. ASSUME NEW x \in 1..cut[k + 1]
        PROVE  e[x] = "'" \/ \E j \in 1..k + 1 : e[x] = s[j]
    <3>1. cut[k] \in Nat /\ cut[k + 1] \in Nat
      BY <1>1, <2>1
    <3>2. CASE x \in 1..cut[k]
      <4>1. e[x] = "'" \/ \E j \in 1..k : e[x] = s[j]
        BY <1>3, <3>2
      <4>2. QED
        BY <2>1, <4>1
    <3>3. CASE x \notin 1..cut[k]
      <4>1. x = cut[k] + 1 \/ (s[k + 1] = "'" /\ x = cut[k] + 2)
        BY <2>2, <3>1, <3>3
      <4>2. QED
        BY <2>1, <2>2, <4>1
    <3>4. QED
      BY <3>2, <3>3
  <2>4. QED
    BY <2>1, <2>3
<1> HIDE DEF T
<1>4. 0..n \subseteq T
  BY <1>1, <1>2, <1>3, InductionUpTo
<1>5. \A k \in 0..n : \A x \in 1..cut[k] :
          e[x] = "." => \E j \in 1..k : s[j] = "."
  <2>1. "." # "'"
    OBVIOUS
  <2>2. QED
    BY <1>4, <2>1 DEF T
<1>6. /\ Db!Dot(s) \in 0..n /\ Db!Dot(e) \in 0..Len(e)
      /\ Db!Dot(s) = 0 => \A i \in 1..n : s[i] # "."
      /\ Db!Dot(s) > 0 => s[Db!Dot(s)] = "." /\ \A i \in 1..Db!Dot(s) - 1 : s[i] # "."
      /\ Db!Dot(e) > 0 => e[Db!Dot(e)] = "."
  BY FirstDot DEF n
<1>7. CASE Db!Dot(s) = 0
  <2>1. n \in 0..n /\ (Db!Dot(e) # 0 => Db!Dot(e) > 0 /\ Db!Dot(e) \in 1..cut[n])
    BY <1>1, <1>6
  <2>2. Db!Dot(e) = 0
    BY <1>5, <1>6, <1>7, <2>1
  <2>3. QED
    BY <1>1, <1>6, <1>7, <2>2 DEF n
<1>8. CASE Db!Dot(s) > 0
  <2> DEFINE d == Db!Dot(s)
  <2>1. d \in 1..n /\ d - 1 \in 0..n /\ d \in 0..n /\ s[d] = "." /\ \A i \in 1..d - 1 : s[i] # "."
    BY <1>1, <1>6, <1>8
  <2> HIDE DEF d
  <2>2. cut[d] = cut[d - 1] + 1 /\ e[cut[d - 1] + 1] = "." /\ cut[d] <= Len(e)
    <3>1. s[d] # "'"
      BY <2>1
    <3>2. QED
      BY <2>1, <3>1 DEF IsDoubled, n
  <2>3. cut[d - 1] \in Nat /\ cut[d] \in 1..Len(e) /\ cut[d] - 1 = cut[d - 1] /\ e[cut[d]] = "."
    <3>1. cut[d - 1] \in Nat
      BY <1>1, <2>1
    <3>2. \A x, y, z \in Nat : y = x + 1 /\ y <= z => y \in 1..z /\ y - 1 = x
      OBVIOUS
    <3>3. cut[d] \in Nat
      BY <2>2, <3>1
    <3>4. QED
      BY <1>1, <2>2, <3>1, <3>2, <3>3
  <2>4. \A x \in 1..cut[d] - 1 : e[x] # "."
    BY <1>5, <2>1, <2>3
  <2>5. Db!Dot(e) = cut[d]
    BY <2>3, <2>4, DotIs
  <2>6. QED
    BY <1>1, <1>8, <2>1, <2>3, <2>5 DEF d, n
<1>9. QED
  BY <1>1, <1>6, <1>7, <1>8

\* What schema_pattern_filter compares: the parts before and behind the dot.
LEMMA QualifiedReads ==
    ASSUME NEW p \in Db!Text
    PROVE  LET e == Db!Escaped(p) IN
           /\ Db!Dot(e) > 0 <=> Db!Dot(p) > 0
           /\ Db!Dot(p) > 0 =>
                 Db!Literal(Db!Wild(SubSeq(e, 1, Db!Dot(e) - 1))) = Db!Wild(Db!InSchema(p))
           /\ Db!Literal(Db!Wild(SubSeq(e, Db!Dot(e) + 1, Len(e)))) = Db!Wild(Db!OfName(p))
<1> DEFINE e == Db!Escaped(p)
           n == Len(p)
           d == Db!Dot(p)
<1>1. p \in Seq(Db!Letter) /\ e \in Seq(Db!Letter) /\ \E cut : IsDoubled(cut, e, p)
  BY EscapedIs DEF Db!Text
<1> HIDE DEF e
<1>2. PICK cut : IsDoubled(cut, e, p)
  BY <1>1
<1>3. /\ d \in 0..n /\ Db!Dot(e) = cut[d] /\ n \in Nat
      /\ d > 0 => d - 1 \in 0..n /\ cut[d - 1] = cut[d] - 1 /\ cut[d] > 0
      /\ cut[0] = 0 /\ cut[n] = Len(e)
  <2>1. cut[0] = 0 /\ cut[n] = Len(e)
    BY <1>2 DEF IsDoubled
  <2>2. n \in Nat
    BY <1>1
  <2>3. QED
    BY <1>1, <1>2, <2>1, <2>2, DotDoubled
<1>4. ASSUME NEW b \in 0..n, NEW a \in 0..b
      PROVE  Db!Literal(Db!Wild(SubSeq(e, cut[a] + 1, cut[b]))) = Db!Wild(SubSeq(p, a + 1, b))
  <2> DEFINE t == SubSeq(p, a + 1, b)
             f == SubSeq(e, cut[a] + 1, cut[b])
             S == Db!Letter \cup {Db!Many, Db!One}
  <2>1. t \in Seq(Db!Letter) /\ f \in Seq(Db!Letter) /\ \E c : IsDoubled(c, f, t)
    BY <1>1, <1>2, <1>4, SliceDoubled
  <2> HIDE DEF t, f
  <2>2. PICK c : IsDoubled(c, Db!Wild(f), Db!Wild(t))
    BY <2>1, WildDoubled
  <2>3. Db!Wild(t) \in Seq(S) /\ Db!Wild(f) \in Seq(S)
    BY <2>1, WildIs
  <2> HIDE DEF S
  <2>4. Db!Literal(Db!Wild(f)) = Db!Wild(t)
    BY <2>2, <2>3, LiteralUndoubles
  <2>5. QED
    BY <2>4 DEF t, f
<1>5. Db!Literal(Db!Wild(SubSeq(e, Db!Dot(e) + 1, Len(e)))) = Db!Wild(Db!OfName(p))
  <2>1. n \in 0..n /\ d \in 0..n
    BY <1>3
  <2>2. Db!Literal(Db!Wild(SubSeq(e, cut[d] + 1, cut[n]))) = Db!Wild(SubSeq(p, d + 1, n))
    BY <1>4, <2>1
  <2>3. QED
    BY <1>3, <2>2 DEF Db!OfName
<1>6. ASSUME d > 0
      PROVE  Db!Literal(Db!Wild(SubSeq(e, 1, Db!Dot(e) - 1))) = Db!Wild(Db!InSchema(p))
  <2>1. d - 1 \in 0..n /\ 0 \in 0..d - 1
    BY <1>3, <1>6
  <2>2. Db!Literal(Db!Wild(SubSeq(e, cut[0] + 1, cut[d - 1]))) = Db!Wild(SubSeq(p, 0 + 1, d - 1))
    BY <1>4, <2>1
  <2>3. cut[0] + 1 = 1 /\ 0 + 1 = 1 /\ cut[d - 1] = Db!Dot(e) - 1
    BY <1>3, <1>6
  <2>4. QED
    BY <2>2, <2>3 DEF Db!InSchema
<1>7. Db!Dot(e) > 0 <=> Db!Dot(p) > 0
  BY <1>3
<1>8. QED
  BY <1>5, <1>6, <1>7 DEF e

\* R holds <<i, j>> when the pattern p from j on matches the name s from i on.
Matches(R, s, p) ==
    \A i \in 1..Len(s) + 1, j \in 1..Len(p) + 1 :
        <<i, j>> \in R <=>
            IF j > Len(p) THEN i > Len(s)
            ELSE IF p[j] = Db!Many
                 THEN <<i, j + 1>> \in R \/ (i <= Len(s) /\ <<i + 1, j>> \in R)
                 ELSE i <= Len(s) /\ p[j] \in {Db!One, s[i]} /\ <<i + 1, j + 1>> \in R

\* ILIKE as the set of pairs of positions from which the rest matches.
LEMMA LikeIs ==
    ASSUME NEW S, NEW name \in Seq(S), NEW pattern \in Seq(S)
    PROVE  \E R : (Db!Like(name, pattern) <=> <<1, 1>> \in R)
                  /\ Matches(R, Db!Lower(name), Db!Lower(pattern))
<1> DEFINE s == Db!Lower(name)
           p == Db!Lower(pattern)
           n == Len(s)
           m == Len(p)
           D == (1..Len(s) + 1) \X (1..Len(p) + 1)
           body(f, at) ==
               IF at[2] > Len(p) THEN at[1] > Len(s)
               ELSE IF p[at[2]] = Db!Many
                    THEN f[<<at[1], at[2] + 1>>] \/ (at[1] <= Len(s) /\ f[<<at[1] + 1, at[2]>>])
                    ELSE at[1] <= Len(s) /\ p[at[2]] \in {Db!One, s[at[1]]}
                           /\ f[<<at[1] + 1, at[2] + 1>>]
           Body == [at \in D |-> [f \in [D -> BOOLEAN] |-> body(f, at)]]
           rank == [at \in D |-> (n + 1 - at[1]) + (m + 1 - at[2])]
           Is(f) == f = [at \in D |-> body(f, at)]
<1>1. Db!Like(name, pattern) = (CHOOSE f : Is(f))[<<1, 1>>]
  BY DEF Db!Like
<1>2. n \in Nat /\ m \in Nat
  BY LowerIs
<1> HIDE DEF n, m
<1>3. ASSUME NEW at \in D
      PROVE  /\ at[1] \in Nat /\ at[2] \in Nat /\ at = <<at[1], at[2]>>
             /\ ~(at[2] > m) => <<at[1], at[2] + 1>> \in D
             /\ ~(at[2] > m) /\ at[1] <= n =>
                   <<at[1] + 1, at[2]>> \in D /\ <<at[1] + 1, at[2] + 1>> \in D
  BY <1>2 DEF n, m
<1>4. rank \in [D -> 0..n + m]
  BY <1>2 DEF n, m
<1>5. ASSUME NEW at \in D
      PROVE  /\ ~(at[2] > m) => rank[<<at[1], at[2] + 1>>] < rank[at]
             /\ ~(at[2] > m) /\ at[1] <= n =>
                   /\ rank[<<at[1] + 1, at[2]>>] < rank[at]
                   /\ rank[<<at[1] + 1, at[2] + 1>>] < rank[at]
  <2>1. \A x \in D : rank[x] = (n + 1 - x[1]) + (m + 1 - x[2])
    OBVIOUS
  <2>2. \A x, y : <<x, y>> \in D => rank[<<x, y>>] = (n + 1 - x) + (m + 1 - y)
    BY <2>1
  <2> DEFINE i == at[1]
             j == at[2]
  <2>3. i \in Nat /\ j \in Nat /\ at = <<i, j>> /\ at \in D
    BY <1>3
  <2>4. rank[at] = (n + 1 - i) + (m + 1 - j)
    BY <2>1
  <2> HIDE DEF rank, D
  <2>5. /\ ~(j > m) => <<i, j + 1>> \in D
        /\ ~(j > m) /\ i <= n => <<i + 1, j>> \in D /\ <<i + 1, j + 1>> \in D
    BY <1>3
  <2> HIDE DEF i, j
  <2>6. /\ (n + 1 - i) + (m + 1 - (j + 1)) < (n + 1 - i) + (m + 1 - j)
        /\ (n + 1 - (i + 1)) + (m + 1 - j) < (n + 1 - i) + (m + 1 - j)
        /\ (n + 1 - (i + 1)) + (m + 1 - (j + 1)) < (n + 1 - i) + (m + 1 - j)
    BY <1>2, <2>3
  <2>7. /\ ~(j > m) => rank[<<i, j + 1>>] < rank[at]
        /\ ~(j > m) /\ i <= n => /\ rank[<<i + 1, j>>] < rank[at]
                                /\ rank[<<i + 1, j + 1>>] < rank[at]
    BY <2>2, <2>4, <2>5, <2>6, Zenon
  <2>8. QED
    BY <2>7 DEF i, j
<1> HIDE DEF rank, D
<1>6. ASSUME NEW at \in D, NEW f, NEW g, \A x \in D : rank[x] < rank[at] => f[x] = g[x]
      PROVE  body(f, at) = body(g, at)
  <2>1. ~(at[2] > m) => f[<<at[1], at[2] + 1>>] = g[<<at[1], at[2] + 1>>]
    BY <1>3, <1>5, <1>6
  <2>2. ~(at[2] > m) /\ at[1] <= n =>
            /\ f[<<at[1] + 1, at[2]>>] = g[<<at[1] + 1, at[2]>>]
            /\ f[<<at[1] + 1, at[2] + 1>>] = g[<<at[1] + 1, at[2] + 1>>]
    BY <1>3, <1>5, <1>6
  <2>3. QED
    BY <2>1, <2>2, Zenon DEF n, m
<1>7. ASSUME NEW at \in D, NEW f \in [D -> BOOLEAN]
      PROVE  body(f, at) \in BOOLEAN
  <2>1. CASE at[2] > Len(p)
    <3>1. body(f, at) = (at[1] > Len(s))
      BY <2>1, Zenon
    <3>2. (at[1] > Len(s)) = TRUE \/ (at[1] > Len(s)) = FALSE
      OBVIOUS
    <3> HIDE DEF body
    <3>3. QED
      BY <3>1, <3>2, Zenon
  <2>2. CASE ~(at[2] > Len(p)) /\ p[at[2]] = Db!Many
    <3>1. body(f, at) = (f[<<at[1], at[2] + 1>>] \/ (at[1] <= Len(s) /\ f[<<at[1] + 1, at[2]>>]))
      BY <2>2, Zenon
    <3> HIDE DEF body
    <3>2. QED
      BY <3>1, Zenon
  <2>3. CASE ~(at[2] > Len(p)) /\ p[at[2]] # Db!Many
    <3>1. body(f, at) = (at[1] <= Len(s) /\ p[at[2]] \in {Db!One, s[at[1]]}
                            /\ f[<<at[1] + 1, at[2] + 1>>])
      BY <2>3, Zenon
    <3> HIDE DEF body
    <3>2. QED
      BY <3>1, Zenon
  <2>4. QED
    BY <2>1, <2>2, <2>3
<1>8. \A f : Is(f) => \A at \in D : f[at] = body(f, at)
  OBVIOUS
<1> HIDE DEF body
<1>9. \A at \in D : \A f \in [D -> BOOLEAN] : Body[at][f] = body(f, at)
  OBVIOUS
<1>10. IsRecursion(D, BOOLEAN, rank, Body)
  <2>1. Body \in [D -> [[D -> BOOLEAN] -> BOOLEAN]]
    BY <1>7
  <2> HIDE DEF Body
  <2>2. ASSUME NEW at \in D, NEW f \in [D -> BOOLEAN], NEW g \in [D -> BOOLEAN],
               \A x \in D : rank[x] < rank[at] => f[x] = g[x]
        PROVE  Body[at][f] = Body[at][g]
    <3>1. body(f, at) = body(g, at)
      BY <1>6, <2>2
    <3>2. QED
      BY <1>9, <3>1
  <2>3. n + m \in Nat
    BY <1>2
  <2>4. BOOLEAN # {}
    OBVIOUS
  <2>5. QED
    BY <1>4, <2>1, <2>2, <2>3, <2>4 DEF IsRecursion
<1> HIDE DEF Body
<1>11. \E f : Is(f) /\ f \in [D -> BOOLEAN]
  <2>1. PICK f \in [D -> BOOLEAN] : \A at \in D : f[at] = Body[at][f]
    BY <1>10, RecursiveFunction
  <2>2. f = [at \in D |-> body(f, at)]
    BY <1>9, <2>1
  <2>3. QED
    BY <2>1, <2>2
<1> DEFINE h == CHOOSE f : Is(f)
<1>12. Is(h)
  <2> HIDE DEF Is
  <2>1. QED
    BY <1>11
<1>13. \A at \in D : h[at] = body(h, at)
  <2> HIDE DEF h
  <2>1. QED
    BY <1>12
<1> HIDE DEF h, Is
<1> DEFINE R == {at \in D : h[at]}
<1>14. Matches(R, s, p)
  <2> SUFFICES ASSUME NEW i \in 1..Len(s) + 1, NEW j \in 1..Len(p) + 1
               PROVE  <<i, j>> \in R <=>
                        IF j > Len(p) THEN i > Len(s)
                        ELSE IF p[j] = Db!Many
                             THEN <<i, j + 1>> \in R \/ (i <= Len(s) /\ <<i + 1, j>> \in R)
                             ELSE i <= Len(s) /\ p[j] \in {Db!One, s[i]} /\ <<i + 1, j + 1>> \in R
    BY DEF Matches
  <2>1. <<i, j>> \in D /\ <<i, j>>[1] = i /\ <<i, j>>[2] = j
    BY DEF D
  <2>2. h[<<i, j>>] = body(h, <<i, j>>)
    BY <1>13, <2>1
  <2>3. body(h, <<i, j>>) =
            IF j > Len(p) THEN i > Len(s)
            ELSE IF p[j] = Db!Many
                 THEN h[<<i, j + 1>>] \/ (i <= Len(s) /\ h[<<i + 1, j>>])
                 ELSE i <= Len(s) /\ p[j] \in {Db!One, s[i]} /\ h[<<i + 1, j + 1>>]
    BY <2>1 DEF body
  <2>4. /\ ~(j > Len(p)) => <<i, j + 1>> \in D
        /\ ~(j > Len(p)) /\ i <= Len(s) => <<i + 1, j>> \in D /\ <<i + 1, j + 1>> \in D
    BY <1>3, <2>1 DEF n, m
  <2>5. \A x \in D : x \in R <=> h[x]
    OBVIOUS
  <2> HIDE DEF R, s, p
  <2>6. QED
    BY <2>1, <2>2, <2>3, <2>4, <2>5, Zenon
<1>15. Db!Like(name, pattern) <=> <<1, 1>> \in R
  <2>1. Db!Like(name, pattern) = h[<<1, 1>>]
    BY <1>1 DEF h
  <2>2. <<1, 1>> \in D
    BY <1>2 DEF n, m, D
  <2>3. QED
    BY <2>1, <2>2, Zenon
<1>16. QED
  BY <1>14, <1>15

\* Character k of a pattern matches the name between a and b.
Piece(s, p, k, a, b) ==
    IF p[k] = Db!Many THEN a <= b ELSE b = a + 1 /\ p[k] \in {Db!One, s[b]}

\* A cut of the name from i on into what the characters from j on match.
Fits(cut, s, p, i, j) ==
    /\ cut \in [j - 1..Len(p) -> 0..Len(s)] /\ cut[j - 1] = i - 1 /\ cut[Len(p)] = Len(s)
    /\ \A k \in j..Len(p) : Piece(s, p, k, cut[k - 1], cut[k])

\* One character of the pattern more, with the stretch of the name it takes.
LEMMA FitsStep ==
    ASSUME NEW s, NEW p, Len(s) \in Nat, Len(p) \in Nat,
           NEW i \in 1..Len(s) + 1, NEW j \in 1..Len(p)
    PROVE  (\E cut : Fits(cut, s, p, i, j)) <=>
               \E x \in 0..Len(s) : /\ Piece(s, p, j, i - 1, x)
                                    /\ \E cut : Fits(cut, s, p, x + 1, j + 1)
<1> DEFINE n == Len(s)
           m == Len(p)
<1>1. n \in Nat /\ m \in Nat
  OBVIOUS
<1> HIDE DEF n, m
<1>2. /\ j \in 1..m /\ (j + 1) - 1 = j /\ j \in j - 1..m /\ m \in j..m /\ m \in j - 1..m
      /\ j - 1 \in j - 1..m /\ m # j - 1
      /\ \A k \in j..m : k \in j - 1..m /\ k # j - 1
      /\ \A k \in j + 1..m : k \in j..m /\ k - 1 \in j..m
      /\ \A k \in j..m : k = j \/ k \in j + 1..m
  BY <1>1 DEF m
<1>3. ASSUME NEW cut, Fits(cut, s, p, i, j)
      PROVE  \E x \in 0..n : /\ Piece(s, p, j, i - 1, x)
                             /\ \E c : Fits(c, s, p, x + 1, j + 1)
  <2> DEFINE c == [k \in j..m |-> cut[k]]
  <2>1. /\ cut \in [j - 1..m -> 0..n] /\ cut[j - 1] = i - 1 /\ cut[m] = n
        /\ \A k \in j..m : Piece(s, p, k, cut[k - 1], cut[k])
    BY <1>3 DEF Fits, n, m
  <2>2. cut[j] \in 0..n /\ Piece(s, p, j, i - 1, cut[j]) /\ (cut[j] + 1) - 1 = cut[j]
    <3>1. j \in j..m
      BY <1>2
    <3>2. cut[j] \in 0..n
      BY <1>2, <2>1
    <3>3. \A x \in 0..n : (x + 1) - 1 = x
      BY <1>1
    <3>4. QED
      BY <2>1, <3>1, <3>2, <3>3
  <2>3. c \in [j..m -> 0..n] /\ c[j] = cut[j] /\ c[m] = n
    BY <1>2, <2>1
  <2>4. \A k \in j + 1..m : c[k] = cut[k] /\ c[k - 1] = cut[k - 1] /\ k \in j..m
    BY <1>2
  <2> HIDE DEF c
  <2>5. \A k \in j + 1..m : Piece(s, p, k, c[k - 1], c[k])
    BY <2>1, <2>4
  <2>6. Fits(c, s, p, cut[j] + 1, j + 1)
    BY <1>2, <2>2, <2>3, <2>5 DEF Fits, n, m
  <2>7. QED
    BY <2>2, <2>6
<1>4. ASSUME NEW x \in 0..n, Piece(s, p, j, i - 1, x), NEW c, Fits(c, s, p, x + 1, j + 1)
      PROVE  \E cut : Fits(cut, s, p, i, j)
  <2> DEFINE cut == [k \in j - 1..m |-> IF k = j - 1 THEN i - 1 ELSE c[k]]
  <2>1. /\ c \in [j..m -> 0..n] /\ c[j] = x /\ c[m] = n
        /\ \A k \in j + 1..m : Piece(s, p, k, c[k - 1], c[k])
    <3>1. (x + 1) - 1 = x
      OBVIOUS
    <3>2. QED
      BY <1>2, <1>4, <3>1 DEF Fits, n, m
  <2>2. cut[j - 1] = i - 1 /\ \A k \in j..m : cut[k] = c[k]
    BY <1>2
  <2>3. i - 1 \in 0..n
    BY <1>1 DEF n
  <2>4. cut \in [j - 1..m -> 0..n]
    <3>1. \A k \in j - 1..m : k # j - 1 => k \in j..m
      BY <1>1
    <3>2. QED
      BY <2>1, <2>3, <3>1
  <2> HIDE DEF cut
  <2>5. ASSUME NEW k \in j..m PROVE Piece(s, p, k, cut[k - 1], cut[k])
    <3>1. CASE k = j
      BY <1>2, <1>4, <2>1, <2>2, <3>1
    <3>2. CASE k \in j + 1..m
      BY <1>2, <2>1, <2>2, <3>2
    <3>3. QED
      BY <1>2, <3>1, <3>2
  <2>6. cut[m] = n
    BY <1>2, <2>1, <2>2
  <2>7. Fits(cut, s, p, i, j)
    BY <2>2, <2>4, <2>5, <2>6 DEF Fits, n, m
  <2>8. QED
    BY <2>7
<1>5. QED
  BY <1>3, <1>4 DEF n

\* Behind the pattern nothing of the name may be left.
LEMMA FitsEnd ==
    ASSUME NEW s, NEW p, Len(s) \in Nat, Len(p) \in Nat, NEW i \in 1..Len(s) + 1
    PROVE  (\E cut : Fits(cut, s, p, i, Len(p) + 1)) <=> i > Len(s)
<1> DEFINE n == Len(s)
           m == Len(p)
<1>1. n \in Nat /\ m \in Nat /\ i \in 1..n + 1
  OBVIOUS
<1> HIDE DEF n, m
<1>2. (m + 1) - 1 = m /\ m \in m..m /\ \A k \in m + 1..m : FALSE
  BY <1>1
<1>3. ASSUME NEW cut, Fits(cut, s, p, i, m + 1) PROVE i > n
  <2>1. n = i - 1
    BY <1>2, <1>3 DEF Fits, n, m
  <2>2. QED
    BY <1>1, <2>1
<1>4. ASSUME i > n PROVE \E cut : Fits(cut, s, p, i, m + 1)
  <2> DEFINE cut == [k \in m..m |-> n]
  <2>1. cut \in [m..m -> 0..n] /\ cut[m] = n /\ i - 1 = n
    BY <1>1, <1>2, <1>4
  <2> HIDE DEF cut
  <2>2. Fits(cut, s, p, i, m + 1)
    BY <1>2, <2>1 DEF Fits, n, m
  <2>3. QED
    BY <2>2
<1>5. QED
  BY <1>3, <1>4 DEF n, m

\* LIKE finds such a cut if there is one.
LEMMA MatchesFits ==
    ASSUME NEW s, NEW p, Len(s) \in Nat, Len(p) \in Nat, NEW R, Matches(R, s, p)
    PROVE  <<1, 1>> \in R <=> \E cut : Fits(cut, s, p, 1, 1)
<1> DEFINE n == Len(s)
           m == Len(p)
           D == (1..n + 1) \X (1..m + 1)
           E == {at \in D : \E cut : Fits(cut, s, p, at[1], at[2])}
           T == {at \in D : at \in R <=> at \in E}
           rank == [at \in D |-> (n + 1 - at[1]) + (m + 1 - at[2])]
<1>1. n \in Nat /\ m \in Nat
  OBVIOUS
<1>2. \A i \in 1..n + 1, j \in 1..m + 1 :
          /\ <<i, j>> \in D /\ rank[<<i, j>>] = (n + 1 - i) + (m + 1 - j)
          /\ <<i, j>> \in E <=> \E cut : Fits(cut, s, p, i, j)
          /\ <<i, j>> \in T <=> (<<i, j>> \in R <=> <<i, j>> \in E)
  OBVIOUS
<1>3. rank \in [D -> Nat] /\ \A at \in D : \E i \in 1..n + 1, j \in 1..m + 1 : at = <<i, j>>
  <2>1. \A at \in D : at[1] \in 1..n + 1 /\ at[2] \in 1..m + 1 /\ at = <<at[1], at[2]>>
    OBVIOUS
  <2> HIDE DEF D, n, m
  <2>2. \A i \in 1..n + 1, j \in 1..m + 1 : (n + 1 - i) + (m + 1 - j) \in Nat
    BY <1>1
  <2>3. QED
    BY <2>1, <2>2
<1> HIDE DEF n, m, D, E, T, rank
<1>4. ASSUME NEW i \in 1..n + 1, NEW j \in 1..m + 1,
             \A at \in D : rank[at] < rank[<<i, j>>] => at \in T
      PROVE  <<i, j>> \in T
  <2>1. /\ j <= m => j \in 1..m /\ j + 1 \in 1..m + 1
        /\ i <= n => i + 1 \in 1..n + 1
        /\ i \in Nat /\ j \in Nat /\ (j <= m \/ j = m + 1)
    BY <1>1
  <2>2. /\ j <= m => rank[<<i, j + 1>>] < rank[<<i, j>>]
        /\ i <= n => rank[<<i + 1, j>>] < rank[<<i, j>>]
        /\ j <= m /\ i <= n => rank[<<i + 1, j + 1>>] < rank[<<i, j>>]
    <3>1. /\ (n + 1 - i) + (m + 1 - (j + 1)) < (n + 1 - i) + (m + 1 - j)
          /\ (n + 1 - (i + 1)) + (m + 1 - j) < (n + 1 - i) + (m + 1 - j)
          /\ (n + 1 - (i + 1)) + (m + 1 - (j + 1)) < (n + 1 - i) + (m + 1 - j)
      BY <1>1, <2>1
    <3>2. QED
      BY <1>2, <2>1, <3>1, Zenon
  <2>3. /\ j <= m => (<<i, j + 1>> \in R <=> <<i, j + 1>> \in E)
        /\ i <= n => (<<i + 1, j>> \in R <=> <<i + 1, j>> \in E)
        /\ j <= m /\ i <= n => (<<i + 1, j + 1>> \in R <=> <<i + 1, j + 1>> \in E)
    BY <1>2, <1>4, <2>1, <2>2, Zenon
  <2>4. <<i, j>> \in R <=>
            IF j > m THEN i > n
            ELSE IF p[j] = Db!Many
                 THEN <<i, j + 1>> \in R \/ (i <= n /\ <<i + 1, j>> \in R)
                 ELSE i <= n /\ p[j] \in {Db!One, s[i]} /\ <<i + 1, j + 1>> \in R
    BY DEF Matches, n, m
  <2>5. j <= m => (<<i, j>> \in E <=>
            \E x \in 0..n : Piece(s, p, j, i - 1, x) /\ <<x + 1, j + 1>> \in E)
    <3> SUFFICES ASSUME j <= m
                 PROVE  <<i, j>> \in E <=>
                          \E x \in 0..n : Piece(s, p, j, i - 1, x) /\ <<x + 1, j + 1>> \in E
      OBVIOUS
    <3>1. <<i, j>> \in E <=>
            \E x \in 0..n : /\ Piece(s, p, j, i - 1, x)
                            /\ \E cut : Fits(cut, s, p, x + 1, j + 1)
      BY <1>2, <2>1, FitsStep DEF n, m
    <3>2. \A x \in 0..n : x + 1 \in 1..n + 1
      BY <1>1
    <3>3. QED
      BY <1>2, <2>1, <3>1, <3>2, Zenon
  <2>6. CASE j = m + 1
    <3>1. <<i, j>> \in E <=> i > n
      BY <1>2, <2>6, FitsEnd DEF n, m
    <3>2. j > m
      BY <1>1, <2>6
    <3>3. QED
      BY <1>2, <2>4, <3>1, <3>2, Zenon
  <2>7. CASE j <= m /\ p[j] # Db!Many
    <3>1. \A x \in 0..n : Piece(s, p, j, i - 1, x) <=> x = i /\ p[j] \in {Db!One, s[i]}
      <4>1. (i - 1) + 1 = i
        BY <2>1
      <4>2. QED
        BY <2>7, <4>1, Zenon DEF Piece
    <3>2. i <= n <=> i \in 0..n
      BY <1>1, <2>1
    <3>3. ~(j > m)
      BY <1>1, <2>1, <2>7
    <3>4. <<i, j>> \in R <=> i <= n /\ p[j] \in {Db!One, s[i]} /\ <<i + 1, j + 1>> \in E
      BY <2>3, <2>4, <2>7, <3>3, Zenon
    <3>5. <<i, j>> \in E <=> i <= n /\ p[j] \in {Db!One, s[i]} /\ <<i + 1, j + 1>> \in E
      BY <2>5, <2>7, <3>1, <3>2, Zenon
    <3>6. QED
      BY <1>2, <3>4, <3>5, Zenon
  <2>8. CASE j <= m /\ p[j] = Db!Many
    <3>1. \A x \in 0..n : Piece(s, p, j, i - 1, x) <=> x \in i - 1..n
      BY <1>1, <2>1, <2>8 DEF Piece
    <3>2. \A x \in 0..n : x \in i - 1..n <=> x = i - 1 \/ (i <= n /\ x \in i..n)
      BY <1>1, <2>1
    <3>3. i - 1 \in 0..n /\ (i - 1) + 1 = i /\ ~(j > m) /\ (i + 1) - 1 = i
      BY <1>1, <2>1, <2>8
    <3>4. <<i, j>> \in R <=> <<i, j + 1>> \in E \/ (i <= n /\ <<i + 1, j>> \in E)
      BY <2>3, <2>4, <2>8, <3>3, Zenon
    <3>5. <<i, j>> \in E <=>
            \/ <<i, j + 1>> \in E
            \/ i <= n /\ \E x \in 0..n : x \in i..n /\ <<x + 1, j + 1>> \in E
      <4>1. <<i, j>> \in E <=> \E x \in 0..n : x \in i - 1..n /\ <<x + 1, j + 1>> \in E
        BY <2>5, <2>8, <3>1, Zenon
      <4>2. QED
        BY <3>2, <3>3, <4>1, Zenon
    <3>6. i <= n => (<<i + 1, j>> \in E <=>
                        \E x \in 0..n : x \in i..n /\ <<x + 1, j + 1>> \in E)
      <4> SUFFICES ASSUME i <= n
                   PROVE  <<i + 1, j>> \in E <=>
                             \E x \in 0..n : x \in i..n /\ <<x + 1, j + 1>> \in E
        OBVIOUS
      <4>1. <<i + 1, j>> \in E <=>
              \E x \in 0..n : /\ Piece(s, p, j, (i + 1) - 1, x)
                              /\ \E cut : Fits(cut, s, p, x + 1, j + 1)
        BY <1>2, <2>1, <2>8, FitsStep DEF n, m
      <4>2. \A x \in 0..n : x + 1 \in 1..n + 1
        BY <1>1
      <4>3. \A x \in 0..n : Piece(s, p, j, i, x) <=> x \in i..n
        BY <1>1, <2>1, <2>8 DEF Piece
      <4>4. QED
        BY <1>2, <2>1, <2>8, <3>3, <4>1, <4>2, <4>3, Zenon
    <3>7. QED
      BY <1>2, <3>4, <3>5, <3>6, Zenon
  <2>9. QED
    BY <2>1, <2>6, <2>7, <2>8
<1>5. ASSUME NEW at \in D, \A x \in D : rank[x] < rank[at] => x \in T PROVE at \in T
  BY <1>3, <1>4, <1>5
<1>6. D \subseteq T
  BY <1>3, <1>5, RankInduction
<1>7. 1 \in 1..n + 1 /\ 1 \in 1..m + 1
  BY <1>1
<1>8. <<1, 1>> \in T
  BY <1>2, <1>6, <1>7
<1>9. QED
  BY <1>2, <1>7, <1>8, Zenon

\* What LIKE means: one stretch of the name for each character of the pattern.
LEMMA LikeMeans ==
    ASSUME NEW S, NEW name \in Seq(S), NEW pattern \in Seq(S)
    PROVE  Db!Like(name, pattern) <=> \E cut : Fits(cut, Db!Lower(name), Db!Lower(pattern), 1, 1)
<1>1. PICK R : (Db!Like(name, pattern) <=> <<1, 1>> \in R)
               /\ Matches(R, Db!Lower(name), Db!Lower(pattern))
  BY LikeIs
<1>2. Len(Db!Lower(name)) \in Nat /\ Len(Db!Lower(pattern)) \in Nat
  BY LowerIs
<1>3. <<1, 1>> \in R <=> \E cut : Fits(cut, Db!Lower(name), Db!Lower(pattern), 1, 1)
  BY <1>1, <1>2, MatchesFits
<1>4. QED
  BY <1>1, <1>3, Zenon

LEMMA WiderSeq ==
    ASSUME NEW S, NEW C, S \subseteq C, NEW s \in Seq(S)
    PROVE  s \in Seq(C)
<1>1. /\ Len(s) \in Nat /\ s = [k \in 1..Len(s) |-> s[k]]
      /\ \A k \in 1..Len(s) : s[k] \in C
  OBVIOUS
<1>2. QED
  BY <1>1

\* None of these characters is in the text.
Free(p, chars) == \A k \in 1..Len(p) : p[k] \notin chars

\* A pattern without the characters that LIKE reads in its own way means what
\* README.md says when its wildcards are put in LIKE's.
LEMMA LikeGlob ==
    ASSUME NEW S, NEW name \in Seq(S), NEW q \in Seq(S), Free(q, {Db!One, Db!Many})
    PROVE  Db!Like(name, Db!Wild(q)) <=> Db!Glob(name, q)
<1> DEFINE C == S \cup {Db!Many, Db!One}
           n == Len(name)
           m == Len(q)
           s == Db!Lower(name)
           w == Db!Wild(q)
           p == Db!Lower(w)
<1>1. name \in Seq(C) /\ w \in Seq(C)
  <2>1. name \in Seq(C)
    BY WiderSeq
  <2>2. QED
    BY <2>1, WildIs
<1>2. n \in Nat /\ m \in Nat /\ Len(s) = n /\ Len(w) = m
  <2>1. n \in Nat /\ m \in Nat
    OBVIOUS
  <2>2. QED
    BY <2>1, LowerIs, WildIs
<1>3. \A k \in 1..m : /\ q[k] = "*" => w[k] = Db!Many
                      /\ q[k] = "?" => w[k] = Db!One
                      /\ q[k] \notin {"*", "?"} => w[k] = q[k]
  BY WildIs
<1>4. \A k \in 1..m : /\ q[k] = "A" => Db!Lower(q)[k] = "a"
                      /\ q[k] # "A" => Db!Lower(q)[k] = q[k]
  BY LowerIs
<1> HIDE DEF C, n, s, w, m
<1>5. Len(p) = m /\ \A k \in 1..m : /\ w[k] = "A" => p[k] = "a"
                                    /\ w[k] # "A" => p[k] = w[k]
  BY <1>1, <1>2, LowerIs
<1>6. Db!Like(name, w) <=> \E cut : Fits(cut, s, p, 1, 1)
  BY <1>1, LikeMeans DEF s
<1> HIDE DEF p
<1>7. ASSUME NEW k \in 1..m, NEW x, NEW y
      PROVE  Piece(s, p, k, x, y) <=>
                IF q[k] = "*" THEN x <= y
                ELSE y = x + 1 /\ Db!Lower(q)[k] \in {"?", s[y]}
  <2>1. CASE q[k] = "*"
    <3>1. p[k] = Db!Many
      BY <1>3, <1>5, <2>1, WildsDiffer
    <3>2. QED
      BY <2>1, <3>1 DEF Piece
  <2>2. CASE q[k] = "?"
    <3>1. p[k] = Db!One /\ p[k] # Db!Many /\ Db!Lower(q)[k] = "?" /\ q[k] # "*"
      BY <1>3, <1>4, <1>5, <2>2, WildsDiffer
    <3>2. QED
      BY <3>1 DEF Piece
  <2>3. CASE q[k] \notin {"*", "?"}
    <3>1. p[k] = Db!Lower(q)[k] /\ p[k] \notin {Db!Many, Db!One, "?"}
      <4>1. q[k] \notin {Db!One, Db!Many}
        BY DEF m, Free
      <4>2. CASE q[k] = "A"
        BY <1>3, <1>4, <1>5, <2>3, <4>2, WildsDiffer
      <4>3. CASE q[k] # "A"
        BY <1>3, <1>4, <1>5, <2>3, <4>1, <4>3
      <4>4. QED
        BY <4>2, <4>3
    <3>2. QED
      BY <2>3, <3>1 DEF Piece
  <2>4. QED
    BY <2>1, <2>2, <2>3
<1>8. ASSUME NEW cut
      PROVE  Fits(cut, s, p, 1, 1) <=>
                /\ cut \in [0..m -> 0..n] /\ cut[0] = 0 /\ cut[m] = n
                /\ \A k \in 1..m : IF q[k] = "*" THEN cut[k - 1] <= cut[k]
                                   ELSE /\ cut[k] = cut[k - 1] + 1
                                        /\ Db!Lower(q)[k] \in {"?", s[cut[k]]}
  <2>1. 1 - 1 = 0
    OBVIOUS
  <2>2. Fits(cut, s, p, 1, 1) <=>
            /\ cut \in [0..m -> 0..n] /\ cut[0] = 0 /\ cut[m] = n
            /\ \A k \in 1..m : Piece(s, p, k, cut[k - 1], cut[k])
    BY <1>2, <1>5, <2>1 DEF Fits
  <2>3. \A k \in 1..m : Piece(s, p, k, cut[k - 1], cut[k]) <=>
                            IF q[k] = "*" THEN cut[k - 1] <= cut[k]
                            ELSE /\ cut[k] = cut[k - 1] + 1
                                 /\ Db!Lower(q)[k] \in {"?", s[cut[k]]}
    BY <1>7
  <2>4. QED
    BY <2>2, <2>3
<1>9. Db!Glob(name, q) <=>
        \E cut : /\ cut \in [0..m -> 0..n] /\ cut[0] = 0 /\ cut[m] = n
                 /\ \A k \in 1..m : IF q[k] = "*" THEN cut[k - 1] <= cut[k]
                                    ELSE /\ cut[k] = cut[k - 1] + 1
                                         /\ Db!Lower(q)[k] \in {"?", s[cut[k]]}
  BY Zenon DEF Db!Glob, m, n, s
<1>10. QED
  BY <1>6, <1>8, <1>9, Zenon DEF w

\* Every name is like itself, with its wildcards in LIKE's or not, and whatever
\* may stand around it.
LEMMA LikeItself ==
    ASSUME NEW S, NEW s \in Seq(S)
    PROVE  /\ Db!Like(s, s) /\ Db!Like(s, Db!Wild(s))
           /\ Db!Like(s, <<Db!Many>> \o Db!Wild(s) \o <<Db!Many>>)
<1> DEFINE C == S \cup {Db!Many, Db!One}
           n == Len(s)
           l == Db!Lower(s)
           w == Db!Wild(s)
<1>1. s \in Seq(C) /\ w \in Seq(C)
  <2>1. s \in Seq(C)
    BY WiderSeq
  <2>2. QED
    BY <2>1, WildIs
<1>2. n \in Nat /\ Len(l) = n /\ Len(w) = n
  <2>1. n \in Nat
    OBVIOUS
  <2>2. QED
    BY <2>1, LowerIs, WildIs
<1>3. \A k \in 1..n : /\ s[k] = "*" => w[k] = Db!Many
                      /\ s[k] = "?" => w[k] = Db!One
                      /\ s[k] \notin {"*", "?"} => w[k] = s[k]
  BY WildIs
<1>4. \A k \in 1..n : /\ s[k] = "A" => l[k] = "a"
                      /\ s[k] # "A" => l[k] = s[k]
  BY LowerIs
<1> HIDE DEF C, n, l, w
\* A pattern whose characters are these, at an offset.
<1>5. ASSUME NEW r \in Seq(C), NEW a \in Nat, NEW k \in 1..n, a + k \in 1..Len(r),
             r[a + k] \in {s[k], w[k]}
      PROVE  Piece(l, Db!Lower(r), a + k, k - 1, k)
  <2>1. /\ r[a + k] = "A" => Db!Lower(r)[a + k] = "a"
        /\ r[a + k] # "A" => Db!Lower(r)[a + k] = r[a + k]
    BY <1>5, LowerIs
  <2>2. Db!Lower(r)[a + k] \in {Db!Many, Db!One, l[k]}
    <3>1. CASE r[a + k] = s[k]
      BY <1>4, <2>1, <3>1
    <3>2. CASE r[a + k] = w[k] /\ s[k] \notin {"*", "?"}
      BY <1>3, <1>4, <2>1, <3>2
    <3>3. CASE r[a + k] = w[k] /\ s[k] \in {"*", "?"}
      BY <1>3, <2>1, <3>3, WildsDiffer
    <3>4. QED
      BY <1>5, <3>1, <3>2, <3>3
  <2>3. k = (k - 1) + 1 /\ k - 1 <= k
    BY <1>2
  <2>4. QED
    BY <2>2, <2>3 DEF Piece
<1>6. ASSUME NEW r \in Seq(C), Len(r) = n, \A k \in 1..n : r[k] \in {s[k], w[k]}
      PROVE  Db!Like(s, r)
  <2> DEFINE cut == [k \in 0..n |-> k]
  <2>1. cut \in [0..n -> 0..n] /\ cut[0] = 0 /\ cut[n] = n
        /\ \A k \in 1..n : cut[k - 1] = k - 1 /\ cut[k] = k
    BY <1>2
  <2> HIDE DEF cut
  <2>2. Len(Db!Lower(r)) = n /\ 1 - 1 = 0 /\ \A k \in 1..n : 0 + k = k
    BY <1>2, <1>6, LowerIs
  <2>3. \A k \in 1..n : Piece(l, Db!Lower(r), k, k - 1, k)
    <3> SUFFICES ASSUME NEW k \in 1..n PROVE Piece(l, Db!Lower(r), k, k - 1, k)
      OBVIOUS
    <3>1. 0 + k = k /\ r[k] \in {s[k], w[k]}
      BY <1>6, <2>2
    <3>2. Piece(l, Db!Lower(r), 0 + k, k - 1, k)
      BY <1>5, <1>6, <3>1
    <3>3. QED
      BY <3>1, <3>2
  <2>4. Fits(cut, l, Db!Lower(r), 1, 1)
    BY <1>2, <2>1, <2>2, <2>3 DEF Fits
  <2>5. QED
    BY <1>1, <1>6, <2>4, LikeMeans DEF l
<1>7. Db!Like(s, s) /\ Db!Like(s, w)
  BY <1>1, <1>2, <1>6 DEF n
<1>8. Db!Like(s, <<Db!Many>> \o w \o <<Db!Many>>)
  <2> DEFINE r == <<Db!Many>> \o w \o <<Db!Many>>
             cut == [k \in 0..n + 2 |-> IF k = 0 THEN 0 ELSE IF k = n + 2 THEN n ELSE k - 1]
  <2>1. /\ r \in Seq(C) /\ Len(r) = n + 2 /\ r[1] = Db!Many /\ r[n + 2] = Db!Many
        /\ \A k \in 1..n : r[1 + k] = w[k]
    <3>1. <<Db!Many>> \in Seq(C)
      <4>1. Db!Many \in C
        BY DEF C
      <4>2. QED
        BY <4>1
    <3> DEFINE u == <<Db!Many>> \o w
    <3>2. u \in Seq(C) /\ Len(u) = n + 1 /\ u[1] = Db!Many /\ \A k \in 1..n : u[1 + k] = w[k]
      <4>1. /\ u \in Seq(C) /\ Len(u) = Len(<<Db!Many>>) + Len(w)
            /\ \A i \in 1..Len(<<Db!Many>>) + Len(w) :
                  u[i] = IF i <= Len(<<Db!Many>>) THEN <<Db!Many>>[i] ELSE w[i - Len(<<Db!Many>>)]
        BY <1>1, <3>1, ConcatProperties
      <4>2. Len(<<Db!Many>>) = 1 /\ <<Db!Many>>[1] = Db!Many
        OBVIOUS
      <4>3. 1 \in 1..1 + n /\ 1 <= 1
            /\ \A k \in 1..n : 1 + k \in 1..1 + n /\ ~(1 + k <= 1) /\ (1 + k) - 1 = k
        BY <1>2
      <4> HIDE DEF u
      <4>4. QED
        BY <1>2, <4>1, <4>2, <4>3
    <3> HIDE DEF u
    <3>3. r = u \o <<Db!Many>>
      BY DEF u
    <3>4. /\ r \in Seq(C) /\ Len(r) = Len(u) + Len(<<Db!Many>>)
          /\ \A i \in 1..Len(u) + Len(<<Db!Many>>) :
                r[i] = IF i <= Len(u) THEN u[i] ELSE <<Db!Many>>[i - Len(u)]
      <4> DEFINE v == <<Db!Many>>
      <4>1. u \in Seq(C) /\ v \in Seq(C) /\ r = u \o v
        BY <3>1, <3>2, <3>3
      <4> HIDE DEF v, r
      <4>2. /\ r \in Seq(C) /\ Len(r) = Len(u) + Len(v)
            /\ \A i \in 1..Len(u) + Len(v) : r[i] = IF i <= Len(u) THEN u[i] ELSE v[i - Len(u)]
        BY <4>1, ConcatProperties
      <4>3. QED
        BY <4>2 DEF v
    <3>5. Len(<<Db!Many>>) = 1 /\ <<Db!Many>>[1] = Db!Many
      OBVIOUS
    <3> HIDE DEF r
    <3>6. /\ 1 \in 1..(n + 1) + 1 /\ 1 <= n + 1 /\ n + 2 \in 1..(n + 1) + 1 /\ ~(n + 2 <= n + 1)
          /\ (n + 2) - (n + 1) = 1 /\ (n + 1) + 1 = n + 2
          /\ \A k \in 1..n : 1 + k \in 1..(n + 1) + 1 /\ 1 + k <= n + 1
      BY <1>2
    <3>7. QED
      BY <3>2, <3>4, <3>5, <3>6
  <2>2. /\ cut \in [0..n + 2 -> 0..n] /\ cut[0] = 0 /\ cut[1] = 0 /\ cut[n + 2] = n
        /\ cut[n + 1] = n /\ \A k \in 1..n : cut[1 + k] = k /\ cut[(1 + k) - 1] = k - 1
    <3>1. \A k \in 0..n + 2 : k # 0 /\ k # n + 2 => k - 1 \in 0..n
      BY <1>2
    <3>2. cut \in [0..n + 2 -> 0..n]
      BY <1>2, <3>1
    <3>3. cut[0] = 0 /\ cut[1] = 0 /\ cut[n + 2] = n /\ cut[n + 1] = n
      BY <1>2
    <3>4. \A k \in 1..n : cut[1 + k] = k /\ cut[(1 + k) - 1] = k - 1
      BY <1>2
    <3>5. QED
      BY <3>2, <3>3, <3>4
  <2> HIDE DEF r, cut
  <2>3. Len(Db!Lower(r)) = n + 2 /\ Db!Lower(r)[1] = Db!Many /\ Db!Lower(r)[n + 2] = Db!Many
    <3>1. 1 \in 1..n + 2 /\ n + 2 \in 1..n + 2
      BY <1>2
    <3>2. Len(Db!Lower(r)) = Len(r)
          /\ \A k \in 1..Len(r) : r[k] # "A" => Db!Lower(r)[k] = r[k]
      BY <2>1, LowerIs
    <3>3. QED
      BY <2>1, <3>1, <3>2, WildsDiffer
  <2>4. ASSUME NEW k \in 1..n + 2
        PROVE  Piece(l, Db!Lower(r), k, cut[k - 1], cut[k])
    <3>1. CASE k = 1
      BY <2>2, <2>3, <3>1 DEF Piece
    <3>2. CASE k = n + 2
      <4>1. (n + 2) - 1 = n + 1 /\ n <= n
        BY <1>2
      <4>2. QED
        BY <2>2, <2>3, <3>2, <4>1 DEF Piece
    <3>3. CASE k # 1 /\ k # n + 2
      <4>1. k - 1 \in 1..n /\ 1 + (k - 1) = k /\ 1 \in Nat
        BY <1>2, <3>3
      <4>2. Piece(l, Db!Lower(r), 1 + (k - 1), (k - 1) - 1, k - 1)
        BY <1>5, <2>1, <4>1
      <4>3. cut[k] = k - 1 /\ cut[k - 1] = (k - 1) - 1
        BY <2>2, <4>1
      <4>4. QED
        BY <4>1, <4>2, <4>3
    <3>4. QED
      BY <3>1, <3>2, <3>3
  <2>5. Fits(cut, l, Db!Lower(r), 1, 1)
    <3>1. 1 - 1 = 0
      OBVIOUS
    <3>2. QED
      BY <1>2, <2>2, <2>3, <2>4, <3>1 DEF Fits
  <2>6. QED
    BY <1>1, <2>1, <2>5, LikeMeans DEF l, r
<1>9. QED
  BY <1>7, <1>8 DEF w

\* A pattern without wildcards and capital letters is the name itself in small
\* letters.
LEMMA LikePlain ==
    ASSUME NEW S, NEW name \in Seq(S), NEW p \in Seq(S),
           Free(p, {"A", Db!One, Db!Many}), Db!Like(name, p)
    PROVE  Db!Lower(name) = p
<1> DEFINE n == Len(name)
           m == Len(p)
           s == Db!Lower(name)
<1>1. n \in Nat /\ m \in Nat /\ Len(s) = n /\ s = [k \in 1..n |-> s[k]]
  <2>1. n \in Nat /\ m \in Nat
    OBVIOUS
  <2>2. QED
    BY <2>1, LowerIs
<1>2. Len(Db!Lower(p)) = m /\ \A k \in 1..m : Db!Lower(p)[k] = p[k] /\ p[k] \notin {Db!One, Db!Many}
  BY LowerIs DEF Free
<1>3. PICK cut : Fits(cut, s, Db!Lower(p), 1, 1)
  BY LikeMeans
<1> HIDE DEF n, s, m
<1>4. /\ cut \in [0..m -> 0..n] /\ cut[0] = 0 /\ cut[m] = n
      /\ \A k \in 1..m : Piece(s, Db!Lower(p), k, cut[k - 1], cut[k])
  <2>1. 1 - 1 = 0
    OBVIOUS
  <2>2. QED
    BY <1>1, <1>2, <1>3, <2>1 DEF Fits
<1>5. \A k \in 1..m : cut[k] = cut[k - 1] + 1 /\ p[k] = s[cut[k]]
  <2> SUFFICES ASSUME NEW k \in 1..m PROVE cut[k] = cut[k - 1] + 1 /\ p[k] = s[cut[k]]
    OBVIOUS
  <2>1. Db!Lower(p)[k] = p[k] /\ p[k] # Db!Many /\ p[k] # Db!One
    BY <1>2
  <2>2. QED
    BY <1>4, <2>1 DEF Piece
<1> DEFINE T == {k \in 0..m : cut[k] = k}
<1>6. 0 \in T /\ \A k \in 0..m - 1 : k \in T => k + 1 \in T
  <2>1. \A k \in 0..m - 1 : k + 1 \in 1..m /\ (k + 1) - 1 = k /\ k + 1 \in 0..m
    BY <1>1
  <2>2. 0 \in 0..m
    BY <1>1
  <2>3. QED
    BY <1>4, <1>5, <2>1, <2>2
<1> HIDE DEF T
<1>7. 0..m \subseteq T
  BY <1>1, <1>6, InductionUpTo
<1>8. \A k \in 0..m : cut[k] = k
  BY <1>7 DEF T
<1>9. n = m /\ \A k \in 1..m : p[k] = s[k]
  <2>1. m \in 0..m /\ \A k \in 1..m : k \in 0..m
    BY <1>1
  <2>2. QED
    BY <1>4, <1>5, <1>8, <2>1
<1>10. p = [k \in 1..m |-> p[k]]
  BY DEF m
<1>11. QED
  BY <1>1, <1>9, <1>10 DEF s

\* The group of builders that serves a command, 0 for a command that lists nothing.
GroupOf(name) ==
    IF name \in {"l", "l+", "df+"} THEN 1
    ELSE IF name \in {"d", "dt", "dv", "dm"} THEN 2
    ELSE IF name \in {"dy", "dT+"} THEN 3
    ELSE IF name \in {"dF", "dFp", "dFd", "dFt"} THEN 4
    ELSE IF name \in {"dD", "dO", "dP"} THEN 5
    ELSE IF name \in {"dA", "dRs"} THEN 6
    ELSE IF name \in {"di", "ds", "df"} THEN 7
    ELSE IF name \in {"dn", "dn+"} THEN 8
    ELSE IF name \in {"dC", "dp", "dT", "dx"} THEN 9
    ELSE IF name \in {"du", "sequences", "dL"} THEN 10
    ELSE 0

Group(k) ==
    IF k = 1 THEN Db!DatabaseListings
    ELSE IF k = 2 THEN Db!RelationListings
    ELSE IF k = 3 THEN Db!TriggerAndTypeListings
    ELSE IF k = 4 THEN Db!TextSearchListings
    ELSE IF k = 5 THEN Db!DomainListings
    ELSE IF k = 6 THEN Db!RoleListings
    ELSE IF k = 7 THEN Db!IndexListings
    ELSE IF k = 8 THEN Db!SchemaListings
    ELSE IF k = 9 THEN Db!TypeListings
    ELSE IF k = 10 THEN Db!IntrospectedListings
    ELSE {}

\* No two builders serve the same command.
LEMMA GroupsServe ==
    \A i \in 1..10 : \A l \in Group(i) :
        /\ \A name \in l.names : GroupOf(name) = i
        /\ \A k \in Group(i) : k.names \cap l.names # {} => k = l
        /\ l.filter \in {"none", "contains", "qualified", "typed"}
<1>1. \A l \in Db!DatabaseListings :
        /\ \A name \in l.names : GroupOf(name) = 1
        /\ \A k \in Db!DatabaseListings : k.names \cap l.names # {} => k = l
        /\ l.filter \in {"none", "contains", "qualified", "typed"}
  <2>1. \A l \in Db!DatabaseListings : \A name \in l.names : GroupOf(name) = 1
    BY DEF Db!DatabaseListings, Db!Listing, GroupOf
  <2>2. \A l, k \in Db!DatabaseListings : k.names \cap l.names # {} => k = l
    BY DEF Db!DatabaseListings, Db!Listing
  <2>3. \A l \in Db!DatabaseListings : l.filter \in {"none", "contains", "qualified", "typed"}
    BY DEF Db!DatabaseListings, Db!Listing
  <2>4. QED
    BY <2>1, <2>2, <2>3
<1>2. \A l \in Db!RelationListings :
        /\ \A name \in l.names : GroupOf(name) = 2
        /\ \A k \in Db!RelationListings : k.names \cap l.names # {} => k = l
        /\ l.filter \in {"none", "contains", "qualified", "typed"}
  <2>1. \A l \in Db!RelationListings : \A name \in l.names : GroupOf(name) = 2
    BY DEF Db!RelationListings, Db!Listing, GroupOf
  <2>2. \A l, k \in Db!RelationListings : k.names \cap l.names # {} => k = l
    BY DEF Db!RelationListings, Db!Listing
  <2>3. \A l \in Db!RelationListings : l.filter \in {"none", "contains", "qualified", "typed"}
    BY DEF Db!RelationListings, Db!Listing
  <2>4. QED
    BY <2>1, <2>2, <2>3
<1>3. \A l \in Db!TriggerAndTypeListings :
        /\ \A name \in l.names : GroupOf(name) = 3
        /\ \A k \in Db!TriggerAndTypeListings : k.names \cap l.names # {} => k = l
        /\ l.filter \in {"none", "contains", "qualified", "typed"}
  <2>1. \A l \in Db!TriggerAndTypeListings : \A name \in l.names : GroupOf(name) = 3
    BY DEF Db!TriggerAndTypeListings, Db!Listing, GroupOf
  <2>2. \A l, k \in Db!TriggerAndTypeListings : k.names \cap l.names # {} => k = l
    BY DEF Db!TriggerAndTypeListings, Db!Listing
  <2>3. \A l \in Db!TriggerAndTypeListings : l.filter \in {"none", "contains", "qualified", "typed"}
    BY DEF Db!TriggerAndTypeListings, Db!Listing
  <2>4. QED
    BY <2>1, <2>2, <2>3
<1>4. \A l \in Db!TextSearchListings :
        /\ \A name \in l.names : GroupOf(name) = 4
        /\ \A k \in Db!TextSearchListings : k.names \cap l.names # {} => k = l
        /\ l.filter \in {"none", "contains", "qualified", "typed"}
  <2>1. \A l \in Db!TextSearchListings : \A name \in l.names : GroupOf(name) = 4
    BY DEF Db!TextSearchListings, Db!Listing, GroupOf
  <2>2. \A l, k \in Db!TextSearchListings : k.names \cap l.names # {} => k = l
    BY DEF Db!TextSearchListings, Db!Listing
  <2>3. \A l \in Db!TextSearchListings : l.filter \in {"none", "contains", "qualified", "typed"}
    BY DEF Db!TextSearchListings, Db!Listing
  <2>4. QED
    BY <2>1, <2>2, <2>3
<1>5. \A l \in Db!DomainListings :
        /\ \A name \in l.names : GroupOf(name) = 5
        /\ \A k \in Db!DomainListings : k.names \cap l.names # {} => k = l
        /\ l.filter \in {"none", "contains", "qualified", "typed"}
  <2>1. \A l \in Db!DomainListings : \A name \in l.names : GroupOf(name) = 5
    BY DEF Db!DomainListings, Db!Listing, GroupOf
  <2>2. \A l, k \in Db!DomainListings : k.names \cap l.names # {} => k = l
    BY DEF Db!DomainListings, Db!Listing
  <2>3. \A l \in Db!DomainListings : l.filter \in {"none", "contains", "qualified", "typed"}
    BY DEF Db!DomainListings, Db!Listing
  <2>4. QED
    BY <2>1, <2>2, <2>3
<1>6. \A l \in Db!RoleListings :
        /\ \A name \in l.names : GroupOf(name) = 6
        /\ \A k \in Db!RoleListings : k.names \cap l.names # {} => k = l
        /\ l.filter \in {"none", "contains", "qualified", "typed"}
  <2>1. \A l \in Db!RoleListings : \A name \in l.names : GroupOf(name) = 6
    BY DEF Db!RoleListings, Db!Listing, GroupOf
  <2>2. \A l, k \in Db!RoleListings : k.names \cap l.names # {} => k = l
    BY DEF Db!RoleListings, Db!Listing
  <2>3. \A l \in Db!RoleListings : l.filter \in {"none", "contains", "qualified", "typed"}
    BY DEF Db!RoleListings, Db!Listing
  <2>4. QED
    BY <2>1, <2>2, <2>3
<1>7. \A l \in Db!IndexListings :
        /\ \A name \in l.names : GroupOf(name) = 7
        /\ \A k \in Db!IndexListings : k.names \cap l.names # {} => k = l
        /\ l.filter \in {"none", "contains", "qualified", "typed"}
  <2>1. \A l \in Db!IndexListings : \A name \in l.names : GroupOf(name) = 7
    BY DEF Db!IndexListings, Db!Listing, GroupOf
  <2>2. \A l, k \in Db!IndexListings : k.names \cap l.names # {} => k = l
    BY DEF Db!IndexListings, Db!Listing
  <2>3. \A l \in Db!IndexListings : l.filter \in {"none", "contains", "qualified", "typed"}
    BY DEF Db!IndexListings, Db!Listing
  <2>4. QED
    BY <2>1, <2>2, <2>3
<1>8. \A l \in Db!SchemaListings :
        /\ \A name \in l.names : GroupOf(name) = 8
        /\ \A k \in Db!SchemaListings : k.names \cap l.names # {} => k = l
        /\ l.filter \in {"none", "contains", "qualified", "typed"}
  <2>1. \A l \in Db!SchemaListings : \A name \in l.names : GroupOf(name) = 8
    BY DEF Db!SchemaListings, Db!Listing, GroupOf
  <2>2. \A l, k \in Db!SchemaListings : k.names \cap l.names # {} => k = l
    BY DEF Db!SchemaListings, Db!Listing
  <2>3. \A l \in Db!SchemaListings : l.filter \in {"none", "contains", "qualified", "typed"}
    BY DEF Db!SchemaListings, Db!Listing
  <2>4. QED
    BY <2>1, <2>2, <2>3
<1>9. \A l \in Db!TypeListings :
        /\ \A name \in l.names : GroupOf(name) = 9
        /\ \A k \in Db!TypeListings : k.names \cap l.names # {} => k = l
        /\ l.filter \in {"none", "contains", "qualified", "typed"}
  <2>1. \A l \in Db!TypeListings : \A name \in l.names : GroupOf(name) = 9
    BY DEF Db!TypeListings, Db!Listing, GroupOf
  <2>2. \A l, k \in Db!TypeListings : k.names \cap l.names # {} => k = l
    BY DEF Db!TypeListings, Db!Listing
  <2>3. \A l \in Db!TypeListings : l.filter \in {"none", "contains", "qualified", "typed"}
    BY DEF Db!TypeListings, Db!Listing
  <2>4. QED
    BY <2>1, <2>2, <2>3
<1>10. \A l \in Db!IntrospectedListings :
        /\ \A name \in l.names : GroupOf(name) = 10
        /\ \A k \in Db!IntrospectedListings : k.names \cap l.names # {} => k = l
        /\ l.filter \in {"none", "contains", "qualified", "typed"}
  <2>1. \A l \in Db!IntrospectedListings : \A name \in l.names : GroupOf(name) = 10
    BY DEF Db!IntrospectedListings, Db!Listing, GroupOf
  <2>2. \A l, k \in Db!IntrospectedListings : k.names \cap l.names # {} => k = l
    BY DEF Db!IntrospectedListings, Db!Listing
  <2>3. \A l \in Db!IntrospectedListings : l.filter \in {"none", "contains", "qualified", "typed"}
    BY DEF Db!IntrospectedListings, Db!Listing
  <2>4. QED
    BY <2>1, <2>2, <2>3
<1>11. QED
  BY <1>1, <1>2, <1>3, <1>4, <1>5, <1>6, <1>7, <1>8, <1>9, <1>10 DEF Group

\* No command belongs to two listings.
LEMMA ListingsServe ==
    /\ \A l, k \in Db!Listings : k.names \cap l.names # {} => k = l
    /\ \A l \in Db!Listings : l.filter \in {"none", "contains", "qualified", "typed"}
    /\ \A l \in Db!Listings : \A name \in l.names : GroupOf(name) # 0
<1>1. \A l \in Db!Listings : \E i \in 1..10 : l \in Group(i)
  BY DEF Db!Listings, Group
<1>2. QED
  BY <1>1, GroupsServe

\* What was escaped is read back as it was typed, with the wildcards put in
\* LIKE's if they were.
LEMMA Undoubled ==
    ASSUME NEW s \in Db!Text
    PROVE  Db!Literal(Db!Escaped(s)) = s /\ Db!Literal(Db!Wild(Db!Escaped(s))) = Db!Wild(s)
<1> DEFINE e == Db!Escaped(s)
           S == Db!Letter \cup {Db!Many, Db!One}
<1>1. s \in Seq(Db!Letter) /\ e \in Seq(Db!Letter) /\ \E cut : IsDoubled(cut, e, s)
  BY EscapedIs DEF Db!Text
<1> HIDE DEF e
<1>2. PICK cut : IsDoubled(cut, e, s)
  BY <1>1
<1>3. Db!Literal(e) = s
  BY <1>1, <1>2, LiteralUndoubles
<1>4. IsDoubled(cut, Db!Wild(e), Db!Wild(s))
  BY <1>1, <1>2, WildDoubled
<1>5. Db!Wild(s) \in Seq(S) /\ Db!Wild(e) \in Seq(S)
  BY <1>1, WildIs
<1> HIDE DEF S
<1>6. Db!Literal(Db!Wild(e)) = Db!Wild(s)
  BY <1>4, <1>5, LiteralUndoubles
<1>7. QED
  BY <1>3, <1>6 DEF e

\* Without quotes nothing is escaped.
LEMMA EscapedPlain ==
    ASSUME NEW s \in Db!Text, Free(s, {"'"})
    PROVE  Db!Escaped(s) = s
<1> DEFINE e == Db!Escaped(s)
           n == Len(s)
<1>1. s \in Seq(Db!Letter) /\ e \in Seq(Db!Letter) /\ \E cut : IsDoubled(cut, e, s)
  BY EscapedIs DEF Db!Text
<1> HIDE DEF e
<1>2. PICK cut : IsDoubled(cut, e, s)
  BY <1>1
<1>3. /\ n \in Nat /\ cut \in [0..n -> Nat] /\ cut[0] = 0 /\ cut[n] = Len(e)
      /\ \A k \in 1..n : cut[k] = cut[k - 1] + 1 /\ e[cut[k - 1] + 1] = s[k]
  <2>1. \A k \in 1..n : s[k] # "'"
    BY DEF Free
  <2>2. n \in Nat
    BY <1>1
  <2>3. QED
    BY <1>2, <2>1, <2>2 DEF IsDoubled
<1> DEFINE T == {k \in Nat : k \in 0..n => cut[k] = k}
<1> HIDE DEF n
<1>4. 0 \in T
  BY <1>3
<1>5. ASSUME NEW k \in Nat, k \in T PROVE k + 1 \in T
  <2> SUFFICES ASSUME k + 1 \in 0..n PROVE cut[k + 1] = k + 1
    OBVIOUS
  <2>1. k + 1 \in 1..n /\ k \in 0..n /\ (k + 1) - 1 = k
    BY <1>3
  <2>2. cut[k + 1] = cut[k] + 1 /\ cut[k] = k
    BY <1>3, <1>5, <2>1
  <2>3. QED
    BY <2>2
<1> HIDE DEF T
<1>6. Nat \subseteq T
  BY <1>4, <1>5, Induction
<1>7. \A k \in 0..n : cut[k] = k
  BY <1>3, <1>6 DEF T
<1>8. Len(e) = n /\ \A k \in 1..n : e[k] = s[k]
  <2>1. n \in 0..n /\ \A k \in 1..n : k - 1 \in 0..n /\ (k - 1) + 1 = k
    BY <1>3
  <2>2. Len(e) = n
    BY <1>3, <1>7, <2>1
  <2>3. ASSUME NEW k \in 1..n PROVE e[k] = s[k]
    <3>1. cut[k - 1] = k - 1
      BY <1>7, <2>1
    <3>2. e[cut[k - 1] + 1] = s[k]
      BY <1>3
    <3>3. QED
      BY <2>1, <3>1, <3>2
  <2>4. QED
    BY <2>2, <2>3
<1>9. e = s
  BY <1>1, <1>8, SeqEqual DEF n
<1>10. QED
  BY <1>9 DEF e

LEMMA FreePart ==
    ASSUME NEW p \in Db!Text, NEW chars, Free(p, chars),
           NEW a \in 1..Len(p) + 1, NEW b \in 0..Len(p)
    PROVE  SubSeq(p, a, b) \in Seq(Db!Letter) /\ Free(SubSeq(p, a, b), chars)
<1> DEFINE t == SubSeq(p, a, b)
<1>1. p \in Seq(Db!Letter) /\ Len(p) \in Nat
  BY DEF Db!Text
<1>2. /\ t \in Seq(Db!Letter) /\ Len(t) = IF a <= b THEN b - a + 1 ELSE 0
      /\ \A k \in 1..b - a + 1 : t[k] = p[a + k - 1]
  BY <1>1, SubSeqProperties
<1>3. \A k \in 1..Len(t) : k \in 1..b - a + 1 /\ a + k - 1 \in 1..Len(p)
  BY <1>1, <1>2
<1> HIDE DEF t
<1>4. \A k \in 1..Len(t) : t[k] \notin chars
  BY <1>2, <1>3 DEF Free
<1>5. QED
  BY <1>2, <1>4 DEF Free, t

LEMMA SpellingIs ==
    ASSUME NEW o \in Objects
    PROVE  o.name \in Db!Text /\ Spelling[o.schema] \in Db!Text
BY CatalogAssumption DEF Db!CatalogAssumption

\* schema_pattern_filter keeps what the syntax of README.md says.
LEMMA QualifiedMeans ==
    ASSUME NEW o \in Objects, NEW p \in Db!Text, Free(p, {Db!One, Db!Many})
    PROVE  Db!Qualified(p, o) <=> Db!FollowsSyntax(o, p)
<1> DEFINE e == Db!Escaped(p)
           d == Db!Dot(e)
           b == Db!Dot(p)
<1>1. o.name \in Seq(Db!Letter) /\ Spelling[o.schema] \in Seq(Db!Letter)
  BY SpellingIs DEF Db!Text
<1>2. b \in 0..Len(p) /\ Len(p) \in Nat
  BY FirstDot DEF Db!Text
<1>3. Db!OfName(p) \in Seq(Db!Letter) /\ Free(Db!OfName(p), {Db!One, Db!Many})
  <2>1. b + 1 \in 1..Len(p) + 1 /\ Len(p) \in 0..Len(p)
    BY <1>2
  <2> HIDE DEF b
  <2>2. QED
    BY <2>1, FreePart DEF Db!OfName, b
<1>4. b > 0 => Db!InSchema(p) \in Seq(Db!Letter) /\ Free(Db!InSchema(p), {Db!One, Db!Many})
  <2>1. b > 0 => 1 \in 1..Len(p) + 1 /\ b - 1 \in 0..Len(p)
    BY <1>2
  <2> HIDE DEF b
  <2>2. QED
    BY <2>1, FreePart DEF Db!InSchema, b
<1>5. /\ d > 0 <=> b > 0
      /\ b > 0 => Db!Literal(Db!Wild(SubSeq(e, 1, d - 1))) = Db!Wild(Db!InSchema(p))
      /\ Db!Literal(Db!Wild(SubSeq(e, d + 1, Len(e)))) = Db!Wild(Db!OfName(p))
  BY QualifiedReads
<1>6. Db!Like(o.name, Db!Wild(Db!OfName(p))) <=> Db!Glob(o.name, Db!OfName(p))
  BY <1>1, <1>3, LikeGlob
<1>7. b > 0 => (Db!Like(Spelling[o.schema], Db!Wild(Db!InSchema(p)))
                  <=> Db!Glob(Spelling[o.schema], Db!InSchema(p)))
  BY <1>1, <1>4, LikeGlob
<1>8. Db!Qualified(p, o) <=>
          /\ d > 0 => Db!Like(Spelling[o.schema], Db!Literal(Db!Wild(SubSeq(e, 1, d - 1))))
          /\ Db!Like(o.name, Db!Literal(Db!Wild(SubSeq(e, d + 1, Len(e)))))
  BY DEF Db!Qualified
<1>9. Db!FollowsSyntax(o, p) <=>
          (b > 0 => Db!Glob(Spelling[o.schema], Db!InSchema(p))) /\ Db!Glob(o.name, Db!OfName(p))
  BY DEF Db!FollowsSyntax
<1> HIDE DEF e, d, b
<1>10. QED
  BY <1>5, <1>6, <1>7, <1>8, <1>9, Zenon

\* The name of an object passes every filter, in schema_pattern_filter unless
\* it has a dot.
LEMMA FindsItself ==
    ASSUME NEW o \in Objects,
           NEW filter \in {"none", "contains", "qualified", "typed"},
           filter = "qualified" => Db!Dot(o.name) = 0
    PROVE  Db!Passes(filter, o.name, o)
<1> DEFINE p == o.name
<1>1. p \in Db!Text /\ p \in Seq(Db!Letter)
  BY SpellingIs DEF Db!Text
<1>2. /\ Db!Like(p, p) /\ Db!Like(p, Db!Wild(p))
      /\ Db!Like(p, <<Db!Many>> \o Db!Wild(p) \o <<Db!Many>>)
  BY <1>1, LikeItself
<1>3. Db!Literal(Db!Escaped(p)) = p /\ Db!Literal(Db!Wild(Db!Escaped(p))) = Db!Wild(p)
  BY <1>1, Undoubled
<1>4. Db!Anywhere(p, o) /\ Db!AsTyped(p, o)
  BY <1>2, <1>3 DEF Db!Anywhere, Db!AsTyped
<1>5. ASSUME Db!Dot(p) = 0 PROVE Db!Qualified(p, o)
  <2> DEFINE e == Db!Escaped(p)
             d == Db!Dot(e)
  <2>1. ~(d > 0) /\ Db!Literal(Db!Wild(SubSeq(e, d + 1, Len(e)))) = Db!Wild(Db!OfName(p))
    <3>1. /\ d > 0 <=> Db!Dot(p) > 0
          /\ Db!Literal(Db!Wild(SubSeq(e, d + 1, Len(e)))) = Db!Wild(Db!OfName(p))
      BY <1>1, QualifiedReads
    <3>2. QED
      BY <1>5, <3>1
  <2>2. Db!OfName(p) = p
    <3>1. Db!OfName(p) = SubSeq(p, 1, Len(p))
      BY <1>5 DEF Db!OfName
    <3> HIDE DEF p
    <3>2. QED
      BY <1>1, <3>1, SubSeqFull
  <2>3. Db!Like(o.name, Db!Literal(Db!Wild(SubSeq(e, d + 1, Len(e)))))
    BY <1>2, <2>1, <2>2
  <2>4. Db!Qualified(p, o) <=>
            /\ d > 0 => Db!Like(Spelling[o.schema], Db!Literal(Db!Wild(SubSeq(e, 1, d - 1))))
            /\ Db!Like(o.name, Db!Literal(Db!Wild(SubSeq(e, d + 1, Len(e)))))
    BY DEF Db!Qualified
  <2> HIDE DEF e, d
  <2>5. QED
    BY <2>1, <2>3, <2>4, Zenon
<1>6. QED
  BY <1>4, <1>5 DEF Db!Passes

\* The builder of a command is the one that lists it.
LEMMA ListingOfIs ==
    ASSUME NEW l \in Db!Listings, NEW name \in l.names
    PROVE  Db!ListingOf(name) = l /\ \A k \in Db!Listings : name \in k.names => k = l
<1>1. \A k \in Db!Listings : name \in k.names => k = l
  BY ListingsServe
<1>2. QED
  BY <1>1 DEF Db!ListingOf

\* What was asked was not a listing.
Unlisted == \A l \in Db!Listings : asked.name \notin l.names

LEMMA NotListed ==
    \A name \in {Db!None, "d+", "introspect", "ddl", "stats", "partitions", "sv", "indexes",
                 "deps", "drg", "kill"} :
        \A l \in Db!Listings : name \notin l.names
<1>1. \A name \in {"none", "d+", "introspect", "ddl", "stats", "partitions", "sv", "indexes",
                   "deps", "drg", "kill"} : GroupOf(name) = 0
  BY DEF GroupOf
<1>2. QED
  BY <1>1, ListingsServe DEF Db!None

\* The conditions on a listing ask for nothing then.
LEMMA UnlistedIsRight ==
    Unlisted => Db!PatternsSelect /\ Db!NamesFindThemselves
<1> SUFFICES ASSUME Unlisted PROVE Db!PatternsSelect /\ Db!NamesFindThemselves
  OBVIOUS
<1>2. asked.name \notin UNION {l.names : l \in {k \in Db!Listings : k.filter = "qualified"}}
  BY DEF Unlisted
<1>3. \A l \in {k \in Db!Listings : asked.name \in k.names} : FALSE
  BY DEF Unlisted
<1>4. Db!PatternsSelect
  BY <1>2 DEF Db!PatternsSelect
<1>5. Db!NamesFindThemselves
  BY <1>3 DEF Db!NamesFindThemselves
<1>6. QED
  BY <1>4, <1>5

\* What a listing command shows.
LEMMA SelectIs ==
    ASSUME NEW l \in Db!Listings, NEW p \in Patterns
    PROVE  /\ Db!Select(l, p) \subseteq Objects
           /\ \A o \in Db!Select(l, p) : o.kind \in l.kinds
           /\ l.filter = "qualified" /\ p # <<>> /\ Db!Characters(p) \cap {Db!One, Db!Many} = {} =>
                Db!Select(l, p) = {o \in Objects : /\ o.kind \in l.kinds /\ o.schema \notin l.hidden
                                                   /\ Db!FollowsSyntax(o, p)}
           /\ \A o \in Objects :
                (/\ o.kind \in l.kinds /\ o.schema \notin l.hidden /\ o.name = p
                 /\ l.filter = "qualified" => Db!Dot(o.name) = 0)
                    => o \in Db!Select(l, p)
<1>1. p \in Db!Text
  BY CatalogAssumption DEF Db!CatalogAssumption
<1>2. \A o : o \in Db!Select(l, p) <=> /\ o \in Objects /\ o.kind \in l.kinds
                                       /\ o.schema \notin l.hidden /\ Db!Passes(l.filter, p, o)
  BY DEF Db!Select
<1>3. ASSUME l.filter = "qualified", p # <<>>, Db!Characters(p) \cap {Db!One, Db!Many} = {}
      PROVE  \A o \in Objects : Db!Passes(l.filter, p, o) <=> Db!FollowsSyntax(o, p)
  <2>1. Free(p, {Db!One, Db!Many})
    <3>1. \A k \in 1..Len(p) : p[k] \in Db!Characters(p)
      BY <1>1 DEF Db!Characters, Db!Text
    <3>2. QED
      BY <1>3, <3>1 DEF Free
  <2>2. \A o \in Objects : Db!Passes(l.filter, p, o) <=> Db!Qualified(p, o)
    BY <1>3 DEF Db!Passes
  <2>3. QED
    BY <1>1, <2>1, <2>2, QualifiedMeans
<1>4. ASSUME NEW o \in Objects, o.name = p, l.filter = "qualified" => Db!Dot(o.name) = 0
      PROVE  Db!Passes(l.filter, p, o)
  <2>1. l.filter \in {"none", "contains", "qualified", "typed"}
    BY ListingsServe
  <2>2. QED
    BY <1>4, <2>1, FindsItself
<1>5. l.filter = "qualified" /\ p # <<>> /\ Db!Characters(p) \cap {Db!One, Db!Many} = {} =>
          Db!Select(l, p) = {o \in Objects : /\ o.kind \in l.kinds /\ o.schema \notin l.hidden
                                             /\ Db!FollowsSyntax(o, p)}
  BY <1>2, <1>3
<1>6. QED
  BY <1>2, <1>4, <1>5

\* A listing shows what its pattern selects.
LEMMA ListSelects ==
    ASSUME Db!TypeOK, Db!List
    PROVE  Db!TypeOK' /\ Db!PatternsSelect' /\ Db!NamesFindThemselves'
<1> PICK l \in Db!Listings : \E name \in l.names, p \in Patterns :
        /\ asked' = [Db!Nothing EXCEPT !.name = name, !.pattern = p]
        /\ selected' = Db!Select(l, p) /\ sections' = {} /\ alive' = alive
  BY DEF Db!List
<1> PICK name \in l.names, p \in Patterns :
        /\ asked' = [Db!Nothing EXCEPT !.name = name, !.pattern = p]
        /\ selected' = Db!Select(l, p) /\ sections' = {} /\ alive' = alive
  OBVIOUS
<1>1. asked'.name = name /\ asked'.pattern = p
  BY DEF Db!Nothing
<1>2. Db!ListingOf(name) = l /\ \A k \in Db!Listings : name \in k.names => k = l
  BY ListingOfIs
<1>3. /\ Db!Select(l, p) \subseteq Objects
      /\ \A o \in Db!Select(l, p) : o.kind \in l.kinds
      /\ l.filter = "qualified" /\ p # <<>> /\ Db!Characters(p) \cap {Db!One, Db!Many} = {} =>
           Db!Select(l, p) = {o \in Objects : /\ o.kind \in l.kinds /\ o.schema \notin l.hidden
                                              /\ Db!FollowsSyntax(o, p)}
      /\ \A o \in Objects :
           (/\ o.kind \in l.kinds /\ o.schema \notin l.hidden /\ o.name = p
            /\ l.filter = "qualified" => Db!Dot(o.name) = 0)
               => o \in Db!Select(l, p)
  BY SelectIs
<1>4. Db!TypeOK'
  BY <1>1, <1>2, <1>3 DEF Db!TypeOK
<1>5. Db!PatternsSelect'
  <2>1. name \in UNION {k.names : k \in {k \in Db!Listings : k.filter = "qualified"}} =>
            l.filter = "qualified"
    BY <1>2
  <2>2. QED
    BY <1>1, <1>2, <1>3, <2>1 DEF Db!PatternsSelect
<1>6. Db!NamesFindThemselves'
  BY <1>1, <1>2, <1>3 DEF Db!NamesFindThemselves
<1>7. QED
  BY <1>4, <1>5, <1>6

\* Sections are about tables there are.
OfTables(all) == \A x \in all : \E t \in tables : x[2] = t.schema /\ x[3] = t.name

LEMMA NamedOfTables ==
    ASSUME NEW section, NEW s, NEW n
    PROVE  /\ OfTables(Db!Named(section, Db!Exactly(s, n)))
           /\ OfTables(Db!Named(section, Db!Regclass(s, n)))
BY DEF OfTables, Db!Named, Db!Exactly, Db!Regclass

LEMMA SectionsOfTables ==
    ASSUME NEW s, NEW n
    PROVE  OfTables(Db!Constraints(s, n)) /\ OfTables(Db!Extended(s, n))
<1>1. OfTables(UNION {Db!Named(k, Db!Regclass(s, Db!Escaped(n))) : k \in {"check", "foreign_key"}})
  <2>1. \A k : OfTables(Db!Named(k, Db!Regclass(s, Db!Escaped(n))))
    BY NamedOfTables
  <2>2. QED
    BY <2>1 DEF OfTables
<1>2. OfTables(UNION {Db!Named(k, Db!Regclass(s, Db!Escaped(n))) :
                        k \in {"check", "foreign_key", "referenced_by"}})
  <2>1. \A k : OfTables(Db!Named(k, Db!Regclass(s, Db!Escaped(n))))
    BY NamedOfTables
  <2>2. QED
    BY <2>1 DEF OfTables
<1>3. /\ OfTables(Db!Named("index", Db!Exactly(s, Db!Literal(Db!Escaped(n)))))
      /\ OfTables(Db!Named("trigger", Db!Exactly(s, Db!Literal(Db!Escaped(n)))))
  BY NamedOfTables
<1>4. QED
  BY <1>1, <1>2, <1>3 DEF OfTables, Db!Constraints, Db!Extended

\* Any other command.
LEMMA OthersSelect ==
    ASSUME Db!TypeOK, Db!Again \/ Db!Describe \/ Db!Ddl \/ Db!Find \/ Db!Memberships \/ Db!Kill
    PROVE  Db!TypeOK' /\ Db!PatternsSelect' /\ Db!NamesFindThemselves'
<1>1. \E name \in {Db!None, "d+", "introspect", "ddl", "stats", "partitions", "sv", "indexes",
                   "deps", "drg", "kill"} : asked'.name = name
  <2>1. \A name, s, n : Db!Ask(name, s, n) => asked'.name = name
    BY DEF Db!Ask, Db!Nothing
  <2>2. Db!Again => asked'.name = Db!None
    BY DEF Db!Again, Db!Nothing
  <2>3. Db!Kill => asked'.name = "kill"
    BY DEF Db!Kill, Db!Nothing
  <2>4. Db!Describe => \E name \in {"d+", "introspect"} : asked'.name = name
    <3> SUFFICES ASSUME Db!Describe PROVE \E name \in {"d+", "introspect"} : asked'.name = name
      OBVIOUS
    <3>1. PICK s \in Schemas, n \in NamesTyped, extended \in BOOLEAN :
              Db!Ask(IF extended THEN "d+" ELSE "introspect", s, n)
      BY DEF Db!Describe
    <3>2. QED
      BY <2>1, <3>1
  <2>5. Db!Ddl => asked'.name = "ddl"
    BY <2>1 DEF Db!Ddl
  <2>6. Db!Find => \E name \in {"stats", "partitions", "sv", "indexes", "deps"} : asked'.name = name
    BY <2>1 DEF Db!Find
  <2>7. Db!Memberships => asked'.name = "drg"
    BY <2>1 DEF Db!Memberships
  <2>8. QED
    BY <2>2, <2>3, <2>4, <2>5, <2>6, <2>7
<1>2. Unlisted'
  BY <1>1, NotListed DEF Unlisted
<1>3. selected' = {} /\ (alive' = alive \/ \E pid : alive' = alive \ {pid}) /\ tables' = tables
  BY DEF Db!Again, Db!Describe, Db!Ddl, Db!Find, Db!Memberships, Db!Kill, Db!Ask
<1>4. OfTables(sections')
  <2>1. Db!Describe => OfTables(sections')
    <3> SUFFICES ASSUME Db!Describe PROVE OfTables(sections')
      OBVIOUS
    <3>1. PICK s \in Schemas, n \in NamesTyped, extended \in BOOLEAN :
              sections' \subseteq IF extended THEN Db!Extended(Db!SchemaOf(s), n)
                                  ELSE Db!Constraints(Db!SchemaOf(s), n)
      BY DEF Db!Describe
    <3>2. OfTables(Db!Constraints(Db!SchemaOf(s), n)) /\ OfTables(Db!Extended(Db!SchemaOf(s), n))
      BY SectionsOfTables
    <3>3. QED
      BY <3>1, <3>2 DEF OfTables
  <2>2. Db!Again \/ Db!Ddl \/ Db!Find \/ Db!Memberships \/ Db!Kill => sections' = {}
    BY DEF Db!Again, Db!Ddl, Db!Find, Db!Memberships, Db!Kill
  <2>3. QED
    BY <2>1, <2>2 DEF OfTables
<1>5. Db!TypeOK'
  <2>1. \A x \in sections' : \E t \in tables' : x[2] = t.schema /\ x[3] = t.name
    BY <1>3, <1>4 DEF OfTables
  <2>2. selected' \subseteq Objects /\ alive' \subseteq Backends
    BY <1>3 DEF Db!TypeOK
  <2>3. \A o \in selected' : FALSE
    BY <1>3
  <2>4. QED
    BY <2>1, <2>2, <2>3 DEF Db!TypeOK
<1>6. Db!PatternsSelect' /\ Db!NamesFindThemselves'
  BY <1>2, UnlistedIsRight, PTL
<1>7. QED
  BY <1>5, <1>6

\* The two columns of a table.
BothOf(t) == <<<<t.schema, t.name, 1>>, <<t.schema, t.name, 2>>>>
ColumnsIn(ts) == {<<t.schema, t.name, i>> : t \in ts, i \in {1, 2}}

\* The columns of the tables of one schema.
Unordered(ts) == FlattenSeq(SetToSeq({BothOf(t) : t \in ts}))

\* Tables as the catalog holds them.
IsTables(ts) == IsFiniteSet(ts) /\ ts \subseteq [schema : Range(SchemaOrder), name : Db!Text]

\* The pairs of columns are as many as the tables.
LEMMA PairsOfTables ==
    ASSUME NEW ts, IsTables(ts)
    PROVE  LET q == SetToSeq({BothOf(t) : t \in ts}) IN
           /\ q \in Seq(Seq(ColumnsIn(ts))) /\ IsInjective(q)
           /\ \A e : Contains(q, e) <=> \E t \in ts : e = BothOf(t)
<1> DEFINE Q == {BothOf(t) : t \in ts}
           f == [t \in ts |-> BothOf(t)]
           q == SetToSeq(Q)
<1>1. f \in Surjection(ts, Q)
  BY DEF Surjection
<1>2. IsFiniteSet(Q)
  <2> HIDE DEF f, Q
  <2>1. QED
    BY <1>1, FS_Surjection DEF IsTables
<1>3. q \in Seq(Q) /\ IsInjective(q) /\ \A e : Contains(q, e) <=> e \in Q
  BY <1>2, SetToSeqIs
<1>4. Q \subseteq Seq(ColumnsIn(ts))
  BY DEF BothOf, ColumnsIn
<1> HIDE DEF q
<1>5. q \in Seq(Seq(ColumnsIn(ts)))
  <2> HIDE DEF Q
  <2>1. QED
    BY <1>3, <1>4, WiderSeq
<1>6. QED
  BY <1>3, <1>5 DEF q

\* The columns of a set of tables, listed in some order, each once.
LEMMA UnorderedIs ==
    ASSUME NEW ts, IsTables(ts)
    PROVE  /\ Unordered(ts) \in Seq(ColumnsIn(ts)) /\ IsInjective(Unordered(ts))
           /\ \A e : Contains(Unordered(ts), e) <=> e \in ColumnsIn(ts)
           /\ \A t : ts = {t} => Unordered(ts) = BothOf(t)
           /\ ts = {} => Unordered(ts) = <<>>
<1> DEFINE q == SetToSeq({BothOf(t) : t \in ts})
<1>1. /\ q \in Seq(Seq(ColumnsIn(ts))) /\ IsInjective(q)
      /\ \A e : Contains(q, e) <=> \E t \in ts : e = BothOf(t)
      /\ Unordered(ts) = FlattenSeq(q)
  BY PairsOfTables DEF Unordered
<1> HIDE DEF q
<1>2. Len(q) \in Nat /\ DOMAIN q = 1..Len(q)
  BY <1>1
<1>3. \A k \in 1..Len(q) : \E t \in ts : q[k] = BothOf(t)
  BY <1>1 DEF Contains
<1>4. Disjoint(q)
  <2> SUFFICES ASSUME NEW k \in 1..Len(q), NEW l \in 1..Len(q),
                      NEW i \in 1..Len(q[k]), NEW j \in 1..Len(q[l]), q[k][i] = q[l][j]
               PROVE  k = l /\ i = j
    BY DEF Disjoint
  <2>1. PICK t \in ts : q[k] = BothOf(t)
    BY <1>3
  <2>2. PICK u \in ts : q[l] = BothOf(u)
    BY <1>3
  <2>3. /\ i \in {1, 2} /\ q[k][i] = <<t.schema, t.name, i>>
        /\ j \in {1, 2} /\ q[l][j] = <<u.schema, u.name, j>>
    BY <2>1, <2>2 DEF BothOf
  <2>4. i = j /\ t.schema = u.schema /\ t.name = u.name
    <3>1. <<t.schema, t.name, i>> = <<u.schema, u.name, j>>
      BY <2>3
    <3>2. \A a, b, c, x, y, z : <<a, b, c>> = <<x, y, z>> => a = x /\ b = y /\ c = z
      OBVIOUS
    <3>3. QED
      BY <3>1, <3>2
  <2>5. q[k] = q[l]
    BY <2>1, <2>2, <2>4 DEF BothOf
  <2>6. QED
    BY <1>1, <1>2, <2>4, <2>5 DEF IsInjective
<1>5. IsInjective(FlattenSeq(q)) /\ FlattenSeq(q) \in Seq(ColumnsIn(ts))
  BY <1>1, <1>4, FlattenInjective, FlattenParts
<1>6. \A e : Contains(FlattenSeq(q), e) <=> e \in ColumnsIn(ts)
  <2>1. \A e : Contains(FlattenSeq(q), e) <=> \E k \in 1..Len(q) : Contains(q[k], e)
    BY <1>1, FlattenElements
  <2>2. \A t, e : Contains(BothOf(t), e) <=>
                      e \in {<<t.schema, t.name, 1>>, <<t.schema, t.name, 2>>}
    <3>1. \A t : Len(BothOf(t)) = 2 /\ BothOf(t)[1] = <<t.schema, t.name, 1>>
                                    /\ BothOf(t)[2] = <<t.schema, t.name, 2>>
      BY DEF BothOf
    <3>2. 1..2 = {1, 2}
      OBVIOUS
    <3>3. QED
      BY <3>1, <3>2 DEF Contains
  <2>3. \A t \in ts : \E k \in 1..Len(q) : q[k] = BothOf(t)
    BY <1>1 DEF Contains
  <2>4. \A e : (\E k \in 1..Len(q) : Contains(q[k], e)) <=> \E t \in ts : Contains(BothOf(t), e)
    BY <1>3, <2>3
  <2>5. \A e : e \in ColumnsIn(ts) <=>
                  \E t \in ts : e \in {<<t.schema, t.name, 1>>, <<t.schema, t.name, 2>>}
    BY DEF ColumnsIn
  <2>6. QED
    BY <2>1, <2>2, <2>4, <2>5
<1>7. ASSUME NEW t, ts = {t} PROVE FlattenSeq(q) = BothOf(t)
  <2>1. \A k \in 1..Len(q) : q[k] = BothOf(t)
    BY <1>3, <1>7
  <2>2. 1 \in 1..Len(q)
    <3>1. PICK k \in 1..Len(q) : q[k] = BothOf(t)
      BY <1>1, <1>7 DEF Contains
    <3>2. QED
      BY <1>2, <3>1
  <2>3. \A l \in 1..Len(q) : l = 1
    BY <1>1, <1>2, <2>1, <2>2 DEF IsInjective
  <2>4. FlattenSeq(q) = q[1]
    BY <1>1, <2>2, <2>3, FlattenSingle
  <2>5. QED
    BY <2>1, <2>2, <2>4
<1>8. ASSUME ts = {} PROVE FlattenSeq(q) = <<>>
  <2>1. \A k \in 1..Len(q) : FALSE
    BY <1>3, <1>8
  <2>2. Len(q) = 0
    BY <1>2, <2>1
  <2>3. q = <<>>
    BY <1>1, <2>2
  <2>4. QED
    BY <2>3 DEF FlattenSeq
<1>9. QED
  BY <1>1, <1>5, <1>6, <1>7, <1>8

InNth(ts, k) == {t \in ts : t.schema = SchemaOrder[k]}

\* What is shown of these tables: their columns, each once.
LEMMA ColumnsOfIs ==
    ASSUME NEW ts, IsTables(ts)
    PROVE  /\ Db!ColumnsOf(ts) \in Seq(ColumnsIn(ts)) /\ IsInjective(Db!ColumnsOf(ts))
           /\ \A e : Contains(Db!ColumnsOf(ts), e) <=> e \in ColumnsIn(ts)
           /\ \A t : ts = {t} => Db!ColumnsOf(ts) = BothOf(t)
<1> DEFINE n == Len(SchemaOrder)
           parts == [k \in DOMAIN SchemaOrder |-> Unordered(InNth(ts, k))]
           E == ColumnsIn(ts)
<1>1. /\ n \in Nat /\ DOMAIN SchemaOrder = 1..n
      /\ \A k, l \in 1..n : SchemaOrder[k] = SchemaOrder[l] => k = l
  BY CatalogAssumption, SameOperators DEF Db!CatalogAssumption, IsInjective
<1>2. Db!ColumnsOf(ts) = FlattenSeq(parts)
  BY SameOperators DEF Db!ColumnsOf, Unordered, InNth, BothOf
<1>3. \A k \in 1..n : IsTables(InNth(ts, k)) /\ InNth(ts, k) \subseteq ts
  <2> SUFFICES ASSUME NEW k \in 1..n PROVE IsTables(InNth(ts, k)) /\ InNth(ts, k) \subseteq ts
    OBVIOUS
  <2>1. InNth(ts, k) \subseteq ts
    BY DEF InNth
  <2>2. IsFiniteSet(InNth(ts, k))
    BY <2>1, FS_Subset DEF IsTables
  <2>3. QED
    BY <2>1, <2>2 DEF IsTables
<1>4. \A k \in 1..n :
        /\ parts[k] \in Seq(ColumnsIn(InNth(ts, k))) /\ IsInjective(parts[k])
        /\ \A e : Contains(parts[k], e) <=> e \in ColumnsIn(InNth(ts, k))
        /\ \A t : InNth(ts, k) = {t} => parts[k] = BothOf(t)
        /\ InNth(ts, k) = {} => parts[k] = <<>>
  <2>1. \A k \in 1..n : parts[k] = Unordered(InNth(ts, k))
    BY <1>1
  <2> HIDE DEF parts, n
  <2> SUFFICES ASSUME NEW k \in 1..n
               PROVE  /\ parts[k] \in Seq(ColumnsIn(InNth(ts, k))) /\ IsInjective(parts[k])
                      /\ \A e : Contains(parts[k], e) <=> e \in ColumnsIn(InNth(ts, k))
                      /\ \A t : InNth(ts, k) = {t} => parts[k] = BothOf(t)
                      /\ InNth(ts, k) = {} => parts[k] = <<>>
    OBVIOUS
  <2>2. IsTables(InNth(ts, k)) /\ parts[k] = Unordered(InNth(ts, k))
    BY <1>3, <2>1
  <2>3. QED
    BY <2>2, UnorderedIs
<1>5. \A k \in 1..n : ColumnsIn(InNth(ts, k)) \subseteq E
  BY <1>3 DEF ColumnsIn
<1>6. parts \in Seq(Seq(E)) /\ Len(parts) = n
  <2>1. \A k \in 1..n : parts[k] \in Seq(E)
    <3> HIDE DEF parts, E, n
    <3>1. QED
      BY <1>4, <1>5, WiderSeq
  <2>2. QED
    BY <1>1, <2>1
<1>7. \A t \in ts : \E k \in 1..n : SchemaOrder[k] = t.schema
  BY <1>1 DEF IsTables, Range
<1> HIDE DEF parts, E, n
<1>8. \A e : Contains(FlattenSeq(parts), e) <=> e \in E
  <2>1. \A e : Contains(FlattenSeq(parts), e) <=> \E k \in 1..n : Contains(parts[k], e)
    BY <1>6, FlattenElements
  <2>2. \A e : e \in E <=> \E k \in 1..n : e \in ColumnsIn(InNth(ts, k))
    <3>1. ASSUME NEW t \in ts PROVE \E k \in 1..n : t \in InNth(ts, k)
      BY <1>7 DEF InNth
    <3>2. \A e : e \in E => \E k \in 1..n : e \in ColumnsIn(InNth(ts, k))
      BY <3>1 DEF E, ColumnsIn
    <3>3. QED
      BY <1>5, <3>2
  <2>3. QED
    BY <1>4, <2>1, <2>2
<1>9. Disjoint(parts)
  <2> SUFFICES ASSUME NEW k \in 1..n, NEW l \in 1..n,
                      NEW i \in 1..Len(parts[k]), NEW j \in 1..Len(parts[l]),
                      parts[k][i] = parts[l][j]
               PROVE  k = l /\ i = j
    BY <1>6 DEF Disjoint
  <2>1. parts[k][i] \in ColumnsIn(InNth(ts, k)) /\ parts[l][j] \in ColumnsIn(InNth(ts, l))
    BY <1>4 DEF Contains
  <2>2. parts[k][i][1] = SchemaOrder[k] /\ parts[l][j][1] = SchemaOrder[l]
    BY <2>1 DEF ColumnsIn, InNth
  <2>3. k = l
    BY <1>1, <2>2
  <2>4. IsInjective(parts[k]) /\ DOMAIN parts[k] = 1..Len(parts[k])
    BY <1>4
  <2>5. QED
    BY <2>3, <2>4 DEF IsInjective
<1>10. IsInjective(FlattenSeq(parts)) /\ FlattenSeq(parts) \in Seq(E)
  BY <1>6, <1>9, FlattenInjective, FlattenParts
<1>11. ASSUME NEW t, ts = {t} PROVE FlattenSeq(parts) = BothOf(t)
  <2>1. PICK k \in 1..n : SchemaOrder[k] = t.schema
    BY <1>7, <1>11
  <2>2. InNth(ts, k) = {t}
    BY <1>11, <2>1 DEF InNth
  <2>3. \A l \in 1..n : l # k => InNth(ts, l) = {}
    BY <1>1, <1>11, <2>1 DEF InNth
  <2>4. parts[k] = BothOf(t) /\ \A l \in 1..n : l # k => parts[l] = <<>>
    BY <1>4, <2>2, <2>3
  <2>5. FlattenSeq(parts) = parts[k]
    BY <1>6, <2>4, FlattenSingle
  <2>6. QED
    BY <2>4, <2>5
<1>12. QED
  BY <1>2, <1>8, <1>10, <1>11 DEF E

\* A name without quotes, capital letters and wildcards reaches the server as
\* it was typed.
LEMMA PlainName ==
    ASSUME NEW n \in Db!Text, Db!Characters(n) \cap {"A", Db!One, Db!Many, "'"} = {}
    PROVE  /\ Db!Escaped(n) = n /\ Db!Literal(n) = n /\ Db!Lower(n) = n
           /\ Free(n, {"A", Db!One, Db!Many})
<1>1. n \in Seq(Db!Letter) /\ \A k \in 1..Len(n) : n[k] \in Db!Characters(n)
  BY DEF Db!Characters, Db!Text
<1>2. Free(n, {"A", Db!One, Db!Many}) /\ Free(n, {"'"}) /\ \A k \in 1..Len(n) : n[k] # "A"
  BY <1>1 DEF Free
<1>3. Db!Escaped(n) = n
  BY <1>2, EscapedPlain
<1>4. Db!Literal(n) = n
  BY <1>3, Undoubled
<1>5. Db!Lower(n) = n
  <2>1. DOMAIN n = 1..Len(n) /\ n = [k \in 1..Len(n) |-> n[k]]
    BY <1>1
  <2>2. QED
    BY <1>2, <2>1 DEF Db!Lower
<1>6. QED
  BY <1>2, <1>3, <1>4, <1>5

\* What is on the screen after each command that looks a table up by name.
Looked(name, s, n) ==
    /\ s \in Schemas /\ n \in NamesTyped
    /\ asked.name = name /\ asked.schema = s /\ asked.table = n

Describing ==
    \E s, n : \E extended \in BOOLEAN :
        LET all == IF extended THEN Db!Extended(Db!SchemaOf(s), n)
                   ELSE Db!Constraints(Db!SchemaOf(s), n)
        IN  /\ Looked(IF extended THEN "d+" ELSE "introspect", s, n)
            /\ columns = Db!ColumnsOf(Db!Described(Db!SchemaOf(s), n))
            /\ sections = {x \in all : x[1] \notin failing}

Defining ==
    \E s, n : Looked("ddl", s, n) /\ columns = Db!DdlColumns(Db!SchemaOf(s), n)

Finding ==
    \E s, n : \E name \in {"stats", "partitions", "sv", "indexes", "deps"} :
        Looked(name, s, n) /\ columns = Db!ColumnsOf(Db!Lookup(name, Db!SchemaOf(s), n))

NotLooking == asked.table = <<>> /\ asked.name \notin {"introspect", "d+"}

\* The tables stay those the database was started with, and the screen shows
\* the answer to the last command.
LookInv == tables \in TableSets /\ (Describing \/ Defining \/ Finding \/ NotLooking)

\* A query finds the same as long as the tables are the same.
LEMMA SameTables ==
    ASSUME tables' = tables, NEW s, NEW n
    PROVE  /\ Db!Described(s, n)' = Db!Described(s, n) /\ Db!Extended(s, n)' = Db!Extended(s, n)
           /\ Db!Constraints(s, n)' = Db!Constraints(s, n)
           /\ Db!DdlColumns(s, n)' = Db!DdlColumns(s, n)
           /\ \A name \in {"stats", "partitions", "sv", "indexes", "deps"} :
                 Db!Lookup(name, s, n)' = Db!Lookup(name, s, n)
<1>1. \A e : Db!Exactly(s, e)' = Db!Exactly(s, e)
  BY DEF Db!Exactly
<1>2. \A e : Db!Regclass(s, e)' = Db!Regclass(s, e)
  BY DEF Db!Regclass
<1>3. \A e : Db!Described(s, e)' = Db!Described(s, e)
  BY <1>1 DEF Db!Described
<1>4. \A name \in {"stats", "partitions", "sv", "indexes", "deps"} :
          Db!Lookup(name, s, n)' = Db!Lookup(name, s, n)
  BY <1>1 DEF Db!Lookup, Db!ShowColumnStats, Db!ShowPartitions, Db!ShowViewDefinition,
              Db!ShowIndexes, Db!ShowDeps
<1>5. QED
  BY <1>1, <1>2, <1>3, <1>4 DEF Db!Extended, Db!Constraints, Db!DdlColumns

\* After every command the screen shows its answer, over the same tables.
LEMMA LookStep == LookInv /\ Db!Next => LookInv'
<1> SUFFICES ASSUME LookInv, Db!Next PROVE LookInv'
  OBVIOUS
<1>1. tables' = tables /\ tables' \in TableSets
  BY DEF LookInv, Db!Next, Db!Again, Db!List, Db!Describe, Db!Ddl, Db!Find, Db!Memberships,
         Db!Kill, Db!Ask
<1>2. \A name, s, n : Db!Ask(name, s, n) =>
          asked'.name = name /\ asked'.schema = s /\ asked'.table = n
  BY DEF Db!Ask, Db!Nothing
<1>3. \A s, n : /\ Db!Described(s, n)' = Db!Described(s, n)
                /\ Db!Extended(s, n)' = Db!Extended(s, n)
                /\ Db!Constraints(s, n)' = Db!Constraints(s, n)
                /\ Db!DdlColumns(s, n)' = Db!DdlColumns(s, n)
  BY <1>1, SameTables
<1>4. Db!Describe => Describing'
  <2> SUFFICES ASSUME Db!Describe PROVE Describing'
    OBVIOUS
  <2>1. PICK s \in Schemas, n \in NamesTyped, extended \in BOOLEAN :
            LET all == IF extended THEN Db!Extended(Db!SchemaOf(s), n)
                       ELSE Db!Constraints(Db!SchemaOf(s), n)
            IN  /\ Db!Ask(IF extended THEN "d+" ELSE "introspect", s, n)
                /\ columns' = Db!ColumnsOf(Db!Described(Db!SchemaOf(s), n))
                /\ sections' = {x \in all : x[1] \notin failing'}
    BY DEF Db!Describe
  <2>2. Looked(IF extended THEN "d+" ELSE "introspect", s, n)'
    BY <1>2, <2>1 DEF Looked
  <2>3. QED
    BY <1>3, <2>1, <2>2 DEF Describing
<1>5. Db!Ddl => Defining'
  <2> SUFFICES ASSUME Db!Ddl PROVE Defining'
    OBVIOUS
  <2>1. PICK s \in Schemas, n \in NamesTyped :
            Db!Ask("ddl", s, n) /\ columns' = Db!DdlColumns(Db!SchemaOf(s), n)
    BY DEF Db!Ddl
  <2>2. Looked("ddl", s, n)'
    BY <1>2, <2>1 DEF Looked
  <2>3. QED
    BY <1>3, <2>1, <2>2 DEF Defining
<1>6. Db!Find => Finding'
  <2> SUFFICES ASSUME Db!Find PROVE Finding'
    OBVIOUS
  <2>1. PICK s \in Schemas, n \in NamesTyped,
             name \in {"stats", "partitions", "sv", "indexes", "deps"} :
            Db!Ask(name, s, n) /\ columns' = Db!ColumnsOf(Db!Lookup(name, Db!SchemaOf(s), n))
    BY DEF Db!Find
  <2>2. Looked(name, s, n)'
    BY <1>2, <2>1 DEF Looked
  <2>3. Db!Lookup(name, Db!SchemaOf(s), n)' = Db!Lookup(name, Db!SchemaOf(s), n)
    BY <1>1, SameTables
  <2>4. QED
    BY <2>1, <2>2, <2>3 DEF Finding
<1>7. Db!List => NotLooking'
  <2> SUFFICES ASSUME Db!List PROVE NotLooking'
    OBVIOUS
  <2>1. PICK l \in Db!Listings : \E name \in l.names, p \in Patterns :
            asked' = [Db!Nothing EXCEPT !.name = name, !.pattern = p]
    BY DEF Db!List
  <2>2. PICK name \in l.names, p \in Patterns :
            asked' = [Db!Nothing EXCEPT !.name = name, !.pattern = p]
    BY <2>1
  <2>3. asked'.name = name /\ asked'.table = <<>>
    BY <2>2 DEF Db!Nothing
  <2>4. name \notin {"introspect", "d+"}
    BY <2>2, NotListed
  <2>5. QED
    BY <2>3, <2>4 DEF NotLooking
<1>8. Db!Again \/ Db!Memberships \/ Db!Kill => NotLooking'
  <2>1. Db!Again \/ Db!Kill => NotLooking'
    <3>1. Db!Nothing.name = "none" /\ Db!Nothing.table = <<>>
      BY DEF Db!Nothing, Db!None
    <3>2. Db!Again => asked'.name = "none" /\ asked'.table = <<>>
      BY <3>1 DEF Db!Again
    <3>3. Db!Kill => asked'.name = "kill" /\ asked'.table = <<>>
      BY DEF Db!Kill, Db!Nothing
    <3>4. QED
      BY <3>2, <3>3 DEF NotLooking
  <2>2. Db!Memberships => NotLooking'
    BY <1>2 DEF Db!Memberships, NotLooking
  <2>3. QED
    BY <2>1, <2>2
<1>9. QED
  BY <1>1, <1>4, <1>5, <1>6, <1>7, <1>8 DEF LookInv, Db!Next

LEMMA TablesAre ==
    ASSUME tables \in TableSets
    PROVE  /\ \A ts : ts \subseteq tables => IsTables(ts)
           /\ \A t, u \in tables : t.schema = u.schema /\ t.name = u.name => t = u
<1>1. IsFiniteSet(tables) /\ tables \subseteq [schema : Range(SchemaOrder), name : Db!Text]
  BY CatalogAssumption, SameOperators DEF Db!CatalogAssumption
<1>2. \A ts : ts \subseteq tables => IsFiniteSet(ts)
  BY <1>1, FS_Subset
<1>3. \A t, u \in tables : t.schema = u.schema /\ t.name = u.name => t = u
  BY <1>1
<1>4. QED
  BY <1>1, <1>2, <1>3 DEF IsTables

\* The tables found can be read off the columns.
LEMMA FoundTables ==
    ASSUME tables \in TableSets, NEW ts, ts \subseteq tables
    PROVE  {t \in tables : Contains(Db!ColumnsOf(ts), <<t.schema, t.name, 1>>)} = ts
<1>1. \A e : Contains(Db!ColumnsOf(ts), e) <=> e \in ColumnsIn(ts)
  BY TablesAre, ColumnsOfIs
<1>2. \A t \in ts : <<t.schema, t.name, 1>> \in ColumnsIn(ts)
  BY DEF ColumnsIn
<1>3. ASSUME NEW t \in tables, <<t.schema, t.name, 1>> \in ColumnsIn(ts)
      PROVE  t \in ts
  <2>1. PICK u \in ts, i \in {1, 2} : <<t.schema, t.name, 1>> = <<u.schema, u.name, i>>
    BY <1>3 DEF ColumnsIn
  <2>2. t.schema = u.schema /\ t.name = u.name
    BY <2>1
  <2>3. QED
    BY <2>2, TablesAre
<1>4. QED
  BY <1>1, <1>2, <1>3

\* A description shows the table named, once and whole.
LEMMA DescribedFinds == tables \in TableSets /\ Describing => Db!DescribeFindsTable
<1> SUFFICES ASSUME tables \in TableSets, Describing, NEW t \in tables,
                    t.name = asked.table, t.schema \notin Db!Temporary,
                    asked.schema \in {Db!None, t.schema}
             PROVE  /\ IsInjective(columns)
                    /\ Contains(columns, <<t.schema, t.name, 1>>)
                    /\ {u \in tables : u.name = t.name} = {t} =>
                         columns = <<<<t.schema, t.name, 1>>, <<t.schema, t.name, 2>>>>
  BY SameOperators DEF Db!DescribeFindsTable
<1> PICK s, n : /\ n \in NamesTyped /\ asked.schema = s /\ asked.table = n
                /\ columns = Db!ColumnsOf(Db!Described(Db!SchemaOf(s), n))
  BY DEF Describing, Looked
<1> DEFINE ts == Db!Described(Db!SchemaOf(s), n)
<1>1. n \in Db!Text
  BY CatalogAssumption DEF Db!CatalogAssumption
<1>2. Db!Literal(Db!Escaped(n)) = n
  BY <1>1, Undoubled
<1>3. ts \subseteq tables /\ \A u \in ts : u.name = n
  BY <1>2 DEF Db!Described, Db!Exactly
<1>4. t \in ts
  <2>1. Db!SchemaOf(s) = "public" \/ Db!SchemaOf(s) = t.schema
    BY DEF Db!SchemaOf
  <2>2. QED
    BY <1>2, <2>1 DEF Db!Described, Db!Exactly
<1> HIDE DEF ts
<1>5. columns = Db!ColumnsOf(ts)
  BY DEF ts
<1>6. /\ IsInjective(Db!ColumnsOf(ts))
      /\ \A e : Contains(Db!ColumnsOf(ts), e) <=> e \in ColumnsIn(ts)
      /\ \A u : ts = {u} => Db!ColumnsOf(ts) = BothOf(u)
  BY <1>3, TablesAre, ColumnsOfIs
<1>7. <<t.schema, t.name, 1>> \in ColumnsIn(ts)
  BY <1>4 DEF ColumnsIn
<1>8. {u \in tables : u.name = t.name} = {t} => ts = {t}
  BY <1>3, <1>4
<1>9. QED
  BY <1>5, <1>6, <1>7, <1>8 DEF BothOf

\* A schema's name is read as it is typed.
LEMMA SchemaName ==
    ASSUME NEW s \in DOMAIN Spelling
    PROVE  /\ Spelling[s] \in Db!Text /\ Db!Literal(Db!Escaped(Spelling[s])) = Spelling[s]
           /\ Free(Spelling[s], {"'", "*", "?"})
<1>1. Spelling[s] \in Db!Text /\ Range(Spelling[s]) \cap {"'", "*", "?"} = {}
  BY CatalogAssumption, SameOperators DEF Db!CatalogAssumption
<1>2. Spelling[s] \in Seq(Db!Letter)
  BY <1>1 DEF Db!Text
<1>3. \A k \in 1..Len(Spelling[s]) : Spelling[s][k] \in Range(Spelling[s])
  BY <1>2 DEF Range
<1>4. QED
  BY <1>1, <1>3, Undoubled DEF Free

\* What LIKE takes for a text is what the text stands for.
LEMMA LikeStandsFor ==
    ASSUME NEW t \in Db!Text, NEW name \in Db!Text, Free(t, {"*", "?"}), Db!Like(name, t)
    PROVE  Db!StandsFor(t, name)
<1> DEFINE n == Len(t)
           q == [k \in DOMAIN t |-> CASE t[k] = Db!One -> "?" [] t[k] = Db!Many -> "*"
                                      [] OTHER -> t[k]]
           L == Db!Letter \cup {"?", "*"}
<1>1. /\ t \in Seq(Db!Letter) /\ n \in Nat /\ DOMAIN t = 1..n
      /\ \A k \in 1..n : t[k] \in Db!Letter /\ t[k] # "*" /\ t[k] # "?"
  BY DEF Db!Text, Free
<1>2. /\ \A k \in 1..n : q[k] \in L
      /\ q = [k \in 1..n |-> q[k]] /\ DOMAIN q = 1..n
  BY <1>1
<1>3. \A k \in 1..n : q[k] # Db!One /\ q[k] # Db!Many
  BY <1>1, WildsDiffer
<1>4. \A k \in 1..n :
          /\ t[k] = Db!One => q[k] = "?"
          /\ t[k] = Db!Many => q[k] = "*"
          /\ t[k] \notin {Db!One, Db!Many} => q[k] = t[k]
  BY <1>1, WildsDiffer
<1> HIDE DEF q, n, L
<1>5. q \in Seq(L) /\ Len(q) = n
  BY <1>1, <1>2
<1>6. Db!Wild(q) = t
  <2>1. /\ Len(Db!Wild(q)) = n /\ Db!Wild(q) \in Seq(L \cup {Db!Many, Db!One})
        /\ \A k \in 1..n :
             /\ q[k] = "*" => Db!Wild(q)[k] = Db!Many
             /\ q[k] = "?" => Db!Wild(q)[k] = Db!One
             /\ q[k] \notin {"*", "?"} => Db!Wild(q)[k] = q[k]
    BY <1>5, WildIs
  <2>2. ASSUME NEW k \in 1..n PROVE Db!Wild(q)[k] = t[k]
    <3>1. /\ q[k] = "*" => Db!Wild(q)[k] = Db!Many
          /\ q[k] = "?" => Db!Wild(q)[k] = Db!One
          /\ q[k] \notin {"*", "?"} => Db!Wild(q)[k] = q[k]
      BY <2>1, Zenon
    <3>2. CASE t[k] = Db!One
      BY <1>4, <3>1, <3>2, Zenon
    <3>3. CASE t[k] = Db!Many
      BY <1>4, <3>1, <3>3, Zenon
    <3>4. CASE t[k] \notin {Db!One, Db!Many}
      <4>1. q[k] = t[k] /\ t[k] # "*" /\ t[k] # "?"
        BY <1>1, <1>4, <3>4, Zenon
      <4>2. QED
        BY <3>1, <4>1, Zenon
    <3>5. QED
      BY <3>2, <3>3, <3>4, Zenon
  <2>3. /\ t = [k \in 1..n |-> t[k]]
        /\ Db!Wild(q) = [k \in 1..n |-> Db!Wild(q)[k]]
    BY <1>1, <2>1
  <2>4. QED
    BY <2>2, <2>3
<1>7. Free(q, {Db!One, Db!Many})
  BY <1>3, <1>5 DEF Free
<1>8. name \in Seq(L)
  <2>1. name \in Seq(Db!Letter) /\ Db!Letter \subseteq L
    BY DEF Db!Text, L
  <2> HIDE DEF L
  <2>2. QED
    BY <2>1, WiderSeq
<1>9. Db!Glob(name, q)
  BY <1>5, <1>6, <1>7, <1>8, LikeGlob
<1>10. QED
  BY <1>9 DEF Db!StandsFor, q

\* The tables a plain name stands for.
LEMMA PlainTables ==
    ASSUME tables \in TableSets, NEW r \in DOMAIN Spelling, NEW n \in NamesTyped,
           Db!Characters(n) \cap {"A", Db!One, Db!Many, "'"} = {}
    PROVE  /\ r # "public" => Db!Described(r, n) = Db!Exactly(r, n)
           /\ r # "public" => Db!DdlColumns(r, n) = Db!ColumnsOf(Db!Exactly(r, n))
           /\ Db!DdlColumns(r, n) = Db!ColumnsOf(Db!Described(r, n))
           /\ "A" \notin Db!Characters(Spelling[r]) =>
                Db!Regclass(r, Db!Escaped(n)) = Db!Exactly(r, n)
           /\ Db!Exactly(r, Db!Literal(Db!Escaped(n))) = Db!Exactly(r, n)
           /\ Db!Exactly(r, n) \subseteq tables /\ Db!Described(r, n) \subseteq tables
           /\ \A t \in Db!Described(r, n) \ Db!Exactly(r, n) :
                r = "public" /\ t.name = n /\ t.schema \notin Db!Temporary
           /\ Db!Exactly(r, n) \subseteq Db!Described(r, n)
<1>1. n \in Db!Text
  BY CatalogAssumption DEF Db!CatalogAssumption
<1>2. Db!Escaped(n) = n /\ Db!Literal(n) = n /\ Db!Lower(n) = n
  BY <1>1, PlainName
<1>3. r # "public" => Db!Described(r, n) = Db!Exactly(r, n)
  BY <1>2 DEF Db!Described
<1>4. Db!Exactly(r, Db!Literal(Db!Escaped(n))) = Db!Exactly(r, n)
  BY <1>2
<1>5. Db!DdlColumns(r, n) = Db!ColumnsOf(Db!Described(r, n))
  BY <1>2 DEF Db!DdlColumns
<1>6. ASSUME "A" \notin Db!Characters(Spelling[r])
      PROVE  Db!Regclass(r, Db!Escaped(n)) = Db!Exactly(r, n)
  <2> DEFINE w == Spelling[r]
  <2>1. w \in Db!Text /\ Db!Literal(Db!Escaped(w)) = w
    BY SchemaName
  <2>2. Db!Lower(w) = w
    <3>1. w \in Seq(Db!Letter) /\ \A k \in 1..Len(w) : w[k] \in Db!Characters(w)
      BY <2>1 DEF Db!Characters, Db!Text
    <3>2. DOMAIN w = 1..Len(w) /\ w = [k \in 1..Len(w) |-> w[k]]
      BY <3>1
    <3>3. \A k \in 1..Len(w) : w[k] # "A"
      BY <1>6, <3>1
    <3>4. QED
      BY <3>2, <3>3 DEF Db!Lower
  <2>3. \A t \in tables : Spelling[t.schema] = w <=> t.schema = r
    <3>1. \A t \in tables : t.schema \in DOMAIN Spelling
      BY CatalogAssumption, SameOperators DEF Db!CatalogAssumption
    <3>2. QED
      BY <3>1, CatalogAssumption DEF Db!CatalogAssumption
  <2>4. Db!Regclass(r, Db!Escaped(n)) = {t \in tables : Spelling[t.schema] = w /\ t.name = n}
    BY <1>2, <2>1, <2>2 DEF Db!Regclass
  <2> HIDE DEF w
  <2>5. QED
    BY <2>3, <2>4 DEF Db!Exactly
<1>7. /\ Db!Exactly(r, n) \subseteq tables /\ Db!Described(r, n) \subseteq tables
      /\ \A t \in Db!Described(r, n) \ Db!Exactly(r, n) :
            r = "public" /\ t.name = n /\ t.schema \notin Db!Temporary
      /\ Db!Exactly(r, n) \subseteq Db!Described(r, n)
  <2>1. "public" \notin Db!Temporary
    BY Zenon DEF Db!Temporary
  <2>2. Db!Literal(Db!Escaped(n)) = n
    BY <1>2
  <2>3. QED
    BY <2>1, <2>2 DEF Db!Described, Db!Exactly
<1>8. QED
  BY <1>3, <1>4, <1>5, <1>6, <1>7

\* \deps finds the table named, and others only by ILIKE's reading.
LEMMA DepsAre ==
    ASSUME tables \in TableSets, NEW r \in DOMAIN Spelling, NEW n \in NamesTyped,
           Db!Characters(n) \cap {"A", Db!One, Db!Many, "'"} = {}
    PROVE  /\ Db!Exactly(r, n) \subseteq Db!ShowDeps(r, n) /\ Db!ShowDeps(r, n) \subseteq tables
           /\ \A t \in Db!ShowDeps(r, n) :
                Db!Lower(t.name) = n /\ Db!StandsFor(Spelling[r], Spelling[t.schema])
<1> DEFINE w == Spelling[r]
<1>1. n \in Db!Text
  BY CatalogAssumption DEF Db!CatalogAssumption
<1>2. Db!Literal(Db!Escaped(n)) = n /\ Free(n, {"A", Db!One, Db!Many})
  BY <1>1, Undoubled, PlainName
<1>3. w \in Db!Text /\ Db!Literal(Db!Escaped(w)) = w /\ Free(w, {"'", "*", "?"})
  BY SchemaName
<1>4. \A t \in tables : t.name \in Db!Text /\ Spelling[t.schema] \in Db!Text
  BY CatalogAssumption, SameOperators DEF Db!CatalogAssumption
<1>5. Db!ShowDeps(r, n) =
        {t \in tables : Db!Like(Spelling[t.schema], w) /\ Db!Like(t.name, n)}
  BY <1>2, <1>3 DEF Db!ShowDeps
<1> HIDE DEF w
<1>6. Db!Like(w, w) /\ Db!Like(n, n)
  BY <1>1, <1>3, LikeItself DEF Db!Text
<1>7. Db!Exactly(r, n) \subseteq Db!ShowDeps(r, n)
  BY <1>5, <1>6 DEF Db!Exactly, w
<1>8. ASSUME NEW t \in Db!ShowDeps(r, n)
      PROVE  Db!Lower(t.name) = n /\ Db!StandsFor(w, Spelling[t.schema])
  <2>1. t \in tables /\ Db!Like(Spelling[t.schema], w) /\ Db!Like(t.name, n)
    BY <1>5, <1>8
  <2>2. t.name \in Db!Text /\ Spelling[t.schema] \in Db!Text
    BY <1>4, <2>1
  <2>3. Db!Lower(t.name) = n
    BY <1>1, <1>2, <2>1, <2>2, LikePlain DEF Db!Text
  <2>4. Free(w, {"*", "?"})
    BY <1>3 DEF Free
  <2>5. QED
    BY <1>3, <2>1, <2>2, <2>3, <2>4, LikeStandsFor
<1>9. Db!ShowDeps(r, n) \subseteq tables
  BY <1>5
<1>10. QED
  BY <1>7, <1>8, <1>9 DEF w

\* The schema meant is one there is.
LEMMA SchemaMeant == \A s \in Schemas : Db!SchemaOf(s) \in DOMAIN Spelling
BY CatalogAssumption, SameOperators DEF Db!CatalogAssumption, Db!SchemaOf

\* For a plain name the look-ups come to the table named, and to others only by
\* the two rules.
LEMMA LookedFinds == LookInv => Db!LookupsAgree
<1> DEFINE r == Db!SchemaOf(asked.schema)
           n == asked.table
           found == {t \in tables : Contains(columns, <<t.schema, t.name, 1>>)}
           ex == Db!Exactly(r, n)
           Others(t) ==
             \/ /\ asked.name \in {"introspect", "d+", "ddl"} /\ r = "public"
                /\ t.name = n /\ t.schema \notin Db!Temporary
             \/ /\ asked.name \in {"indexes", "deps"} /\ Db!Lower(t.name) = n
                /\ Db!StandsFor(Spelling[r], Spelling[t.schema])
<1> SUFFICES ASSUME LookInv, Db!Plain
             PROVE  /\ {t \in ex : asked.name = "indexes" => t.schema \notin Db!Internal}
                          \subseteq found
                    /\ \A t \in found \ ex : Others(t)
  BY SameOperators DEF Db!LookupsAgree
<1>1. tables \in TableSets /\ (Describing \/ Defining \/ Finding)
  BY DEF LookInv, NotLooking, Db!Plain
<1>2. /\ n \in NamesTyped /\ r \in DOMAIN Spelling
      /\ Db!Characters(n) \cap {"A", Db!One, Db!Many, "'"} = {}
  BY <1>1, SchemaMeant DEF Db!Plain, Describing, Defining, Finding, Looked
<1>3. /\ Db!DdlColumns(r, n) = Db!ColumnsOf(Db!Described(r, n))
      /\ Db!Exactly(r, Db!Literal(Db!Escaped(n))) = ex
      /\ ex \subseteq tables /\ Db!Described(r, n) \subseteq tables
      /\ ex \subseteq Db!Described(r, n)
      /\ \A t \in Db!Described(r, n) \ ex :
            r = "public" /\ t.name = n /\ t.schema \notin Db!Temporary
  <2> HIDE DEF r, n
  <2>1. QED
    BY <1>1, <1>2, PlainTables DEF ex
<1>4. \A ts : ts \subseteq tables /\ columns = Db!ColumnsOf(ts) => found = ts
  BY <1>1, FoundTables
<1>5. CASE Describing \/ Defining
  <2>1. /\ columns = Db!ColumnsOf(Db!Described(r, n))
        /\ asked.name \in {"introspect", "d+", "ddl"}
    BY <1>3, <1>5 DEF Describing, Defining, Looked
  <2> HIDE DEF r, n, ex, found
  <2>2. found = Db!Described(r, n)
    BY <1>3, <1>4, <2>1
  <2>3. QED
    BY <1>3, <2>1, <2>2
<1>6. CASE Finding
  <2>1. PICK name \in {"stats", "partitions", "sv", "indexes", "deps"} :
            asked.name = name /\ columns = Db!ColumnsOf(Db!Lookup(name, r, n))
    BY <1>6 DEF Finding, Looked
  <2>2. CASE name \in {"stats", "partitions", "sv"}
    <3>1. Db!Lookup(name, r, n) = ex
      BY <1>3, <2>2 DEF Db!Lookup, Db!ShowColumnStats, Db!ShowPartitions, Db!ShowViewDefinition
    <3> HIDE DEF r, n, ex, found
    <3>2. found = ex
      BY <1>3, <1>4, <2>1, <3>1
    <3>3. QED
      BY <3>2
  <2>3. CASE name \in {"indexes", "deps"}
    <3> DEFINE D == Db!ShowDeps(r, n)
               ts == IF name = "indexes" THEN {t \in D : t.schema \notin Db!Internal} ELSE D
    <3>1. Db!Lookup(name, r, n) = ts
      BY <2>3 DEF Db!Lookup, Db!ShowIndexes
    <3>2. /\ ex \subseteq D /\ D \subseteq tables
          /\ \A t \in D : Db!Lower(t.name) = n /\ Db!StandsFor(Spelling[r], Spelling[t.schema])
      <4> HIDE DEF r, n
      <4>1. QED
        BY <1>1, <1>2, DepsAre DEF ex
    <3> HIDE DEF D, r, n, ex, found
    <3>3. ts \subseteq tables
      BY <3>2
    <3>4. found = ts
      <4> HIDE DEF ts
      <4>1. QED
        BY <1>4, <2>1, <3>1, <3>3
    <3>5. QED
      BY <2>1, <2>3, <3>2, <3>4
  <2>4. QED
    BY <2>2, <2>3
<1>7. QED
  BY <1>1, <1>5, <1>6

\* The sections below a description are those of the table named.
LEMMA DescribedSections == tables \in TableSets /\ Describing => Db!SectionsMatch
<1> SUFFICES ASSUME tables \in TableSets, Describing, Db!Plain,
                    "A" \notin Db!Characters(Spelling[Db!SchemaOf(asked.schema)])
             PROVE  sections = {<<k, t.schema, t.name>> :
                        k \in (IF asked.name = "introspect"
                               THEN {"index", "check", "foreign_key"}
                               ELSE {"check", "foreign_key", "referenced_by", "trigger"}) \ failing,
                        t \in Db!Exactly(Db!SchemaOf(asked.schema), asked.table)}
  BY DEF Db!SectionsMatch
<1> PICK s, n : \E extended \in BOOLEAN :
        LET all == IF extended THEN Db!Extended(Db!SchemaOf(s), n)
                   ELSE Db!Constraints(Db!SchemaOf(s), n)
        IN  /\ Looked(IF extended THEN "d+" ELSE "introspect", s, n)
            /\ sections = {x \in all : x[1] \notin failing}
  BY DEF Describing
<1> PICK extended \in BOOLEAN :
        LET all == IF extended THEN Db!Extended(Db!SchemaOf(s), n)
                   ELSE Db!Constraints(Db!SchemaOf(s), n)
        IN  /\ s \in Schemas /\ n \in NamesTyped /\ asked.schema = s /\ asked.table = n
            /\ asked.name = IF extended THEN "d+" ELSE "introspect"
            /\ sections = {x \in all : x[1] \notin failing}
  BY DEF Looked
<1> DEFINE r == Db!SchemaOf(s)
           ts == Db!Exactly(r, n)
<1>1. /\ Db!Regclass(r, Db!Escaped(n)) = ts
      /\ Db!Exactly(r, Db!Literal(Db!Escaped(n))) = ts
  <2>1. /\ r \in DOMAIN Spelling /\ "A" \notin Db!Characters(Spelling[r])
        /\ Db!Characters(n) \cap {"A", Db!One, Db!Many, "'"} = {}
    BY SchemaMeant DEF Db!Plain
  <2> HIDE DEF r
  <2>2. QED
    BY <2>1, PlainTables
<1>2. Db!Constraints(r, n) = {<<k, t.schema, t.name>> :
                              k \in {"index", "check", "foreign_key"}, t \in ts}
  <2> HIDE DEF ts, r
  <2>1. QED
    BY <1>1 DEF Db!Constraints, Db!Named, ts
<1>3. Db!Extended(r, n) = {<<k, t.schema, t.name>> :
                           k \in {"check", "foreign_key", "referenced_by", "trigger"}, t \in ts}
  <2> HIDE DEF ts, r
  <2>1. QED
    BY <1>1 DEF Db!Extended, Db!Named, ts
<1> HIDE DEF ts, r
<1>4. \A K : {x \in {<<k, t.schema, t.name>> : k \in K, t \in ts} : x[1] \notin failing}
               = {<<k, t.schema, t.name>> : k \in K \ failing, t \in ts}
  OBVIOUS
<1>5. ts = Db!Exactly(Db!SchemaOf(asked.schema), asked.table) /\ r = Db!SchemaOf(s)
  BY DEF ts, r
<1>6. CASE extended
  <2>1. asked.name # "introspect"
    BY <1>6
  <2>2. QED
    BY <1>1, <1>3, <1>4, <1>5, <1>6, <2>1
<1>7. CASE ~extended
  <2>1. asked.name = "introspect"
    BY <1>7
  <2>2. QED
    BY <1>1, <1>2, <1>4, <1>5, <1>7, <2>1
<1>8. QED
  BY <1>6, <1>7

\* The answers are the right ones.
LEMMA AnswersFind == LookInv => Db!DescribeFindsTable /\ Db!LookupsAgree /\ Db!SectionsMatch
<1> SUFFICES ASSUME LookInv PROVE Db!DescribeFindsTable /\ Db!SectionsMatch
  BY LookedFinds
<1>1. tables \in TableSets
  BY DEF LookInv
<1>2. CASE Describing
  BY <1>1, <1>2, DescribedFinds, DescribedSections
<1>3. CASE ~Describing
  <2>1. asked.name \notin {"introspect", "d+"}
    BY <1>3 DEF LookInv, Defining, Finding, NotLooking, Looked
  <2>2. QED
    BY <2>1 DEF Db!DescribeFindsTable, Db!SectionsMatch
<1>4. QED
  BY <1>2, <1>3

CatalogInv == ListingsSelect /\ LookInv

LEMMA InitCatalog == Db!Init => CatalogInv
<1> SUFFICES ASSUME Db!Init PROVE CatalogInv
  OBVIOUS
<1>1. asked.name = Db!None /\ asked.table = <<>>
  BY DEF Db!Init, Db!Nothing
<1>2. Unlisted
  BY <1>1, NotListed DEF Unlisted
<1>3. Db!TypeOK
  <2>1. selected = {} /\ sections = {} /\ alive = Backends
    BY DEF Db!Init
  <2>2. QED
    BY <2>1 DEF Db!TypeOK
<1>4. NotLooking
  BY <1>1 DEF NotLooking, Db!None
<1>5. tables \in TableSets
  BY DEF Db!Init
<1>6. QED
  BY <1>2, <1>3, <1>4, <1>5, UnlistedIsRight DEF CatalogInv, ListingsSelect, LookInv

\* The screen stands still while another module moves.
LEMMA StandingCatalog == CatalogInv /\ UNCHANGED serverVars => CatalogInv'
<1> SUFFICES ASSUME CatalogInv, UNCHANGED serverVars PROVE CatalogInv'
  OBVIOUS
<1>1. Db!TypeOK'
  BY DEF CatalogInv, ListingsSelect, Db!TypeOK, serverVars
<1>2. Db!PatternsSelect'
  BY DEF CatalogInv, ListingsSelect, Db!PatternsSelect, serverVars
<1>3. Db!NamesFindThemselves'
  BY DEF CatalogInv, ListingsSelect, Db!NamesFindThemselves, serverVars
<1>4. LookInv'
  <2>1. tables' = tables /\ asked' = asked /\ columns' = columns /\ sections' = sections
        /\ failing' = failing
    BY DEF serverVars
  <2>2. Describing => Describing'
    BY <2>1, SameTables DEF Describing, Looked
  <2>3. Defining => Defining'
    BY <2>1, SameTables DEF Defining, Looked
  <2>4. Finding => Finding'
    BY <2>1, SameTables DEF Finding, Looked
  <2>5. NotLooking => NotLooking'
    BY <2>1 DEF NotLooking
  <2>6. QED
    BY <2>1, <2>2, <2>3, <2>4, <2>5 DEF CatalogInv, LookInv
<1>5. QED
  BY <1>1, <1>2, <1>3, <1>4 DEF CatalogInv, ListingsSelect

LEMMA NextCatalog == CatalogInv /\ Db!Next => CatalogInv'
<1> SUFFICES ASSUME CatalogInv, Db!Next PROVE CatalogInv'
  OBVIOUS
<1>1. LookInv'
  BY LookStep DEF CatalogInv
<1>2. Db!TypeOK' /\ Db!PatternsSelect' /\ Db!NamesFindThemselves'
  BY ListSelects, OthersSelect DEF CatalogInv, ListingsSelect, Db!Next
<1>3. QED
  BY <1>1, <1>2 DEF CatalogInv, ListingsSelect

\* What a step of the run is for the catalog.
LEMMA CommandsCatalog ==
    /\ CommandsInit => Db!Init
    /\ [CommandsNext]_<<part, settingsVars, serverVars, copyVars>>
          => Db!Next \/ UNCHANGED serverVars
  BY DEF CommandsInit, CommandsNext, SettingsStep, CatalogStep, TypedCopyStep, FileCopyStep

\* The inductive invariant of the catalog commands: the listing on the screen,
\* and that the columns and sections there are the answer to what was asked.
THEOREM CatalogInvariance == CommandsSpec => []CatalogInv
<1>1. CommandsInit => CatalogInv
  BY CommandsCatalog, InitCatalog
<1>2. CatalogInv /\ [CommandsNext]_<<part, settingsVars, serverVars, copyVars>> => CatalogInv'
  BY CommandsCatalog, NextCatalog, StandingCatalog
<1> QED
  BY <1>1, <1>2, PTL DEF CommandsSpec

\* For every catalog and every pattern, quotes and wildcards included: the
\* listings built with schema_pattern_filter (commands.rs) show what the syntax
\* of README.md says, and the name of an object finds it in every listing.
THEOREM ListingsAreRight == CommandsSpec => []ListingsSelect
<1>1. CatalogInv => ListingsSelect
  BY DEF CatalogInv
<1> QED
  BY <1>1, CatalogInvariance, PTL

\* For any tables and names: \d finds the table and shows its columns once and
\* in order, the commands that look tables up agree on plain names, and the
\* sections below a description are those of its table (introspection.rs).
THEOREM LookupsAreRight == CommandsSpec => []LookupsFind
<1>1. CatalogInv => LookupsFind
  BY AnswersFind DEF CatalogInv, LookupsFind
<1> QED
  BY <1>1, CatalogInvariance, PTL
=============================================================================
