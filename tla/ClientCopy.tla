---------------------------- MODULE ClientCopy -----------------------------
(***************************************************************************)
(* COPY between the server and this side: the rows typed after a COPY ...  *)
(* FROM STDIN at the prompt (run_sql, sql.rs) and \copy between a table    *)
(* and a local file (client_copy, copy.rs).                                *)
(*                                                                         *)
(* The typed rows come through the line editor, which hands over whole     *)
(* statements.  A line is one of                                           *)
(*   row   no semicolon          row;  with one                            *)
(*   o'r   a single quote        \N    begins with a backslash             *)
(*   \.    the end marker        ""    blank                               *)
(* The specification of a \copy is a sequence of words; 'g and h' begin    *)
(* and end a quoted path with blanks in it.                                *)
(***************************************************************************)
EXTENDS Naturals, Sequences, FiniteSets, FiniteSetsExt, SequencesExt

CONSTANTS
    MaxTyped,   \* bound on the lines typed for one COPY
    Tables,     \* contents of the server's table: sequences of rows
    Specs,      \* arguments of \copy: sequences of words
    Absent      \* no file, no row, no content to expect

TypedLines == {"row", "row;", "o'r", "\\N", "\\.", ""}
Paths == {"f", "g h", "h'"}

VARIABLES
    stage,      \* "prompt", "collect", "send"; "create", "write" and "load" of \copy
    buffer,     \* readline: the lines of the entry that is not complete
    data,       \* copy_data, or what was read from the file
    row_count,
    spec, path, \* the \copy and its file
    chunks,     \* rows the server has sent and the file was not given
    pending,    \* the row that the thread behind the file is writing
    files,
    stored,     \* rows the last command added to the table
    told,       \* "", "error", "copied", "wrote" or "loaded"
    \* History: read by no action of the program.
    typed,      \* lines typed since COPY, blank ones between the entries left out
    ended,      \* what ended them: "marker", "interrupt", "eof"
    exported    \* what each file should hold since the last \copy to it

typingVars == <<buffer, typed, ended>>
fileVars == <<path, chunks, pending, files, spec, exported>>
vars == <<stage, data, row_count, stored, told, typingVars, fileVars>>

TypeOK ==
    /\ stage \in {"prompt", "collect", "send", "create", "write", "load"}
    /\ {buffer, typed} \subseteq Seq(TypedLines) /\ row_count \in Nat
    /\ ended \in {"", "marker", "interrupt", "eof"}
    /\ path \in Paths \cup {Absent} /\ DOMAIN files = Paths
    /\ told \in {"", "error", "copied", "wrote", "loaded"}
    /\ stage \in {"create", "write", "load"} => path \in Paths

Init ==
    /\ stage = "prompt" /\ buffer = <<>> /\ data = <<>> /\ row_count = 0
    /\ path = Absent /\ chunks = <<>> /\ pending = Absent
    /\ files \in [Paths -> {Absent, <<"old">>}]
    /\ stored = <<>> /\ told = ""
    /\ typed = <<>> /\ ended = "" /\ spec = <<>>
    /\ exported = [p \in Paths |-> Absent]

-----------------------------------------------------------------------------
(* COPY ... FROM STDIN at the prompt. *)

\* is_incomplete: a quote is open, or there is no semicolon outside quotes.
IsIncomplete(entry) ==
    LET QuotesUpTo(i) == Cardinality({j \in 1..i : entry[j] = "o'r"})
    IN  \/ QuotesUpTo(Len(entry)) % 2 = 1
        \/ \A i \in DOMAIN entry : entry[i] = "row;" => QuotesUpTo(i) % 2 = 1

StartsWithBackslash(entry) == entry[1] \in {"\\N", "\\."}

BeginCopy ==
    /\ stage = "prompt" /\ stage' = "collect"
    /\ buffer' = <<>> /\ data' = <<>> /\ row_count' = 0
    /\ stored' = <<>> /\ told' = "" /\ typed' = <<>> /\ ended' = ""
    /\ UNCHANGED fileVars

\* A blank line before an entry is skipped by the editor.
SkipBlank(entry) ==
    /\ entry = <<"">>
    /\ UNCHANGED <<stage, buffer, data, row_count, ended>>

\* readline waits for the rest of the statement.
Continue(entry) ==
    /\ entry # <<"">> /\ ~StartsWithBackslash(entry) /\ IsIncomplete(entry)
    /\ buffer' = entry
    /\ UNCHANGED <<stage, data, row_count, ended>>

\* Only an entry of its own is the marker.
Marker(entry) ==
    /\ entry = <<"\\.">>
    /\ stage' = "send" /\ ended' = "marker"
    /\ UNCHANGED <<buffer, data, row_count>>

TakeEntry(entry) ==
    /\ entry # <<"\\.">>
    /\ StartsWithBackslash(entry) \/ ~IsIncomplete(entry)
    /\ data' = data \o entry /\ row_count' = row_count + 1
    /\ buffer' = <<>>
    /\ UNCHANGED <<stage, ended>>

TypeLine(l) ==
    /\ stage = "collect" /\ Len(typed) < MaxTyped
    /\ typed' = IF buffer = <<>> /\ l = "" THEN typed ELSE Append(typed, l)
    /\ LET entry == Append(buffer, l)
       IN  SkipBlank(entry) \/ Continue(entry) \/ Marker(entry) \/ TakeEntry(entry)
    /\ UNCHANGED <<stored, told, fileVars>>

\* Ctrl-C and Ctrl-D end the loop as the marker does; the entry that is not
\* complete is dropped with the editor's buffer.
EndInput(key) ==
    /\ stage = "collect"
    /\ stage' = "send" /\ ended' = key /\ buffer' = <<>>
    /\ UNCHANGED <<data, row_count, stored, told, typed, fileVars>>

\* Mutant: what was sent is not finished.
SendUnfinished ==
    /\ stage = "send" /\ stage' = "prompt" /\ told' = "copied"
    /\ UNCHANGED <<data, row_count, stored, typingVars, fileVars>>

Send ==
    /\ stage = "send" /\ stage' = "prompt"
    /\ stored' = data /\ told' = "copied"
    /\ UNCHANGED <<data, row_count, typingVars, fileVars>>

\* The server refuses the statement or a row, or the connection is lost.
SendFails ==
    /\ stage \in {"send", "load"} /\ stage' = "prompt" /\ told' = "error"
    /\ UNCHANGED <<data, row_count, stored, typingVars, fileVars>>

-----------------------------------------------------------------------------
(* \copy *)

\* find: the first place of a keyword with a blank on either side.
Places(s, keyword) == {i \in 2..(Len(s) - 1) : s[i] = keyword}

\* extract_path; Absent when the quote is not closed.
ExtractPath(words) ==
    IF words[1] \in {"f", "'f'"} THEN "f"
    ELSE IF words[1] # "'g" THEN words[1]
    ELSE IF "h'" \in Range(words) THEN "g h"
    ELSE Absent

\* TO is looked for in the whole text before FROM is.
Parse(s) ==
    LET Parsed(keyword) == LET i == Min(Places(s, keyword))
                           IN  [direction |-> keyword, source |-> SubSeq(s, 1, i - 1),
                                path |-> ExtractPath(SubSeq(s, i + 1, Len(s)))]
    IN  IF Places(s, "TO") # {} THEN Parsed("TO")
        ELSE IF Places(s, "FROM") # {} THEN Parsed("FROM")
        ELSE [direction |-> "", source |-> <<>>, path |-> Absent]

\* The server's grammar: a table, or for TO a query in parentheses.
ServerAccepts(p) ==
    \/ p.source = <<"t">>
    \/ p.source = <<"(q", "FROM", "t)">> /\ p.direction = "TO"

BeginClientCopy(s, file) ==
    /\ stage = "prompt"
    /\ spec' = s /\ path' = file /\ stored' = <<>>
    /\ UNCHANGED <<row_count, pending, files, typingVars>>

Refuse(s) ==
    /\ BeginClientCopy(s, Absent)
    /\ told' = "error"
    /\ UNCHANGED <<stage, data, chunks, exported>>

\* All rows are fetched before the file is touched; the fetch can fail.
CopyTo(s) ==
    /\ BeginClientCopy(s, Parse(s).path)
    /\ Parse(s).direction = "TO" /\ Parse(s).path \in Paths /\ ServerAccepts(Parse(s))
    /\ \E t \in Tables :
          /\ chunks' = t
          /\ exported' = [exported EXCEPT ![Parse(s).path] = t]
    /\ stage' = "create" /\ told' = ""
    /\ UNCHANGED data

\* The file is read before the server is asked.
CopyFrom(s) ==
    /\ BeginClientCopy(s, Parse(s).path)
    /\ Parse(s).direction = "FROM" /\ Parse(s).path \in Paths
    /\ files[Parse(s).path] # Absent
    /\ data' = files[Parse(s).path]
    /\ stage' = "load" /\ told' = ""
    /\ UNCHANGED <<chunks, exported>>

Create ==
    /\ stage = "create" /\ stage' = "write"
    /\ files' = [files EXCEPT ![path] = <<>>]
    /\ UNCHANGED <<data, row_count, stored, told, typingVars, path, chunks, pending, spec, exported>>

\* write_all hands a row to a thread, one at a time.
WriteNext ==
    /\ stage = "write" /\ pending = Absent /\ chunks # <<>>
    /\ pending' = Head(chunks) /\ chunks' = Tail(chunks)
    /\ UNCHANGED <<stage, data, row_count, stored, told, typingVars, path, files, spec, exported>>

ThreadWrites ==
    /\ pending # Absent /\ pending' = Absent
    /\ files' = [files EXCEPT ![path] = Append(@, pending)]
    /\ UNCHANGED <<stage, data, row_count, stored, told, typingVars, path, chunks, spec, exported>>

\* The file can not be created, or a write fails: the next write or the flush
\* reports it.
FileFails ==
    /\ stage = "create" \/ (stage = "write" /\ pending # Absent)
    /\ stage' = "prompt" /\ told' = "error"
    /\ pending' = Absent /\ chunks' = <<>>
    /\ exported' = [exported EXCEPT ![path] = Absent]
    /\ UNCHANGED <<data, row_count, stored, typingVars, path, files, spec>>

\* Mutant: the file is dropped without a flush.
NoFlush ==
    /\ stage = "write" /\ chunks = <<>>
    /\ stage' = "prompt" /\ told' = "wrote"
    /\ UNCHANGED <<data, row_count, stored, typingVars, fileVars>>

\* flush waits for the thread.
Flush ==
    /\ stage = "write" /\ chunks = <<>> /\ pending = Absent
    /\ stage' = "prompt" /\ told' = "wrote"
    /\ UNCHANGED <<data, row_count, stored, typingVars, fileVars>>

Load ==
    /\ stage = "load" /\ ServerAccepts(Parse(spec))
    /\ stage' = "prompt"
    /\ stored' = data /\ told' = "loaded"
    /\ UNCHANGED <<data, row_count, typingVars, fileVars>>

Typing ==
    \/ BeginCopy
    \/ \E l \in TypedLines : TypeLine(l)
    \/ \E key \in {"interrupt", "eof"} : EndInput(key)
    \/ Send \/ (stage = "send" /\ SendFails)

Copying ==
    \/ \E s \in Specs : Refuse(s) \/ CopyTo(s) \/ CopyFrom(s)
    \/ Create \/ WriteNext \/ ThreadWrites \/ FileFails \/ Flush
    \/ Load \/ (stage = "load" /\ SendFails)

Next == Typing \/ Copying

Spec == Init /\ [][Next]_vars

-----------------------------------------------------------------------------
\* Of the rows typed the server gets a beginning without holes, in order; all
\* of them when the marker ended them.  What Ctrl-C or Ctrl-D cuts off is the
\* entry that no semicolon had ended.  After an error it has none.  The count
\* that is printed is of entries.
TypedRowsArrive ==
    /\ told = "copied" =>
          /\ IsPrefix(stored, typed)
          /\ ended = "marker" => stored = Front(typed)
          /\ row_count <= Len(stored)
    /\ told = "error" => stored = <<>>

\* "wrote" is said when the file on the disk has every row the server sent, and
\* until the file is written again that is what "loaded" brings back.
FileRoundTrips ==
    /\ told = "wrote" => files[path] = exported[path]
    /\ told = "loaded" /\ exported[path] # Absent => stored = exported[path]

\* "Enter data (one row per line, end with \.)" (sql.rs:22).
\* TLC refutes it (README, section 7).
MarkerEndsInput == stage = "collect" /\ typed # <<>> => Last(typed) # "\\."
=============================================================================
