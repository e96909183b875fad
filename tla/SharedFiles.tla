---------------------------- MODULE SharedFiles ----------------------------
(***************************************************************************)
(* The two files that every session of a user shares: the bookmarks        *)
(* (~/.pgcli_bookmarks.toml, bookmarks.rs) and the history of the line     *)
(* editor.  A session reads both when it starts and keeps its own copy.    *)
(* \bookmark and \delbookmark change the copy and then write the whole     *)
(* file, truncating it first; the history is written at \q or Ctrl-D.      *)
(* No lock is taken.  A save may fail before or after the truncation, and  *)
(* a session may die between any two steps.                                *)
(*                                                                         *)
(* The history is abstracted to the sessions whose lines it holds.         *)
(***************************************************************************)
EXTENDS Naturals, FiniteSets

CONSTANTS
    Sessions,    \* runs of the program, each started at most once
    Names,       \* bookmark names
    Texts,       \* query texts
    NoText       \* the name has no bookmark

FilesAssumption == NoText \notin Texts

Maps == [Names -> Texts \cup {NoText}]
NoBookmarks == [n \in Names |-> NoText]

VARIABLES
    pc,          \* "new", "idle", "cut" (file truncated, not written), "gone",
                 \* "dead" (it died)
    mem,         \* dispatcher.bookmarks of each session
    op,          \* the change of the session's map being saved: [name, text]
    parse,       \* "toml" when the file can be parsed, else "damaged"
    file,        \* the map in it, none when it is damaged
    hist,        \* sessions whose lines the editor of each session holds
    hist_file,   \* sessions whose lines the history file holds
    \* History: read by no action of the program.
    promised,    \* what the messages "Saved" and "Deleted" add up to
    saved,       \* the last save: "whole", "alone" (under way, no other is),
                 \* "broken" (it overlapped another or was cut short)
    unread,      \* names promised since a session started, or changed by it
                 \* without a promise: its copy may have them otherwise
    missed,      \* those of the session whose save was the last whole one
    seen         \* sessions that had ended when this one started

bookmarkVars == <<mem, op, parse, file, promised, saved, unread, missed>>
historyVars  == <<hist, hist_file, seen>>
vars == <<pc, bookmarkVars, historyVars>>

NoOp == [name |-> NoText, text |-> NoText]

TypeOK ==
    /\ pc \in [Sessions -> {"new", "idle", "cut", "gone", "dead"}]
    /\ mem \in [Sessions -> Maps]
    /\ op \in [Sessions -> [name : Names \cup {NoText}, text : Texts \cup {NoText}]]
    /\ parse \in {"toml", "damaged"} /\ file \in Maps /\ promised \in Maps
    /\ saved \in {"whole", "alone", "broken"}
    /\ unread \in [Sessions -> SUBSET Names] /\ missed \in SUBSET Names
    /\ hist \in [Sessions -> SUBSET Sessions] /\ hist_file \in SUBSET Sessions
    /\ seen \in [Sessions -> SUBSET Sessions]

Init ==
    /\ pc = [s \in Sessions |-> "new"]
    /\ mem = [s \in Sessions |-> NoBookmarks]
    /\ op = [s \in Sessions |-> NoOp]
    /\ parse = "toml" /\ file \in Maps /\ promised = file
    /\ saved = "whole" /\ unread = [s \in Sessions |-> {}] /\ missed = {}
    /\ hist = [s \in Sessions |-> {}] /\ hist_file = {}
    /\ seen = [s \in Sessions |-> {}]

-----------------------------------------------------------------------------
Goto(s, place) == pc' = [pc EXCEPT ![s] = place]

\* A file that can not be parsed counts as an empty one.
Load == IF parse = "toml" THEN file ELSE NoBookmarks

\* Mutant: the editor starts with an empty history.
StartEmpty(s) ==
    /\ pc[s] = "new"
    /\ Goto(s, "idle")
    /\ mem' = [mem EXCEPT ![s] = Load]
    /\ seen' = [seen EXCEPT ![s] = hist_file]
    /\ unread' = [unread EXCEPT ![s] = IF saved = "whole" THEN missed ELSE Names]
    /\ UNCHANGED <<op, parse, file, promised, saved, missed, hist, hist_file>>

Start(s) ==
    /\ pc[s] = "new"
    /\ Goto(s, "idle")
    /\ mem' = [mem EXCEPT ![s] = Load]
    /\ hist' = [hist EXCEPT ![s] = hist_file]
    /\ seen' = [seen EXCEPT ![s] = hist_file]
    /\ unread' = [unread EXCEPT ![s] = IF saved = "whole" THEN missed ELSE Names]
    /\ UNCHANGED <<op, parse, file, promised, saved, missed, hist_file>>

\* A save that begins while another is under way overlaps it.
SaveBegins(s, n, t) ==
    /\ Goto(s, "cut")
    /\ op' = [op EXCEPT ![s] = [name |-> n, text |-> t]]
    /\ saved' = IF \A r \in Sessions : pc[r] # "cut" THEN "alone" ELSE "broken"

\* Mutant: the file is written over without being truncated.
OpenOnly(s, n, t) ==
    /\ SaveBegins(s, n, t)
    /\ UNCHANGED <<parse, file, promised, unread, missed, historyVars>>

\* fs::write creates or truncates the file; an empty file is an empty table.
Truncate(s, n, t) ==
    /\ SaveBegins(s, n, t)
    /\ parse' = "toml" /\ file' = NoBookmarks
    /\ UNCHANGED <<promised, unread, missed, historyVars>>

\* The copy has changed and nothing is promised.
Untold(s, n) == unread' = [unread EXCEPT ![s] = @ \cup {n}]

\* The file could not be opened: the copy has changed all the same.
SaveFails(s, n) ==
    /\ Untold(s, n)
    /\ UNCHANGED <<pc, op, parse, file, promised, saved, missed, historyVars>>

\* Mutant: the bookmark is stored in the map after the map is saved.
BookmarkSavesFirst(s) ==
    /\ pc[s] = "idle"
    /\ \E n \in Names, t \in Texts : Truncate(s, n, t)
    /\ UNCHANGED mem

\* \bookmark NAME saves the query buffer under that name.
Bookmark(s) ==
    /\ pc[s] = "idle"
    /\ \E n \in Names, t \in Texts :
          /\ mem' = [mem EXCEPT ![s][n] = t]
          /\ Truncate(s, n, t) \/ SaveFails(s, n)

\* \delbookmark NAME, refused when the session's own copy has no such name.
DelBookmark(s) ==
    /\ pc[s] = "idle"
    /\ \E n \in Names :
          /\ mem[s][n] # NoText
          /\ mem' = [mem EXCEPT ![s][n] = NoText]
          /\ Truncate(s, n, NoText) \/ SaveFails(s, n)

\* The entries of the longer text that another session has written meanwhile.
Tails(s) == SUBSET {n \in Names : mem[s][n] = NoText /\ file[n] # NoText}

\* The map is written, and the message printed.  When another session has
\* written meanwhile, the end of the longer text may stay.
Write(s) ==
    /\ pc[s] = "cut"
    /\ Goto(s, "idle")
    /\ op' = [op EXCEPT ![s] = NoOp]
    /\ \/ \E tail \in Tails(s) :
             /\ file' = [n \in Names |-> IF n \in tail THEN file[n] ELSE mem[s][n]]
             /\ parse' = "toml"
       \/ /\ parse = "damaged" \/ file # NoBookmarks
          /\ file' = NoBookmarks /\ parse' = "damaged"
    /\ promised' = [promised EXCEPT ![op[s].name] = op[s].text]
    /\ unread' = [r \in Sessions |-> IF r = s THEN unread[r] \ {op[s].name}
                                              ELSE unread[r] \cup {op[s].name}]
    /\ IF saved = "alone" THEN saved' = "whole" /\ missed' = unread'[s]
                          ELSE UNCHANGED <<saved, missed>>
    /\ UNCHANGED <<mem, historyVars>>

\* Mutant: the error of the write is not looked at.
WriteUnchecked(s) ==
    /\ pc[s] = "cut"
    /\ Goto(s, "idle")
    /\ op' = [op EXCEPT ![s] = NoOp]
    /\ file' = NoBookmarks /\ parse' = "damaged"
    /\ promised' = [promised EXCEPT ![op[s].name] = op[s].text]
    /\ saved' = IF saved = "alone" THEN "whole" ELSE saved
    /\ UNCHANGED <<mem, unread, missed, historyVars>>

\* The write fails after the truncation, as on a full disk: part of the map is
\* in the file, perhaps up to the middle of a line.  The session goes on.
WriteFails(s) ==
    /\ pc[s] = "cut"
    /\ Goto(s, "idle")
    /\ op' = [op EXCEPT ![s] = NoOp]
    /\ \/ \E part \in SUBSET Names :
             /\ file' = [n \in Names |-> IF n \in part THEN mem[s][n] ELSE NoText]
             /\ parse' = "toml"
       \/ file' = NoBookmarks /\ parse' = "damaged"
    /\ saved' = "broken"
    /\ Untold(s, op[s].name)
    /\ UNCHANGED <<mem, promised, missed, historyVars>>

\* The user types a line.
TypeLine(s) ==
    /\ pc[s] = "idle" /\ s \notin hist[s]
    /\ hist' = [hist EXCEPT ![s] = @ \cup {s}]
    /\ UNCHANGED <<pc, bookmarkVars, hist_file, seen>>

\* Mutant: the history is written back as it was read.
QuitSavesLoaded(s) ==
    /\ pc[s] = "idle"
    /\ Goto(s, "gone")
    /\ hist_file' = IF s \in hist[s] THEN seen[s] ELSE hist_file
    /\ UNCHANGED <<bookmarkVars, hist, seen>>

\* \q and Ctrl-D: the whole history is written, unless nothing was typed.
Quit(s) ==
    /\ pc[s] = "idle"
    /\ Goto(s, "gone")
    /\ hist_file' = IF s \in hist[s] THEN hist[s] ELSE hist_file
    /\ UNCHANGED <<bookmarkVars, hist, seen>>

\* The process dies: nothing of its history is kept, and a file it had
\* truncated stays as it is.
Crash(s) ==
    /\ pc[s] \in {"idle", "cut"}
    /\ Goto(s, "dead")
    /\ saved' = IF pc[s] = "cut" THEN "broken" ELSE saved
    /\ op' = [op EXCEPT ![s] = NoOp]
    /\ UNCHANGED <<mem, parse, file, promised, unread, missed, historyVars>>

Next == \E s \in Sessions :
    Start(s) \/ Bookmark(s) \/ DelBookmark(s) \/ Write(s) \/ WriteFails(s) \/ TypeLine(s) \/ Quit(s) \/ Crash(s)

Spec == Init /\ [][Next]_vars

-----------------------------------------------------------------------------
\* What the file lacks of the bookmarks the user was told are saved has gone in
\* one of two ways: a save was cut short or overlapped another and none has
\* followed alone, or the session that saved last did not have it, because it
\* was promised since that session started, had gone before it started or was
\* changed by it in a save that failed.  Nothing else is ever lost.
NoBookmarkLost ==
    saved = "whole" =>
        parse = "toml" /\ \A n \in Names : file[n] # promised[n] => n \in missed

\* A session that ends after it typed something leaves its lines in the history;
\* it takes out of it at most the lines of sessions that ended after it began.
HistoryKept ==
    [][\A s \in Sessions :
          pc[s] = "idle" /\ pc'[s] = "gone" =>
              /\ s \in hist[s] => s \in hist_file'
              /\ hist_file \cap seen[s] \subseteq hist_file']_vars
=============================================================================
