------------------------------ MODULE MCFiles ------------------------------
(***************************************************************************)
(* The files that the processes of one user share: the installed binary    *)
(* with what an upgrade puts beside it (Upgrade), and the bookmarks and    *)
(* the history (SharedFiles).  The two groups have no file in common, so   *)
(* in one behaviour only one of them moves.  Processes and bookmark names  *)
(* are interchangeable.                                                    *)
(***************************************************************************)
EXTENDS Upgrade, TLC

CONSTANTS Names, Texts, NoText

VARIABLES turn,   \* the group that moves
          where, mem, op, parse, file, hist, hist_file, promised, saved, unread, missed, seen

Shared == INSTANCE SharedFiles WITH Sessions <- Procs, pc <- where

ASSUME FilesAssumption == Shared!FilesAssumption

binaryVars == vars
sharedVars == <<where, mem, op, parse, file, hist, hist_file, promised, saved, unread, missed, seen>>

FilesInit ==
    /\ Init /\ Shared!Init
    /\ turn \in {"binary", "bookmarks", "history"}
    /\ turn # "bookmarks" => file = Shared!NoBookmarks
    /\ turn # "binary" => platform = CHOOSE p \in Platforms : TRUE

BinaryStep == turn = "binary" /\ Next /\ UNCHANGED <<turn, sharedVars>>

\* Nobody types anything but bookmark commands, or none of them.
BookmarkStep == turn = "bookmarks" /\ UNCHANGED hist
HistoryStep == turn = "history" /\ UNCHANGED mem
SharedStep ==
    /\ Shared!Next
    /\ BookmarkStep \/ HistoryStep
    /\ UNCHANGED <<turn, binaryVars>>

FilesSpec == FilesInit /\ [][BinaryStep \/ SharedStep]_<<turn, binaryVars, sharedVars>>

Symmetry == Permutations(Procs) \cup Permutations(Names)

-----------------------------------------------------------------------------
\* What the bookmark file lacks of what the user was told is saved, the session
\* that saved last did not have, or a save was cut short or overlapped.
NoBookmarkLost == Shared!TypeOK /\ Shared!NoBookmarkLost

\* A session that ends leaves its lines in the history, and those it found there.
HistoryKept == Shared!HistoryKept
=============================================================================
