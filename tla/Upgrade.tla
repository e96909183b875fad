------------------------------ MODULE Upgrade ------------------------------
(***************************************************************************)
(* `pgcli upgrade' (upgrade.rs) on one installation, with other runs of    *)
(* pgcli beside it: upgrades started twice, sessions that keep the old     *)
(* binary running, crashes between any two steps, and releases published   *)
(* while an upgrade is under way.                                          *)
(*                                                                         *)
(*   start -> index -> sums -> archive -> unpack -> stage -> copy          *)
(*   unix:    -> chmod -> rename                                 -> done   *)
(*   windows: -> clear_old -> move_away -> move_in [-> restore]            *)
(*            -> clean_up                                        -> done   *)
(*                                                                         *)
(* Files are told apart by who wrote them; a release's content by its      *)
(* number.  On Windows a file that is running cannot be removed or         *)
(* replaced, only renamed.                                                 *)
(***************************************************************************)
EXTENDS Naturals, FiniteSets

CONSTANTS
    Procs,       \* runs of pgcli, each at most once
    Platforms,   \* "unix", "windows"
    MaxRelease,  \* bound on published releases; 1 is the installed one
    Attempts,    \* ATTEMPTS per request
    Original,    \* writer of the installed binary
    Nil

\* A file: who wrote it, the release it claims to be, whether all of it is there.
Writers == Procs \cup {Original}
Files == [writer : Writers, release : 1..MaxRelease, content : {"whole", "part"}]
File(w, r, c) == [writer |-> w, release |-> r, content |-> c]

ASSUME UpgradeAssumption ==
    /\ Platforms \subseteq {"unix", "windows"}
    /\ MaxRelease \in Nat \ {0} /\ Attempts \in Nat \ {0}
    /\ Original \notin Procs /\ Nil \notin Files

VARIABLES
    platform,  \* cfg!(unix) or cfg!(windows)
    latest,    \* the newest published release
    exe, old,  \* the installed binary and <name>.old, or Nil
    staged,    \* .<name>.new-<pid> of every run, or Nil
    pc,        \* where every run stands
    image,     \* the file it runs from, or Nil
    tag,       \* the release it found
    expected,  \* the digest it found: "match" for that release's archive
    tries      \* attempts of the current request

fetchVars == <<tag, expected, tries>>
files == <<exe, old, staged>>
vars == <<platform, latest, files, pc, image, fetchVars>>

Ended == {"done", "up_to_date", "failed", "crashed", "quit"}
Swapping == {"move_in", "restore"}

Init ==
    /\ platform \in Platforms /\ latest = 1
    /\ exe = File(Original, 1, "whole") /\ old = Nil
    /\ staged = [p \in Procs |-> Nil]
    /\ pc = [p \in Procs |-> "off"] /\ image = [p \in Procs |-> Nil]
    /\ tag = [p \in Procs |-> 1]
    /\ expected = [p \in Procs |-> "none"]
    /\ tries = [p \in Procs |-> 0]

Goto(p, where) == pc' = [pc EXCEPT ![p] = where]

\* A run that ends no longer holds its image.
End(p, how) == Goto(p, how) /\ image' = [image EXCEPT ![p] = Nil]

\* Windows: the file is the image of a running process.
Locked(f) == platform = "windows" /\ f # Nil /\ \E p \in Procs : image[p] = f

\* let _ = remove_file(old)
TryRemoveOld == old' \in {old} \cup IF Locked(old) THEN {} ELSE {Nil}

----------------------------------------------------------------------------
(* Starting, and the runs that are ordinary sessions. *)

Launch(p) ==
    /\ pc[p] = "off" /\ exe # Nil
    /\ Goto(p, "start") /\ image' = [image EXCEPT ![p] = exe]
    /\ UNCHANGED <<platform, latest, files, fetchVars>>

\* main: every run first removes what an upgrade left on Windows.
RemoveStaleOld(p) ==
    /\ pc[p] = "start"
    /\ IF platform = "windows" THEN TryRemoveOld ELSE UNCHANGED old
    /\ \E command \in {"index", "session"} : Goto(p, command)
    /\ UNCHANGED <<platform, latest, exe, staged, image, fetchVars>>

Quit(p) ==
    /\ pc[p] = "session" /\ End(p, "quit")
    /\ UNCHANGED <<platform, latest, files, fetchVars>>

----------------------------------------------------------------------------
(* The release. *)

Publish ==
    /\ latest < MaxRelease /\ latest' = latest + 1
    /\ UNCHANGED <<platform, files, pc, image, fetchVars>>

\* get_bytes fails: a 4xx answer or a body cut off ends it, anything else is
\* tried again as long as attempts are left.
GetBytesFails(p) ==
    \/ End(p, "failed") /\ UNCHANGED tries
    \/ /\ tries[p] + 1 < Attempts
       /\ tries' = [tries EXCEPT ![p] = @ + 1]
       /\ UNCHANGED <<pc, image>>

RequestFails(p) ==
    /\ pc[p] \in {"index", "sums", "archive"}
    /\ GetBytesFails(p)
    /\ UNCHANGED <<platform, latest, files, tag, expected>>

\* latest_release and the comparison with the version compiled in; --check
\* ends here as well.
FetchIndex(p) ==
    /\ pc[p] = "index"
    /\ tag' = [tag EXCEPT ![p] = latest] /\ tries' = [tries EXCEPT ![p] = 0]
    /\ \/ latest > image[p].release /\ Goto(p, "sums") /\ UNCHANGED image
       \/ End(p, "up_to_date")
    /\ UNCHANGED <<platform, latest, files, expected>>

\* Mutant: a missing entry passes for a match.
FetchSumsTrusts(p) ==
    /\ pc[p] = "sums"
    /\ expected' = [expected EXCEPT ![p] = "missing"]
    /\ tries' = [tries EXCEPT ![p] = 0]
    /\ Goto(p, "archive")
    /\ UNCHANGED <<platform, latest, files, image, tag>>

\* checksums.txt: exactly one well-formed entry, or the upgrade is refused.
FetchSums(p) ==
    /\ pc[p] = "sums"
    /\ \E digest \in {"match", "other", "missing"} :
          /\ expected' = [expected EXCEPT ![p] = digest]
          /\ IF digest = "missing" THEN End(p, "failed") ELSE Goto(p, "archive") /\ UNCHANGED image
    /\ tries' = [tries EXCEPT ![p] = 0]
    /\ UNCHANGED <<platform, latest, files, tag>>

\* The archive, cut off at MAX_DOWNLOAD_BYTES or not the published one, is
\* told by its SHA-256.
FetchArchive(p) ==
    /\ pc[p] = "archive"
    /\ \/ expected[p] # "other" /\ Goto(p, "unpack") /\ UNCHANGED image
       \/ End(p, "failed")
    /\ tries' = [tries EXCEPT ![p] = 0]
    /\ UNCHANGED <<platform, latest, files, tag, expected>>

\* Extraction, and the search for the binary in it.
Unpack(p) ==
    /\ pc[p] = "unpack"
    /\ \/ Goto(p, "stage") /\ UNCHANGED image
       \/ End(p, "failed")
    /\ UNCHANGED <<platform, latest, files, fetchVars>>

----------------------------------------------------------------------------
(* replace_binary_at: the new binary is copied next to the installed one. *)

\* Mutant: the copy goes straight to the installed name.
StageInPlace(p) ==
    /\ pc[p] = "stage"
    /\ exe' = File(p, tag[p], "part")
    /\ staged' = [staged EXCEPT ![p] = File(p, tag[p], "part")] /\ Goto(p, "copy")
    /\ UNCHANGED <<platform, latest, old, image, fetchVars>>

Stage(p) ==
    /\ pc[p] = "stage"
    /\ \/ /\ staged' = [staged EXCEPT ![p] = File(p, tag[p], "part")] /\ Goto(p, "copy")
          /\ UNCHANGED image
       \/ End(p, "failed") /\ UNCHANGED staged
    /\ UNCHANGED <<platform, latest, exe, old, fetchVars>>

\* A copy that fails half-way leaves what it has written.
Copy(p) ==
    /\ pc[p] = "copy"
    /\ \/ /\ staged' = [staged EXCEPT ![p] = File(p, tag[p], "whole")]
          /\ Goto(p, IF platform = "unix" THEN "chmod" ELSE "clear_old")
          /\ UNCHANGED image
       \/ End(p, "failed") /\ UNCHANGED staged
    /\ UNCHANGED <<platform, latest, exe, old, fetchVars>>

\* An error from here on takes the staged copy away.
Unstage(p) ==
    /\ End(p, "failed")
    /\ staged' = [staged EXCEPT ![p] = Nil]

Chmod(p) ==
    /\ pc[p] = "chmod"
    /\ \/ Goto(p, "rename") /\ UNCHANGED <<staged, image>>
       \/ Unstage(p)
    /\ UNCHANGED <<platform, latest, exe, old, fetchVars>>

\* Mutant: the result of the rename is not looked at.
RenameUnchecked(p) ==
    /\ pc[p] = "rename"
    /\ \/ exe' = staged[p] /\ staged' = [staged EXCEPT ![p] = Nil]
       \/ UNCHANGED <<exe, staged>>
    /\ End(p, "done")
    /\ UNCHANGED <<platform, latest, old, fetchVars>>

Rename(p) ==
    /\ pc[p] = "rename"
    /\ \/ exe' = staged[p] /\ staged' = [staged EXCEPT ![p] = Nil] /\ End(p, "done")
       \/ Unstage(p) /\ UNCHANGED exe
    /\ UNCHANGED <<platform, latest, old, fetchVars>>

----------------------------------------------------------------------------
(* Windows: the running binary is moved out of the way. *)

ClearOld(p) ==
    /\ pc[p] = "clear_old"
    /\ TryRemoveOld
    /\ Goto(p, "move_away")
    /\ UNCHANGED <<platform, latest, exe, staged, image, fetchVars>>

MoveAway(p) ==
    /\ pc[p] = "move_away"
    /\ \/ /\ exe # Nil /\ ~Locked(old)
          /\ old' = exe /\ exe' = Nil /\ Goto(p, "move_in")
          /\ UNCHANGED <<staged, image>>
       \/ Unstage(p) /\ UNCHANGED <<exe, old>>
    /\ UNCHANGED <<platform, latest, fetchVars>>

\* Mutant: the backup goes first.
MoveInDropsBackup(p) ==
    /\ pc[p] = "move_in"
    /\ old' = Nil /\ Goto(p, "restore")
    /\ UNCHANGED <<platform, latest, exe, staged, image, fetchVars>>

MoveIn(p) ==
    /\ pc[p] = "move_in"
    /\ \/ /\ ~Locked(exe)
          /\ exe' = staged[p] /\ staged' = [staged EXCEPT ![p] = Nil] /\ Goto(p, "clean_up")
       \/ Goto(p, "restore") /\ UNCHANGED <<exe, staged>>
    /\ UNCHANGED <<platform, latest, old, image, fetchVars>>

\* The result of the rename back is not looked at.
Restore(p) ==
    /\ pc[p] = "restore"
    /\ \/ old # Nil /\ ~Locked(exe) /\ exe' = old /\ old' = Nil
       \/ UNCHANGED <<exe, old>>
    /\ Unstage(p)
    /\ UNCHANGED <<platform, latest, fetchVars>>

CleanUp(p) ==
    /\ pc[p] = "clean_up"
    /\ TryRemoveOld
    /\ End(p, "done")
    /\ UNCHANGED <<platform, latest, exe, staged, fetchVars>>

Crash(p) ==
    /\ pc[p] \notin Ended \cup {"off"}
    /\ End(p, "crashed")
    /\ UNCHANGED <<platform, latest, files, fetchVars>>

----------------------------------------------------------------------------
\* The steps a run takes by itself.
Step(p) ==
    \/ RemoveStaleOld(p)
    \/ RequestFails(p) \/ FetchIndex(p) \/ FetchSums(p) \/ FetchArchive(p)
    \/ Unpack(p) \/ Stage(p) \/ Copy(p) \/ Chmod(p) \/ Rename(p)
    \/ ClearOld(p) \/ MoveAway(p) \/ MoveIn(p) \/ Restore(p) \/ CleanUp(p)

Next == Publish \/ \E p \in Procs : Launch(p) \/ Step(p) \/ Quit(p) \/ Crash(p)

Spec == Init /\ [][Next]_vars

----------------------------------------------------------------------------
(* Properties. *)

Places == Ended \cup Swapping \cup
          {"off", "start", "session", "index", "sums", "archive", "unpack", "stage",
           "copy", "chmod", "rename", "clear_old", "move_away", "clean_up"}

FileTypeOK ==
    /\ exe \in Files \cup {Nil} /\ old \in Files \cup {Nil}
    /\ staged \in [Procs -> Files \cup {Nil}]
    /\ image \in [Procs -> Files \cup {Nil}]

FetchTypeOK ==
    /\ platform \in Platforms /\ latest \in 1..MaxRelease
    /\ tag \in [Procs -> 1..MaxRelease]
    /\ expected \in [Procs -> {"none", "match", "other", "missing"}]
    /\ tries \in [Procs -> 0..Attempts - 1]

TypeOK == pc \in [Procs -> Places] /\ FileTypeOK /\ FetchTypeOK

\* "Replaces `exe' with `new_binary' without leaving it half-done": whatever
\* crashes or fails, what is installed is a whole binary, and on Unix something
\* always is.
ExeIsWhole ==
    /\ exe # Nil => exe.content = "whole"
    /\ platform = "unix" => exe # Nil

\* Where Windows leaves a gap, the binary that was there is still to be had
\* under its other name, whichever runs start, end or crash meanwhile.
GapHasBackup == exe = Nil => old # Nil /\ old.content = "whole"

\* "verify the archive's SHA-256, and only then extract the binary and swap it
\* in place": a binary that an upgrade put in place was verified against the
\* release it claims to be.
OnlyVerified ==
    exe # Nil /\ exe.writer \in Procs =>
        /\ expected[exe.writer] = "match"
        /\ exe.release = tag[exe.writer] /\ exe.release > 1

\* An upgrade that reports an error has not installed anything, and one that
\* reports success has: its file was moved into place.
VerdictIsTrue ==
    \A p \in Procs :
        /\ pc[p] \in {"failed", "up_to_date"} =>
              (exe # Nil => exe.writer # p) /\ (old # Nil => old.writer # p)
        /\ pc[p] = "done" => staged[p] = Nil

----------------------------------------------------------------------------
(* The inductive invariant behind these, one part per idea: which steps     *)
(* belong to which platform, what a run has established when it gets there, *)
(* who may stand behind an installed file, and, on Windows, that whatever   *)
(* runs holds one of the two files: so the backup cannot go while the other *)
(* is missing.                                                              *)

UnixSteps == {"chmod", "rename"}
WindowsSteps == {"clear_old", "move_away", "clean_up"} \cup Swapping
Staging == {"chmod", "rename", "clear_old", "move_away", "move_in"}
Unstaged == {"off", "start", "session", "quit", "index", "up_to_date", "sums", "archive",
             "unpack", "stage", "done", "clean_up"}

StepsOfPlatform ==
    /\ \A p \in Procs : pc[p] \in UnixSteps => platform = "unix"
    /\ \A p \in Procs : pc[p] \in WindowsSteps => platform = "windows"
    /\ platform = "unix" => exe # Nil

LiveRuns == \A p \in Procs : image[p] = Nil <=> pc[p] \in Ended \cup {"off"}

ImagesInstalled ==
    platform = "windows" => \A p \in Procs : image[p] \in {Nil, exe, old}

Found ==
    \A p \in Procs :
        /\ pc[p] \in {"sums", "archive", "unpack", "stage", "copy"} \cup Staging => tag[p] > 1
        /\ pc[p] \in {"unpack", "stage", "copy"} \cup Staging => expected[p] = "match"
        /\ pc[p] = "archive" => expected[p] \in {"match", "other"}

StagedIsOwn ==
    \A p \in Procs :
        /\ staged[p] # Nil => staged[p].writer = p /\ staged[p].release = tag[p]
        /\ pc[p] \in Staging \cup {"copy"} => staged[p] # Nil
        /\ pc[p] \in Staging => staged[p].content = "whole"
        /\ pc[p] \in Unstaged => staged[p] = Nil

\* A file with an installed name is whole; its writer has moved it there, after
\* it had verified it.
Installed(f) ==
    f # Nil =>
        /\ f.content = "whole"
        /\ f.writer \in Procs =>
              /\ pc[f.writer] \in {"clean_up", "done", "crashed"}
              /\ expected[f.writer] = "match"
              /\ f.release = tag[f.writer] /\ f.release > 1

IInv ==
    /\ TypeOK
    /\ StepsOfPlatform
    /\ LiveRuns
    /\ ImagesInstalled
    /\ Found
    /\ StagedIsOwn
    /\ Installed(exe) /\ Installed(old)
    /\ GapHasBackup
=============================================================================
