---------------------------- MODULE FilesProofs ----------------------------
(***************************************************************************)
(* Theorems about the files that processes share, for any number of        *)
(* processes: about Upgrade for every number of releases and attempts on   *)
(* both platforms, about SharedFiles for any names and texts, and about    *)
(* MCFiles, where the two stand next to each other.                        *)
(*                                                                         *)
(* Upgrade: one lemma per part of IInv says that every step preserves it.  *)
(***************************************************************************)
EXTENDS MCFiles, TLAPS

USE DEF files, fetchVars

----------------------------------------------------------------------------
(* Facts about files. *)

LEMMA FileFacts ==
    /\ \A w \in Writers, r \in 1..MaxRelease, c \in {"whole", "part"} :
          /\ File(w, r, c) \in Files /\ File(w, r, c) # Nil
          /\ File(w, r, c).writer = w /\ File(w, r, c).release = r
          /\ File(w, r, c).content = c
    /\ \A f \in Files : /\ f # Nil /\ f.writer \in Writers /\ f.release \in 1..MaxRelease
  BY UpgradeAssumption DEF File, Files

LEMMA WriterFacts == Procs \subseteq Writers /\ Original \in Writers /\ Original \notin Procs
  BY UpgradeAssumption DEF Writers

LEMMA NumberFacts == 1 \in 1..MaxRelease /\ 0 \in 0..Attempts - 1
  BY UpgradeAssumption

----------------------------------------------------------------------------
(* The initial states. *)

LEMMA InitIInv == Init => IInv
<1> SUFFICES ASSUME Init PROVE IInv
  OBVIOUS
<1>1. exe \in Files /\ exe # Nil /\ exe.content = "whole" /\ exe.writer = Original
  BY FileFacts, WriterFacts, NumberFacts DEF Init
<1>2. TypeOK
  BY <1>1, NumberFacts DEF Init, TypeOK, FileTypeOK, FetchTypeOK, Places
<1>3. StepsOfPlatform
  BY <1>1 DEF Init, StepsOfPlatform, UnixSteps, WindowsSteps, Swapping
<1>4. LiveRuns /\ ImagesInstalled
  BY DEF Init, LiveRuns, ImagesInstalled, Ended
<1>5. Found /\ StagedIsOwn
  BY DEF Init, Found, StagedIsOwn, Staging, Unstaged
<1>6. Installed(exe) /\ Installed(old) /\ GapHasBackup
  BY <1>1, WriterFacts DEF Init, Installed, GapHasBackup
<1>7. QED
  BY <1>2, <1>3, <1>4, <1>5, <1>6 DEF IInv

----------------------------------------------------------------------------
(* Every step keeps the types. *)

LEMMA PlaceStep ==
    ASSUME pc \in [Procs -> Places], [Next]_vars
    PROVE  pc' \in [Procs -> Places]
<1> USE DEF Goto, End, Ended, Swapping, Places
<1>1. CASE Publish \/ UNCHANGED vars
  BY <1>1 DEF Publish, vars
<1>2. ASSUME NEW p \in Procs, Launch(p) \/ Quit(p) \/ Crash(p) \/ RemoveStaleOld(p)
      PROVE  pc' \in [Procs -> Places]
  BY <1>2 DEF Launch, Quit, Crash, RemoveStaleOld
<1>3. ASSUME NEW p \in Procs, RequestFails(p) \/ FetchIndex(p) \/ FetchSums(p) \/ FetchArchive(p)
      PROVE  pc' \in [Procs -> Places]
  BY <1>3 DEF RequestFails, GetBytesFails, FetchIndex, FetchSums, FetchArchive
<1>4. ASSUME NEW p \in Procs, Unpack(p) \/ Stage(p) \/ Copy(p) \/ Chmod(p) \/ Rename(p)
      PROVE  pc' \in [Procs -> Places]
  BY <1>4 DEF Unpack, Stage, Copy, Chmod, Rename, Unstage
<1>5. ASSUME NEW p \in Procs, ClearOld(p) \/ MoveAway(p) \/ MoveIn(p) \/ Restore(p) \/ CleanUp(p)
      PROVE  pc' \in [Procs -> Places]
  BY <1>5 DEF ClearOld, MoveAway, MoveIn, Restore, CleanUp, Unstage
<1>6. QED
  BY <1>1, <1>2, <1>3, <1>4, <1>5 DEF Next, Step

LEMMA FetchTypeStep ==
    ASSUME FileTypeOK, FetchTypeOK, [Next]_vars
    PROVE  FetchTypeOK'
<1> USE UpgradeAssumption DEF FetchTypeOK, End
<1>1. CASE Publish
  BY <1>1 DEF Publish
<1>2. ASSUME NEW p \in Procs, RequestFails(p) PROVE FetchTypeOK'
  BY <1>2 DEF RequestFails, GetBytesFails
<1>3. ASSUME NEW p \in Procs, FetchIndex(p) \/ FetchSums(p) \/ FetchArchive(p)
      PROVE  FetchTypeOK'
  BY <1>3 DEF FetchIndex, FetchSums, FetchArchive
<1>4. CASE UNCHANGED <<platform, latest, fetchVars>>
  BY <1>4
<1>5. ASSUME NEW p \in Procs, Launch(p) \/ Quit(p) \/ Crash(p) \/ RemoveStaleOld(p)
      PROVE  UNCHANGED <<platform, latest, fetchVars>>
  BY <1>5 DEF Launch, Quit, Crash, RemoveStaleOld
<1>6. ASSUME NEW p \in Procs, Unpack(p) \/ Stage(p) \/ Copy(p) \/ Chmod(p) \/ Rename(p)
      PROVE  UNCHANGED <<platform, latest, fetchVars>>
  BY <1>6 DEF Unpack, Stage, Copy, Chmod, Rename
<1>7. ASSUME NEW p \in Procs, ClearOld(p) \/ MoveAway(p) \/ MoveIn(p) \/ Restore(p) \/ CleanUp(p)
      PROVE  UNCHANGED <<platform, latest, fetchVars>>
  BY <1>7 DEF ClearOld, MoveAway, MoveIn, Restore, CleanUp
<1>8. QED
  BY <1>1, <1>2, <1>3, <1>4, <1>5, <1>6, <1>7 DEF Next, Step, vars

LEMMA FileTypeStep ==
    ASSUME FileTypeOK, FetchTypeOK, [Next]_vars
    PROVE  FileTypeOK'
<1> USE DEF FileTypeOK, End
<1>0. \A p \in Procs, c \in {"whole", "part"} : File(p, tag[p], c) \in Files
  BY FileFacts, WriterFacts DEF FetchTypeOK
<1>1. CASE Publish \/ UNCHANGED vars
  BY <1>1 DEF Publish, vars
<1>2. ASSUME NEW p \in Procs, Launch(p) \/ Quit(p) \/ Crash(p) \/ RemoveStaleOld(p)
      PROVE  FileTypeOK'
  BY <1>2 DEF Launch, Quit, Crash, RemoveStaleOld, TryRemoveOld
<1>3. ASSUME NEW p \in Procs, RequestFails(p) \/ FetchIndex(p) \/ FetchSums(p) \/ FetchArchive(p)
      PROVE  FileTypeOK'
  BY <1>3 DEF RequestFails, GetBytesFails, FetchIndex, FetchSums, FetchArchive
<1>4. ASSUME NEW p \in Procs, Unpack(p) \/ Stage(p) \/ Copy(p)
      PROVE  FileTypeOK'
  BY <1>0, <1>4 DEF Unpack, Stage, Copy
<1>5. ASSUME NEW p \in Procs, Chmod(p) \/ Rename(p)
      PROVE  FileTypeOK'
  BY <1>5 DEF Chmod, Rename, Unstage
<1>6. ASSUME NEW p \in Procs, ClearOld(p) \/ MoveAway(p) \/ MoveIn(p) \/ Restore(p) \/ CleanUp(p)
      PROVE  FileTypeOK'
  BY <1>6 DEF ClearOld, MoveAway, MoveIn, Restore, CleanUp, Unstage, TryRemoveOld
<1>7. QED
  BY <1>1, <1>2, <1>3, <1>4, <1>5, <1>6 DEF Next, Step

----------------------------------------------------------------------------
(* What a run has established when it gets to a step. *)

LEMMA PlatformStep ==
    ASSUME pc \in [Procs -> Places], FileTypeOK, StepsOfPlatform, StagedIsOwn, FetchTypeOK,
           [Next]_vars
    PROVE  StepsOfPlatform'
<1> USE DEF StepsOfPlatform, UnixSteps, WindowsSteps, Ended, Swapping, Goto, End
<1>0. platform \in {"unix", "windows"}
  BY UpgradeAssumption DEF FetchTypeOK
<1>1. CASE Publish \/ UNCHANGED vars
  BY <1>1 DEF Publish, vars
<1>2. ASSUME NEW p \in Procs, Launch(p) \/ Quit(p) \/ Crash(p) \/ RemoveStaleOld(p)
      PROVE  StepsOfPlatform'
  BY <1>2 DEF Launch, Quit, Crash, RemoveStaleOld
<1>3. ASSUME NEW p \in Procs, RequestFails(p) \/ FetchIndex(p) \/ FetchSums(p) \/ FetchArchive(p)
      PROVE  StepsOfPlatform'
  BY <1>3 DEF RequestFails, GetBytesFails, FetchIndex, FetchSums, FetchArchive
<1>4. ASSUME NEW p \in Procs, Unpack(p) \/ Stage(p) \/ Copy(p) \/ Chmod(p)
      PROVE  StepsOfPlatform'
  BY <1>0, <1>4 DEF Unpack, Stage, Copy, Chmod, Unstage
<1>5. ASSUME NEW p \in Procs, Rename(p)
      PROVE  StepsOfPlatform'
  BY <1>5 DEF Rename, Unstage, StagedIsOwn, Staging
<1>6. ASSUME NEW p \in Procs, ClearOld(p) \/ MoveAway(p) \/ MoveIn(p) \/ Restore(p) \/ CleanUp(p)
      PROVE  StepsOfPlatform'
  BY <1>6 DEF ClearOld, MoveAway, MoveIn, Restore, CleanUp, Unstage
<1>7. QED
  BY <1>1, <1>2, <1>3, <1>4, <1>5, <1>6 DEF Next, Step

\* What runs holds an image until it ends.
LEMMA LiveStep ==
    ASSUME pc \in [Procs -> Places], FileTypeOK, LiveRuns, [Next]_vars
    PROVE  LiveRuns'
<1> USE DEF LiveRuns, FileTypeOK, Ended, Swapping, Goto, End
<1>1. CASE Publish \/ UNCHANGED vars
  BY <1>1 DEF Publish, vars
<1>2. ASSUME NEW p \in Procs, Launch(p) \/ Quit(p) \/ Crash(p) \/ RemoveStaleOld(p)
      PROVE  LiveRuns'
  BY <1>2 DEF Launch, Quit, Crash, RemoveStaleOld
<1>3. ASSUME NEW p \in Procs, RequestFails(p) \/ FetchIndex(p) \/ FetchSums(p) \/ FetchArchive(p)
      PROVE  LiveRuns'
  BY <1>3 DEF RequestFails, GetBytesFails, FetchIndex, FetchSums, FetchArchive
<1>4. ASSUME NEW p \in Procs, Unpack(p) \/ Stage(p) \/ Copy(p) \/ Chmod(p) \/ Rename(p)
      PROVE  LiveRuns'
  BY <1>4 DEF Unpack, Stage, Copy, Chmod, Rename, Unstage
<1>5. ASSUME NEW p \in Procs, ClearOld(p) \/ MoveAway(p) \/ MoveIn(p) \/ Restore(p) \/ CleanUp(p)
      PROVE  LiveRuns'
  BY <1>5 DEF ClearOld, MoveAway, MoveIn, Restore, CleanUp, Unstage
<1>6. QED
  BY <1>1, <1>2, <1>3, <1>4, <1>5 DEF Next, Step

LEMMA FoundStep ==
    ASSUME pc \in [Procs -> Places], FileTypeOK, FetchTypeOK, LiveRuns, Found, [Next]_vars
    PROVE  Found'
<1> USE DEF Found, FetchTypeOK, Ended, Swapping, Staging, Goto, End
<1>1. CASE Publish \/ UNCHANGED vars
  BY <1>1 DEF Publish, vars
<1>2. ASSUME NEW p \in Procs, Launch(p) \/ Quit(p) \/ Crash(p) \/ RemoveStaleOld(p)
      PROVE  Found'
  BY <1>2 DEF Launch, Quit, Crash, RemoveStaleOld
<1>3. ASSUME NEW p \in Procs, RequestFails(p)
      PROVE  Found'
  BY <1>3 DEF RequestFails, GetBytesFails
<1>4. ASSUME NEW p \in Procs, FetchIndex(p)
      PROVE  Found'
  <2>1. image[p] \in Files
    BY <1>4 DEF FetchIndex, LiveRuns, FileTypeOK
  <2>2. image[p].release \in 1..MaxRelease /\ MaxRelease \in Nat
    BY <2>1, FileFacts, UpgradeAssumption
  <2>3. latest > image[p].release => latest > 1
    BY <2>2
  <2>4. QED
    BY <1>4, <2>3 DEF FetchIndex
<1>5. ASSUME NEW p \in Procs, FetchSums(p) \/ FetchArchive(p)
      PROVE  Found'
  BY <1>5 DEF FetchSums, FetchArchive
<1>6. ASSUME NEW p \in Procs, Unpack(p) \/ Stage(p) \/ Copy(p) \/ Chmod(p) \/ Rename(p)
      PROVE  Found'
  BY <1>6 DEF Unpack, Stage, Copy, Chmod, Rename, Unstage
<1>7. ASSUME NEW p \in Procs, ClearOld(p) \/ MoveAway(p) \/ MoveIn(p) \/ Restore(p) \/ CleanUp(p)
      PROVE  Found'
  BY <1>7 DEF ClearOld, MoveAway, MoveIn, Restore, CleanUp, Unstage
<1>8. QED
  BY <1>1, <1>2, <1>3, <1>4, <1>5, <1>6, <1>7 DEF Next, Step

LEMMA StagedStep ==
    ASSUME pc \in [Procs -> Places], FileTypeOK, FetchTypeOK, LiveRuns, StagedIsOwn, [Next]_vars
    PROVE  StagedIsOwn'
<1> USE DEF StagedIsOwn, FileTypeOK, FetchTypeOK, Ended, Swapping, Staging, Unstaged, Goto, End
<1>0. \A p \in Procs, c \in {"whole", "part"} :
          /\ File(p, tag[p], c) # Nil /\ File(p, tag[p], c).writer = p
          /\ File(p, tag[p], c).release = tag[p] /\ File(p, tag[p], c).content = c
  BY FileFacts, WriterFacts
<1>1. CASE Publish \/ UNCHANGED vars
  BY <1>1 DEF Publish, vars
<1>2. ASSUME NEW p \in Procs, Launch(p) \/ Quit(p) \/ Crash(p) \/ RemoveStaleOld(p)
      PROVE  StagedIsOwn'
  BY <1>2 DEF Launch, Quit, Crash, RemoveStaleOld
<1>3. ASSUME NEW p \in Procs, RequestFails(p) \/ FetchIndex(p) \/ FetchSums(p) \/ FetchArchive(p)
      PROVE  StagedIsOwn'
  BY <1>3 DEF RequestFails, GetBytesFails, FetchIndex, FetchSums, FetchArchive
<1>4. ASSUME NEW p \in Procs, Unpack(p) \/ Stage(p)
      PROVE  StagedIsOwn'
  BY <1>0, <1>4 DEF Unpack, Stage
<1>5. ASSUME NEW p \in Procs, Copy(p)
      PROVE  StagedIsOwn'
  BY <1>0, <1>5 DEF Copy
<1>6. ASSUME NEW p \in Procs, Chmod(p) \/ Rename(p)
      PROVE  StagedIsOwn'
  BY <1>6 DEF Chmod, Rename, Unstage
<1>7. ASSUME NEW p \in Procs, ClearOld(p) \/ MoveAway(p) \/ MoveIn(p) \/ Restore(p) \/ CleanUp(p)
      PROVE  StagedIsOwn'
  BY <1>7 DEF ClearOld, MoveAway, MoveIn, Restore, CleanUp, Unstage
<1>8. QED
  BY <1>1, <1>2, <1>3, <1>4, <1>5, <1>6, <1>7 DEF Next, Step

----------------------------------------------------------------------------
(* The installed files. *)

\* On Windows a file that runs neither goes nor is overwritten.
LEMMA ImagesStep ==
    ASSUME pc \in [Procs -> Places], FileTypeOK, StepsOfPlatform, ImagesInstalled, [Next]_vars
    PROVE  ImagesInstalled'
<1> USE DEF ImagesInstalled, FileTypeOK, StepsOfPlatform, UnixSteps, WindowsSteps, Swapping,
            Goto, End, Locked
<1>1. CASE Publish \/ UNCHANGED vars
  BY <1>1 DEF Publish, vars
<1>2. ASSUME NEW p \in Procs, Launch(p) \/ Quit(p) \/ Crash(p)
      PROVE  ImagesInstalled'
  BY <1>2 DEF Launch, Quit, Crash
<1>3. ASSUME NEW p \in Procs, RemoveStaleOld(p) \/ ClearOld(p) \/ CleanUp(p)
      PROVE  ImagesInstalled'
  BY <1>3 DEF RemoveStaleOld, ClearOld, CleanUp, TryRemoveOld
<1>4. ASSUME NEW p \in Procs, RequestFails(p) \/ FetchIndex(p) \/ FetchSums(p) \/ FetchArchive(p)
      PROVE  ImagesInstalled'
  BY <1>4 DEF RequestFails, GetBytesFails, FetchIndex, FetchSums, FetchArchive
<1>5. ASSUME NEW p \in Procs, Unpack(p) \/ Stage(p) \/ Copy(p) \/ Chmod(p) \/ Rename(p)
      PROVE  ImagesInstalled'
  BY <1>5 DEF Unpack, Stage, Copy, Chmod, Rename, Unstage
<1>6. ASSUME NEW p \in Procs, MoveAway(p)
      PROVE  ImagesInstalled'
  BY <1>6 DEF MoveAway, Unstage
<1>7. ASSUME NEW p \in Procs, MoveIn(p)
      PROVE  ImagesInstalled'
  BY <1>7 DEF MoveIn
<1>8. ASSUME NEW p \in Procs, Restore(p)
      PROVE  ImagesInstalled'
  BY <1>8 DEF Restore, Unstage
<1>9. QED
  BY <1>1, <1>2, <1>3, <1>4, <1>5, <1>6, <1>7, <1>8 DEF Next, Step

\* While the installed name is missing, all that runs holds the backup.
LEMMA GapStep ==
    ASSUME pc \in [Procs -> Places], FileTypeOK, FetchTypeOK, StepsOfPlatform, LiveRuns,
           ImagesInstalled, StagedIsOwn, Installed(exe), GapHasBackup, [Next]_vars
    PROVE  GapHasBackup'
<1> USE DEF GapHasBackup
<1>0. ASSUME NEW p \in Procs, pc[p] \notin Ended \cup {"off"}, exe = Nil, TryRemoveOld
      PROVE  old' = old
  <2>1. platform = "windows"
    BY <1>0, UpgradeAssumption DEF StepsOfPlatform, FetchTypeOK
  <2>2. image[p] = old /\ old # Nil
    BY <1>0, <2>1 DEF LiveRuns, ImagesInstalled
  <2>3. QED
    BY <1>0, <2>1, <2>2 DEF TryRemoveOld, Locked
<1>1. CASE Publish \/ UNCHANGED vars
  BY <1>1 DEF Publish, vars
<1>2. ASSUME NEW p \in Procs, Launch(p) \/ Quit(p) \/ Crash(p)
      PROVE  GapHasBackup'
  BY <1>2 DEF Launch, Quit, Crash
<1>3. ASSUME NEW p \in Procs, RemoveStaleOld(p) \/ ClearOld(p) \/ CleanUp(p)
      PROVE  GapHasBackup'
  BY <1>0, <1>3 DEF RemoveStaleOld, ClearOld, CleanUp, Ended, StepsOfPlatform
<1>4. ASSUME NEW p \in Procs, RequestFails(p) \/ FetchIndex(p) \/ FetchSums(p) \/ FetchArchive(p)
      PROVE  GapHasBackup'
  BY <1>4 DEF RequestFails, FetchIndex, FetchSums, FetchArchive
<1>5. ASSUME NEW p \in Procs, Unpack(p) \/ Stage(p) \/ Copy(p) \/ Chmod(p)
      PROVE  GapHasBackup'
  BY <1>5 DEF Unpack, Stage, Copy, Chmod, Unstage
<1>6. ASSUME NEW p \in Procs, Rename(p)
      PROVE  GapHasBackup'
  BY <1>6 DEF Rename, StagedIsOwn, Staging
<1>7. ASSUME NEW p \in Procs, MoveAway(p)
      PROVE  GapHasBackup'
  BY <1>7 DEF MoveAway, Installed
<1>8. ASSUME NEW p \in Procs, MoveIn(p)
      PROVE  GapHasBackup'
  BY <1>8 DEF MoveIn, StagedIsOwn, Staging
<1>9. ASSUME NEW p \in Procs, Restore(p)
      PROVE  GapHasBackup'
  BY <1>9 DEF Restore
<1>10. QED
  BY <1>1, <1>2, <1>3, <1>4, <1>5, <1>6, <1>7, <1>8, <1>9 DEF Next, Step

\* A file comes under an installed name by Rename or MoveIn only, from the run
\* that staged it; from then on that run fetches nothing any more.
LEMMA InstalledStep ==
    ASSUME pc \in [Procs -> Places], FileTypeOK, FetchTypeOK, Found, StagedIsOwn,
           Installed(exe), Installed(old), [Next]_vars
    PROVE  Installed(exe)' /\ Installed(old)'
<1> USE DEF Installed, FileTypeOK, FetchTypeOK, Ended, Swapping, Goto, End
<1>1. CASE Publish \/ UNCHANGED vars
  BY <1>1 DEF Publish, vars
<1>2. ASSUME NEW p \in Procs, Launch(p) \/ Quit(p) \/ Crash(p)
      PROVE  Installed(exe)' /\ Installed(old)'
  BY <1>2 DEF Launch, Quit, Crash
<1>3. ASSUME NEW p \in Procs, RemoveStaleOld(p) \/ ClearOld(p) \/ CleanUp(p)
      PROVE  Installed(exe)' /\ Installed(old)'
  BY <1>3 DEF RemoveStaleOld, ClearOld, CleanUp, TryRemoveOld
<1>4. ASSUME NEW p \in Procs, RequestFails(p)
      PROVE  Installed(exe)' /\ Installed(old)'
  BY <1>4 DEF RequestFails, GetBytesFails
<1>5. ASSUME NEW p \in Procs, FetchIndex(p) \/ FetchSums(p) \/ FetchArchive(p)
      PROVE  Installed(exe)' /\ Installed(old)'
  BY <1>5 DEF FetchIndex, FetchSums, FetchArchive
<1>6. ASSUME NEW p \in Procs, Unpack(p) \/ Stage(p) \/ Copy(p) \/ Chmod(p)
      PROVE  Installed(exe)' /\ Installed(old)'
  BY <1>6 DEF Unpack, Stage, Copy, Chmod, Unstage
<1>7. ASSUME NEW p \in Procs, Rename(p) \/ MoveIn(p)
      PROVE  Installed(exe)' /\ Installed(old)'
  <2>1. /\ staged[p].writer = p /\ staged[p].release = tag[p] /\ staged[p].content = "whole"
        /\ expected[p] = "match" /\ tag[p] > 1
    BY <1>7 DEF Rename, MoveIn, Found, StagedIsOwn, Staging
  <2>2. QED
    BY <1>7, <2>1 DEF Rename, MoveIn, Unstage
<1>8. ASSUME NEW p \in Procs, MoveAway(p) \/ Restore(p)
      PROVE  Installed(exe)' /\ Installed(old)'
  BY <1>8 DEF MoveAway, Restore, Unstage
<1>9. QED
  BY <1>1, <1>2, <1>3, <1>4, <1>5, <1>6, <1>7, <1>8 DEF Next, Step

----------------------------------------------------------------------------
LEMMA NextIInv == IInv /\ [Next]_vars => IInv'
  BY PlaceStep, FileTypeStep, FetchTypeStep, PlatformStep, LiveStep, ImagesStep, FoundStep,
     StagedStep, InstalledStep, GapStep
  DEF IInv, TypeOK

\* IInv is an inductive invariant.
THEOREM UpgradeInvariance == Spec => []IInv
  BY InitIInv, NextIInv, PTL DEF Spec

(* The theorems. *)

\* Every variable of the upgrade keeps its type.
THEOREM UpgradeTypes == Spec => []TypeOK
<1>1. IInv => TypeOK
  BY DEF IInv
<1>2. QED
  BY UpgradeInvariance, <1>1, PTL

\* replace_binary_at never leaves a partial binary under the installed name,
\* and on Unix never none.
THEOREM NeverHalfDone == Spec => []ExeIsWhole
<1>1. IInv => ExeIsWhole
  BY DEF IInv, Installed, StepsOfPlatform, ExeIsWhole
<1>2. QED
  BY UpgradeInvariance, <1>1, PTL

\* While Windows has no binary under the installed name, a whole one is under
\* the name of the backup: neither remove_stale_old of another run nor another
\* upgrade takes it away.
THEOREM BackupStays == Spec => []GapHasBackup
<1>1. IInv => GapHasBackup
  BY DEF IInv
<1>2. QED
  BY UpgradeInvariance, <1>1, PTL

\* run() verifies the checksum of what it installs.
THEOREM InstalledIsVerified == Spec => []OnlyVerified
<1>1. IInv => OnlyVerified
  BY DEF IInv, Installed, OnlyVerified
<1>2. QED
  BY UpgradeInvariance, <1>1, PTL

\* run() reports an error only when its file is not installed, and success only
\* when it has been.
THEOREM VerdictsHold == Spec => []VerdictIsTrue
<1>1. IInv => VerdictIsTrue
  BY DEF IInv, TypeOK, FileTypeOK, Installed, StagedIsOwn, Unstaged, VerdictIsTrue
<1>2. QED
  BY UpgradeInvariance, <1>1, PTL

-----------------------------------------------------------------------------
(* The bookmarks and the history. *)

\* A session's copy agrees with what is promised, but for the names it has not
\* read and the one it is saving.
CopiesAgree ==
    \A s \in Procs : where[s] \in {"idle", "cut"} =>
        \A n \in Names \ unread[s] :
            mem[s][n] = promised[n] \/ (where[s] = "cut" /\ n = op[s].name)

\* What a session saves is the change it has made to its copy.
SavesItsChange ==
    \A s \in Procs : where[s] = "cut" =>
        op[s].name \in Names /\ mem[s][op[s].name] = op[s].text

\* A save that nothing has come between finds the file as it truncated it.
OneSave ==
    /\ saved = "alone" => /\ parse = "toml" /\ file = Shared!NoBookmarks
                          /\ \A r, s \in Procs : where[r] = "cut" /\ where[s] = "cut" => r = s
    /\ saved = "whole" => \A s \in Procs : where[s] # "cut"

SharedInv == /\ Shared!TypeOK /\ CopiesAgree /\ SavesItsChange
             /\ OneSave /\ Shared!NoBookmarkLost

-----------------------------------------------------------------------------
\* What fs::write leaves for a moment, and the file of a session that could
\* not read any, is a map without bookmarks.
LEMMA NoBookmarksIsMap == Shared!NoBookmarks \in Shared!Maps
BY DEF Shared!NoBookmarks, Shared!Maps

LEMMA LoadIsMap == Shared!TypeOK => Shared!Load \in Shared!Maps
BY NoBookmarksIsMap DEF Shared!TypeOK, Shared!Load

LEMMA NoOpIsOp == Shared!NoOp \in [name : Names \cup {NoText}, text : Texts \cup {NoText}]
BY DEF Shared!NoOp

-----------------------------------------------------------------------------
\* The types of the state hold: no session ever has anything but a map.
LEMMA SaveTypes ==
    ASSUME Shared!TypeOK, NEW s \in Procs, NEW n \in Names, NEW t \in Texts \cup {NoText},
           mem' = [mem EXCEPT ![s][n] = t],
           Shared!Truncate(s, n, t) \/ Shared!SaveFails(s, n)
    PROVE  Shared!TypeOK'
<1>1. mem' \in [Procs -> Shared!Maps]
  BY DEF Shared!TypeOK, Shared!Maps
<1>2. CASE Shared!Truncate(s, n, t)
  BY <1>1, <1>2, NoBookmarksIsMap
  DEF Shared!TypeOK, Shared!Truncate, Shared!SaveBegins, Shared!Goto, Shared!historyVars
<1>3. CASE Shared!SaveFails(s, n)
  BY <1>1, <1>3 DEF Shared!TypeOK, Shared!SaveFails, Shared!Untold, Shared!historyVars
<1>4. QED
  BY <1>2, <1>3

LEMMA TypeStep ==
    Shared!TypeOK /\ SavesItsChange /\ [Shared!Next]_Shared!vars => Shared!TypeOK'
<1> SUFFICES ASSUME Shared!TypeOK, SavesItsChange, [Shared!Next]_Shared!vars
             PROVE  Shared!TypeOK'
  OBVIOUS
<1> USE NoBookmarksIsMap, NoOpIsOp
<1>1. ASSUME NEW s \in Procs, Shared!Start(s) PROVE Shared!TypeOK'
  BY <1>1, LoadIsMap DEF Shared!Start, Shared!TypeOK, Shared!Goto
<1>2. ASSUME NEW s \in Procs, Shared!Bookmark(s) PROVE Shared!TypeOK'
  BY <1>2, SaveTypes DEF Shared!Bookmark
<1>3. ASSUME NEW s \in Procs, Shared!DelBookmark(s) PROVE Shared!TypeOK'
  BY <1>3, SaveTypes DEF Shared!DelBookmark
<1>4. ASSUME NEW s \in Procs, Shared!Write(s) PROVE Shared!TypeOK'
  <2>1. promised' \in Shared!Maps
    BY <1>4 DEF Shared!Write, Shared!TypeOK, Shared!Maps
  <2>2. file' \in Shared!Maps /\ parse' \in {"toml", "damaged"}
    BY <1>4 DEF Shared!Write, Shared!TypeOK, Shared!Maps
  <2>3. op[s].name \in Names
    BY <1>4 DEF Shared!Write, SavesItsChange
  <2>4. unread' \in [Procs -> SUBSET Names]
    BY <1>4, <2>3 DEF Shared!Write, Shared!TypeOK
  <2>5. saved' \in {"whole", "alone", "broken"} /\ missed' \in SUBSET Names
    BY <1>4, <2>4 DEF Shared!Write, Shared!TypeOK
  <2>6. QED
    BY <1>4, <2>1, <2>2, <2>4, <2>5
    DEF Shared!Write, Shared!TypeOK, Shared!Goto, Shared!historyVars
<1>5. ASSUME NEW s \in Procs, Shared!WriteFails(s) PROVE Shared!TypeOK'
  <2>1. op[s].name \in Names
    BY <1>5 DEF Shared!WriteFails, SavesItsChange
  <2>2. file' \in Shared!Maps /\ parse' \in {"toml", "damaged"}
    BY <1>5 DEF Shared!WriteFails, Shared!TypeOK, Shared!Maps
  <2>3. QED
    BY <1>5, <2>1, <2>2
    DEF Shared!WriteFails, Shared!Untold, Shared!TypeOK, Shared!Goto, Shared!historyVars
<1>6. ASSUME NEW s \in Procs, Shared!TypeLine(s) PROVE Shared!TypeOK'
  BY <1>6 DEF Shared!TypeLine, Shared!TypeOK, Shared!bookmarkVars
<1>7. ASSUME NEW s \in Procs, Shared!Quit(s) PROVE Shared!TypeOK'
  BY <1>7 DEF Shared!Quit, Shared!TypeOK, Shared!bookmarkVars, Shared!Goto
<1>8. ASSUME NEW s \in Procs, Shared!Crash(s) PROVE Shared!TypeOK'
  BY <1>8 DEF Shared!Crash, Shared!TypeOK, Shared!Goto, Shared!historyVars
<1>9. CASE UNCHANGED Shared!vars
  BY <1>9 DEF Shared!TypeOK, Shared!vars, Shared!bookmarkVars, Shared!historyVars
<1>10. QED
  BY <1>1, <1>2, <1>3, <1>4, <1>5, <1>6, <1>7, <1>8, <1>9 DEF Shared!Next

-----------------------------------------------------------------------------
(* Each step preserves the invariant.                                        *)

Rest == CopiesAgree /\ SavesItsChange /\ OneSave /\ Shared!NoBookmarkLost

\* \bookmark and \delbookmark change one name of one copy, and begin to save it
\* or leave it unsaid.
LEMMA SaveKeeps ==
    ASSUME Shared!TypeOK, Rest, NEW s \in Procs, NEW n \in Names,
           NEW t \in Texts \cup {NoText},
           where[s] = "idle", mem' = [mem EXCEPT ![s][n] = t],
           Shared!Truncate(s, n, t) \/ Shared!SaveFails(s, n)
    PROVE  Rest'
<1>1. mem'[s] = [mem[s] EXCEPT ![n] = t] /\ \A r \in Procs \ {s} : mem'[r] = mem[r]
  BY DEF Shared!TypeOK
<1>2. /\ mem'[s][n] = t
      /\ \A m \in Names \ {n} : mem'[s][m] = mem[s][m]
  BY <1>1 DEF Shared!TypeOK, Shared!Maps
<1>3. CASE Shared!Truncate(s, n, t)
  <2>1. /\ where' = [where EXCEPT ![s] = "cut"] /\ op' = [op EXCEPT ![s] = [name |-> n, text |-> t]]
        /\ parse' = "toml" /\ file' = Shared!NoBookmarks
        /\ UNCHANGED <<promised, unread, missed>>
        /\ saved' = IF \A r \in Procs : where[r] # "cut" THEN "alone" ELSE "broken"
    BY <1>3 DEF Shared!Truncate, Shared!SaveBegins, Shared!Goto
  <2>2. /\ where'[s] = "cut" /\ op'[s].name = n /\ op'[s].text = t
        /\ \A r \in Procs \ {s} : where'[r] = where[r] /\ op'[r] = op[r]
    BY <2>1 DEF Shared!TypeOK
  <2>3. CopiesAgree'
    BY <1>1, <1>2, <2>1, <2>2 DEF CopiesAgree, Rest
  <2>4. SavesItsChange'
    BY <1>1, <1>2, <2>2 DEF SavesItsChange, Rest
  <2>5. OneSave'
    BY <2>1, <2>2 DEF OneSave, Shared!NoBookmarks
  <2>6. Shared!NoBookmarkLost'
    BY <2>1 DEF Shared!NoBookmarkLost
  <2>7. QED
    BY <2>3, <2>4, <2>5, <2>6 DEF Rest
<1>4. CASE Shared!SaveFails(s, n)
  <2>1. /\ unread' = [unread EXCEPT ![s] = @ \cup {n}]
        /\ UNCHANGED <<where, op, parse, file, promised, saved, missed>>
    BY <1>4 DEF Shared!SaveFails, Shared!Untold
  <2>2. /\ unread'[s] = unread[s] \cup {n} /\ \A r \in Procs \ {s} : unread'[r] = unread[r]
    BY <2>1 DEF Shared!TypeOK
  <2>3. CopiesAgree'
    BY <1>1, <1>2, <2>1, <2>2 DEF CopiesAgree, Rest
  <2>4. SavesItsChange' /\ OneSave' /\ Shared!NoBookmarkLost'
    BY <1>1, <2>1 DEF SavesItsChange, OneSave, Shared!NoBookmarkLost, Shared!NoBookmarks, Rest
  <2>5. QED
    BY <2>3, <2>4 DEF Rest
<1>5. QED
  BY <1>3, <1>4

\* A session that starts reads what the last whole save has left.
LEMMA StartKeeps ==
    ASSUME Shared!TypeOK, Rest, NEW s \in Procs, Shared!Start(s)
    PROVE  Rest'
<1>1. /\ where[s] = "new" /\ where' = [where EXCEPT ![s] = "idle"]
      /\ mem' = [mem EXCEPT ![s] = Shared!Load]
      /\ unread' = [unread EXCEPT ![s] = IF saved = "whole" THEN missed ELSE Names]
      /\ UNCHANGED <<op, parse, file, promised, saved, missed>>
  BY DEF Shared!Start, Shared!Goto
<1>2. /\ where'[s] = "idle" /\ mem'[s] = Shared!Load
      /\ unread'[s] = IF saved = "whole" THEN missed ELSE Names
      /\ \A r \in Procs \ {s} : where'[r] = where[r] /\ mem'[r] = mem[r] /\ unread'[r] = unread[r]
  BY <1>1 DEF Shared!TypeOK
<1>3. \A n \in Names \ unread'[s] : mem'[s][n] = promised[n]
  BY <1>2 DEF Shared!Load, Shared!NoBookmarkLost, Rest
<1>4. CopiesAgree'
  BY <1>1, <1>2, <1>3 DEF CopiesAgree, Rest
<1>5. SavesItsChange' /\ OneSave' /\ Shared!NoBookmarkLost'
  BY <1>1, <1>2 DEF SavesItsChange, OneSave, Shared!NoBookmarkLost, Shared!NoBookmarks, Rest
<1>6. QED
  BY <1>4, <1>5 DEF Rest

\* A save that was alone puts the session's own copy into the file.
LEMMA WriteKeeps ==
    ASSUME Shared!TypeOK, Rest, NEW s \in Procs, Shared!Write(s)
    PROVE  Rest'
<1> DEFINE name == op[s].name
<1>1. /\ where[s] = "cut" /\ where' = [where EXCEPT ![s] = "idle"]
      /\ op' = [op EXCEPT ![s] = Shared!NoOp] /\ mem' = mem
      /\ promised' = [promised EXCEPT ![name] = op[s].text]
      /\ unread' = [r \in Procs |-> IF r = s THEN unread[r] \ {name} ELSE unread[r] \cup {name}]
  BY DEF Shared!Write, Shared!Goto
<1>2. name \in Names /\ mem[s][name] = op[s].text
  BY <1>1 DEF SavesItsChange, Rest
<1>3. promised'[name] = mem[s][name] /\ \A n \in Names \ {name} : promised'[n] = promised[n]
  BY <1>1, <1>2 DEF Shared!TypeOK, Shared!Maps
<1>4. /\ where'[s] = "idle" /\ \A r \in Procs \ {s} : where'[r] = where[r] /\ op'[r] = op[r]
      /\ unread'[s] = unread[s] \ {name}
      /\ \A r \in Procs \ {s} : unread'[r] = unread[r] \cup {name}
  BY <1>1 DEF Shared!TypeOK
<1>5. \A n \in Names \ unread'[s] : mem[s][n] = promised'[n]
  BY <1>1, <1>3, <1>4 DEF CopiesAgree, Rest
<1>6. CopiesAgree'
  <2>1. ASSUME NEW r \in Procs \ {s}, where[r] \in {"idle", "cut"}, NEW n \in Names \ unread'[r]
        PROVE  mem[r][n] = promised'[n] \/ (where[r] = "cut" /\ n = op[r].name)
    BY <1>3, <1>4, <2>1 DEF CopiesAgree, Rest
  <2>2. QED
    BY <1>1, <1>4, <1>5, <2>1 DEF CopiesAgree
<1>7. SavesItsChange'
  BY <1>1, <1>4 DEF SavesItsChange, Rest
<1>8. CASE saved = "alone"
  <2>1. saved' = "whole" /\ missed' = unread'[s]
    BY <1>8 DEF Shared!Write
  <2>2. \A r \in Procs : where[r] = "cut" => r = s
    BY <1>1, <1>8 DEF OneSave, Rest
  <2>3. \A r \in Procs : where'[r] # "cut"
    BY <1>4, <2>2
  <2>4. parse = "toml" /\ file = Shared!NoBookmarks
    BY <1>8 DEF OneSave, Rest
  <2>5. \A n \in Names : file[n] = NoText
    BY <2>4 DEF Shared!NoBookmarks
  <2>6. parse' = "toml" /\ \E tail \in Shared!Tails(s) :
            file' = [n \in Names |-> IF n \in tail THEN file[n] ELSE mem[s][n]]
    <3>1. ~(parse = "damaged" \/ file # Shared!NoBookmarks)
      BY <2>4
    <3>2. QED
      BY <3>1 DEF Shared!Write
  <2>7. \A n \in Names : file'[n] = mem[s][n]
    BY <2>5, <2>6 DEF Shared!Tails
  <2>8. QED
    BY <1>5, <1>6, <1>7, <2>1, <2>3, <2>6, <2>7 DEF OneSave, Shared!NoBookmarkLost, Rest
<1>9. CASE saved # "alone"
  <2>1. saved = "broken" /\ saved' = saved
    BY <1>1, <1>9 DEF Shared!Write, OneSave, Rest, Shared!TypeOK
  <2>2. QED
    BY <1>6, <1>7, <2>1 DEF OneSave, Shared!NoBookmarkLost, Rest
<1>10. QED
  BY <1>8, <1>9

\* A write that fails leaves the change of the copy unsaid.
LEMMA WriteFailsKeeps ==
    ASSUME Shared!TypeOK, Rest, NEW s \in Procs, Shared!WriteFails(s)
    PROVE  Rest'
<1>1. /\ where[s] = "cut" /\ where' = [where EXCEPT ![s] = "idle"]
      /\ op' = [op EXCEPT ![s] = Shared!NoOp]
      /\ unread' = [unread EXCEPT ![s] = @ \cup {op[s].name}]
      /\ saved' = "broken" /\ UNCHANGED <<mem, promised>>
  BY DEF Shared!WriteFails, Shared!Goto, Shared!Untold
<1>2. /\ where'[s] = "idle" /\ \A r \in Procs \ {s} : where'[r] = where[r] /\ op'[r] = op[r]
      /\ unread'[s] = unread[s] \cup {op[s].name}
      /\ \A r \in Procs \ {s} : unread'[r] = unread[r]
  BY <1>1 DEF Shared!TypeOK
<1>3. CopiesAgree'
  BY <1>1, <1>2 DEF CopiesAgree, Rest
<1>4. SavesItsChange' /\ OneSave' /\ Shared!NoBookmarkLost'
  BY <1>1, <1>2 DEF SavesItsChange, OneSave, Shared!NoBookmarkLost, Rest
<1>5. QED
  BY <1>3, <1>4 DEF Rest

\* A session that ends leaves the file as it is.
LEMMA EndKeeps ==
    ASSUME Shared!TypeOK, Rest, NEW s \in Procs, Shared!Quit(s) \/ Shared!Crash(s)
    PROVE  Rest'
<1>1. /\ where[s] \in {"idle", "cut"}
      /\ \E end \in {"gone", "dead"} : where' = [where EXCEPT ![s] = end]
      /\ UNCHANGED <<mem, parse, file, promised, unread, missed>>
      /\ saved' = IF where[s] = "cut" THEN "broken" ELSE saved
      /\ op' = op \/ op' = [op EXCEPT ![s] = Shared!NoOp]
  BY DEF Shared!Quit, Shared!Crash, Shared!Goto, Shared!bookmarkVars
<1>2. /\ where'[s] \in {"gone", "dead"}
      /\ \A r \in Procs \ {s} : where'[r] = where[r] /\ op'[r] = op[r]
  BY <1>1 DEF Shared!TypeOK
<1>3. CopiesAgree' /\ SavesItsChange'
  BY <1>1, <1>2 DEF CopiesAgree, SavesItsChange, Rest
<1>4. OneSave'
  BY <1>1, <1>2 DEF OneSave, Rest, Shared!NoBookmarks
<1>5. Shared!NoBookmarkLost'
  BY <1>1 DEF Shared!NoBookmarkLost, Rest
<1>6. QED
  BY <1>3, <1>4, <1>5 DEF Rest

LEMMA RestStep ==
    ASSUME SharedInv, [Shared!Next]_Shared!vars
    PROVE  Rest'
<1>0. Shared!TypeOK /\ Rest
  BY DEF SharedInv, Rest
<1>1. ASSUME NEW s \in Procs, Shared!Bookmark(s) PROVE Rest'
  BY <1>0, <1>1, SaveKeeps DEF Shared!Bookmark
<1>2. ASSUME NEW s \in Procs, Shared!DelBookmark(s) PROVE Rest'
  BY <1>0, <1>2, SaveKeeps DEF Shared!DelBookmark
<1>3. CASE UNCHANGED <<where, Shared!bookmarkVars>>
  BY <1>0, <1>3 DEF Shared!bookmarkVars, Rest, CopiesAgree, SavesItsChange, OneSave,
                    Shared!NoBookmarkLost, Shared!NoBookmarks
<1>4. ASSUME NEW s \in Procs, Shared!TypeLine(s) PROVE Rest'
  BY <1>3, <1>4 DEF Shared!TypeLine
<1>5. CASE UNCHANGED Shared!vars
  BY <1>3, <1>5 DEF Shared!vars
<1>6. QED
  BY <1>0, <1>1, <1>2, <1>4, <1>5, StartKeeps, WriteKeeps, WriteFailsKeeps, EndKeeps
  DEF Shared!Next

-----------------------------------------------------------------------------
LEMMA InitShared == Shared!Init => SharedInv
<1> SUFFICES ASSUME Shared!Init PROVE SharedInv
  OBVIOUS
<1>1. Shared!TypeOK
  BY NoOpIsOp, NoBookmarksIsMap DEF Shared!Init, Shared!TypeOK
<1>2. CopiesAgree /\ SavesItsChange /\ OneSave /\ Shared!NoBookmarkLost
  BY DEF Shared!Init, CopiesAgree, SavesItsChange, OneSave, Shared!NoBookmarkLost
<1>3. QED
  BY <1>1, <1>2 DEF SharedInv

\* The inductive invariant holds: every copy agrees with the promises its
\* session has read, and a save that is alone carries them all into the file.
THEOREM SharedInvariance == Shared!Spec => []SharedInv
<1>1. SharedInv /\ [Shared!Next]_Shared!vars => SharedInv'
  BY TypeStep, RestStep DEF SharedInv, Rest
<1>2. QED
  BY InitShared, <1>1, PTL DEF Shared!Spec

\* What the bookmark file lacks of what was promised, the session that saved last
\* had not read, or a save was cut short or overlapped and none followed alone.
THEOREM BookmarksKept == Shared!Spec => [](Shared!TypeOK /\ Shared!NoBookmarkLost)
<1>1. SharedInv => Shared!TypeOK /\ Shared!NoBookmarkLost
  BY DEF SharedInv
<1>2. QED
  BY SharedInvariance, <1>1, PTL

-----------------------------------------------------------------------------
\* The editor of a running session holds every line it read at the start.
EditorKeeps == \A s \in Procs : where[s] \in {"idle", "cut"} => seen[s] \subseteq hist[s]

LEMMA EditorStep == Shared!TypeOK /\ EditorKeeps /\ [Shared!Next]_Shared!vars => EditorKeeps'
<1> SUFFICES ASSUME Shared!TypeOK, EditorKeeps, [Shared!Next]_Shared!vars,
                    NEW r \in Procs, where'[r] \in {"idle", "cut"}
             PROVE  seen'[r] \subseteq hist'[r]
  BY DEF EditorKeeps
<1>1. ASSUME NEW s \in Procs, Shared!Start(s) PROVE seen'[r] \subseteq hist'[r]
  <2>1. where' = [where EXCEPT ![s] = "idle"]
    BY <1>1 DEF Shared!Start, Shared!Goto
  <2>2. hist' = [hist EXCEPT ![s] = hist_file] /\ seen' = [seen EXCEPT ![s] = hist_file]
    BY <1>1 DEF Shared!Start
  <2>3. QED
    BY <2>1, <2>2 DEF Shared!TypeOK, EditorKeeps
<1>2. ASSUME NEW s \in Procs, Shared!Bookmark(s) PROVE seen'[r] \subseteq hist'[r]
  BY <1>2 DEF Shared!Bookmark, Shared!Truncate, Shared!SaveBegins, Shared!SaveFails, Shared!Goto,
               Shared!historyVars, Shared!TypeOK, EditorKeeps
<1>3. ASSUME NEW s \in Procs, Shared!DelBookmark(s) PROVE seen'[r] \subseteq hist'[r]
  BY <1>3 DEF Shared!DelBookmark, Shared!Truncate, Shared!SaveBegins, Shared!SaveFails, Shared!Goto,
               Shared!historyVars, Shared!TypeOK, EditorKeeps
<1>4. ASSUME NEW s \in Procs, Shared!Write(s) \/ Shared!WriteFails(s)
      PROVE  seen'[r] \subseteq hist'[r]
  BY <1>4 DEF Shared!Write, Shared!WriteFails, Shared!Goto, Shared!historyVars, Shared!TypeOK, EditorKeeps
<1>5. ASSUME NEW s \in Procs, Shared!TypeLine(s) PROVE seen'[r] \subseteq hist'[r]
  BY <1>5 DEF Shared!TypeLine, Shared!TypeOK, EditorKeeps
<1>6. ASSUME NEW s \in Procs, Shared!Quit(s) PROVE seen'[r] \subseteq hist'[r]
  BY <1>6 DEF Shared!Quit, Shared!Goto, Shared!TypeOK, EditorKeeps
<1>7. ASSUME NEW s \in Procs, Shared!Crash(s) PROVE seen'[r] \subseteq hist'[r]
  BY <1>7 DEF Shared!Crash, Shared!Goto, Shared!historyVars, Shared!TypeOK, EditorKeeps
<1>8. CASE UNCHANGED Shared!vars
  BY <1>8 DEF Shared!vars, Shared!historyVars, EditorKeeps
<1>9. QED
  BY <1>1, <1>2, <1>3, <1>4, <1>5, <1>6, <1>7, <1>8 DEF Shared!Next

\* Only \q and Ctrl-D end a session that was at its prompt and did not die.
LEMMA OnlyQuitEnds ==
    ASSUME Shared!TypeOK, [Shared!Next]_Shared!vars, NEW s \in Procs, where[s] = "idle", where'[s] = "gone"
    PROVE  Shared!Quit(s)
<1>1. ASSUME NEW r \in Procs, Shared!Start(r) PROVE FALSE
  BY <1>1 DEF Shared!Start, Shared!Goto, Shared!TypeOK
<1>2. ASSUME NEW r \in Procs, Shared!Bookmark(r) PROVE FALSE
  BY <1>2 DEF Shared!Bookmark, Shared!Truncate, Shared!SaveBegins, Shared!SaveFails, Shared!Goto, Shared!TypeOK
<1>3. ASSUME NEW r \in Procs, Shared!DelBookmark(r) PROVE FALSE
  BY <1>3 DEF Shared!DelBookmark, Shared!Truncate, Shared!SaveBegins, Shared!SaveFails, Shared!Goto, Shared!TypeOK
<1>4. ASSUME NEW r \in Procs, Shared!Write(r) \/ Shared!WriteFails(r) PROVE FALSE
  BY <1>4 DEF Shared!Write, Shared!WriteFails, Shared!Goto, Shared!TypeOK
<1>5. ASSUME NEW r \in Procs, Shared!TypeLine(r) PROVE FALSE
  BY <1>5 DEF Shared!TypeLine
<1>6. ASSUME NEW r \in Procs, Shared!Quit(r) PROVE Shared!Quit(s)
  <2>1. r = s
    BY <1>6 DEF Shared!Quit, Shared!Goto, Shared!TypeOK
  <2>2. QED
    BY <1>6, <2>1
<1>7. ASSUME NEW r \in Procs, Shared!Crash(r) PROVE FALSE
  BY <1>7 DEF Shared!Crash, Shared!Goto, Shared!TypeOK
<1>8. CASE UNCHANGED Shared!vars
  BY <1>8 DEF Shared!vars
<1>9. QED
  BY <1>1, <1>2, <1>3, <1>4, <1>5, <1>6, <1>7, <1>8 DEF Shared!Next

\* A session that ends after it typed something leaves its lines in the history,
\* and with them those of every session whose lines it found when it started.
THEOREM HistoryStays == Shared!Spec => Shared!HistoryKept
<1> DEFINE Leaving(s) == where[s] = "idle" /\ where'[s] = "gone"
           Kept(s) == /\ s \in hist[s] => s \in hist_file'
                      /\ hist_file \cap seen[s] \subseteq hist_file'
<1>1. Shared!Init => EditorKeeps
  BY DEF Shared!Init, EditorKeeps
<1>2. Shared!Spec => []EditorKeeps
  <2>1. SharedInv /\ EditorKeeps /\ [Shared!Next]_Shared!vars => EditorKeeps'
    BY EditorStep DEF SharedInv
  <2>2. QED
    BY SharedInvariance, <1>1, <2>1, PTL DEF Shared!Spec
<1>3. SharedInv /\ EditorKeeps /\ [Shared!Next]_Shared!vars => [\A s \in Procs : Leaving(s) => Kept(s)]_Shared!vars
  <2> SUFFICES ASSUME SharedInv, EditorKeeps, [Shared!Next]_Shared!vars, NEW s \in Procs, Leaving(s)
               PROVE  Kept(s)
    OBVIOUS
  <2>1. Shared!Quit(s)
    BY OnlyQuitEnds DEF SharedInv
  <2>2. hist_file' = IF s \in hist[s] THEN hist[s] ELSE hist_file
    BY <2>1 DEF Shared!Quit
  <2>3. seen[s] \subseteq hist[s]
    BY DEF EditorKeeps
  <2>4. QED
    BY <2>2, <2>3
<1>4. QED
  BY SharedInvariance, <1>2, <1>3, PTL DEF Shared!Spec, Shared!HistoryKept

-----------------------------------------------------------------------------
(* Both groups of files.                                                     *)

\* Each group of files behaves as its own module says: a step of the one leaves
\* the files of the other alone.
THEOREM FilesAreSeparate == FilesSpec => Spec /\ Shared!Spec
<1>1. FilesInit => Init /\ Shared!Init
  BY DEF FilesInit
<1>2. [BinaryStep \/ SharedStep]_<<turn, binaryVars, sharedVars>> =>
        [Next]_vars /\ [Shared!Next]_Shared!vars
  BY DEF BinaryStep, SharedStep, binaryVars, sharedVars, Shared!vars, Shared!bookmarkVars,
         Shared!historyVars
<1>3. QED
  BY <1>1, <1>2, PTL DEF FilesSpec, Spec, Shared!Spec

\* Next to runs of the upgrade, the bookmark file (bookmarks.rs) lacks only what
\* NoBookmarkLost names.
THEOREM NoBookmarkIsLost == FilesSpec => []NoBookmarkLost
<1>1. Shared!TypeOK /\ Shared!NoBookmarkLost => NoBookmarkLost
  BY DEF NoBookmarkLost
<1>2. QED
  BY FilesAreSeparate, BookmarksKept, <1>1, PTL

\* Next to runs of the upgrade, a session that ends leaves its lines in the
\* history (pgcli-repl/src/editor.rs) with those it found there.
THEOREM HistoryIsKept == FilesSpec => HistoryKept
  BY FilesAreSeparate, HistoryStays DEF HistoryKept
=============================================================================
