------------------------- MODULE ScriptRunnerProofs -------------------------
(***************************************************************************)
(* Theorems about scripts run with single_transaction, and about the       *)
(* conditionals of any script, for every bound on the length and the       *)
(* nesting of the script.                                                  *)
(***************************************************************************)
EXTENDS ScriptRunner, SequenceTheorems, TLAPS

\* A run with --single-transaction of a script whose statements neither open
\* nor close a transaction block of their own.
SingleTransaction ==
    /\ Wraps = {"single"}
    /\ Vocabulary \subseteq {"begin", "read", "write"}

USE DEF ifVars, scriptVars, dbVars, RequestPhases, BodyPhases

----------------------------------------------------------------------------
(* The server. *)

LEMMA NilFacts == Nil \notin Stmt /\ Nil # "ok" /\ Nil # "error"
  BY ScriptAssumption

LEMMA NoTxnFacts == NoTxn \in TxnState /\ NoTxn.block = "idle"
  BY DEF NoTxn, TxnState

\* What the runner of a single transaction asks of the server.
LEMMA RequestFacts ==
    ASSUME SingleTransaction, RunTypeOK, Waiting
    PROVE  \/ phase = "begin" /\ Request = "begin"
           \/ phase = "exec" /\ Request \in {"begin", "read", "write"}
           \/ phase \in {"commit", "rollback"} /\ Request = phase
  BY DEF SingleTransaction, RunTypeOK, Waiting, Request

\* How each of these moves the server.
LEMMA AfterFacts ==
    ASSUME NEW t \in TxnState
    PROVE  /\ \A s \in {"begin", "read", "write"} :
                  /\ AfterSuccess(t, s) \in TxnState
                  /\ t.block # "idle" => AfterSuccess(t, s).block = t.block
                  /\ AfterError(t, s) \in TxnState
                  /\ AfterError(t, s).block = (IF t.block = "idle" THEN "idle" ELSE "failed")
                  /\ t.block = "idle" => AfterError(t, s) = NoTxn
                  /\ Accepts(t, s) => t.block # "failed"
           /\ \A s \in {"commit", "rollback"} : /\ AfterSuccess(t, s) = NoTxn
                                                /\ AfterError(t, s) = NoTxn
  BY DEF AfterSuccess, AfterError, Accepts, TxnState, NoTxn, OpenTxn, EndsBlock, NeedsBlock

LEMMA BeginOpens == AfterSuccess(NoTxn, "begin").block = "open"
  BY DEF AfterSuccess, NoTxn, OpenTxn

----------------------------------------------------------------------------
(* RunInv is an invariant of single-transaction runs. *)

LEMMA InitRunInv == SingleTransaction /\ Init => RunInv
  BY NilFacts, NoTxnFacts
  DEF SingleTransaction, Init, RunInv, RunTypeOK, AnswersAreAwaited, BeginsFresh, InBlock,
      BodyInBlock, NothingDurable, FailedBlock, AllOrNothing

LEMMA AcceptsKeepsRunInv ==
    ASSUME SingleTransaction, RunInv, ServerAccepts
    PROVE  RunInv'
<1> USE DEF RunInv
<1>1. CASE phase = "begin"
  BY <1>1, RequestFacts, AfterFacts, BeginOpens, NoTxnFacts, NilFacts
  DEF ServerAccepts, Waiting, RunTypeOK, AnswersAreAwaited, BeginsFresh, InBlock,
      BodyInBlock, NothingDurable, FailedBlock, AllOrNothing
<1>2. CASE phase = "exec"
  BY <1>2, RequestFacts, AfterFacts, NilFacts
  DEF ServerAccepts, Waiting, RunTypeOK, AnswersAreAwaited, BeginsFresh, InBlock,
      BodyInBlock, NothingDurable, FailedBlock, AllOrNothing
<1>3. CASE phase \in {"commit", "rollback"}
  BY <1>3, RequestFacts, AfterFacts, NoTxnFacts, NilFacts
  DEF ServerAccepts, Waiting, RunTypeOK, AnswersAreAwaited, BeginsFresh, InBlock,
      BodyInBlock, NothingDurable, FailedBlock, AllOrNothing
<1>4. QED
  BY <1>1, <1>2, <1>3, RequestFacts DEF ServerAccepts

LEMMA RefusesKeepsRunInv ==
    ASSUME SingleTransaction, RunInv, ServerRefuses
    PROVE  RunInv'
<1> USE DEF RunInv
<1>1. CASE phase = "begin"
  BY <1>1, RequestFacts, AfterFacts, NoTxnFacts, NilFacts
  DEF ServerRefuses, Waiting, RunTypeOK, AnswersAreAwaited, BeginsFresh, InBlock,
      BodyInBlock, NothingDurable, FailedBlock, AllOrNothing
<1>2. CASE phase = "exec"
  BY <1>2, RequestFacts, AfterFacts, NilFacts
  DEF ServerRefuses, Waiting, RunTypeOK, AnswersAreAwaited, BeginsFresh, InBlock,
      BodyInBlock, NothingDurable, FailedBlock, AllOrNothing
<1>3. CASE phase \in {"commit", "rollback"}
  BY <1>3, RequestFacts, AfterFacts, NoTxnFacts, NilFacts
  DEF ServerRefuses, Waiting, RunTypeOK, AnswersAreAwaited, BeginsFresh, InBlock,
      BodyInBlock, NothingDurable, FailedBlock, AllOrNothing
<1>4. QED
  BY <1>1, <1>2, <1>3, RequestFacts DEF ServerRefuses

LEMMA NextRunInv ==
    ASSUME SingleTransaction, RunInv, [Next]_vars
    PROVE  RunInv'
<1> USE NilFacts
    DEF RunInv, RunTypeOK, AnswersAreAwaited, BeginsFresh, InBlock, BodyInBlock,
        NothingDurable, FailedBlock, AllOrNothing, Receive, Reply
<1>1. CASE Begin
  BY <1>1 DEF Begin
<1>2. CASE Commit
  BY <1>2 DEF Commit
<1>3. CASE Rollback
  BY <1>3 DEF Rollback
<1>4. ASSUME NEW s \in Vocabulary, NEW ends \in BOOLEAN, ReadSql(s, ends) PROVE RunInv'
  BY <1>4 DEF ReadSql, Flush
<1>5. CASE SkipSql
  BY <1>5 DEF SkipSql
<1>6. ASSUME NEW d \in Directives, ReadDirective(d) PROVE RunInv'
  BY <1>6 DEF ReadDirective, Flush
<1>7. CASE EndOfSource
  BY <1>7 DEF EndOfSource, Flush, Close
<1>8. CASE Confirm
  BY <1>8 DEF Confirm
<1>9. CASE Decline
  BY <1>9 DEF Decline, Close, NextLine
<1>10. CASE Quit
  BY <1>10 DEF Quit, Close
<1>11. CASE StatementOk
  BY <1>11 DEF StatementOk, Close, NextLine
<1>12. CASE StatementError
  BY <1>12 DEF StatementError, Close, NextLine
<1>13. CASE HandleIf \/ HandleElif \/ HandleElse \/ HandleEndif
  BY <1>13 DEF HandleIf, HandleElif, HandleElse, HandleEndif, Handle, Handled
<1>14. CASE HandleWithoutIf
  BY <1>14 DEF HandleWithoutIf, Handle, Close
<1>15. CASE HandleOnError \/ HandleOther
  BY <1>15 DEF HandleOnError, HandleOther, Handle, Handled
<1>16. CASE ConnectionLost
  BY <1>16, NoTxnFacts DEF ConnectionLost
<1>17. CASE Kill
  BY <1>17, NoTxnFacts DEF Kill
<1>18. CASE UNCHANGED vars
  BY <1>18 DEF vars
<1>19. QED
  BY <1>1, <1>2, <1>3, <1>4, <1>5, <1>6, <1>7, <1>8, <1>9, <1>10, <1>11, <1>12,
     <1>13, <1>14, <1>15, <1>16, <1>17, <1>18, AcceptsKeepsRunInv, RefusesKeepsRunInv
  DEF Next, Runner, Stopped

\* No part of a single-transaction script is ever durable without the rest
\* (run_source), in every error mode and with connection losses and kills.
THEOREM Atomicity == SingleTransaction => (Spec => []AllOrNothing)
<1> SUFFICES ASSUME SingleTransaction PROVE Spec => []AllOrNothing
  OBVIOUS
<1>1. Init => RunInv
  BY InitRunInv
<1>2. RunInv /\ [Next]_vars => RunInv'
  BY NextRunInv
<1>3. RunInv => AllOrNothing
  BY DEF RunInv
<1>4. QED
  BY <1>1, <1>2, <1>3, PTL DEF Spec

----------------------------------------------------------------------------
(* A single-transaction run implements AtomicScript.                         *)

LEMMA InitSoundBlock == SingleTransaction /\ Init => SoundBlock
  BY NilFacts DEF SingleTransaction, Init, SoundBlock

LEMMA NextSoundBlock ==
    ASSUME SingleTransaction, RunInv, SoundBlock, [Next]_vars
    PROVE  SoundBlock'
<1> USE NilFacts
    DEF SoundBlock, RunInv, RunTypeOK, AnswersAreAwaited, Receive, Reply
<1>1. CASE Begin
  BY <1>1 DEF Begin, BeginsFresh
<1>2. CASE Commit
  BY <1>2 DEF Commit
<1>3. CASE Rollback
  BY <1>3 DEF Rollback
<1>4. ASSUME NEW s \in Vocabulary, NEW ends \in BOOLEAN, ReadSql(s, ends) PROVE SoundBlock'
  BY <1>4 DEF ReadSql, Flush
<1>5. CASE SkipSql
  BY <1>5 DEF SkipSql
<1>6. ASSUME NEW d \in Directives, ReadDirective(d) PROVE SoundBlock'
  BY <1>6 DEF ReadDirective, Flush
<1>7. CASE EndOfSource
  BY <1>7 DEF EndOfSource, Flush, Close
<1>8. CASE Confirm
  BY <1>8 DEF Confirm
<1>9. CASE Decline
  BY <1>9 DEF Decline, Close, NextLine
<1>10. CASE Quit
  BY <1>10 DEF Quit, Close
<1>11. CASE StatementOk
  BY <1>11 DEF StatementOk, Close, NextLine
<1>12. CASE StatementError
  BY <1>12 DEF StatementError, Close, NextLine
<1>13. CASE HandleIf \/ HandleElif \/ HandleElse \/ HandleEndif
  BY <1>13 DEF HandleIf, HandleElif, HandleElse, HandleEndif, Handle, Handled
<1>14. CASE HandleWithoutIf
  BY <1>14 DEF HandleWithoutIf, Handle, Close
<1>15. CASE HandleOnError \/ HandleOther
  BY <1>15 DEF HandleOnError, HandleOther, Handle, Handled
<1>16. CASE ServerAccepts
  BY <1>16, RequestFacts, AfterFacts
  DEF SingleTransaction, ServerAccepts, Waiting, InBlock, BodyInBlock, NothingDurable
<1>17. CASE ServerRefuses
  BY <1>17, RequestFacts DEF SingleTransaction, ServerRefuses, Waiting
<1>18. CASE ConnectionLost
  BY <1>18 DEF ConnectionLost
<1>19. CASE Kill
  BY <1>19 DEF Kill
<1>20. CASE UNCHANGED vars
  BY <1>20 DEF vars
<1>21. QED
  BY <1>1, <1>2, <1>3, <1>4, <1>5, <1>6, <1>7, <1>8, <1>9, <1>10, <1>11, <1>12,
     <1>13, <1>14, <1>15, <1>16, <1>17, <1>18, <1>19, <1>20
  DEF Next, Runner, Stopped

\* Every step of the runner and of the server is a step of AtomicScript or
\* changes none of what AtomicScript speaks of.
LEMMA StepRefines ==
    ASSUME SingleTransaction, RunInv, RunInv', SoundBlock, [Next]_vars
    PROVE  [Atomic!Next]_<<writes, committed, Verdict>>
<1> USE NilFacts
    DEF RunInv, RunTypeOK, Verdict, Atomic!Next, Atomic!Write, Atomic!Commit,
        Atomic!Succeed, Atomic!Fail, Receive, Reply
<1>1. CASE Begin
  BY <1>1 DEF Begin
<1>2. CASE Commit
  BY <1>2 DEF Commit, SoundBlock
<1>3. CASE Rollback
  BY <1>3 DEF Rollback
<1>4. ASSUME NEW s \in Vocabulary, NEW ends \in BOOLEAN, ReadSql(s, ends)
      PROVE  UNCHANGED <<writes, committed, Verdict>>
  BY <1>4 DEF ReadSql, Flush
<1>5. CASE SkipSql
  BY <1>5 DEF SkipSql
<1>6. ASSUME NEW d \in Directives, ReadDirective(d)
      PROVE  UNCHANGED <<writes, committed, Verdict>>
  BY <1>6 DEF ReadDirective, Flush
<1>7. CASE EndOfSource
  BY <1>7 DEF EndOfSource, Flush, Close
<1>8. CASE Confirm
  BY <1>8 DEF Confirm
<1>9. CASE Decline
  BY <1>9 DEF Decline, Close, NextLine
<1>10. CASE Quit
  BY <1>10 DEF Quit, Close
<1>11. CASE StatementOk
  BY <1>11 DEF StatementOk, Close, NextLine
<1>12. CASE StatementError
  BY <1>12 DEF StatementError, Close, NextLine
<1>13. CASE HandleIf \/ HandleElif \/ HandleElse \/ HandleEndif
  BY <1>13 DEF HandleIf, HandleElif, HandleElse, HandleEndif, Handle, Handled
<1>14. CASE HandleWithoutIf
  BY <1>14 DEF HandleWithoutIf, Handle, Close
<1>15. CASE HandleOnError \/ HandleOther
  BY <1>15 DEF HandleOnError, HandleOther, Handle, Handled
<1>16. CASE ServerAccepts
  BY <1>16, RequestFacts
  DEF SingleTransaction, ServerAccepts, Waiting, InBlock, BodyInBlock, NothingDurable, BeginsFresh
<1>17. CASE ServerRefuses
  BY <1>17, RequestFacts DEF SingleTransaction, ServerRefuses, Waiting
<1>18. CASE ConnectionLost
  BY <1>18 DEF ConnectionLost
<1>19. CASE Kill
  BY <1>19 DEF Kill
<1>20. CASE UNCHANGED vars
  BY <1>20 DEF vars
<1>21. QED
  BY <1>1, <1>2, <1>3, <1>4, <1>5, <1>6, <1>7, <1>8, <1>9, <1>10, <1>11, <1>12,
     <1>13, <1>14, <1>15, <1>16, <1>17, <1>18, <1>19, <1>20
  DEF Next, Runner, Stopped

\* A single-transaction run is atomic in every error mode, and when no statement
\* failed it reports success only when everything it wrote is durable.
THEOREM Refinement == SingleTransaction => (Spec => ImplementsAtomic)
<1> SUFFICES ASSUME SingleTransaction PROVE Spec => Atomic!Spec
  BY DEF ImplementsAtomic
<1>1. Init => RunInv /\ SoundBlock /\ Atomic!Init
  BY InitRunInv, InitSoundBlock DEF Init, Atomic!Init, Verdict, SingleTransaction
<1>2. RunInv /\ SoundBlock /\ [Next]_vars
        => RunInv' /\ SoundBlock' /\ [Atomic!Next]_<<writes, committed, Verdict>>
  BY NextRunInv, NextSoundBlock, StepRefines
<1>3. QED
  BY <1>1, <1>2, PTL DEF Spec, Atomic!Spec
----------------------------------------------------------------------------
(* Conditional blocks, for scripts that keep the \else of an \if last: in    *)
(* every error mode, with and without a transaction of the runner.           *)

FrameType == [active : BOOLEAN, branch_taken : BOOLEAN]
ShapeType == [ran : Nat, past_else : BOOLEAN]

\* What \if, the branches and \endif do to a stack.
LEMMA PushFacts ==
    ASSUME NEW S, NEW s \in Seq(S), NEW e \in S
    PROVE  /\ Append(s, e) \in Seq(S)
           /\ Append(s, e) # <<>>
           /\ Len(Append(s, e)) = Len(s) + 1
           /\ DOMAIN Append(s, e) = 1 .. (Len(s) + 1)
           /\ Append(s, e)[Len(s) + 1] = e
           /\ \A i \in DOMAIN s : Append(s, e)[i] = s[i]
<1>1. Append(s, e) \in Seq(S) /\ Len(Append(s, e)) = Len(s) + 1
  OBVIOUS
<1>2. DOMAIN Append(s, e) = 1 .. (Len(s) + 1)
  BY <1>1
<1>0. Append(s, e) # <<>>
  BY <1>2, Len(s) \in Nat
<1>3. Append(s, e)[Len(s) + 1] = e
  OBVIOUS
<1>4. \A i \in DOMAIN s : Append(s, e)[i] = s[i]
  OBVIOUS
<1>5. QED
  BY <1>0, <1>1, <1>2, <1>3, <1>4

LEMMA TopFacts ==
    ASSUME NEW S, NEW s \in Seq(S), NEW e \in S, s # <<>>
    PROVE  LET t == [s EXCEPT ![Len(s)] = e]
           IN  /\ t \in Seq(S)
               /\ t # <<>>
               /\ Len(t) = Len(s)
               /\ DOMAIN t = DOMAIN s
               /\ Len(s) \in DOMAIN s
               /\ \A i \in DOMAIN s : t[i] = IF i = Len(s) THEN e ELSE s[i]
<1> DEFINE t == [s EXCEPT ![Len(s)] = e]
<1>1. Len(s) \in DOMAIN s
  OBVIOUS
<1>2. t \in Seq(S)
  OBVIOUS
<1>3. DOMAIN t = DOMAIN s
  OBVIOUS
<1>4. Len(t) = Len(s) /\ t # <<>>
  BY <1>1, <1>2, <1>3
<1>5. \A i \in DOMAIN s : t[i] = IF i = Len(s) THEN e ELSE s[i]
  OBVIOUS
<1>6. QED
  BY <1>1, <1>2, <1>3, <1>4, <1>5

LEMMA PopFacts ==
    ASSUME NEW S, NEW s \in Seq(S), s # <<>>
    PROVE  /\ Pop(s) \in Seq(S)
           /\ Len(Pop(s)) = Len(s) - 1 /\ Len(s) > 0 /\ DOMAIN Pop(s) = 1 .. Len(s) - 1
           /\ \A i \in DOMAIN Pop(s) : i \in DOMAIN s /\ Pop(s)[i] = s[i]
<1>1. Len(s) \in Nat /\ Len(s) > 0
  OBVIOUS
<1>3. DOMAIN Pop(s) = 1 .. Len(s) - 1
  BY <1>1 DEF Pop
<1>2. Pop(s) \in Seq(S) /\ Len(Pop(s)) = Len(s) - 1
  <2>1. Len(s) - 1 \in Int /\ 1 \in Int /\ \A i \in 1 .. Len(s) - 1 : s[i] \in S
    BY <1>1
  <2>2. /\ SubSeq(s, 1, Len(s) - 1) \in Seq(S)
        /\ Len(SubSeq(s, 1, Len(s) - 1)) =
               IF 1 <= Len(s) - 1 THEN (Len(s) - 1) - 1 + 1 ELSE 0
    BY <2>1, SubSeqProperties
  <2>3. \A n \in Nat : n > 0 => (IF 1 <= n - 1 THEN (n - 1) - 1 + 1 ELSE 0) = n - 1
    OBVIOUS
  <2>4. Len(SubSeq(s, 1, Len(s) - 1)) = Len(s) - 1
    BY <1>1, <2>2, <2>3, Zenon
  <2>5. QED
    BY <2>2, <2>4 DEF Pop
<1>4. \A i \in DOMAIN Pop(s) : i \in DOMAIN s /\ Pop(s)[i] = s[i]
  BY <1>1, <1>3 DEF Pop
<1>5. QED
  BY <1>1, <1>2, <1>3, <1>4

\* The two stacks are as high as each other.
LEMMA SameHeight ==
    ASSUME TypeOK
    PROVE  /\ if_stack \in Seq(FrameType) /\ shape \in Seq(ShapeType)
           /\ Len(shape) = Len(if_stack) /\ DOMAIN shape = DOMAIN if_stack
           /\ shape = <<>> <=> if_stack = <<>>
           /\ shape # <<>> => /\ Len(shape) \in DOMAIN shape
                              /\ Top \in FrameType /\ shape[Len(shape)] \in ShapeType
<1>1. if_stack \in Seq(FrameType) /\ shape \in Seq(ShapeType) /\ DOMAIN if_stack = DOMAIN shape
  BY DEF TypeOK, FrameType, ShapeType
<1>2. Len(shape) = Len(if_stack)
  BY <1>1
<1>3. shape = <<>> <=> if_stack = <<>>
  BY <1>1, <1>2
<1>4. shape # <<>> => /\ Len(shape) \in DOMAIN shape
                      /\ if_stack[Len(if_stack)] \in FrameType /\ shape[Len(shape)] \in ShapeType
  BY <1>1, <1>2, <1>3
<1>5. QED
  BY <1>1, <1>2, <1>3, <1>4 DEF Top

\* A branch begins: the frame and its history stay well typed.
LEMMA BranchFacts ==
    ASSUME NEW t \in FrameType, NEW h \in ShapeType, NEW a \in BOOLEAN
    PROVE  LET ran == h.ran + (IF a THEN 1 ELSE 0)
           IN  /\ Frame(a, t.branch_taken \/ a) \in FrameType
               /\ [t EXCEPT !.active = a] \in FrameType
               /\ [t EXCEPT !.active = a].branch_taken = t.branch_taken
               /\ [h EXCEPT !.ran = ran] \in ShapeType
               /\ [h EXCEPT !.ran = ran].past_else = h.past_else
               /\ [h EXCEPT !.ran = ran].ran = ran
               /\ [ran |-> ran, past_else |-> TRUE] \in ShapeType
<1> DEFINE ran == h.ran + (IF a THEN 1 ELSE 0)
<1>1. Frame(a, t.branch_taken \/ a) \in FrameType
  BY Zenon DEF Frame, FrameType
<1>2. /\ [t EXCEPT !.active = a] \in FrameType
      /\ [t EXCEPT !.active = a].branch_taken = t.branch_taken
  BY DEF FrameType
<1>3. /\ [h EXCEPT !.ran = ran] \in ShapeType
      /\ [h EXCEPT !.ran = ran].past_else = h.past_else
      /\ [h EXCEPT !.ran = ran].ran = ran
  BY DEF ShapeType
<1>4. [ran |-> ran, past_else |-> TRUE] \in ShapeType
  BY DEF ShapeType
<1>5. QED
  BY <1>1, <1>2, <1>3, <1>4

LEMMA ServerTypes ==
    ASSUME NEW t \in TxnState, NEW s
    PROVE  AfterSuccess(t, s) \in TxnState /\ AfterError(t, s) \in TxnState
  BY DEF AfterSuccess, AfterError, TxnState, NoTxn, OpenTxn

LEMMA InitTypeOK == Init => TypeOK
  BY NilFacts, NoTxnFacts, EmptySeq DEF Init, TypeOK

LEMMA NextTypeOK ==
    ASSUME TypeOK, [Next]_vars
    PROVE  TypeOK'
<1> USE NilFacts DEF TypeOK
<1>1. CASE Begin
  BY <1>1 DEF Begin, Receive
<1>2. CASE Commit
  BY <1>2 DEF Commit, Receive, Reply
<1>3. CASE Rollback
  BY <1>3 DEF Rollback, Receive
<1>4. ASSUME NEW s \in Vocabulary, NEW ends \in BOOLEAN, ReadSql(s, ends) PROVE TypeOK'
  BY <1>4 DEF ReadSql, Flush
<1>5. CASE SkipSql
  BY <1>5 DEF SkipSql
<1>6. ASSUME NEW d \in Directives, ReadDirective(d) PROVE TypeOK'
  BY <1>6 DEF ReadDirective, Flush
<1>7. CASE EndOfSource
  BY <1>7 DEF EndOfSource, Flush, Close
<1>8. CASE Confirm
  BY <1>8 DEF Confirm
<1>9. CASE Decline
  BY <1>9 DEF Decline, Close, NextLine
<1>10. CASE Quit
  BY <1>10 DEF Quit, Close
<1>11. CASE StatementOk
  BY <1>11 DEF StatementOk, Close, NextLine, Receive
<1>12. CASE StatementError
  BY <1>12 DEF StatementError, Close, NextLine, Receive
<1>13. CASE HandleIf
  <2>1. /\ Frame(ahead.arg = "yes", ahead.arg = "yes") \in FrameType
        /\ [ran |-> IF ahead.arg = "yes" THEN 1 ELSE 0, past_else |-> FALSE] \in ShapeType
    BY DEF Frame, FrameType, ShapeType
  <2>2. /\ if_stack' \in Seq(FrameType) /\ shape' \in Seq(ShapeType)
        /\ DOMAIN if_stack' = DOMAIN shape'
    BY <1>13, <2>1, SameHeight, PushFacts DEF HandleIf
  <2>3. QED
    BY <1>13, <2>2 DEF HandleIf, Handled, FrameType, ShapeType
<1>14. CASE HandleElif
  <2> DEFINE taken == ~Top.branch_taken /\ ahead.arg = "yes"
             f == Frame(taken, Top.branch_taken \/ taken)
             g == [shape[Len(shape)] EXCEPT !.ran = Ran(taken)]
  <2>0. /\ shape # <<>> /\ if_stack # <<>>
        /\ Top \in FrameType /\ shape[Len(shape)] \in ShapeType
    BY <1>14, SameHeight DEF HandleElif
  <2> taken \in BOOLEAN
    OBVIOUS
  <2>1. f \in FrameType /\ g \in ShapeType
    BY <2>0, BranchFacts DEF Ran
  <2>2. if_stack' = [if_stack EXCEPT ![Len(if_stack)] = f] /\ shape' = [shape EXCEPT ![Len(shape)] = g]
    BY <1>14 DEF HandleElif
  <2>3. /\ if_stack' \in Seq(FrameType) /\ shape' \in Seq(ShapeType)
        /\ DOMAIN if_stack' = DOMAIN shape'
    BY <2>0, <2>1, <2>2, SameHeight, TopFacts
  <2>4. QED
    BY <1>14, <2>3 DEF HandleElif, Handled, FrameType, ShapeType
<1>15. CASE HandleElse
  <2> DEFINE active == ~Top.branch_taken
             f == [Top EXCEPT !.active = active]
             g == [ran |-> Ran(active), past_else |-> TRUE]
  <2>0. /\ shape # <<>> /\ if_stack # <<>>
        /\ Top \in FrameType /\ shape[Len(shape)] \in ShapeType
    BY <1>15, SameHeight DEF HandleElse
  <2> active \in BOOLEAN
    OBVIOUS
  <2>1. f \in FrameType /\ g \in ShapeType
    BY <2>0, BranchFacts DEF Ran
  <2>2. if_stack' = [if_stack EXCEPT ![Len(if_stack)] = f] /\ shape' = [shape EXCEPT ![Len(shape)] = g]
    BY <1>15 DEF HandleElse, Top
  <2>3. /\ if_stack' \in Seq(FrameType) /\ shape' \in Seq(ShapeType)
        /\ DOMAIN if_stack' = DOMAIN shape'
    BY <2>0, <2>1, <2>2, SameHeight, TopFacts
  <2>4. QED
    BY <1>15, <2>3 DEF HandleElse, Handled, FrameType, ShapeType
<1>16. CASE HandleEndif
  <2>1. /\ if_stack' \in Seq(FrameType) /\ shape' \in Seq(ShapeType)
        /\ DOMAIN if_stack' = DOMAIN shape'
    BY <1>16, SameHeight, PopFacts DEF HandleEndif
  <2>2. QED
    BY <1>16, <2>1 DEF HandleEndif, Handled, FrameType, ShapeType
<1>17. CASE HandleWithoutIf
  BY <1>17 DEF HandleWithoutIf, Handle, Close
<1>18. CASE HandleOnError
  BY <1>18 DEF HandleOnError, Handle, Handled, Directives, Line, End
<1>19. CASE HandleOther
  BY <1>19 DEF HandleOther, Handle, Handled
<1>20. CASE ServerAccepts
  BY <1>20, ServerTypes DEF ServerAccepts
<1>21. CASE ServerRefuses
  BY <1>21, ServerTypes DEF ServerRefuses
<1>22. CASE ConnectionLost
  BY <1>22, NoTxnFacts DEF ConnectionLost
<1>23. CASE Kill
  BY <1>23, NoTxnFacts DEF Kill
<1>24. CASE UNCHANGED vars
  BY <1>24 DEF vars
<1>25. QED
  BY <1>1, <1>2, <1>3, <1>4, <1>5, <1>6, <1>7, <1>8, <1>9, <1>10, <1>11, <1>12, <1>13, <1>14, <1>15, <1>16, <1>17, <1>18, <1>19, <1>20, <1>21, <1>22, <1>23, <1>24
  DEF Next, Runner, Stopped

LEMMA InitNestInv == Init => NestInv
  BY InitTypeOK
  DEF Init, NestInv, LineAtRead, FramesCountBranches, ElseIsLast, DepthIsOwed, Line

LEMMA DirectiveFacts ==
    /\ Line.name = "line" /\ End.name = "end"
    /\ \A d \in Directives : d # Line /\ d # End
  BY DEF Directives, Line, End

LEMMA NextNestInv ==
    ASSUME ElseLast = "yes", NestInv, [Next]_vars
    PROVE  NestInv'
<1> USE NilFacts, DirectiveFacts
    DEF NestInv, LineAtRead, FramesCountBranches, ElseIsLast, DepthIsOwed
<1>0. TypeOK /\ TypeOK' /\ depth \in Nat
  BY NextTypeOK DEF TypeOK
<1>1. CASE Begin
  BY <1>1, <1>0 DEF Begin, Receive
<1>2. CASE Commit
  BY <1>2, <1>0 DEF Commit
<1>3. CASE Rollback
  BY <1>3, <1>0 DEF Rollback
<1>4. ASSUME NEW s \in Vocabulary, NEW ends \in BOOLEAN, ReadSql(s, ends) PROVE NestInv'
  BY <1>4, <1>0 DEF ReadSql, Flush
<1>5. CASE SkipSql
  BY <1>5, <1>0 DEF SkipSql
<1>6. ASSUME NEW d \in Directives, ReadDirective(d) PROVE NestInv'
  BY <1>6, <1>0 DEF ReadDirective, Flush, Wellformed
<1>7. CASE EndOfSource
  BY <1>7, <1>0 DEF EndOfSource, Flush, Close
<1>8. CASE Confirm
  BY <1>8, <1>0 DEF Confirm
<1>9. CASE Decline
  BY <1>9, <1>0 DEF Decline, Close, NextLine
<1>10. CASE Quit
  BY <1>10, <1>0 DEF Quit, Close
<1>11. CASE StatementOk
  BY <1>11, <1>0 DEF StatementOk, Close, NextLine, Receive
<1>12. CASE StatementError
  BY <1>12, <1>0 DEF StatementError, Close, NextLine, Receive
<1>13. CASE HandleIf
  <2> DEFINE f == Frame(ahead.arg = "yes", ahead.arg = "yes")
             g == [ran |-> IF ahead.arg = "yes" THEN 1 ELSE 0, past_else |-> FALSE]
  <2>1. f \in FrameType /\ g \in ShapeType
    BY DEF Frame, FrameType, ShapeType
  <2>2. /\ if_stack' = Append(if_stack, f) /\ shape' = Append(shape, g)
        /\ ahead.name = "if" /\ phase = "handle" /\ phase' = "read" /\ ahead' = Line
        /\ UNCHANGED <<depth, trouble>>
    BY <1>13 DEF HandleIf, Handle, Handled
  <2>3. ~g.past_else /\ g.ran = IF f.branch_taken THEN 1 ELSE 0
    BY DEF Frame
  <2>4. FramesCountBranches'
    <3> HIDE DEF f, g
    <3> SUFFICES ASSUME NEW i \in DOMAIN shape'
                 PROVE  IF shape'[i].past_else THEN shape'[i].ran = 1
                        ELSE shape'[i].ran = IF if_stack'[i].branch_taken THEN 1 ELSE 0
      OBVIOUS
    <3>1. CASE i = Len(shape) + 1
      <4>1. shape'[i] = g /\ if_stack'[i] = f
        BY <3>1, <1>0, <2>1, <2>2, SameHeight, PushFacts
      <4>2. QED
        BY <4>1, <2>3
    <3>2. CASE i # Len(shape) + 1
      <4>1. i \in DOMAIN shape /\ shape'[i] = shape[i] /\ if_stack'[i] = if_stack[i]
        BY <3>2, <1>0, <2>1, <2>2, SameHeight, PushFacts
      <4>2. QED
        BY <4>1
    <3>3. QED
      BY <3>1, <3>2
  <2>5. DepthIsOwed' /\ LineAtRead' /\ ElseIsLast'
    BY <1>0, <2>1, <2>2, SameHeight, PushFacts
  <2>6. QED
    BY <1>0, <2>4, <2>5
<1>14. CASE HandleElif
  <2> DEFINE taken == ~Top.branch_taken /\ ahead.arg = "yes"
             f == Frame(taken, Top.branch_taken \/ taken)
             g == [shape[Len(shape)] EXCEPT !.ran = Ran(taken)]
  <2>1. /\ if_stack' = [if_stack EXCEPT ![Len(if_stack)] = f] /\ shape' = [shape EXCEPT ![Len(shape)] = g]
        /\ ahead.name = "elif" /\ phase = "handle" /\ phase' = "read" /\ ahead' = Line
        /\ UNCHANGED <<depth, trouble>>
        /\ if_stack # <<>>
    BY <1>14 DEF HandleElif, Handle, Handled
  <2>2. /\ shape # <<>> /\ if_stack # <<>>
        /\ Top \in FrameType /\ shape[Len(shape)] \in ShapeType /\ ~shape[Len(shape)].past_else
    BY <1>0, <2>1, SameHeight
  <2> taken \in BOOLEAN
    OBVIOUS
  <2>3. f \in FrameType /\ g \in ShapeType
    BY <2>2, BranchFacts DEF Ran
  <2> /\ ~g.past_else
      /\ g.ran = shape[Len(shape)].ran + (IF taken THEN 1 ELSE 0)
    BY <2>2 DEF Ran, ShapeType
  <2> f.branch_taken = (Top.branch_taken \/ taken)
    BY DEF Frame
  <2>4. shape[Len(shape)].ran = IF Top.branch_taken THEN 1 ELSE 0
    <3>1. Len(shape) \in DOMAIN shape /\ Len(shape) = Len(if_stack)
      BY <1>0, <2>2, SameHeight
    <3>2. QED
      BY <2>2, <3>1 DEF Top
  <2>5. g.ran = IF f.branch_taken THEN 1 ELSE 0
    <3>1. CASE Top.branch_taken
      <4>1. ~taken /\ f.branch_taken
        BY <3>1
      <4> HIDE DEF f, g, taken
      <4>2. QED
        BY <3>1, <4>1, <2>4
    <3>2. CASE ~Top.branch_taken
      <4>1. f.branch_taken = taken
        BY <3>2
      <4> HIDE DEF f, g, taken
      <4>2. QED
        BY <3>2, <4>1, <2>4
    <3>3. QED
      BY <3>1, <3>2
  <2>6. FramesCountBranches'
    <3> HIDE DEF f, g
    <3> QED
      BY <1>0, <2>1, <2>2, <2>3, <2>5, SameHeight, TopFacts
  <2>7. DepthIsOwed' /\ LineAtRead' /\ ElseIsLast'
    <3> HIDE DEF f, g
    <3> QED
      BY <1>0, <2>1, <2>2, <2>3, SameHeight, TopFacts
  <2>8. QED
    BY <1>0, <2>6, <2>7
<1>15. CASE HandleElse
  <2> DEFINE active == ~Top.branch_taken
             f == [Top EXCEPT !.active = active]
             g == [ran |-> Ran(active), past_else |-> TRUE]
  <2>1. /\ if_stack' = [if_stack EXCEPT ![Len(if_stack)] = f] /\ shape' = [shape EXCEPT ![Len(shape)] = g]
        /\ ahead.name = "else" /\ phase = "handle" /\ phase' = "read" /\ ahead' = Line
        /\ UNCHANGED <<depth, trouble>>
        /\ if_stack # <<>>
    BY <1>15 DEF HandleElse, Handle, Handled, Top
  <2>2. /\ shape # <<>> /\ if_stack # <<>>
        /\ Top \in FrameType /\ shape[Len(shape)] \in ShapeType /\ ~shape[Len(shape)].past_else
    BY <1>0, <2>1, SameHeight
  <2> active \in BOOLEAN
    OBVIOUS
  <2>3. f \in FrameType /\ g \in ShapeType
    BY <2>2, BranchFacts DEF Ran
  <2>4. shape[Len(shape)].ran = IF Top.branch_taken THEN 1 ELSE 0
    <3>1. Len(shape) \in DOMAIN shape /\ Len(shape) = Len(if_stack)
      BY <1>0, <2>2, SameHeight
    <3>2. QED
      BY <2>2, <3>1 DEF Top
  <2>5. g.ran = 1 /\ g.past_else
    BY <2>4 DEF Ran
  <2>6. FramesCountBranches'
    <3> HIDE DEF f, g
    <3> QED
      BY <1>0, <2>1, <2>2, <2>3, <2>5, SameHeight, TopFacts
  <2>7. DepthIsOwed' /\ LineAtRead' /\ ElseIsLast'
    <3> HIDE DEF f, g
    <3> QED
      BY <1>0, <2>1, <2>2, <2>3, SameHeight, TopFacts
  <2>8. QED
    BY <1>0, <2>6, <2>7
<1>16. CASE HandleEndif
  <2>1. /\ if_stack' = Pop(if_stack) /\ shape' = Pop(shape) /\ if_stack # <<>> /\ shape # <<>>
        /\ ahead.name = "endif" /\ phase = "handle" /\ phase' = "read" /\ ahead' = Line
        /\ UNCHANGED <<depth, trouble>>
    BY <1>16, <1>0, SameHeight DEF HandleEndif, Handle, Handled
  <2>2. FramesCountBranches'
    <3> SUFFICES ASSUME NEW i \in DOMAIN shape'
                 PROVE  IF shape'[i].past_else THEN shape'[i].ran = 1
                        ELSE shape'[i].ran = IF if_stack'[i].branch_taken THEN 1 ELSE 0
      OBVIOUS
    <3>1. i \in DOMAIN shape /\ shape'[i] = shape[i]
      BY <1>0, <2>1, SameHeight, PopFacts
    <3>2. if_stack'[i] = if_stack[i]
      BY <1>0, <2>1, SameHeight, PopFacts
    <3>3. QED
      BY <3>1, <3>2
  <2>3. DepthIsOwed' /\ LineAtRead' /\ ElseIsLast'
    BY <1>0, <2>1, SameHeight, PopFacts
  <2>4. QED
    BY <1>0, <2>2, <2>3
<1>17. CASE HandleWithoutIf
  BY <1>17, <1>0 DEF HandleWithoutIf, Close
<1>18. CASE HandleOnError
  BY <1>18, <1>0 DEF HandleOnError, Handle, Handled
<1>19. CASE HandleOther
  BY <1>19, <1>0 DEF HandleOther, Handle, Handled
<1>20. CASE ServerAccepts
  BY <1>20, <1>0 DEF ServerAccepts
<1>21. CASE ServerRefuses
  BY <1>21, <1>0 DEF ServerRefuses
<1>22. CASE ConnectionLost
  BY <1>22, <1>0 DEF ConnectionLost
<1>23. CASE Kill
  BY <1>23, <1>0 DEF Kill
<1>24. CASE UNCHANGED vars
  BY <1>24, <1>0 DEF vars
<1>25. QED
  BY <1>1, <1>2, <1>3, <1>4, <1>5, <1>6, <1>7, <1>8, <1>9, <1>10, <1>11, <1>12, <1>13, <1>14, <1>15, <1>16, <1>17, <1>18, <1>19, <1>20, <1>21, <1>22, <1>23, <1>24
  DEF Next, Runner, Stopped

\* Of every \if at most one branch runs, the \else when no other did, and the
\* stack of execute_source is the nesting of the script (handle_directive), for
\* scripts of every length and depth.
THEOREM Conditionals == ElseLast = "yes" => (Spec => []ConditionalsNest)
<1> SUFFICES ASSUME ElseLast = "yes" PROVE Spec => []ConditionalsNest
  OBVIOUS
<1>1. NestInv => ConditionalsNest
  <2> SUFFICES ASSUME NestInv PROVE ConditionalsNest
    OBVIOUS
  <2>1. TypeOK /\ OneBranchRuns
    BY DEF NestInv, FramesCountBranches, OneBranchRuns
  <2>2. StackFollowsScript
    BY DirectiveFacts DEF NestInv, LineAtRead, DepthIsOwed, StackFollowsScript
  <2>3. QED
    BY <2>1, <2>2 DEF ConditionalsNest
<1>2. QED
  BY <1>1, InitNestInv, NextNestInv, PTL DEF Spec
=============================================================================
