------------------------- MODULE ReplSessionProofs -------------------------
(***************************************************************************)
(* Theorems about ReplSession and ReplIndicator for every vocabulary of    *)
(* lines, every set of databases and every way cancel requests may be      *)
(* delivered.                                                              *)
(*                                                                         *)
(* Each part of the inductive invariant IInv has a lemma that every step   *)
(* preserves it, from the parts it leans on; IInv is their conjunction and *)
(* the theorems at the end follow from it.                                 *)
(***************************************************************************)
EXTENDS ReplIndicator, TLAPS

USE DEF cmdVars, promptVars, lastVars, poolVars, backendVars

----------------------------------------------------------------------------
(* Facts about the data. *)

LEMMA NilFacts ==
    Nil \notin Stmt /\ Nil # "ok" /\ Nil # "error" /\ Nil # "cancelled" /\ Nil # "interrupted"
  BY ParameterAssumption

\* What the steps need to know of a line.
LEMMA LineFacts ==
    /\ \A l \in Lines : Len(l) \in Nat /\ Len(l) > 0
    /\ \A l \in Lines : \A i \in 1..Len(l) : l[i] \in Stmt
    /\ \A l \in MetaLines : l \in Lines
    /\ <<>> \notin Lines
  BY LinesAssumption

LEMMA NoTxnType == NoTxn \in TxnState
  BY DEF NoTxn, TxnState

\* Whatever a backend answers, it is left in one of its states.
LEMMA AnswersType ==
    \A t \in TxnState, s \in Stmt :
        /\ AfterError(t, s) \in TxnState
        /\ \A a \in Answers(t, s) : a.next \in TxnState
<1> SUFFICES ASSUME NEW t \in TxnState, NEW s \in Stmt
             PROVE  /\ AfterError(t, s) \in TxnState
                    /\ \A a \in Answers(t, s) : a.next \in TxnState
  OBVIOUS
<1>1. AfterError(t, s) \in TxnState
  BY DEF AfterError, TxnState, NoTxn
<1>2. AfterSuccess(t, s) \in TxnState
  BY DEF AfterSuccess, TxnState, NoTxn, OpenTxn, Stmt
<1>3. QED
  BY <1>1, <1>2 DEF Answers

\* The guess is a truth value when the one before it was.
LEMMA GuessType ==
    ASSUME NEW wasOpen \in BOOLEAN, NEW l
    PROVE  TxnBlockOpenAfter(wasOpen, l) \in BOOLEAN
  BY DEF TxnBlockOpenAfter

----------------------------------------------------------------------------
(* The initial states. *)

LEMMA InitIInv == Init => IInv
<1> SUFFICES ASSUME Init PROVE IInv
  OBVIOUS
<1>1. txn_block_open \in BOOLEAN
  BY Zenon DEF Init
<1>2. CommandTypeOK
  BY <1>1 DEF Init, CommandTypeOK, Modes
<1>3. SessionTypeOK
  BY <1>1 DEF Init, SessionTypeOK
<1>4. BackendTypeOK
  BY <1>1, NoTxnType DEF Init, BackendTypeOK
<1>5. /\ LineInFlight /\ LostIsSilent /\ Submissions /\ MetaIsUnanswered
      /\ OneStatementAtATime /\ StarInFlight /\ ClientMatchesConfig /\ LastSqlIsLocal
  BY <1>1 DEF Init, LineInFlight, LostIsSilent, Submissions, MetaIsUnanswered,
              OneStatementAtATime, StarInFlight, ClientMatchesConfig, LastSqlIsLocal
<1>6. QED
  BY <1>2, <1>3, <1>4, <1>5 DEF IInv, TypeOK

----------------------------------------------------------------------------
(* The command in flight. *)

\* Each of the four commands that run SQL begins a batch on one of Lines.
LEMMA UserStep ==
    ASSUME SessionTypeOK, User
    PROVE  \/ \E m \in Modes, l \in Lines : StartBatch(m, l)
           \/ \E d \in Databases : ReconnectTo(d)
           \/ ResetBuffer
           \/ Interrupt
<1>1. ASSUME NEW l \in Lines, RunSql(l) PROVE \E m \in Modes : StartBatch(m, l)
  BY <1>1 DEF RunSql, Modes
<1>2. ASSUME NEW l \in MetaLines, NEW m \in {"meta", "meta_all"}, RunMeta(m, l)
      PROVE  StartBatch(m, l) /\ m \in Modes /\ l \in Lines
  BY <1>2, LineFacts DEF RunMeta, Modes
<1>3. ASSUME NEW l \in MetaLines, EditAndExecute(l)
      PROVE  StartBatch("meta", l) /\ "meta" \in Modes /\ l \in Lines
  BY <1>3, LineFacts DEF EditAndExecute, Modes
<1>4. ASSUME Repeat
      PROVE  StartBatch("meta", last_sql) /\ "meta" \in Modes /\ last_sql \in Lines
  BY <1>4 DEF Repeat, SessionTypeOK, Modes
<1>5. QED
  BY <1>1, <1>2, <1>3, <1>4 DEF User

LEMMA CommandTypeStep ==
    ASSUME CommandTypeOK, SessionTypeOK, BackendTypeOK, [Next]_vars
    PROVE  CommandTypeOK'
<1> USE DEF CommandTypeOK
<1>1. ASSUME NEW m \in Modes, NEW l \in Lines, StartBatch(m, l) PROVE CommandTypeOK'
  BY <1>1 DEF StartBatch
<1>2. ASSUME NEW d \in Databases, ReconnectTo(d) PROVE CommandTypeOK'
  BY <1>2 DEF ReconnectTo
<1>3. CASE ResetBuffer \/ Interrupt
  BY <1>3 DEF ResetBuffer, Interrupt
<1>4. CASE Submit
  BY <1>4 DEF Submit
<1>5. CASE NextStatement
  BY <1>5 DEF NextStatement
<1>6. CASE BatchDone \/ BatchLost
  BY <1>6 DEF BatchDone, BatchLost, EndBatch, BackendTypeOK
<1>7. CASE Indicator \/ StatusReply \/ StatusLost \/ Report \/ IsAlive \/ AutoReconnect
  BY <1>7 DEF Indicator, StatusReply, StatusLost, Report, IsAlive, AutoReconnect
<1>8. CASE Environment
  BY <1>8 DEF Environment, BackendAnswer, OrphanEnds, ConnectionLost, CancelArrives,
              CancelRunning, CancelOrphan, CancelStatusQuery, CancelProbe, CancelNothing
<1>9. CASE UNCHANGED vars
  BY <1>9 DEF vars
<1>10. QED
  BY <1>1, <1>2, <1>3, <1>4, <1>5, <1>6, <1>7, <1>8, <1>9, UserStep DEF Next, Program

LEMMA LineStep ==
    ASSUME CommandTypeOK, SessionTypeOK, LineInFlight, [Next]_vars
    PROVE  LineInFlight'
<1> USE DEF LineInFlight
<1>1. ASSUME NEW m \in Modes, NEW l \in Lines, StartBatch(m, l) PROVE LineInFlight'
  BY <1>1, LineFacts DEF StartBatch
<1>2. ASSUME NEW d \in Databases, ReconnectTo(d) PROVE LineInFlight'
  BY <1>2 DEF ReconnectTo
<1>3. CASE ResetBuffer \/ Interrupt
  BY <1>3 DEF ResetBuffer, Interrupt
<1>4. CASE NextStatement
  <2>1. line \in Lines /\ pos \in Nat
    BY <1>4 DEF CommandTypeOK, NextStatement
  <2>2. Len(line) \in Nat
    BY <2>1, LineFacts
  <2>3. QED
    BY <1>4, <2>1, <2>2 DEF NextStatement
<1>5. CASE Program /\ ~NextStatement
  BY <1>5 DEF Program, Submit, BatchDone, BatchLost, EndBatch, Indicator, StatusReply,
              StatusLost, Report, IsAlive, AutoReconnect
<1>6. CASE Environment
  BY <1>6 DEF Environment, BackendAnswer, OrphanEnds, ConnectionLost, CancelArrives,
              CancelRunning, CancelOrphan, CancelStatusQuery, CancelProbe, CancelNothing
<1>7. CASE UNCHANGED vars
  BY <1>7 DEF vars
<1>8. QED
  BY <1>1, <1>2, <1>3, <1>4, <1>5, <1>6, <1>7, UserStep DEF Next

\* What Submit hands to the backend is a statement.
LEMMA SubmitsStatement ==
    ASSUME LineInFlight, Submit
    PROVE  line[pos] \in Stmt /\ line[pos] # Nil
  BY LineFacts, NilFacts DEF Submit, LineInFlight

LEMMA SubmissionsStep ==
    ASSUME CommandTypeOK, SessionTypeOK, LineInFlight, Submissions, [Next]_vars
    PROVE  Submissions'
<1> USE NilFacts DEF Submissions, CommandTypeOK
<1>1. ASSUME NEW m \in Modes, NEW l \in Lines, StartBatch(m, l) PROVE Submissions'
  BY <1>1 DEF StartBatch
<1>2. ASSUME NEW d \in Databases, ReconnectTo(d) PROVE Submissions'
  BY <1>2 DEF ReconnectTo
<1>3. CASE ResetBuffer \/ Interrupt
  BY <1>3 DEF ResetBuffer, Interrupt
<1>4. CASE Submit
  BY <1>4, SubmitsStatement DEF Submit
<1>5. CASE NextStatement
  BY <1>5 DEF NextStatement
<1>6. CASE BatchDone \/ BatchLost
  BY <1>6 DEF BatchDone, BatchLost, EndBatch
<1>7. CASE Indicator \/ StatusReply \/ StatusLost \/ Report \/ IsAlive \/ AutoReconnect
  BY <1>7 DEF Indicator, StatusReply, StatusLost, Report, IsAlive, AutoReconnect
<1>8. CASE BackendAnswer \/ OrphanEnds \/ ConnectionLost
  BY <1>8 DEF BackendAnswer, OrphanEnds, ConnectionLost
<1>9. CASE CancelArrives
  BY <1>9 DEF CancelArrives, CancelRunning, CancelOrphan, CancelStatusQuery, CancelProbe, CancelNothing
<1>10. CASE UNCHANGED vars
  BY <1>10 DEF vars
<1>11. QED
  BY <1>1, <1>2, <1>3, <1>4, <1>5, <1>6, <1>7, <1>8, <1>9, <1>10, UserStep
  DEF Next, Program, Environment

----------------------------------------------------------------------------
(* The session and the backend keep their types. *)

LEMMA SessionTypeStep ==
    ASSUME CommandTypeOK, SessionTypeOK, LineInFlight, [Next]_vars
    PROVE  SessionTypeOK'
<1> USE DEF SessionTypeOK
<1>1. ASSUME NEW l \in Lines, RunSql(l) PROVE SessionTypeOK'
  BY <1>1 DEF RunSql, StartBatch
<1>2. ASSUME NEW l \in MetaLines, NEW m, RunMeta(m, l) PROVE SessionTypeOK'
  BY <1>2 DEF RunMeta, StartBatch
<1>3. ASSUME NEW l \in MetaLines, EditAndExecute(l) PROVE SessionTypeOK'
  BY <1>3, LineFacts DEF EditAndExecute, StartBatch
<1>4. CASE Repeat
  BY <1>4 DEF Repeat, StartBatch
<1>5. ASSUME NEW d \in Databases, ReconnectTo(d) PROVE SessionTypeOK'
  BY <1>5 DEF ReconnectTo, FreshBackend
<1>6. CASE ResetBuffer \/ Interrupt
  BY <1>6 DEF ResetBuffer, Interrupt
<1>7. CASE Indicator
  BY <1>7, GuessType DEF Indicator
<1>8. CASE StatusReply \/ StatusLost
  BY <1>8 DEF StatusReply, StatusLost
<1>9. CASE Report
  BY <1>9 DEF Report, LineInFlight
<1>10. CASE AutoReconnect
  BY <1>10 DEF AutoReconnect
<1>11. CASE Submit \/ NextStatement \/ BatchDone \/ BatchLost \/ IsAlive
  BY <1>11 DEF Submit, NextStatement, BatchDone, BatchLost, EndBatch, IsAlive
<1>12. CASE Environment
  BY <1>12 DEF Environment, BackendAnswer, OrphanEnds, ConnectionLost, CancelArrives,
               CancelRunning, CancelOrphan, CancelStatusQuery, CancelProbe, CancelNothing
<1>13. CASE UNCHANGED vars
  BY <1>13 DEF vars
<1>14. QED
  BY <1>1, <1>2, <1>3, <1>4, <1>5, <1>6, <1>7, <1>8, <1>9, <1>10, <1>11, <1>12, <1>13
  DEF Next, User, Program

LEMMA BackendTypeStep ==
    ASSUME SessionTypeOK, LineInFlight, BackendTypeOK, [Next]_vars
    PROVE  BackendTypeOK'
<1> USE DEF BackendTypeOK
<1>1. ASSUME NEW m, NEW l, StartBatch(m, l) PROVE BackendTypeOK'
  BY <1>1 DEF StartBatch
<1>2. ASSUME NEW d \in Databases, ReconnectTo(d) PROVE BackendTypeOK'
  BY <1>2, NoTxnType DEF ReconnectTo, FreshBackend
<1>3. CASE ResetBuffer \/ Interrupt
  BY <1>3 DEF ResetBuffer, Interrupt
<1>4. CASE Submit
  BY <1>4, SubmitsStatement DEF Submit
<1>5. CASE NextStatement \/ BatchDone \/ BatchLost
  BY <1>5 DEF NextStatement, BatchDone, BatchLost, EndBatch
<1>6. CASE Indicator \/ StatusReply \/ StatusLost \/ Report \/ IsAlive
  BY <1>6 DEF Indicator, StatusReply, StatusLost, Report, IsAlive
<1>7. CASE AutoReconnect
  BY <1>7, NoTxnType DEF AutoReconnect, FreshBackend
<1>8. CASE BackendAnswer
  BY <1>8, AnswersType DEF BackendAnswer
<1>9. CASE OrphanEnds
  BY <1>9, AnswersType DEF OrphanEnds
<1>10. CASE CancelArrives
  <2>1. cancels' \in Nat
    BY <1>10 DEF CancelArrives
  <2>2. "read" \in Stmt
    BY DEF Stmt
  <2>3. QED
    BY <1>10, <2>1, <2>2, AnswersType
    DEF CancelArrives, CancelRunning, CancelOrphan, CancelStatusQuery, CancelProbe, CancelNothing
<1>11. CASE ConnectionLost
  BY <1>11, NoTxnType DEF ConnectionLost
<1>12. CASE UNCHANGED vars
  BY <1>12 DEF vars
<1>13. QED
  BY <1>1, <1>2, <1>3, <1>4, <1>5, <1>6, <1>7, <1>8, <1>9, <1>10, <1>11, <1>12, UserStep
  DEF Next, Program, Environment

----------------------------------------------------------------------------
(* The parts that relate the client to the backend. *)

\* A lost connection stays silent until a new one takes its place.
LEMMA LostStep ==
    ASSUME LostIsSilent, [Next]_vars
    PROVE  LostIsSilent'
<1> USE DEF LostIsSilent
<1>1. CASE User
  BY <1>1 DEF User, RunSql, RunMeta, EditAndExecute, Repeat, StartBatch, ResetBuffer,
              ReconnectTo, Interrupt, FreshBackend
<1>2. CASE Program
  BY <1>2 DEF Program, Submit, NextStatement, BatchDone, BatchLost, EndBatch, Indicator,
              StatusReply, StatusLost, Report, IsAlive, AutoReconnect, FreshBackend
<1>3. CASE Environment
  BY <1>3 DEF Environment, BackendAnswer, OrphanEnds, CancelArrives, CancelRunning,
              CancelOrphan, CancelStatusQuery, CancelProbe, CancelNothing, ConnectionLost
<1>4. CASE UNCHANGED vars
  BY <1>4 DEF vars
<1>5. QED
  BY <1>1, <1>2, <1>3, <1>4 DEF Next

\* A meta-command never leaves exec but for the prompt.
LEMMA MetaStep ==
    ASSUME MetaIsUnanswered, [Next]_vars
    PROVE  MetaIsUnanswered'
<1> USE DEF MetaIsUnanswered
<1>1. CASE User
  BY <1>1 DEF User, RunSql, RunMeta, EditAndExecute, Repeat, StartBatch, ResetBuffer,
              ReconnectTo, Interrupt, FreshBackend
<1>2. CASE Program
  BY <1>2 DEF Program, Submit, NextStatement, BatchDone, BatchLost, EndBatch, Indicator,
              StatusReply, StatusLost, Report, IsAlive, AutoReconnect, FreshBackend
<1>3. CASE Environment
  BY <1>3 DEF Environment, BackendAnswer, OrphanEnds, CancelArrives, CancelRunning,
              CancelOrphan, CancelStatusQuery, CancelProbe, CancelNothing, ConnectionLost
<1>4. CASE UNCHANGED vars
  BY <1>4 DEF vars
<1>5. QED
  BY <1>1, <1>2, <1>3, <1>4 DEF Next

\* Submit waits for the orphan; Interrupt turns what runs into the orphan.
LEMMA OneStep ==
    ASSUME OneStatementAtATime, MetaIsUnanswered, LostIsSilent, [Next]_vars
    PROVE  OneStatementAtATime'
<1> USE DEF OneStatementAtATime, MetaIsUnanswered, LostIsSilent
<1>1. CASE User
  BY <1>1 DEF User, RunSql, RunMeta, EditAndExecute, Repeat, StartBatch, ResetBuffer,
              ReconnectTo, Interrupt, FreshBackend
<1>2. CASE Program
  BY <1>2 DEF Program, Submit, NextStatement, BatchDone, BatchLost, EndBatch, Indicator,
              StatusReply, StatusLost, Report, IsAlive, AutoReconnect, FreshBackend
<1>3. CASE Environment
  BY <1>3 DEF Environment, BackendAnswer, OrphanEnds, CancelArrives, CancelRunning,
              CancelOrphan, CancelStatusQuery, CancelProbe, CancelNothing, ConnectionLost
<1>4. CASE UNCHANGED vars
  BY <1>4 DEF vars
<1>5. QED
  BY <1>1, <1>2, <1>3, <1>4 DEF Next

\* The status query is answered when nothing else runs, and until the next
\* command nothing runs that could end the block.
LEMMA StarStep ==
    ASSUME BackendTypeOK, StarInFlight, OneStatementAtATime, MetaIsUnanswered, [Next]_vars
    PROVE  StarInFlight'
<1> USE DEF BackendTypeOK, TxnState, StarInFlight, OneStatementAtATime, MetaIsUnanswered
<1>1. CASE User
  BY <1>1 DEF User, RunSql, RunMeta, EditAndExecute, Repeat, StartBatch, ResetBuffer,
              ReconnectTo, Interrupt, FreshBackend
<1>2. CASE Program
  BY <1>2 DEF Program, Submit, NextStatement, BatchDone, BatchLost, EndBatch, Indicator,
              StatusReply, StatusLost, Report, IsAlive, AutoReconnect, FreshBackend
<1>3. CASE BackendAnswer \/ OrphanEnds \/ ConnectionLost
  BY <1>3 DEF BackendAnswer, OrphanEnds, ConnectionLost
<1>4. CASE CancelArrives
  <2>1. CASE CancelProbe
    <3>1. srv \in TxnState /\ "read" \notin EndsBlock
      BY DEF EndsBlock
    <3>2. srv.block # "idle" => srv'.block = "failed"
      BY <2>1, <3>1 DEF CancelProbe, AfterError
    <3>3. QED
      BY <1>4, <2>1, <3>2 DEF CancelArrives, CancelProbe
  <2>2. CASE CancelRunning \/ CancelOrphan \/ CancelStatusQuery \/ CancelNothing
    BY <1>4, <2>2 DEF CancelArrives, CancelRunning, CancelOrphan, CancelStatusQuery, CancelNothing
  <2>3. QED
    BY <1>4, <2>1, <2>2 DEF CancelArrives
<1>5. CASE UNCHANGED vars
  BY <1>5 DEF vars
<1>6. QED
  BY <1>1, <1>2, <1>3, <1>4, <1>5 DEF Next, Environment

\* Client and configuration change together or not at all.
LEMMA PoolStep ==
    ASSUME ClientMatchesConfig, [Next]_vars
    PROVE  ClientMatchesConfig'
<1> USE DEF ClientMatchesConfig
<1>1. CASE User
  BY <1>1 DEF User, RunSql, RunMeta, EditAndExecute, Repeat, StartBatch, ResetBuffer,
              ReconnectTo, Interrupt, FreshBackend
<1>2. CASE Program
  BY <1>2 DEF Program, Submit, NextStatement, BatchDone, BatchLost, EndBatch, Indicator,
              StatusReply, StatusLost, Report, IsAlive, AutoReconnect, FreshBackend
<1>3. CASE Environment
  BY <1>3 DEF Environment, BackendAnswer, OrphanEnds, CancelArrives, CancelRunning,
              CancelOrphan, CancelStatusQuery, CancelProbe, CancelNothing, ConnectionLost
<1>4. CASE UNCHANGED vars
  BY <1>4 DEF vars
<1>5. QED
  BY <1>1, <1>2, <1>3, <1>4 DEF Next

\* The automatic reconnect keeps last_sql, and stays on the same database.
LEMMA LastSqlStep ==
    ASSUME LastSqlIsLocal, ClientMatchesConfig, [Next]_vars
    PROVE  LastSqlIsLocal'
<1> USE DEF LastSqlIsLocal, ClientMatchesConfig
<1>1. CASE User
  BY <1>1 DEF User, RunSql, RunMeta, EditAndExecute, Repeat, StartBatch, ResetBuffer,
              ReconnectTo, Interrupt, FreshBackend
<1>2. CASE Program
  BY <1>2 DEF Program, Submit, NextStatement, BatchDone, BatchLost, EndBatch, Indicator,
              StatusReply, StatusLost, Report, IsAlive, AutoReconnect, FreshBackend
<1>3. CASE Environment
  BY <1>3 DEF Environment, BackendAnswer, OrphanEnds, CancelArrives, CancelRunning,
              CancelOrphan, CancelStatusQuery, CancelProbe, CancelNothing, ConnectionLost
<1>4. CASE UNCHANGED vars
  BY <1>4 DEF vars
<1>5. QED
  BY <1>1, <1>2, <1>3, <1>4 DEF Next

LEMMA NextIInv == IInv /\ [Next]_vars => IInv'
  BY CommandTypeStep, SessionTypeStep, BackendTypeStep, LineStep, SubmissionsStep, LostStep,
     MetaStep, OneStep, StarStep, PoolStep, LastSqlStep
  DEF IInv, TypeOK

\* IInv is an inductive invariant.
THEOREM Invariance == Spec => []IInv
  BY InitIInv, NextIInv, PTL DEF Spec

----------------------------------------------------------------------------
(* The theorems. *)

\* Every variable of the session keeps its type.
THEOREM TypeCorrect == Spec => []TypeOK
<1>1. IInv => TypeOK
  BY DEF IInv
<1>2. QED
  BY Invariance, <1>1, PTL

\* A '*' in the prompt is never a leftover of an earlier command (run_sql's
\* indicator and its status query).
THEOREM StarIsTrue == Spec => []StarMeansBlock
<1>1. IInv => StarMeansBlock
  BY DEF IInv, StarInFlight, StarMeansBlock
<1>2. QED
  BY Invariance, <1>1, PTL

\* reconnect_to stores a configuration only together with the client it
\* belongs to.
THEOREM ReconnectConsistent == Spec => []ClientMatchesConfig
<1>1. IInv => ClientMatchesConfig
  BY DEF IInv
<1>2. QED
  BY Invariance, <1>1, PTL

\* last_sql belongs to the database the session is connected to.
THEOREM RepeatIsLocal == Spec => []LastSqlIsLocal
<1>1. IInv => LastSqlIsLocal
  BY DEF IInv
<1>2. QED
  BY Invariance, <1>1, PTL

\* No statement of a command is submitted twice, across errors, Ctrl-C and
\* the automatic reconnect.
THEOREM NoReplay == Spec => []SubmittedOnce
<1>1. IInv => SubmittedOnce
  <2> SUFFICES ASSUME IInv, pc # "prompt" PROVE sent <= pos /\ pos <= Len(line)
    BY DEF SubmittedOnce
  <2>1. line \in Lines /\ pos \in 1..Len(line) /\ sent <= pos
    BY DEF IInv, LineInFlight, Submissions
  <2>2. Len(line) \in Nat
    BY <2>1, LineFacts
  <2>3. QED
    BY <2>1, <2>2
<1>2. QED
  BY Invariance, <1>1, PTL

\* The backend never works for the client and on an abandoned statement at
\* once, and an answer is always read by the command that waits for it.
THEOREM NoCrossedAnswers == Spec => []OneStatementAtATime
<1>1. IInv => OneStatementAtATime
  BY DEF IInv
<1>2. QED
  BY Invariance, <1>1, PTL
----------------------------------------------------------------------------
(***************************************************************************)
(* ReplIndicator: as long as the program is told of everything that runs,  *)
(* its guess covers the server's block and the prompt's indicator is       *)
(* complete.                                                               *)
(*                                                                         *)
(* The guess reads a line when it is over, the server while it runs.       *)
(* Covered relates the two statement by statement: Told(k) is the guess    *)
(* after the first k statements of the line.                               *)
(***************************************************************************)

\* What txn_block_open_after would say of the first k statements of a line.
Guess(wasOpen, l, k) ==
    LET marks == {i \in 1..k : l[i] \in Opening \cup Closing}
    IN  IF marks = {}
        THEN wasOpen
        ELSE \E i \in marks : l[i] \in Opening /\ \A j \in marks : j <= i

Told(k) == Guess(txn_block_open, line, k)

\* The statements of the line that the backend has done with.
Answered == IF reply = Nil THEN pos - 1 ELSE pos

\* Only what is blind runs outside lines of SQL, or longer than they do.
BlindWhenUntold ==
    /\ blind \in BOOLEAN
    /\ pc = "exec" /\ mode # "sql" => blind
    /\ orphan # Nil => blind

RunsItsLine == running # Nil => running = line[pos]

\* The guess covers the block at every point of a command.
Covered ==
    ~blind /\ link = "up" /\ srv.block # "idle" =>
        /\ pc = "exec" => Told(Answered)
        /\ pc = "indicator" => Told(Len(line))
        /\ pc \notin {"exec", "indicator"} => txn_block_open

\* IndicatorComplete from the answer of the status query on.
CompleteInFlight ==
    pc \in {"prompt", "report", "check", "reconnect"} =>
        (link = "up" /\ ~blind /\ reading = "fresh"
           => (srv.block = "open" /\ srv.xid => txn_status = "*"))

HInv == IInv /\ BlindWhenUntold /\ RunsItsLine /\ Covered /\ CompleteInFlight

----------------------------------------------------------------------------
(* The guess, statement by statement. *)

LEMMA GuessNothing ==
    ASSUME NEW wasOpen, NEW l PROVE Guess(wasOpen, l, 0) = wasOpen
  BY DEF Guess

\* A statement that closes nothing leaves an open block open to the guess.
LEMMA GuessNext ==
    ASSUME NEW wasOpen, NEW l, NEW k \in Nat, Guess(wasOpen, l, k), l[k + 1] \notin Closing
    PROVE  Guess(wasOpen, l, k + 1)
<1>1. CASE l[k + 1] \in Opening
  BY <1>1 DEF Guess
<1>2. CASE l[k + 1] \notin Opening
  <2>1. {i \in 1..(k + 1) : l[i] \in Opening \cup Closing}
          = {i \in 1..k : l[i] \in Opening \cup Closing}
    BY <1>2
  <2>2. QED
    BY <2>1 DEF Guess
<1>3. QED
  BY <1>1, <1>2

LEMMA GuessOpening ==
    ASSUME NEW wasOpen, NEW l, NEW k \in Nat, l[k + 1] \in Opening
    PROVE  Guess(wasOpen, l, k + 1)
  BY DEF Guess

\* At the end of the line this is what the code computes.
LEMMA GuessAll ==
    ASSUME NEW wasOpen, NEW l \in Lines
    PROVE  Guess(wasOpen, l, Len(l)) = TxnBlockOpenAfter(wasOpen, l)
<1>1. DOMAIN l = 1..Len(l)
  BY LinesAssumption
<1>2. QED
  BY <1>1 DEF Guess, TxnBlockOpenAfter

\* A statement the guess can read leaves a block only if it opens one, or does
\* not close the one there is.
LEMMA BlockStays ==
    ASSUME NEW t \in TxnState, NEW s \in Stmt \ {"commit_and_chain", "rollback_work_to"},
           NEW next \in {a.next : a \in Answers(t, s)} \cup {AfterError(t, s)},
           next.block # "idle"
    PROVE  s \notin Closing /\ (s \in Opening \/ t.block # "idle")
<1>1. next \in {AfterSuccess(t, s), AfterError(t, s)}
  BY DEF Answers
<1>2. s \in NeedsBlock => t.block # "idle" \/ next = AfterError(t, s)
  BY DEF Answers, Accepts
<1>3. CASE next = AfterError(t, s)
  BY <1>3 DEF AfterError, NoTxn, EndsBlock, Closing
<1>4. CASE next = AfterSuccess(t, s) /\ next # AfterError(t, s)
  BY <1>2, <1>4 DEF AfterSuccess, NoTxn, OpenTxn, TxnState, Opening, Closing, Stmt, NeedsBlock
<1>5. QED
  BY <1>1, <1>3, <1>4

----------------------------------------------------------------------------
(* The steps. *)

HStep == [HNext]_<<vars, blind>>

\* A command other than a line of SQL, Ctrl-C, and what it leaves running, are
\* never missed.
LEMMA BlindStep ==
    ASSUME BlindWhenUntold, HStep
    PROVE  BlindWhenUntold'
<1> USE DEF BlindWhenUntold
<1>1. CASE HNext
  <2>1. blind' \in BOOLEAN /\ (blind => blind')
    BY <1>1, Zenon DEF HNext
  <2>2. CASE User
    BY <1>1, <2>1, <2>2 DEF HNext, CutShort, User, RunSql, RunMeta, EditAndExecute, Repeat,
        StartBatch, ResetBuffer, ReconnectTo, Interrupt, FreshBackend
  <2>3. CASE Program
    BY <2>1, <2>3 DEF Program, Submit, NextStatement, BatchDone, BatchLost, EndBatch, Indicator,
        StatusReply, StatusLost, Report, IsAlive, AutoReconnect, FreshBackend
  <2>4. CASE Environment
    BY <2>1, <2>4 DEF Environment, BackendAnswer, OrphanEnds, CancelArrives, CancelRunning,
        CancelOrphan, CancelStatusQuery, CancelProbe, CancelNothing, ConnectionLost
  <2>5. QED
    BY <1>1, <2>2, <2>3, <2>4 DEF HNext, Next
<1>2. CASE UNCHANGED <<vars, blind>>
  BY <1>2 DEF vars
<1>3. QED
  BY <1>1, <1>2 DEF HStep

\* The backend runs the statement the batch has come to.
LEMMA RunsStep ==
    ASSUME RunsItsLine, OneStatementAtATime, [Next]_vars
    PROVE  RunsItsLine'
<1> USE NilFacts DEF RunsItsLine, OneStatementAtATime
<1>1. CASE User
  BY <1>1 DEF User, RunSql, RunMeta, EditAndExecute, Repeat, StartBatch, ResetBuffer,
              ReconnectTo, Interrupt, FreshBackend
<1>2. CASE Program
  BY <1>2 DEF Program, Submit, NextStatement, BatchDone, BatchLost, EndBatch, Indicator,
              StatusReply, StatusLost, Report, IsAlive, AutoReconnect, FreshBackend
<1>3. CASE Environment
  BY <1>3 DEF Environment, BackendAnswer, OrphanEnds, CancelArrives, CancelRunning,
              CancelOrphan, CancelStatusQuery, CancelProbe, CancelNothing, ConnectionLost
<1>4. CASE UNCHANGED vars
  BY <1>4 DEF vars
<1>5. QED
  BY <1>1, <1>2, <1>3, <1>4 DEF Next

\* The indicator is set where the block is open, and nothing runs from there to
\* the prompt.
LEMMA CompleteStep ==
    ASSUME BackendTypeOK, BlindWhenUntold, BlindWhenUntold', OneStatementAtATime,
           Covered', CompleteInFlight, HStep
    PROVE  CompleteInFlight'
<1> USE DEF BackendTypeOK, TxnState, CompleteInFlight, OneStatementAtATime, BlindWhenUntold
<1>1. CASE HNext
  <2>1. blind => blind'
    BY <1>1, Zenon DEF HNext
  <2>2. CASE User
    BY <1>1, <2>1, <2>2 DEF HNext, User, RunSql, RunMeta, EditAndExecute, Repeat,
        StartBatch, ResetBuffer, ReconnectTo, Interrupt, FreshBackend, NoTxn
  <2>3. CASE Submit \/ NextStatement \/ BatchDone \/ BatchLost
    BY <1>1, <2>1, <2>3 DEF Submit, NextStatement, BatchDone, BatchLost, EndBatch, HNext
  <2>4. CASE Indicator
    BY <2>1, <2>4 DEF Indicator, Covered
  <2>5. CASE StatusReply \/ StatusLost \/ Report \/ IsAlive \/ AutoReconnect
    BY <2>1, <2>5 DEF StatusReply, StatusLost, Report, IsAlive, AutoReconnect, FreshBackend, NoTxn
  <2>6. CASE BackendAnswer \/ OrphanEnds \/ ConnectionLost
    BY <2>1, <2>6 DEF BackendAnswer, OrphanEnds, ConnectionLost
  <2>7. CASE CancelArrives
    <3>1. CASE CancelProbe
      <4>1. srv'.block # "open"
        BY <3>1 DEF CancelProbe, AfterError, NoTxn
      <4>2. QED
        BY <4>1
    <3>2. CASE CancelRunning \/ CancelOrphan \/ CancelStatusQuery \/ CancelNothing
      BY <2>1, <2>7, <3>2 DEF CancelArrives, CancelRunning, CancelOrphan, CancelStatusQuery,
          CancelNothing
    <3>3. QED
      BY <2>7, <3>1, <3>2 DEF CancelArrives
  <2>8. QED
    BY <1>1, <2>2, <2>3, <2>4, <2>5, <2>6, <2>7 DEF HNext, Next, Program, Environment
<1>2. CASE UNCHANGED <<vars, blind>>
  BY <1>2 DEF vars
<1>3. QED
  BY <1>1, <1>2 DEF HStep

\* The guess is carried through the batch with the answers.
LEMMA AnswerCovered ==
    ASSUME BackendTypeOK, LineInFlight, OneStatementAtATime, RunsItsLine, Covered,
           ~blind, link = "up", ~Misread(line), running # Nil,
           NEW next \in {a.next : a \in Answers(srv, running)} \cup {AfterError(srv, running)},
           next.block # "idle"
    PROVE  Told(pos)
<1>1. pc = "exec" /\ reply = Nil
  BY DEF OneStatementAtATime
<1>2. line \in Lines /\ pos \in 1..Len(line) /\ Len(line) \in Nat
  BY <1>1, LineFacts DEF LineInFlight
<1>3. running = line[pos] /\ running \in Stmt \ {"commit_and_chain", "rollback_work_to"}
  <2>1. pos \in DOMAIN line
    BY <1>2, LinesAssumption
  <2>2. QED
    BY <2>1 DEF RunsItsLine, BackendTypeOK, Misread
<1>4. running \notin Closing /\ (running \in Opening \/ srv.block # "idle")
  BY <1>3, BlockStays DEF BackendTypeOK
<1>5. (pos - 1) \in Nat /\ (pos - 1) + 1 = pos
  BY <1>2
<1>6. CASE running \in Opening
  BY <1>3, <1>5, <1>6, GuessOpening DEF Told
<1>7. CASE srv.block # "idle"
  <2>1. Told(pos - 1)
    BY <1>1, <1>7 DEF Covered, Answered
  <2>2. QED
    BY <1>3, <1>4, <1>5, <2>1, GuessNext DEF Told
<1>8. QED
  BY <1>4, <1>6, <1>7

\* The guess covers the block after every step.
LEMMA CoveredStep ==
    ASSUME IInv, BlindWhenUntold, RunsItsLine, Covered, BlindWhenUntold', HStep
    PROVE  Covered'
<1> SUFFICES ASSUME ~blind', (link = "up")', (srv.block # "idle")'
             PROVE  /\ pc' = "exec" => Told(Answered)'
                    /\ pc' = "indicator" => Told(Len(line))'
                    /\ pc' \notin {"exec", "indicator"} => txn_block_open'
  BY DEF Covered
<1>1. ~blind
  BY Zenon DEF HStep, HNext
<1> USE <1>1, NilFacts DEF IInv, OneStatementAtATime
<1>2. CASE HNext /\ User
  <2>1. ASSUME NEW m \in Modes, NEW l \in Lines, StartBatch(m, l)
        PROVE  Told(Answered)'
    <3>1. txn_block_open' /\ (Answered = 0)'
      BY <2>1 DEF StartBatch, Covered, Answered
    <3>2. QED
      BY <3>1, GuessNothing DEF Told
  <2>2. ASSUME NEW d \in Databases, ReconnectTo(d)
        PROVE  pc' = "prompt" /\ txn_block_open'
    BY <2>2 DEF ReconnectTo, FreshBackend, NoTxn, Covered
  <2>3. CASE ResetBuffer
    BY <2>3 DEF ResetBuffer, Covered
  <2>4. ~Interrupt
    BY <1>2 DEF HNext, CutShort, Interrupt
  <2>5. QED
    BY <1>2, <2>1, <2>2, <2>3, <2>4, UserStep DEF StartBatch, TypeOK
<1>3. CASE HNext /\ Program
  <2>1. CASE Submit \/ NextStatement
    <3>1. Answered' = Answered /\ pc = "exec" /\ pc' = "exec"
      BY <2>1 DEF Submit, NextStatement, Answered, TypeOK, CommandTypeOK
    <3>2. QED
      BY <2>1, <3>1 DEF Submit, NextStatement, Covered, Told
  <2>2. CASE BatchDone \/ BatchLost
    <3>1. BatchDone /\ reply # Nil /\ pc = "exec" /\ pc' \in {"indicator", "prompt"}
      BY <2>2 DEF BatchDone, BatchLost, EndBatch
    <3>2. mode = "sql" /\ pc' = "indicator"
      BY <3>1 DEF BlindWhenUntold, BatchDone, EndBatch
    <3>3. pos = Len(line)
      <4>1. pos \in 1..Len(line) /\ Len(line) \in Nat
        BY <3>1, LineFacts DEF LineInFlight
      <4>2. ~CutShort
        BY <1>3, <3>1, <3>2, Zenon DEF HNext
      <4>3. pos >= Len(line) \/ outcome' = "ok"
        BY <3>2, <4>1, <4>2 DEF CutShort
      <4>4. QED
        BY <3>1, <4>1, <4>3 DEF BatchDone, EndBatch
    <3>4. QED
      BY <3>1, <3>2, <3>3 DEF BatchDone, EndBatch, Covered, Answered, Told
  <2>3. CASE Indicator
    BY <2>3, GuessAll DEF Indicator, Covered, LineInFlight, Told
  <2>4. CASE StatusReply \/ StatusLost \/ Report \/ IsAlive \/ AutoReconnect
    <3>1. CASE StatusReply \/ StatusLost
      BY <3>1 DEF StatusReply, StatusLost, Covered
    <3>2. CASE Report \/ IsAlive
      BY <3>2 DEF Report, IsAlive, Covered
    <3>3. CASE AutoReconnect
      BY <3>3 DEF AutoReconnect, FreshBackend, NoTxn, Covered
    <3>4. QED
      BY <2>4, <3>1, <3>2, <3>3
  <2>5. QED
    BY <1>3, <2>1, <2>2, <2>3, <2>4 DEF Program
<1>4. CASE HNext /\ Environment
  <2>1. CASE BackendAnswer \/ (CancelArrives /\ CancelRunning)
    <3>1. running # Nil /\ pc = "exec" /\ pc' = "exec" /\ mode = "sql"
      BY <2>1 DEF BackendAnswer, CancelArrives, CancelRunning, BlindWhenUntold
    <3>2. ~Misread(line)
      BY <1>4, <3>1, Zenon DEF HNext
    <3>3. srv' \in {a.next : a \in Answers(srv, running)} \cup {AfterError(srv, running)}
      BY <2>1 DEF BackendAnswer, CancelArrives, CancelRunning
    <3>4. /\ link = "up" /\ reply' # Nil
          /\ pos' = pos /\ line' = line /\ txn_block_open' = txn_block_open
      BY <2>1 DEF BackendAnswer, CancelArrives, CancelRunning
    <3>5. Told(pos)
      BY <3>1, <3>2, <3>3, <3>4, AnswerCovered DEF TypeOK
    <3>6. QED
      BY <3>1, <3>4, <3>5 DEF Told, Answered
  <2>2. CASE OrphanEnds \/ ConnectionLost
    BY <2>2 DEF OrphanEnds, ConnectionLost, BlindWhenUntold
  <2>3. CASE CancelArrives /\ ~CancelRunning
    BY <2>3 DEF CancelArrives, CancelOrphan, CancelStatusQuery, CancelProbe, CancelNothing,
       BlindWhenUntold, Covered, AfterError, NoTxn, Answered, Told
  <2>4. QED
    BY <1>4, <2>1, <2>2, <2>3, Zenon DEF Environment
<1>5. CASE UNCHANGED <<vars, blind>>
  BY <1>5 DEF vars, Covered, Answered, Told
<1>6. QED
  BY <1>2, <1>3, <1>4, <1>5 DEF HStep, HNext, Next

LEMMA InitHInv == HInit => HInv
<1> SUFFICES ASSUME HInit PROVE HInv
  OBVIOUS
<1>1. IInv /\ blind = FALSE
  BY InitIInv DEF HInit
<1>2. BlindWhenUntold /\ RunsItsLine /\ Covered /\ CompleteInFlight
  BY <1>1 DEF HInit, Init, NoTxn, BlindWhenUntold, RunsItsLine, Covered, CompleteInFlight
<1>3. QED
  BY <1>1, <1>2 DEF HInv

LEMMA NextHInv == HInv /\ HStep => HInv'
<1> SUFFICES ASSUME HInv, HStep PROVE HInv'
  OBVIOUS
<1>1. [Next]_vars
  BY DEF HStep, HNext
<1>2. IInv'
  BY <1>1, NextIInv DEF HInv
<1>3. BlindWhenUntold' /\ RunsItsLine'
  BY <1>1, BlindStep, RunsStep DEF HInv, IInv
<1>4. Covered'
  BY <1>3, CoveredStep DEF HInv
<1>5. CompleteInFlight'
  BY <1>3, <1>4, CompleteStep DEF HInv, IInv, TypeOK
<1>6. QED
  BY <1>2, <1>3, <1>4, <1>5 DEF HInv

\* HInv is an inductive invariant.
THEOREM HInvariance == HSpec => []HInv
<1>1. HInv /\ [HNext]_<<vars, blind>> => HInv'
  BY NextHInv DEF HStep
<1>2. QED
  BY InitHInv, <1>1, PTL DEF HSpec

----------------------------------------------------------------------------
(* The theorems. *)

\* The guess of sql.rs never misses a block, whatever fails, is cancelled or
\* is lost, as long as only whole lines of SQL in forms it knows were run.
THEOREM GuessIsSafe == HSpec => []GuessCoversBlock
<1>1. HInv => GuessCoversBlock
  BY DEF HInv, Covered, GuessCoversBlock
<1>2. QED
  BY HInvariance, <1>1, PTL

\* And then a block with a transaction id shows its '*' at the next prompt.
THEOREM StarIsShown == HSpec => []IndicatorComplete
<1>1. HInv => IndicatorComplete
  BY DEF HInv, CompleteInFlight, IndicatorComplete
<1>2. QED
  BY HInvariance, <1>1, PTL
=============================================================================
