--------------------------- MODULE ProgramProofs ----------------------------
(***************************************************************************)
(* Theorems about Program for every command line, environment, password    *)
(* file and task: where it connects, what it shows and its exit code.      *)
(*                                                                         *)
(* Shot!IInv is the inductive invariant of the one-shot modes, Traced that *)
(* of the start; Go moves both, so each is carried through the other's     *)
(* steps as well.                                                          *)
(***************************************************************************)
EXTENDS Program, Recursion

USE DEF Shot!progress, Shot!server

-----------------------------------------------------------------------------
(* Facts about tasks and numbers. *)

LEMMA TaskFacts ==
    ASSUME NEW t \in Tasks
    PROVE  /\ t.n \in Nat /\ t.kind \in Shot!Kinds /\ t.output \in BOOLEAN
           /\ t.export \in BOOLEAN /\ t.single \in BOOLEAN
           /\ Shot!Runs(t) \in Nat /\ Shot!Runs(t) >= 1
           /\ t.kind # "sql" => Shot!Runs(t) = 1
           /\ Shot!Forgiven(t) \subseteq Nat \ {0}
           /\ t.kind \notin {"source", "extended", "file", "script"} => Shot!Forgiven(t) = {}
<1>1. t \in Shot!TaskType
  BY TasksAssumption
<1>2. /\ t.n \in Nat /\ t.kind \in Shot!Kinds /\ t.output \in BOOLEAN
      /\ t.export \in BOOLEAN /\ t.single \in BOOLEAN /\ t.repeat \in Nat
      /\ t.lenient \subseteq Nat \ {0}
      /\ t.kind \notin Shot!Scripts => t.lenient = {}
  BY <1>1 DEF Shot!TaskType
<1>3. 1..t.n \subseteq Nat \ {0}
  BY <1>2
<1>4. QED
  BY <1>2, <1>3 DEF Shot!Runs, Shot!Forgiven, Shot!Tolerates, Shot!Scripts

\* Statement k of run r is the result that it has to be.
LEMMA NthFacts ==
    ASSUME NEW n \in Nat, NEW r \in Nat, r >= 1, NEW k \in 1..n
    PROVE  /\ (r - 1) * n + k \in Nat /\ (r - 1) * n + k >= 1
           /\ ((((r - 1) * n + k) - 1) \div n) + 1 = r
           /\ ((((r - 1) * n + k) - 1) % n) + 1 = k
<1>1. r - 1 \in Nat /\ k - 1 \in 0..n - 1
  OBVIOUS
<1>2. \A q \in Nat, p \in 0..n - 1 : (q * n + p) \div n = q /\ (q * n + p) % n = p
  OBVIOUS
<1>3. (r - 1) * n \in Nat
  BY <1>1
<1>4. ((r - 1) * n + k) - 1 = (r - 1) * n + (k - 1)
  BY <1>1, <1>3
<1>5. QED
  BY <1>1, <1>2, <1>3, <1>4

LEMMA NthResult ==
    ASSUME task.n \in Nat, NEW r \in Nat, r >= 1, NEW k \in 1..task.n
    PROVE  Shot!Nth((r - 1) * task.n + k) = <<r, k>>
<1> DEFINE n == task.n
<1>1. n \in Nat /\ k \in 1..n
  OBVIOUS
<1>2. \A j : Shot!Nth(j) = <<((j - 1) \div n) + 1, ((j - 1) % n) + 1>>
  BY DEF Shot!Nth
<1> HIDE DEF n
<1>3. /\ ((((r - 1) * n + k) - 1) \div n) + 1 = r
      /\ ((((r - 1) * n + k) - 1) % n) + 1 = k
  BY <1>1, NthFacts
<1>4. Shot!Nth((r - 1) * n + k) = <<r, k>>
  <2> DEFINE x == (r - 1) * n + k
  <2>1. ((x - 1) \div n) + 1 = r /\ ((x - 1) % n) + 1 = k
    BY <1>3
  <2> HIDE DEF x
  <2>2. Shot!Nth(x) = <<r, k>>
    BY <1>2, <2>1
  <2>3. QED
    BY <2>2 DEF x
<1>5. QED
  BY <1>4 DEF n

LEMMA RunLength ==
    ASSUME NEW n \in Nat, NEW r \in Nat, NEW m \in Nat, 1 <= r, r <= m
    PROVE  /\ (r - 1) * n \in Nat /\ r * n \in Nat /\ m * n \in Nat
           /\ (r - 1) * n + n = r * n /\ r * n <= m * n
           /\ (r + 1 - 1) * n = r * n
  OBVIOUS

-----------------------------------------------------------------------------
(* The one-shot modes, step by step. *)

LEMMA ShotInit == Shot!Init => Shot!IInv
<1> SUFFICES ASSUME Shot!Init PROVE Shot!IInv
  OBVIOUS
<1>1. Shot!TypeOK /\ Shot!ChunksOK
  BY TaskFacts DEF Shot!Init, Shot!TypeOK, Shot!ChunksOK
<1>2. Shot!DoneInOrder
  BY <1>1, TaskFacts DEF Shot!Init, Shot!DoneInOrder, Shot!TypeOK, Shot!Running
<1>3. Shot!RunsCounted
  BY DEF Shot!Init, Shot!RunsCounted
<1>4. Shot!Accounted
  BY DEF Shot!Init, Shot!Accounted
<1>5. Shot!OnlyExecutedLeaves /\ Shot!OnlyDurableLeaves /\ Shot!AllOrNothing
  BY DEF Shot!Init, Shot!OnlyExecutedLeaves, Shot!OnlyDurableLeaves, Shot!AllOrNothing,
         Shot!Durable, Shot!Executed
<1>6. QED
  BY <1>1, <1>2, <1>3, <1>4, <1>5 DEF Shot!IInv

\* What one call writes is made of the results.
LEMMA ChunksFacts ==
    ASSUME NEW S, NEW res \in Seq(S)
    PROVE  /\ Shot!ChunksOf(task, res) \in Seq(Seq(S))
           /\ \A c \in DOMAIN Shot!ChunksOf(task, res) :
                  \A k \in DOMAIN Shot!ChunksOf(task, res)[c] :
                      \E j \in DOMAIN res : Shot!ChunksOf(task, res)[c][k] = res[j]
<1>1. CASE task.kind \in {"file", "extended"}
  <2>1. Shot!ChunksOf(task, res) = [k \in DOMAIN res |-> <<res[k]>>]
    BY <1>1 DEF Shot!ChunksOf
  <2>2. \A k \in DOMAIN res : <<res[k]>> \in Seq(S)
    OBVIOUS
  <2>3. DOMAIN res = 1..Len(res) /\ Len(res) \in Nat
    OBVIOUS
  <2>4. QED
    BY <2>1, <2>2, <2>3
<1>2. CASE task.kind \notin {"file", "extended"}
  <2>1. Shot!ChunksOf(task, res) = <<res>>
    BY <1>2 DEF Shot!ChunksOf
  <2>2. QED
    BY <2>1
<1>3. QED
  BY <1>1, <1>2

\* No step changes what the command line asks for.
LEMMA TaskStays == Shot!Next => task' = task
  BY DEF Shot!Next, Shot!Start, Shot!Succeed, Shot!Fail, Shot!DirectiveFails, Shot!EndRun,
         Shot!Commit, Shot!Write, Shot!WriteFails, Shot!EndWrite, Shot!Stats, Shot!Export

\* What has failed has failed; and what a step adds to it.
LEMMA FailedGrows ==
    ASSUME Shot!Next
    PROVE  /\ failed \subseteq failed'
           /\ failed' \subseteq failed \cup {0, pos + 1}
           /\ ~Shot!Fail => failed' \subseteq failed \cup {0}
           /\ failed' = failed \/ status' = 1 \/ (Shot!Fail /\ pos + 1 \in Shot!Forgiven(task))
  BY DEF Shot!Next, Shot!Start, Shot!Succeed, Shot!Fail, Shot!DirectiveFails, Shot!EndRun,
         Shot!Commit, Shot!Write, Shot!WriteFails, Shot!EndWrite, Shot!Stats, Shot!Export, Shot!Exit

LEMMA ShotTypeStep ==
    ASSUME Shot!TypeOK, Shot!ChunksOK, Shot!RunsCounted, Shot!Next
    PROVE  Shot!TypeOK' /\ Shot!ChunksOK'
<1> DEFINE R == Shot!Results
<1>0. task \in Tasks /\ task.n \in Nat /\ Shot!Runs(task) \in Nat /\ Shot!Runs(task) >= 1
  BY TaskFacts DEF Shot!TypeOK
<1>1. task' = task /\ Shot!Results' = R /\ Shot!Runs(task)' = Shot!Runs(task)
  BY TaskStays DEF Shot!Results
<1> HIDE DEF R
<1>2. /\ rep \in 1..Shot!Runs(task) /\ pos \in 0..task.n /\ recorded \in 0..Shot!Runs(task)
      /\ results \in Seq(R) /\ kept \in Seq(R) /\ out \in Seq(R) /\ exported \in Seq(R)
      /\ done \in Seq(R) /\ durable \in Seq(R) /\ chunks \in Seq(Seq(R))
      /\ status \in {0, 1, 9} /\ (status = 9) = (pc # "exit") /\ failed \subseteq 0..task.n
  BY DEF R, Shot!TypeOK, Shot!ChunksOK
<1>17. failed' \subseteq 0..task.n
  <2>1. Shot!Fail => pos + 1 \in 0..task.n
    BY <1>0, <1>2 DEF Shot!Fail
  <2>2. 0 \in 0..task.n
    BY <1>0
  <2>3. CASE Shot!Fail
    BY <1>2, <2>1, <2>2, <2>3, FailedGrows
  <2>4. CASE ~Shot!Fail
    BY <1>2, <2>2, <2>4, FailedGrows
  <2>5. QED
    BY <2>3, <2>4
<1>3. SUFFICES
      /\ pc' \in {"start", "run", "write", "stats", "export", "exit"}
      /\ status' \in {0, 1, 9} /\ (status' = 9) = (pc' # "exit")
      /\ rep' \in 1..Shot!Runs(task) /\ pos' \in 0..task.n /\ recorded' \in 0..Shot!Runs(task)
      /\ results' \in Seq(R) /\ kept' \in Seq(R) /\ out' \in Seq(R) /\ exported' \in Seq(R)
      /\ done' \in Seq(R) /\ durable' \in Seq(R) /\ chunks' \in Seq(Seq(R))
  BY <1>0, <1>1, <1>17 DEF Shot!TypeOK, Shot!ChunksOK
<1>4. <<>> \in Seq(R) /\ << <<>> >> \in Seq(Seq(R))
  OBVIOUS
<1>5. CASE Shot!Start
  <2>1. /\ UNCHANGED <<rep, pos, results, kept, recorded, out, exported, done, durable>>
        /\ chunks' = chunks \/ chunks' = << <<>> >>
        /\ \/ pc' = "exit" /\ status' \in {0, 1}
           \/ pc' \in {"write", "run"} /\ status' = status /\ pc = "start"
    BY <1>5 DEF Shot!Start, Shot!Exit
  <2>2. pc' \in {"start", "run", "write", "stats", "export", "exit"}
    BY <2>1
  <2>3. status' \in {0, 1, 9} /\ (status' = 9) = (pc' # "exit")
    BY <1>2, <2>1
  <2>4. chunks' \in Seq(Seq(R))
    BY <1>2, <1>4, <2>1
  <2>5. QED
    BY <1>2, <2>1, <2>2, <2>3, <2>4
<1>6. CASE Shot!Succeed
  <2>1. <<rep, pos + 1>> \in R
    <3>1. pos < task.n
      BY <1>6 DEF Shot!Succeed
    <3>2. pos + 1 \in 1..task.n
      BY <1>0, <1>2, <3>1
    <3>3. QED
      BY <1>2, <3>2 DEF R, Shot!Results
  <2>2. /\ Append(results, <<rep, pos + 1>>) \in Seq(R)
        /\ Append(done, <<rep, pos + 1>>) \in Seq(R)
        /\ Append(durable, <<rep, pos + 1>>) \in Seq(R)
        /\ << << <<rep, pos + 1>> >> >> \in Seq(Seq(R))
    BY <1>2, <2>1
  <2>3. results' \in Seq(R) /\ done' \in Seq(R) /\ durable' \in Seq(R) /\ chunks' \in Seq(Seq(R))
    BY <1>2, <1>6, <2>2 DEF Shot!Succeed
  <2>4. pos' \in 0..task.n
    BY <1>0, <1>2, <1>6 DEF Shot!Succeed
  <2>5. QED
    BY <1>2, <1>6, <2>3, <2>4 DEF Shot!Succeed
<1>7. CASE Shot!Fail
  <2>1. pos' \in 0..task.n
    BY <1>0, <1>2, <1>7 DEF Shot!Fail
  <2>2. QED
    BY <1>2, <1>7, <2>1 DEF Shot!Fail, Shot!Exit
<1>8. CASE Shot!EndRun
  <2>1. kept' \in Seq(R)
    BY <1>2, <1>8 DEF Shot!EndRun
  <2>2. Shot!ChunksOf(task, kept') \in Seq(Seq(R))
    BY <2>1, ChunksFacts
  <2>3. chunks' \in Seq(Seq(R)) /\ results' \in Seq(R)
    BY <1>2, <1>4, <1>8, <2>2 DEF Shot!EndRun
  <2>4. recorded' \in 0..Shot!Runs(task)
    <3>1. CASE task.kind = "sql"
      <4>1. recorded = rep - 1 /\ recorded' = recorded + 1
        BY <1>8, <3>1 DEF Shot!EndRun, Shot!RunsCounted
      <4>2. QED
        BY <1>0, <1>2, <4>1
    <3>2. CASE task.kind # "sql"
      BY <1>2, <1>8, <3>2 DEF Shot!EndRun
    <3>3. QED
      BY <3>1, <3>2
  <2>5. rep' \in 1..Shot!Runs(task) /\ pos' \in 0..task.n
    BY <1>0, <1>2, <1>8 DEF Shot!EndRun
  <2>6. QED
    BY <1>2, <1>8, <2>1, <2>3, <2>4, <2>5 DEF Shot!EndRun
<1>10. CASE Shot!Commit
  <2>1. Shot!ChunksOf(task, results) \in Seq(Seq(R))
    BY <1>2, ChunksFacts
  <2>2. /\ UNCHANGED <<rep, pos, recorded, out, exported, done>>
        /\ durable' \in {<<>>, done}
        /\ chunks' = chunks \/ chunks' = Shot!ChunksOf(task, results)
        /\ kept' \in {kept, results} /\ results' \in {results, <<>>}
        /\ \/ pc' = "exit" /\ status' = 1
           \/ pc' = "write" /\ status' = status /\ pc = "run"
    BY <1>10 DEF Shot!Commit, Shot!Exit, Shot!Committed
  <2>3. pc' \in {"start", "run", "write", "stats", "export", "exit"}
    BY <2>2
  <2>4. status' \in {0, 1, 9} /\ (status' = 9) = (pc' # "exit")
    BY <1>2, <2>2
  <2>5. /\ chunks' \in Seq(Seq(R)) /\ durable' \in Seq(R) /\ kept' \in Seq(R)
        /\ results' \in Seq(R)
    BY <1>2, <1>4, <2>1, <2>2
  <2>6. QED
    BY <1>2, <2>2, <2>3, <2>4, <2>5
<1>11. CASE Shot!Write
  <2>1. Head(chunks) \in Seq(R) /\ Tail(chunks) \in Seq(Seq(R))
    BY <1>2, <1>11 DEF Shot!Write
  <2>2. Shot!Written(Head(chunks)) \in Seq(R)
    BY <1>2, <2>1 DEF Shot!Written
  <2>3. QED
    BY <1>2, <1>11, <2>1, <2>2 DEF Shot!Write
<1>12. CASE Shot!WriteFails
  BY <1>2, <1>12 DEF Shot!WriteFails, Shot!Exit
<1>13. CASE Shot!EndWrite
  BY <1>2, <1>13 DEF Shot!EndWrite, Shot!Exit
<1>14. CASE Shot!Stats
  BY <1>2, <1>14 DEF Shot!Stats, Shot!Exit
<1>15. CASE Shot!Export
  BY <1>2, <1>15 DEF Shot!Export, Shot!Exit
<1>18. CASE Shot!DirectiveFails
  BY <1>2, <1>18 DEF Shot!DirectiveFails, Shot!Exit
<1>16. QED
  BY <1>5, <1>6, <1>7, <1>8, <1>10, <1>11, <1>12, <1>13, <1>14, <1>15, <1>18 DEF Shot!Next

\* What is over was executed in order.
LEMMA ShotDoneStep ==
    ASSUME Shot!IInv, Shot!Next
    PROVE  Shot!DoneInOrder'
<1> DEFINE n == task.n
           M == Shot!Runs(task)
<1>0. n \in Nat /\ M \in Nat /\ M >= 1
  BY TaskFacts DEF Shot!TypeOK, Shot!IInv
<1>1. task' = task /\ n' = n /\ M' = M
  BY TaskStays
<1>2. /\ rep \in 1..M /\ pos \in 0..n
      /\ done \in Seq(Shot!Results) /\ results \in Seq(Shot!Results)
  BY DEF Shot!TypeOK, Shot!IInv
<1>3. SUFFICES ASSUME Shot!Intact'
      PROVE  /\ \A j \in DOMAIN done' : done'[j] = Shot!Nth(j)
             /\ Len(done') <= M * n
             /\ pc' = "start" => Len(done') = 0
             /\ Shot!Running' => Len(done') = (rep' - 1) * n + pos'
             /\ Shot!Running' => /\ Len(results') = pos'
                                 /\ \A k \in DOMAIN results' : results'[k] = <<rep', k>>
  BY <1>1 DEF Shot!DoneInOrder, Shot!Nth
<1>5. Shot!Intact
  BY <1>1, <1>3, FailedGrows DEF Shot!Intact
<1>4. /\ \A j \in DOMAIN done : done[j] = Shot!Nth(j)
      /\ Len(done) <= M * n
      /\ pc = "start" => Len(done) = 0 /\ rep = 1 /\ pos = 0 /\ results = <<>>
      /\ Shot!Running => Len(done) = (rep - 1) * n + pos
      /\ Shot!Running => Len(results) = pos /\ \A k \in DOMAIN results : results[k] = <<rep, k>>
  BY <1>5 DEF Shot!DoneInOrder, Shot!IInv, Shot!RunsCounted
<1>6. /\ (rep - 1) * n \in Nat /\ rep * n \in Nat /\ M * n \in Nat
      /\ (rep - 1) * n + n = rep * n /\ rep * n <= M * n
      /\ (rep + 1 - 1) * n = rep * n /\ (1 - 1) * n = 0
  BY <1>0, <1>2, RunLength
<1> HIDE DEF n, M
<1>7. CASE Shot!Succeed
  <2> DEFINE r == <<rep, pos + 1>>
  <2>1. /\ pc = "run" /\ pos < n /\ done' = Append(done, r) /\ results' = Append(results, r)
        /\ rep' = rep /\ pos' = pos + 1 /\ Shot!Running
    BY <1>7 DEF Shot!Succeed, Shot!Running, n
  <2>2. Len(done) + 1 = (rep - 1) * n + (pos + 1) /\ pos + 1 \in 1..n
    BY <1>0, <1>2, <1>4, <1>6, <2>1
  <2>3. Shot!Nth((rep - 1) * n + (pos + 1)) = r
    <3>1. rep \in Nat /\ rep >= 1
      BY <1>0, <1>2
    <3>2. \A k \in 1..n : Shot!Nth((rep - 1) * n + k) = <<rep, k>>
      BY <1>0, <3>1, NthResult DEF n
    <3>3. QED
      BY <2>2, <3>2
  <2>4. Shot!Nth(Len(done) + 1) = r
    BY <2>2, <2>3
  <2> HIDE DEF r
  <2>5. \A j \in DOMAIN done' : done'[j] = Shot!Nth(j)
    <3>1. /\ Len(done') = Len(done) + 1 /\ DOMAIN done' = 1..(Len(done) + 1)
          /\ DOMAIN done = 1..Len(done) /\ Len(done) \in Nat
          /\ \A j \in 1..Len(done) : done'[j] = done[j]
          /\ done'[Len(done) + 1] = r
      BY <1>2, <2>1
    <3>2. \A j \in DOMAIN done' : j \in DOMAIN done \/ j = Len(done) + 1
      BY <3>1
    <3>3. QED
      BY <1>4, <2>4, <3>1, <3>2
  <2>6. Len(done') = Len(done) + 1
    BY <1>2, <2>1
  <2>7. Len(done') <= M * n /\ Len(done') = (rep' - 1) * n + pos'
    <3>1. \A a, b, c, d \in Nat : a + n = b /\ b <= c /\ d + 1 = a + (pos + 1) /\ pos + 1 <= n
                                   => d + 1 <= c
      BY <1>0, <1>2
    <3>2. Len(done) \in Nat /\ pos + 1 <= n
      BY <1>0, <1>2, <2>2
    <3>3. Len(done) + 1 <= M * n
      BY <1>6, <2>2, <3>1, <3>2
    <3>4. QED
      BY <2>1, <2>2, <2>6, <3>3
  <2>8. Len(results') = pos' /\ \A k \in DOMAIN results' : results'[k] = <<rep', k>>
    <3>1. /\ Len(results') = Len(results) + 1 /\ DOMAIN results' = 1..(Len(results) + 1)
          /\ DOMAIN results = 1..Len(results) /\ Len(results) \in Nat
          /\ \A j \in 1..Len(results) : results'[j] = results[j]
          /\ results'[Len(results) + 1] = r
      BY <1>2, <2>1
    <3>2. Len(results) + 1 = pos + 1 /\ r = <<rep, pos + 1>>
      BY <1>4, <2>1 DEF r
    <3>3. \A j \in DOMAIN results' : j \in DOMAIN results \/ j = pos + 1
      BY <3>1, <3>2
    <3>4. QED
      BY <1>4, <2>1, <3>1, <3>2, <3>3
  <2>9. pc' # "start"
    BY <1>7 DEF Shot!Succeed
  <2>10. QED
    BY <2>1, <2>5, <2>7, <2>8, <2>9
<1>8. CASE Shot!EndRun
  <2>1. pc = "run" /\ pos = n /\ done' = done /\ results' = <<>> /\ Shot!Running
    BY <1>8 DEF Shot!EndRun, Shot!Running, n
  <2>2. (rep' = rep + 1 /\ pos' = 0 /\ pc' = "run") \/ (pc' = "write" /\ ~Shot!Running')
    BY <1>1, <1>8 DEF Shot!EndRun, Shot!Running
  <2>3. rep' = rep + 1 /\ pos' = 0 => Len(done) = (rep' - 1) * n + pos'
    BY <1>0, <1>2, <1>4, <1>6, <2>1
  <2>4. Len(results') = 0 /\ DOMAIN results' = {}
    BY <2>1
  <2>5. QED
    BY <1>4, <2>1, <2>2, <2>3, <2>4
<1>9. CASE Shot!Start
  <2>1. pc = "start" /\ done' = done /\ UNCHANGED <<rep, pos, results>> /\ pc' # "start"
    BY <1>9 DEF Shot!Start, Shot!Exit
  <2>2. Len(results) = 0 /\ DOMAIN results = {} /\ Len(done) = (rep - 1) * n + pos
    BY <1>0, <1>4, <1>6, <2>1
  <2>3. QED
    BY <1>4, <2>1, <2>2
<1>10. CASE Shot!Fail
  <2>1. pos + 1 \in failed' /\ done' = done
    BY <1>10 DEF Shot!Fail
  <2>2. pos + 1 \notin Shot!Forgiven(task)
    BY <1>1, <1>3, <2>1 DEF Shot!Intact
  <2>3. pc' = "exit"
    BY <1>10, <2>2 DEF Shot!Fail, Shot!Exit
  <2>4. QED
    BY <1>4, <2>1, <2>3 DEF Shot!Running
<1>11. CASE Shot!Commit
  <2>1. done' = done /\ pc' \in {"exit", "write"} /\ task.kind # "extended"
    BY <1>11 DEF Shot!Commit, Shot!Exit, Shot!InBlock, Shot!Scripts
  <2>2. QED
    BY <1>1, <1>4, <2>1 DEF Shot!Running
<1>12. CASE Shot!Write
  <2>1. /\ done' = done /\ UNCHANGED <<rep, pos, results>> /\ pc = "write"
        /\ pc' = "write" \/ (pc' = "run" /\ task.kind = "extended")
    BY <1>12 DEF Shot!Write
  <2>2. Shot!Running' => Shot!Running
    BY <1>1, <2>1 DEF Shot!Running
  <2>3. QED
    BY <1>4, <2>1, <2>2
<1>13. CASE Shot!WriteFails \/ Shot!EndWrite \/ Shot!Stats \/ Shot!Export \/ Shot!DirectiveFails
  <2>1. done' = done /\ pc' \in {"exit", "stats", "export"}
    BY <1>13 DEF Shot!WriteFails, Shot!EndWrite, Shot!Stats, Shot!Export, Shot!Exit,
                 Shot!DirectiveFails
  <2>2. QED
    BY <1>4, <2>1 DEF Shot!Running
<1>14. QED
  BY <1>7, <1>8, <1>9, <1>10, <1>11, <1>12, <1>13 DEF Shot!Next

\* The results of a complete first run are all that it has to give.
LEMMA FirstRun ==
    ASSUME Shot!IInv, Shot!Intact, pc = "run", pos = task.n, rep = 1
    PROVE  results = Shot!Complete(1) /\ done = Shot!Complete(1)
<1> DEFINE n == task.n
<1>1. n \in Nat /\ results \in Seq(Shot!Results) /\ done \in Seq(Shot!Results)
  BY TaskFacts DEF Shot!TypeOK, Shot!IInv
<1>2. /\ Len(results) = n /\ \A k \in DOMAIN results : results[k] = <<1, k>>
      /\ Len(done) = n /\ \A j \in DOMAIN done : done[j] = Shot!Nth(j)
  <2>1. (1 - 1) * n + n = n
    BY <1>1
  <2>2. Len(done) = (1 - 1) * n + n
    BY DEF Shot!DoneInOrder, Shot!IInv, Shot!Running
  <2>3. QED
    BY <2>1, <2>2 DEF Shot!DoneInOrder, Shot!IInv, Shot!Running
<1>3. \A k \in 1..n : Shot!Nth(k) = <<1, k>>
  <2>1. \A k \in 1..n : Shot!Nth((1 - 1) * n + k) = <<1, k>>
    BY <1>1, NthResult
  <2>2. \A k \in 1..n : (1 - 1) * n + k = k
    BY <1>1
  <2>3. QED
    BY <2>1, <2>2
<1>4. Shot!Complete(1) = [k \in 1..n |-> Shot!Nth(k)]
  <2>1. 1 * n = n
    BY <1>1
  <2>2. Shot!Complete(1) = [k \in 1..1 * n |-> Shot!Nth(k)]
    BY DEF Shot!Complete
  <2>3. QED
    BY <2>1, <2>2
<1> HIDE DEF n
<1>5. results = [k \in 1..n |-> results[k]]
  BY <1>1, <1>2
<1>6. \A k \in 1..n : results[k] = Shot!Nth(k)
  <2>1. DOMAIN results = 1..n
    BY <1>1, <1>2
  <2>2. QED
    BY <1>2, <1>3, <2>1, Zenon
<1>7. done = [k \in 1..n |-> done[k]] /\ \A k \in 1..n : done[k] = Shot!Nth(k)
  BY <1>1, <1>2
<1>8. [k \in 1..n |-> results[k]] = [k \in 1..n |-> Shot!Nth(k)]
  BY <1>6
<1>9. [k \in 1..n |-> done[k]] = [k \in 1..n |-> Shot!Nth(k)]
  BY <1>7
<1>10. QED
  BY <1>4, <1>5, <1>7, <1>8, <1>9, Zenon

\* A run is counted when it is complete, and the first is the one that is kept.
LEMMA ShotRunsStep ==
    ASSUME Shot!IInv, Shot!Next
    PROVE  Shot!RunsCounted'
<1> DEFINE M == Shot!Runs(task)
           L == Shot!Runs(task) * task.n
           C == Shot!Complete(1)
<1>0. M \in Nat /\ M >= 1 /\ rep \in 1..M /\ (task.kind # "sql" => M = 1)
  BY TaskFacts DEF Shot!TypeOK, Shot!IInv
<1>1. task' = task /\ M' = M /\ L' = L /\ C' = C
  BY TaskStays DEF Shot!Complete, Shot!Nth
<1>2. /\ pc = "start" => rep = 1 /\ pos = 0 /\ recorded = 0
      /\ pc = "start" => results = <<>> /\ kept = <<>> /\ out = <<>> /\ chunks = <<>>
      /\ task.kind # "sql" => rep = 1
      /\ task.kind = "sql" =>
           /\ pc = "run" => recorded = rep - 1 /\ out = <<>> /\ chunks = <<>>
           /\ pc = "run" => kept = IF rep = 1 THEN <<>> ELSE C
           /\ pc \in {"write", "stats", "export"} => recorded = M /\ Len(done) = L /\ kept = C
           /\ pc = "write" => \/ chunks = <<kept>> /\ out = <<>>
                              \/ chunks = <<>> /\ out = kept
           /\ pc \in {"stats", "export"} => out = kept
           /\ status = 0 => /\ recorded = M /\ Len(done) = L /\ out = C
                            /\ task.export => exported = out
  BY DEF Shot!RunsCounted, Shot!IInv
<1>3. /\ status \in {0, 1, 9} /\ (status = 9) = (pc # "exit") /\ kept \in Seq(Shot!Results)
      /\ out \in Seq(Shot!Results) /\ pos \in 0..task.n
  BY DEF Shot!TypeOK, Shot!IInv
<1>4. SUFFICES
      /\ pc' = "start" => rep' = 1 /\ pos' = 0 /\ recorded' = 0
      /\ pc' = "start" => results' = <<>> /\ kept' = <<>> /\ out' = <<>> /\ chunks' = <<>>
      /\ task.kind # "sql" => rep' = 1
      /\ task.kind = "sql" =>
           /\ pc' = "run" => recorded' = rep' - 1 /\ out' = <<>> /\ chunks' = <<>>
           /\ pc' = "run" => kept' = IF rep' = 1 THEN <<>> ELSE C
           /\ pc' \in {"write", "stats", "export"} => recorded' = M /\ Len(done') = L /\ kept' = C
           /\ pc' = "write" => \/ chunks' = <<kept'>> /\ out' = <<>>
                               \/ chunks' = <<>> /\ out' = kept'
           /\ pc' \in {"stats", "export"} => out' = kept'
           /\ status' = 0 => /\ recorded' = M /\ Len(done') = L /\ out' = C
                             /\ task.export => exported' = out'
  BY <1>1 DEF Shot!RunsCounted
<1>5. /\ task.kind = "sql" => ~Shot!InBlock(task) /\ Shot!Intact /\ Shot!Forgiven(task) = {}
      /\ task.kind = "sql" => Shot!ChunksOf(task, kept') = <<kept'>>
  <2>1. task.kind = "sql" => Shot!Forgiven(task) = {}
    BY TaskFacts DEF Shot!TypeOK, Shot!IInv
  <2>2. QED
    BY <2>1 DEF Shot!InBlock, Shot!Scripts, Shot!Intact, Shot!ChunksOf
<1>6. CASE Shot!EndRun
  <2>1. /\ pc = "run" /\ pos = task.n /\ kept' = (IF rep = 1 THEN results ELSE kept)
        /\ out' = out /\ status' = status /\ done' = done
        /\ task.kind = "sql" => recorded' = recorded + 1
    BY <1>6 DEF Shot!EndRun
  <2>2. \/ rep < M /\ rep' = rep + 1 /\ pc' = pc /\ chunks' = chunks
        \/ ~(rep < M) /\ pc' = "write" /\ chunks' = Shot!ChunksOf(task, kept') /\ rep' = rep
    BY <1>6 DEF Shot!EndRun
  <2>3. task.kind = "sql" => kept' = C
    <3>1. rep = 1 /\ task.kind = "sql" => results = C
      BY <1>5, <2>1, FirstRun
    <3>2. QED
      BY <1>2, <2>1, <3>1
  <2>4. task.kind = "sql" /\ rep = M => Len(done) = L
    <3>1. task.kind = "sql" => Len(done) = (rep - 1) * task.n + task.n
      BY <1>5, <2>1 DEF Shot!IInv, Shot!DoneInOrder, Shot!Running
    <3>2. task.n \in Nat
      BY TaskFacts DEF Shot!TypeOK, Shot!IInv
    <3>3. (M - 1) * task.n + task.n = M * task.n
      BY <1>0, <3>2, RunLength
    <3> HIDE DEF M
    <3>4. QED
      BY <3>1, <3>3 DEF M
  <2> HIDE DEF M, L, C
  <2>5. CASE rep < M
    <3>1. rep' = rep + 1 /\ pc' = "run" /\ chunks' = chunks /\ rep' # 1 /\ task.kind = "sql"
      BY <1>0, <2>1, <2>2, <2>5
    <3>2. recorded' = rep' - 1
      BY <1>0, <1>2, <2>1, <3>1
    <3>3. status' # 0
      BY <1>3, <2>1
    <3>4. QED
      BY <1>2, <2>1, <2>3, <3>1, <3>2, <3>3
  <2>6. CASE ~(rep < M)
    <3>1. rep' = rep /\ pc' = "write" /\ chunks' = Shot!ChunksOf(task, kept') /\ rep = M
      BY <1>0, <2>1, <2>2, <2>6
    <3>2. task.kind = "sql" => recorded' = M
      BY <1>0, <1>2, <2>1, <3>1
    <3>3. status' # 0
      BY <1>3, <2>1
    <3>4. QED
      BY <1>2, <1>5, <2>1, <2>3, <2>4, <3>1, <3>2, <3>3
  <2>7. QED
    BY <2>5, <2>6
<1> HIDE DEF M, L, C
<1>7. CASE Shot!Start
  BY <1>2, <1>3, <1>7 DEF Shot!Start, Shot!Exit
<1>8. CASE Shot!Succeed
  BY <1>2, <1>3, <1>8 DEF Shot!Succeed
<1>9. CASE Shot!Fail
  BY <1>2, <1>3, <1>5, <1>9 DEF Shot!Fail, Shot!Exit
<1>10. CASE Shot!Commit
  BY <1>2, <1>3, <1>5, <1>10 DEF Shot!Commit, Shot!Exit
<1>11. CASE Shot!Write
  <2>1. task.kind = "sql" => Shot!Written(Head(chunks)) = kept
    <3>1. <<>> \o kept = kept /\ Head(<<kept>>) = kept
      BY <1>3
    <3>2. QED
      BY <1>2, <1>11, <3>1 DEF Shot!Write, Shot!Written
  <2>2. Tail(<<kept>>) = <<>> /\ <<kept>> # <<>>
    OBVIOUS
  <2>3. /\ pc = "write" /\ chunks # <<>> /\ pc' \in {"write", "run"}
        /\ task.kind = "sql" => pc' = "write"
        /\ UNCHANGED <<rep, pos, results, kept, recorded, exported, status, done>>
        /\ out' = Shot!Written(Head(chunks)) /\ chunks' = Tail(chunks)
    BY <1>11 DEF Shot!Write
  <2>4. task.kind = "sql" => chunks = <<kept>> /\ chunks' = <<>> /\ out' = kept
    BY <1>2, <2>1, <2>2, <2>3
  <2>5. status' # 0
    BY <1>3, <2>3
  <2>6. QED
    BY <1>2, <2>3, <2>4, <2>5
<1>12. CASE Shot!WriteFails
  BY <1>2, <1>3, <1>12 DEF Shot!WriteFails, Shot!Exit
<1>13. CASE Shot!EndWrite
  <2>1. pc' \in {"stats", "exit"} /\ rep' = rep
    BY <1>13 DEF Shot!EndWrite, Shot!Exit
  <2>2. task.kind = "sql" =>
            /\ pc = "write" /\ chunks = <<>> /\ pc' = "stats" /\ status' = status
            /\ UNCHANGED <<kept, recorded, out, done>>
    BY <1>13 DEF Shot!EndWrite
  <2>3. <<kept>> # <<>>
    OBVIOUS
  <2>4. task.kind = "sql" => status' # 0 /\ out = kept /\ recorded = M /\ Len(done) = L /\ kept = C
    BY <1>2, <1>3, <2>2, <2>3
  <2>5. task.kind # "sql" => rep' = 1
    BY <1>2, <2>1
  <2>6. QED
    BY <2>1, <2>2, <2>4, <2>5
<1>14. CASE Shot!Stats
  BY <1>2, <1>3, <1>14 DEF Shot!Stats, Shot!Exit
<1>15. CASE Shot!Export
  BY <1>2, <1>3, <1>15 DEF Shot!Export, Shot!Exit
<1>16. CASE Shot!DirectiveFails
  BY <1>2, <1>3, <1>16 DEF Shot!DirectiveFails, Shot!Exit, Shot!Scripts
<1>17. QED
  BY <1>6, <1>7, <1>8, <1>9, <1>10, <1>11, <1>12, <1>13, <1>14, <1>15, <1>16 DEF Shot!Next

\* All elements of a sequence are members of a set.
Within(s, H) == \A k \in DOMAIN s : s[k] \in H

LEMMA WithinFacts ==
    ASSUME NEW S, NEW H, NEW s \in Seq(S), NEW t \in Seq(S), Within(s, H)
    PROVE  /\ Within(<<>>, H)
           /\ \A G : H \subseteq G => Within(s, G)
           /\ Within(t, H) => Within(s \o t, H)
           /\ \A e : e \in H => Within(<<e>>, H)
<1>1. Within(t, H) => Within(s \o t, H)
  <2> SUFFICES ASSUME Within(t, H), NEW k \in DOMAIN (s \o t) PROVE (s \o t)[k] \in H
    BY DEF Within
  <2>1. Len(s) \in Nat /\ Len(t) \in Nat /\ DOMAIN s = 1..Len(s) /\ DOMAIN t = 1..Len(t)
    OBVIOUS
  <2>2. k \in 1..(Len(s) + Len(t))
    OBVIOUS
  <2>3. CASE k <= Len(s)
    <3>1. (s \o t)[k] = s[k] /\ k \in DOMAIN s
      BY <2>1, <2>2, <2>3
    <3>2. QED
      BY <3>1 DEF Within
  <2>4. CASE ~(k <= Len(s))
    <3>1. (s \o t)[k] = t[k - Len(s)] /\ k - Len(s) \in DOMAIN t
      BY <2>1, <2>2, <2>4
    <3>2. QED
      BY <3>1 DEF Within
  <2>5. QED
    BY <2>3, <2>4
<1>2. \A e : e \in H => Within(<<e>>, H)
  BY DEF Within
<1>3. Within(<<>>, H) /\ \A G : H \subseteq G => Within(s, G)
  BY DEF Within
<1>4. QED
  BY <1>1, <1>2, <1>3

LEMMA WithinAppend ==
    ASSUME NEW S, NEW H, NEW s \in Seq(S), NEW e \in S, Within(s, H)
    PROVE  Within(Append(s, e), H \cup {e})
<1> SUFFICES ASSUME NEW k \in DOMAIN Append(s, e) PROVE Append(s, e)[k] \in H \cup {e}
  BY DEF Within
<1>1. k \in 1..(Len(s) + 1) /\ Len(s) \in Nat /\ DOMAIN s = 1..Len(s)
  OBVIOUS
<1>2. CASE k = Len(s) + 1
  BY <1>1, <1>2
<1>3. CASE k # Len(s) + 1
  <2>1. k \in DOMAIN s /\ Append(s, e)[k] = s[k]
    BY <1>1, <1>3
  <2>2. QED
    BY <2>1 DEF Within
<1>4. QED
  BY <1>2, <1>3

ElementsOf(s) == {s[i] : i \in 1..Len(s)}

LEMMA AppendRange ==
    ASSUME NEW S, NEW s \in Seq(S), NEW e \in S
    PROVE  ElementsOf(Append(s, e)) = ElementsOf(s) \cup {e}
<1>1. Len(s) \in Nat /\ Len(Append(s, e)) = Len(s) + 1 /\ Append(s, e)[Len(s) + 1] = e
  OBVIOUS
<1>2. \A i \in 1..Len(s) : Append(s, e)[i] = s[i]
  OBVIOUS
<1>3. 1..(Len(s) + 1) = 1..Len(s) \cup {Len(s) + 1}
  BY <1>1
<1>4. QED
  BY <1>1, <1>2, <1>3 DEF ElementsOf

\* What one call writes of results that are durable is durable.
LEMMA ChunksWithin ==
    ASSUME NEW S, NEW H, NEW res \in Seq(S), Within(res, H)
    PROVE  \A c \in DOMAIN Shot!ChunksOf(task, res) : Within(Shot!ChunksOf(task, res)[c], H)
  BY ChunksFacts DEF Within

\* What is kept, waits to be written or is written.
Leaving(H) ==
    /\ Within(kept, H) /\ Within(out, H) /\ Within(exported, H)
    /\ \A c \in DOMAIN chunks : Within(chunks[c], H)

Ran == ElementsOf(done)
OnServer == ElementsOf(durable)

LEMMA ContainsIsElement ==
    ASSUME NEW s, NEW t
    PROVE  (\A k \in DOMAIN t : Shot!Contains(s, t[k])) <=> Within(t, ElementsOf(s))
  BY DEF Shot!Contains, Within, ElementsOf

LEMMA ExecutedIsWithin ==
    Shot!OnlyExecutedLeaves <=> Leaving(Ran) /\ Within(results, Ran)
  BY ContainsIsElement DEF Shot!OnlyExecutedLeaves, Shot!Executed, Leaving, Ran

LEMMA DurableIsWithin ==
    Shot!OnlyDurableLeaves <=>
        (~Shot!Aborted => /\ Leaving(OnServer)
                          /\ ~Shot!InBlock(task) => Within(results, OnServer))
  BY ContainsIsElement DEF Shot!OnlyDurableLeaves, Shot!Durable, Leaving, OnServer

\* What leaves is made of the results: of those kept, or of those of this
\* repetition.
LEMMA LeavingStep ==
    ASSUME Shot!TypeOK, Shot!ChunksOK, Shot!Next, NEW H, NEW G, H \subseteq G, Leaving(H),
           Shot!Succeed /\ task.kind = "extended" => <<rep, pos + 1>> \in G,
           Shot!EndRun \/ (Shot!Commit /\ pc' = "write") => Within(results, G)
    PROVE  /\ Within(kept', G) /\ Within(out', G) /\ Within(exported', G)
           /\ \A c \in DOMAIN chunks' : Within(chunks'[c], G)
<1> DEFINE R == Shot!Results
<1>1. /\ results \in Seq(R) /\ kept \in Seq(R) /\ out \in Seq(R) /\ chunks \in Seq(Seq(R))
  BY DEF Shot!TypeOK, Shot!ChunksOK
<1>2. /\ Within(kept, G) /\ Within(out, G) /\ Within(exported, G)
      /\ \A c \in DOMAIN chunks : Within(chunks[c], G)
  BY DEF Leaving, Within
<1> HIDE DEF R
<1>3. CASE Shot!Succeed
  <2>1. /\ UNCHANGED <<kept, out, exported>>
        /\ \/ chunks' = chunks
           \/ chunks' = << << <<rep, pos + 1>> >> >> /\ task.kind = "extended"
    <3>1. CASE task.kind = "extended"
      BY <1>3, <3>1 DEF Shot!Succeed
    <3>2. CASE task.kind # "extended"
      BY <1>3, <3>2 DEF Shot!Succeed
    <3>3. QED
      BY <3>1, <3>2
  <2> DEFINE r == <<rep, pos + 1>>
  <2>2. r \in G => \A c \in DOMAIN << <<r>> >> : Within(<< <<r>> >>[c], G)
    <3> HIDE DEF r
    <3>1. QED
      BY DEF Within
  <2> HIDE DEF r
  <2>3. task.kind = "extended" => r \in G
    BY <1>3 DEF r
  <2>4. chunks' = chunks \/ (chunks' = << <<r>> >> /\ task.kind = "extended")
    BY <2>1 DEF r
  <2>5. QED
    BY <1>2, <2>1, <2>2, <2>3, <2>4
<1>4. CASE Shot!EndRun \/ Shot!Commit
  <2>1. /\ UNCHANGED <<out, exported>>
        /\ \/ kept' = kept
           \/ kept' = results /\ (Shot!EndRun \/ (Shot!Commit /\ pc' = "write"))
        /\ \/ chunks' = chunks
           \/ chunks' = Shot!ChunksOf(task, kept')
    BY <1>4 DEF Shot!EndRun, Shot!Commit, Shot!Exit
  <2>2. kept' \in Seq(R) /\ Within(kept', G)
    BY <1>1, <1>2, <2>1
  <2>3. \A c \in DOMAIN Shot!ChunksOf(task, kept') : Within(Shot!ChunksOf(task, kept')[c], G)
    BY <2>2, ChunksWithin
  <2>4. QED
    BY <1>2, <2>1, <2>2, <2>3
<1>5. CASE Shot!Write
  <2>1. /\ UNCHANGED <<kept, exported>> /\ chunks # <<>>
        /\ out' = Shot!Written(Head(chunks)) /\ chunks' = Tail(chunks)
    BY <1>5 DEF Shot!Write
  <2>2. /\ Head(chunks) = chunks[1] /\ 1 \in DOMAIN chunks
        /\ \A c \in DOMAIN Tail(chunks) : c + 1 \in DOMAIN chunks /\ Tail(chunks)[c] = chunks[c + 1]
    BY <1>1, <2>1
  <2>3. Head(chunks) \in Seq(R) /\ Within(Head(chunks), G)
    BY <1>1, <1>2, <2>1, <2>2
  <2>4. Within(out \o Head(chunks), G)
    BY <1>1, <1>2, <2>3, WithinFacts
  <2>5. Within(out', G)
    BY <2>1, <2>3, <2>4 DEF Shot!Written
  <2>6. QED
    BY <1>2, <2>1, <2>2, <2>5
<1>6. CASE Shot!Start
  <2>1. UNCHANGED <<kept, exported, out>> /\ chunks' \in {chunks, << <<>> >>}
    BY <1>6 DEF Shot!Start, Shot!Exit
  <2>2. \A c \in DOMAIN << <<>> >> : Within(<< <<>> >>[c], G)
    BY DEF Within
  <2>3. QED
    BY <1>2, <2>1, <2>2
<1>7. CASE \/ Shot!Fail \/ Shot!DirectiveFails \/ Shot!WriteFails \/ Shot!EndWrite
           \/ Shot!Stats \/ Shot!Export
  <2>1. UNCHANGED <<kept, out, chunks>> /\ exported' \in {exported, kept}
    BY <1>7 DEF Shot!Fail, Shot!DirectiveFails, Shot!WriteFails, Shot!EndWrite, Shot!Stats,
                Shot!Export
  <2>2. QED
    BY <1>2, <2>1
<1>8. QED
  BY <1>3, <1>4, <1>5, <1>6, <1>7 DEF Shot!Next

LEMMA ResultStep ==
    ASSUME Shot!TypeOK, Shot!Succeed
    PROVE  /\ <<rep, pos + 1>> \in Shot!Results
           /\ results' = Append(results, <<rep, pos + 1>>)
           /\ done' = Append(done, <<rep, pos + 1>>)
           /\ durable' = IF Shot!InBlock(task) THEN durable ELSE Append(durable, <<rep, pos + 1>>)
           /\ pc = "run" /\ pos < task.n /\ pos' = pos + 1 /\ UNCHANGED <<rep, failed>>
<1>1. pos < task.n
  BY DEF Shot!Succeed
<1>2. pos + 1 \in 1..task.n /\ rep \in 1..Shot!Runs(task)
  BY <1>1, TaskFacts DEF Shot!TypeOK
<1>3. <<rep, pos + 1>> \in Shot!Results
  BY <1>2 DEF Shot!Results
<1>4. QED
  BY <1>3 DEF Shot!Succeed

LEMMA ResultsStep ==
    ASSUME Shot!TypeOK, Shot!Next, NEW H, NEW G, H \subseteq G, Within(results, H),
           Shot!Succeed => <<rep, pos + 1>> \in G
    PROVE  Within(results', G)
<1>1. results \in Seq(Shot!Results)
  BY DEF Shot!TypeOK
<1>2. Within(results, G)
  BY DEF Within
<1>3. CASE Shot!Succeed
  <2> DEFINE r == <<rep, pos + 1>>
  <2>1. results' = Append(results, r) /\ r \in Shot!Results /\ r \in G
    BY <1>3, ResultStep
  <2> HIDE DEF r
  <2>2. Within(Append(results, r), G \cup {r})
    BY <1>1, <1>2, <2>1, WithinAppend
  <2>3. G \cup {r} = G
    BY <2>1
  <2>4. QED
    BY <2>1, <2>2, <2>3
<1>4. CASE ~Shot!Succeed
  <2>1. results' \in {results, <<>>}
    BY <1>4 DEF Shot!Next, Shot!Start, Shot!Fail, Shot!DirectiveFails, Shot!EndRun, Shot!Commit,
         Shot!Write, Shot!WriteFails, Shot!EndWrite, Shot!Stats, Shot!Export
  <2>2. Within(<<>>, G)
    BY DEF Within
  <2>3. QED
    BY <1>2, <2>1, <2>2
<1>5. QED
  BY <1>3, <1>4

\* Only a statement that succeeds adds to what was executed.
LEMMA RanStep ==
    ASSUME Shot!TypeOK, Shot!Next
    PROVE  /\ ~Shot!Succeed => done' = done
           /\ Shot!Succeed => Ran' = Ran \cup {<<rep, pos + 1>>}
           /\ Ran \subseteq Ran'
<1>1. ~Shot!Succeed => done' = done
  BY DEF Shot!Next, Shot!Start, Shot!Fail, Shot!DirectiveFails, Shot!EndRun, Shot!Commit,
         Shot!Write, Shot!WriteFails, Shot!EndWrite, Shot!Stats, Shot!Export
<1>2. ASSUME Shot!Succeed PROVE Ran' = Ran \cup {<<rep, pos + 1>>}
  <2> DEFINE r == <<rep, pos + 1>>
  <2>1. done' = Append(done, r) /\ r \in Shot!Results /\ done \in Seq(Shot!Results)
    BY <1>2, ResultStep DEF Shot!TypeOK
  <2> HIDE DEF r
  <2>2. ElementsOf(Append(done, r)) = ElementsOf(done) \cup {r}
    BY <2>1, AppendRange
  <2>3. Ran' = Ran \cup {r}
    BY <2>1, <2>2 DEF Ran
  <2>4. QED
    BY <2>3 DEF r
<1>3. ~Shot!Succeed => Ran' = Ran
  BY <1>1 DEF Ran
<1>4. QED
  BY <1>1, <1>2, <1>3

\* Nothing leaves the program that was not executed.
LEMMA ShotExecutedStep ==
    ASSUME Shot!IInv, Shot!Next
    PROVE  Shot!OnlyExecutedLeaves'
<1> DEFINE H == Ran
           G == Ran'
<1>1. Shot!TypeOK /\ Shot!ChunksOK /\ Leaving(H) /\ Within(results, H)
  BY ExecutedIsWithin DEF Shot!IInv
<1>2. H \subseteq G /\ (Shot!Succeed => <<rep, pos + 1>> \in G)
  BY <1>1, RanStep
<1> HIDE DEF H, G
<1>3. Within(results, G)
  BY <1>1, <1>2 DEF Within
<1>4. /\ Within(kept', G) /\ Within(out', G) /\ Within(exported', G)
      /\ \A c \in DOMAIN chunks' : Within(chunks'[c], G)
  BY <1>1, <1>2, <1>3, LeavingStep
<1>5. Within(results', G)
  BY <1>1, <1>2, ResultsStep
<1>6. QED
  BY <1>4, <1>5, ContainsIsElement DEF Shot!OnlyExecutedLeaves, Shot!Executed, Ran, G

\* An aborted transaction stays aborted; one that is not has nothing forgiven.
LEMMA AbortedStays ==
    ASSUME Shot!IInv, Shot!Next
    PROVE  /\ Shot!Aborted => Shot!Aborted'
           /\ Shot!Fail \/ (Shot!Aborted' <=> Shot!Aborted)
           /\ Shot!InBlock(task) /\ ~Shot!Aborted => Shot!Intact
<1>1. task' = task
  BY TaskStays
<1>2. Shot!Forgiven(task) \subseteq Nat \ {0}
  BY TaskFacts DEF Shot!IInv, Shot!TypeOK
<1>3. QED
  BY <1>1, <1>2, FailedGrows DEF Shot!Aborted, Shot!Intact

\* Nothing leaves the program that the server did not commit, but for the
\* results of an aborted transaction.
LEMMA ShotDurableStep ==
    ASSUME Shot!IInv, Shot!Next
    PROVE  Shot!OnlyDurableLeaves'
<1> DEFINE block == Shot!InBlock(task)
           H == OnServer
           G == OnServer'
<1>1. task' = task /\ block' = block
  BY TaskStays
<1>2. SUFFICES ASSUME ~Shot!Aborted'
      PROVE  /\ Within(kept', G) /\ Within(out', G) /\ Within(exported', G)
             /\ \A c \in DOMAIN chunks' : Within(chunks'[c], G)
             /\ ~block => Within(results', G)
  BY <1>1, ContainsIsElement DEF Shot!OnlyDurableLeaves, Shot!Durable, OnServer
<1>3. ~Shot!Aborted /\ Shot!TypeOK /\ Shot!ChunksOK
  BY <1>2, AbortedStays DEF Shot!IInv
<1>4. Leaving(H) /\ (~block => Within(results, H)) /\ Within(results, Ran)
  BY <1>3, DurableIsWithin, ExecutedIsWithin DEF Shot!IInv
<1>5. H \subseteq G /\ (Shot!Succeed /\ ~block => <<rep, pos + 1>> \in G)
  <2>1. CASE Shot!Succeed
    <3> DEFINE r == <<rep, pos + 1>>
    <3>1. /\ durable' = IF block THEN durable ELSE Append(durable, r)
          /\ r \in Shot!Results /\ durable \in Seq(Shot!Results)
      BY <1>3, <2>1, ResultStep DEF Shot!TypeOK
    <3> HIDE DEF r
    <3>2. ElementsOf(Append(durable, r)) = ElementsOf(durable) \cup {r}
      BY <3>1, AppendRange
    <3>3. CASE block
      BY <3>1, <3>3 DEF OnServer
    <3>4. CASE ~block
      <4>1. G = H \cup {r}
        BY <3>1, <3>2, <3>4 DEF OnServer
      <4>2. QED
        BY <4>1 DEF r
    <3>5. QED
      BY <3>3, <3>4
  <2>2. CASE Shot!Commit
    <3>1. durable = <<>>
      BY <2>2 DEF Shot!Commit, Shot!IInv, Shot!AllOrNothing
    <3>2. H = {}
      BY <3>1 DEF OnServer, ElementsOf
    <3>3. ~Shot!Succeed
      <4>1. pos = task.n /\ pos \in Nat
        BY <1>3, <2>2, TaskFacts DEF Shot!Commit, Shot!TypeOK
      <4>2. QED
        BY <4>1 DEF Shot!Succeed
    <3>4. QED
      BY <3>2, <3>3
  <2>3. CASE ~Shot!Succeed /\ ~Shot!Commit
    <3>1. durable' = durable
      BY <2>3 DEF Shot!Next, Shot!Start, Shot!Fail, Shot!DirectiveFails, Shot!EndRun,
           Shot!Write, Shot!WriteFails, Shot!EndWrite, Shot!Stats, Shot!Export
    <3>2. QED
      BY <2>3, <3>1 DEF OnServer
  <2>4. QED
    BY <2>1, <2>2, <2>3
<1>6. Shot!EndRun => ~block
  BY DEF Shot!EndRun
<1>7. Shot!Commit /\ pc' = "write" => G = Ran
  BY <1>3 DEF Shot!Commit, Shot!Committed, Shot!Exit, OnServer, Ran
<1>8. task.kind = "extended" => ~block
  BY DEF Shot!InBlock, Shot!Scripts
<1> HIDE DEF H, G, block
<1>9. Shot!EndRun \/ (Shot!Commit /\ pc' = "write") => Within(results, G)
  BY <1>4, <1>5, <1>6, <1>7 DEF Within
<1>10. /\ Within(kept', G) /\ Within(out', G) /\ Within(exported', G)
       /\ \A c \in DOMAIN chunks' : Within(chunks'[c], G)
  BY <1>3, <1>4, <1>5, <1>8, <1>9, LeavingStep
<1>11. ~block => Within(results', G)
  BY <1>3, <1>4, <1>5, ResultsStep
<1>12. QED
  BY <1>10, <1>11

\* A single transaction is there as a whole or not at all.
LEMMA ShotAtomicStep ==
    ASSUME Shot!IInv, Shot!Next
    PROVE  Shot!AllOrNothing'
<1> DEFINE C == Shot!Complete(1)
<1>1. task' = task /\ C' = C /\ Shot!InBlock(task)' = Shot!InBlock(task)
  BY TaskStays DEF Shot!Complete, Shot!Nth
<1>2. SUFFICES ASSUME Shot!InBlock(task)
      PROVE  /\ durable' \in {<<>>, C}
             /\ Shot!Aborted' \/ pc' \in {"start", "run"} => durable' = <<>>
  BY <1>1 DEF Shot!AllOrNothing
<1>3. /\ durable \in {<<>>, C}
      /\ Shot!Aborted \/ pc \in {"start", "run"} => durable = <<>>
  BY <1>2 DEF Shot!IInv, Shot!AllOrNothing
<1>4. task.kind # "extended" /\ task.kind # "sql" /\ rep = 1
  BY <1>2 DEF Shot!InBlock, Shot!Scripts, Shot!IInv, Shot!RunsCounted
<1>5. ~Shot!Aborted => Shot!Intact
  BY <1>2, AbortedStays
<1>6. Shot!Fail \/ (Shot!Aborted' <=> Shot!Aborted)
  BY AbortedStays
<1>7. Shot!Commit /\ ~Shot!Aborted => done = C
  BY <1>4, <1>5, FirstRun DEF Shot!Commit
<1> HIDE DEF C
<1>8. CASE Shot!Commit
  <2>1. durable' \in {<<>>, Shot!Committed} /\ pc' \notin {"start", "run"} /\ ~Shot!Fail
    <3>1. pos = task.n /\ task.n \in Nat
      BY <1>8, TaskFacts DEF Shot!Commit, Shot!IInv, Shot!TypeOK
    <3>2. ~Shot!Fail
      BY <3>1 DEF Shot!Fail
    <3>3. QED
      BY <1>8, <3>2 DEF Shot!Commit, Shot!Exit
  <2>2. QED
    BY <1>6, <1>7, <1>8, <2>1 DEF Shot!Committed
<1>9. CASE Shot!Succeed \/ Shot!Fail \/ Shot!DirectiveFails \/ Shot!Start
  <2>1. durable' = durable /\ pc \in {"start", "run"}
    BY <1>2, <1>9 DEF Shot!Succeed, Shot!Fail, Shot!DirectiveFails, Shot!Start
  <2>2. QED
    BY <1>3, <2>1
<1>10. CASE Shot!EndRun
  BY <1>2, <1>10 DEF Shot!EndRun
<1>11. CASE Shot!Write \/ Shot!WriteFails \/ Shot!EndWrite \/ Shot!Stats \/ Shot!Export
  <2>1. durable' = durable /\ pc' \notin {"start", "run"} /\ ~Shot!Fail
    BY <1>4, <1>11 DEF Shot!Write, Shot!WriteFails, Shot!EndWrite, Shot!Stats, Shot!Export,
                       Shot!Exit, Shot!Fail
  <2>2. QED
    BY <1>3, <1>6, <2>1
<1>12. QED
  BY <1>8, <1>9, <1>10, <1>11 DEF Shot!Next

\* Every statement that is over was executed, in its turn, or has failed.
LEMMA ShotAccountedStep ==
    ASSUME Shot!IInv, Shot!Next
    PROVE  Shot!Accounted'
<1> DEFINE Order(s) == \A j, k \in DOMAIN s : j < k => s[j][2] < s[k][2]
           Upto(s, p) == \A j \in DOMAIN s : s[j][2] <= p
           Over(s, f, p) == \A k \in 1..p : k \in f \/ <<1, k>> \in ElementsOf(s)
<1>0. /\ task' = task /\ Shot!Forgiven(task)' = Shot!Forgiven(task)
      /\ \A s, e : Shot!Contains(s, e) <=> e \in ElementsOf(s)
  BY TaskStays DEF Shot!Contains, ElementsOf
<1>1. /\ pos \in 0..task.n /\ task.n \in Nat /\ done \in Seq(Shot!Results)
      /\ status \in {0, 1, 9} /\ (status = 9) = (pc # "exit") /\ rep \in 1..Shot!Runs(task)
      /\ task.kind # "sql" => Shot!Runs(task) = 1
  BY TaskFacts DEF Shot!IInv, Shot!TypeOK
<1>2. /\ status # 1 => failed \subseteq Shot!Forgiven(task)
      /\ pc = "start" => failed = {} /\ done = <<>>
      /\ pc \in {"stats", "export"} => task.kind = "sql"
      /\ task.kind # "sql" => Order(done) /\ Upto(done, pos) /\ Over(done, failed, pos)
      /\ task.kind \notin {"sql", "text", "other"} =>
             /\ pc = "write" => pos = task.n \/ (task.kind = "extended" /\ chunks # <<>>)
             /\ status = 0 => pos = task.n
  BY <1>0 DEF Shot!IInv, Shot!Accounted
<1>3. SUFFICES
      /\ status' # 1 => failed' \subseteq Shot!Forgiven(task)
      /\ pc' # "start"
      /\ pc' \in {"stats", "export"} => task.kind = "sql"
      /\ task.kind # "sql" => Order(done') /\ Upto(done', pos') /\ Over(done', failed', pos')
      /\ task.kind \notin {"sql", "text", "other"} =>
             /\ pc' = "write" => pos' = task.n \/ (task.kind = "extended" /\ chunks' # <<>>)
             /\ status' = 0 => pos' = task.n
  BY <1>0 DEF Shot!Accounted
<1> HIDE DEF Order, Upto, Over
<1>4. status = 9
  <2>1. pc # "exit"
    BY DEF Shot!Next, Shot!Start, Shot!Succeed, Shot!Fail, Shot!DirectiveFails, Shot!EndRun,
         Shot!Commit, Shot!Write, Shot!WriteFails, Shot!EndWrite, Shot!Stats, Shot!Export
  <2>2. QED
    BY <1>1, <2>1
<1>5. status' # 1 => failed' \subseteq Shot!Forgiven(task)
  <2>1. Shot!Fail => failed' = failed \cup {pos + 1}
    BY DEF Shot!Fail
  <2>2. QED
    BY <1>2, <1>4, <2>1, FailedGrows
<1>6. pc' # "start"
  BY DEF Shot!Next, Shot!Start, Shot!Succeed, Shot!Fail, Shot!DirectiveFails, Shot!EndRun,
         Shot!Commit, Shot!Write, Shot!WriteFails, Shot!EndWrite, Shot!Stats, Shot!Export, Shot!Exit
<1>7. pc' \in {"stats", "export"} => task.kind = "sql"
  BY <1>2 DEF Shot!Next, Shot!Start, Shot!Succeed, Shot!Fail, Shot!DirectiveFails, Shot!EndRun,
         Shot!Commit, Shot!Write, Shot!WriteFails, Shot!EndWrite, Shot!Stats, Shot!Export, Shot!Exit
<1>8. ASSUME task.kind # "sql"
      PROVE  Order(done') /\ Upto(done', pos') /\ Over(done', failed', pos')
  <2>1. rep = 1 /\ Order(done) /\ Upto(done, pos) /\ Over(done, failed, pos)
    BY <1>1, <1>2, <1>8
  <2>2. failed \subseteq failed' /\ Ran \subseteq Ran'
    BY FailedGrows, RanStep DEF Shot!IInv
  <2>3. CASE Shot!Succeed
    <3> DEFINE r == <<rep, pos + 1>>
               d == Len(done)
    <3>1. done' = Append(done, r) /\ pos' = pos + 1 /\ r[2] = pos + 1 /\ Ran' = Ran \cup {r}
      BY <2>3, ResultStep, RanStep DEF Shot!IInv
    <3>2. r = <<1, pos + 1>>
      BY <2>1
    <3> HIDE DEF r
    <3>3. /\ DOMAIN done' = 1..d + 1 /\ DOMAIN done = 1..d /\ d \in Nat
          /\ \A j \in 1..d : done'[j] = done[j]
          /\ done'[d + 1] = r
      BY <1>1, <3>1
    <3>4. \A j \in 1..d : done[j][2] \in Nat
      <4>1. \A j \in 1..d : done[j] \in Shot!Results
        BY <1>1
      <4>2. \A x \in Shot!Results : x[2] \in Nat
        BY <1>1 DEF Shot!Results
      <4>3. QED
        BY <4>1, <4>2
    <3> HIDE DEF d
    <3>5. \A j \in 1..d : done[j][2] <= pos
      BY <2>1, <3>3 DEF Upto
    <3>6. Upto(done', pos')
      <4> SUFFICES ASSUME NEW j \in DOMAIN done' PROVE done'[j][2] <= pos'
        BY DEF Upto
      <4>1. CASE j = d + 1
        BY <1>1, <3>1, <3>3, <4>1
      <4>2. CASE j # d + 1
        <5>1. j \in 1..d
          BY <3>3, <4>2
        <5>2. QED
          BY <1>1, <3>1, <3>3, <3>4, <3>5, <5>1
      <4>3. QED
        BY <4>1, <4>2
    <3>7. Order(done')
      <4> SUFFICES ASSUME NEW j \in DOMAIN done', NEW k \in DOMAIN done', j < k
                   PROVE  done'[j][2] < done'[k][2]
        BY DEF Order
      <4>1. j \in 1..d /\ k \in 1..d + 1
        BY <3>3
      <4>2. CASE k = d + 1
        BY <1>1, <3>1, <3>3, <3>4, <3>5, <4>1, <4>2
      <4>3. CASE k # d + 1
        <5>1. k \in 1..d
          BY <3>3, <4>1, <4>3
        <5>2. QED
          BY <2>1, <3>3, <4>1, <5>1 DEF Order
      <4>4. QED
        BY <4>2, <4>3
    <3>8. Over(done', failed', pos')
      <4> SUFFICES ASSUME NEW k \in 1..pos' PROVE k \in failed' \/ <<1, k>> \in Ran'
        BY DEF Over, Ran
      <4>1. CASE k = pos + 1
        BY <3>1, <3>2, <4>1
      <4>2. CASE k # pos + 1
        <5>1. k \in 1..pos
          BY <1>1, <3>1, <4>2
        <5>2. QED
          BY <2>1, <2>2, <5>1 DEF Over, Ran
      <4>3. QED
        BY <4>1, <4>2
    <3>9. QED
      BY <3>6, <3>7, <3>8
  <2>4. CASE Shot!Fail
    <3>1. done' = done /\ pos' \in {pos, pos + 1} /\ pos + 1 \in failed'
      BY <2>4 DEF Shot!Fail
    <3>2. Upto(done', pos')
      <4>1. \A j \in DOMAIN done : done[j][2] \in Nat
        <5>1. \A j \in DOMAIN done : done[j] \in Shot!Results
          BY <1>1
        <5>2. \A x \in Shot!Results : x[2] \in Nat
          BY <1>1 DEF Shot!Results
        <5>3. QED
          BY <5>1, <5>2
      <4>2. QED
        BY <1>1, <2>1, <3>1, <4>1 DEF Upto
    <3>3. Over(done', failed', pos')
      <4> SUFFICES ASSUME NEW k \in 1..pos' PROVE k \in failed' \/ <<1, k>> \in ElementsOf(done')
        BY DEF Over
      <4>1. k \in 1..pos \/ k = pos + 1
        BY <1>1, <3>1
      <4>2. QED
        BY <2>1, <2>2, <3>1, <4>1 DEF Over
    <3>4. QED
      BY <2>1, <3>1, <3>2, <3>3
  <2>5. CASE ~Shot!Succeed /\ ~Shot!Fail
    <3>1. done' = done
      BY <2>5, RanStep DEF Shot!IInv
    <3>2. pos' = pos
      <4>1. Shot!EndRun => pos' = pos
        <5>1. ~(rep < Shot!Runs(task))
          BY <1>1, <1>8, <2>1
        <5>2. QED
          BY <5>1 DEF Shot!EndRun
      <4>2. QED
        BY <2>5, <4>1 DEF Shot!Next, Shot!Start, Shot!DirectiveFails, Shot!Commit, Shot!Write,
             Shot!WriteFails, Shot!EndWrite, Shot!Stats, Shot!Export
    <3>3. QED
      BY <2>1, <2>2, <3>1, <3>2 DEF Over
  <2>6. QED
    BY <2>3, <2>4, <2>5
<1>9. ASSUME task.kind \notin {"sql", "text", "other"}
      PROVE  /\ pc' = "write" => pos' = task.n \/ (task.kind = "extended" /\ chunks' # <<>>)
             /\ status' = 0 => pos' = task.n
  <2>1. CASE Shot!Start
    BY <1>4, <1>9, <2>1 DEF Shot!Start, Shot!Exit
  <2>2. CASE Shot!Succeed
    <3>1. status' = status
      BY <2>2 DEF Shot!Succeed
    <3>2. pc' = "write" => task.kind = "extended" /\ chunks' # <<>>
      <4>1. CASE task.kind = "extended"
        <5>1. chunks' = << << <<rep, pos + 1>> >> >>
          BY <2>2, <4>1 DEF Shot!Succeed
        <5>2. Len(chunks') = 1 /\ Len(<<>>) = 0
          BY <5>1
        <5>3. QED
          BY <4>1, <5>2
      <4>2. CASE task.kind # "extended"
        BY <2>2, <4>2 DEF Shot!Succeed
      <4>3. QED
        BY <4>1, <4>2
    <3>3. QED
      BY <1>4, <3>1, <3>2
  <2>3. CASE Shot!Fail \/ Shot!DirectiveFails
    BY <1>4, <2>3 DEF Shot!Fail, Shot!DirectiveFails, Shot!Exit
  <2>4. CASE Shot!EndRun
    <3>1. ~(rep < Shot!Runs(task))
      BY <1>1, <1>9, <1>8
    <3>2. QED
      BY <1>4, <2>4, <3>1 DEF Shot!EndRun
  <2>5. CASE Shot!Commit
    BY <1>4, <2>5 DEF Shot!Commit, Shot!Exit
  <2>6. CASE Shot!Write
    <3>1. pc = "write" /\ pos' = pos /\ status' = status
      BY <2>6 DEF Shot!Write
    <3>2. pc' = "write" => pos = task.n
      <4>1. pos < task.n \/ pos = task.n
        BY <1>1
      <4>2. QED
        BY <1>2, <1>9, <2>6, <4>1 DEF Shot!Write
    <3>3. QED
      BY <1>4, <3>1, <3>2
  <2>7. CASE Shot!WriteFails
    BY <2>7 DEF Shot!WriteFails, Shot!Exit
  <2>8. CASE Shot!EndWrite
    <3>1. pos = task.n /\ pos' = pos /\ pc' = "exit"
      BY <1>2, <1>9, <2>8 DEF Shot!EndWrite, Shot!Exit
    <3>2. QED
      BY <3>1
  <2>9. CASE Shot!Stats \/ Shot!Export
    BY <1>2, <1>9, <2>9 DEF Shot!Stats, Shot!Export
  <2>10. QED
    BY <2>1, <2>2, <2>3, <2>4, <2>5, <2>6, <2>7, <2>8, <2>9 DEF Shot!Next
<1>10. QED
  BY <1>5, <1>6, <1>7, <1>8, <1>9

LEMMA ShotStep == Shot!IInv /\ Shot!Next => Shot!IInv'
<1> SUFFICES ASSUME Shot!IInv, Shot!Next PROVE Shot!IInv'
  OBVIOUS
<1>1. Shot!TypeOK' /\ Shot!ChunksOK'
  BY ShotTypeStep DEF Shot!IInv
<1>2. QED
  BY <1>1, ShotDoneStep, ShotRunsStep, ShotAccountedStep, ShotExecutedStep, ShotDurableStep,
     ShotAtomicStep DEF Shot!IInv

\* The invariant says what the program promises.
LEMMA ShotMeans == Shot!IInv => ShownIsTrue
<1> SUFFICES ASSUME Shot!IInv PROVE ShownIsTrue
  OBVIOUS
<1> DEFINE n == task.n
           M == Shot!Runs(task)
           L == Shot!Runs(task) * task.n
<1>1. n \in Nat /\ M \in Nat /\ M >= 1 /\ L \in Nat /\ done \in Seq(Shot!Results)
  <2>1. n \in Nat /\ M \in Nat /\ M >= 1 /\ done \in Seq(Shot!Results)
    BY TaskFacts DEF Shot!TypeOK, Shot!IInv
  <2>2. M * n \in Nat
    BY <2>1
  <2>3. QED
    BY <2>1, <2>2
<1>2. Shot!Complete(M) = [j \in 1..L |-> Shot!Nth(j)]
  BY DEF Shot!Complete
<1>3. Shot!Intact => (\A j \in DOMAIN done : done[j] = Shot!Nth(j)) /\ Len(done) <= L
  BY DEF Shot!DoneInOrder, Shot!IInv
<1>4. task.kind = "sql" => Shot!Intact
  <2>1. task.kind = "sql" => Shot!Forgiven(task) = {}
    BY TaskFacts DEF Shot!TypeOK, Shot!IInv
  <2>2. QED
    BY <2>1 DEF Shot!Intact
<1> HIDE DEF n, L
<1>5. Shot!Intact => Shot!IsPrefix(done, Shot!Complete(M))
  <2> SUFFICES ASSUME Shot!Intact PROVE Shot!IsPrefix(done, Shot!Complete(M))
    OBVIOUS
  <2> DEFINE c == [j \in 1..L |-> Shot!Nth(j)]
             d == Len(done)
  <2>1. d \in Nat /\ d <= L /\ DOMAIN done = 1..d
    BY <1>1, <1>3
  <2>2. Len(c) = L
    BY <1>1
  <2>3. SubSeq(done, 1, d) = [j \in 1..((d - 1) + 1) |-> done[(1 + j) - 1]]
    OBVIOUS
  <2>4. SubSeq(c, 1, d) = [j \in 1..((d - 1) + 1) |-> c[(1 + j) - 1]]
    OBVIOUS
  <2> HIDE DEF d
  <2>5. (d - 1) + 1 = d /\ \A j \in 1..d : (1 + j) - 1 = j /\ j \in 1..L
    BY <1>1, <2>1
  <2>6. SubSeq(done, 1, d) = [j \in 1..d |-> done[j]]
    BY <2>3, <2>5
  <2>7. SubSeq(c, 1, d) = [j \in 1..d |-> c[j]]
    <3> HIDE DEF c
    <3>1. QED
      BY <2>4, <2>5
  <2>8. \A j \in 1..d : done[j] = c[j]
    BY <1>3, <2>1, <2>5
  <2>9. SubSeq(done, 1, d) = SubSeq(c, 1, d)
    <3> HIDE DEF c
    <3>1. QED
      BY <2>6, <2>7, <2>8
  <2>10. QED
    BY <1>2, <2>1, <2>2, <2>9 DEF Shot!IsPrefix, d
<1>6. task.kind = "sql" /\ Len(done) = L => done = Shot!Complete(M)
  <2> SUFFICES ASSUME task.kind = "sql", Len(done) = L PROVE done = Shot!Complete(M)
    OBVIOUS
  <2>1. DOMAIN done = 1..L /\ done = [j \in 1..L |-> done[j]]
    BY <1>1
  <2>2. \A j \in 1..L : done[j] = Shot!Nth(j)
    BY <1>3, <1>4, <2>1
  <2>3. [j \in 1..L |-> done[j]] = [j \in 1..L |-> Shot!Nth(j)]
    BY <2>2
  <2>4. QED
    BY <1>2, <2>1, <2>3, Zenon
<1>7. status = 0 /\ task.kind = "sql" =>
          /\ recorded = M /\ Len(done) = L /\ out = Shot!Complete(1)
          /\ task.export => exported = out
  BY DEF Shot!IInv, Shot!RunsCounted, L
<1>8. Shot!RunsAsOften
  <2>1. ~Shot!Intact => \A j, k \in DOMAIN done : j < k => done[j][2] < done[k][2]
    BY <1>4 DEF Shot!IInv, Shot!Accounted
  <2>2. QED
    BY <1>5, <1>6, <1>7, <2>1 DEF Shot!RunsAsOften
<1>9. Shot!ShownIsFirstRun
  BY <1>7 DEF Shot!ShownIsFirstRun
<1>10. Shot!ShownIsCommitted
  <2>1. Shot!Executed(out) /\ Shot!Executed(exported)
    BY DEF Shot!IInv, Shot!OnlyExecutedLeaves
  <2>2. ~Shot!Aborted => Shot!Durable(out) /\ Shot!Durable(exported)
    BY DEF Shot!IInv, Shot!OnlyDurableLeaves
  <2>3. /\ Shot!InBlock(task) => durable \in {<<>>, Shot!Complete(1)}
        /\ Shot!InBlock(task) /\ Shot!Aborted => durable = <<>>
    BY DEF Shot!IInv, Shot!AllOrNothing
  <2>4. Shot!Aborted => Shot!InBlock(task)
    BY DEF Shot!Aborted
  <2>5. QED
    BY <2>1, <2>2, <2>3, <2>4 DEF Shot!ShownIsCommitted, Shot!Executed
<1>11. QED
  BY <1>8, <1>9, <1>10 DEF ShownIsTrue, Shot!IInv

\* With exit code 0 every statement of every repetition is accounted for.
LEMMA ShotTells == Shot!IInv => Shot!ExitCodeTells
<1> SUFFICES ASSUME Shot!IInv, status = 0 PROVE Shot!ExitCodeTells
  BY DEF Shot!ExitCodeTells
<1> DEFINE n == task.n
           M == Shot!Runs(task)
<1>1. n \in Nat /\ M \in Nat /\ M >= 1 /\ (task.kind # "sql" => M = 1)
  BY TaskFacts DEF Shot!TypeOK, Shot!IInv
<1>2. failed \subseteq Shot!Forgiven(task)
  BY DEF Shot!IInv, Shot!Accounted
<1>3. ASSUME task.kind = "sql", NEW r \in 1..M, NEW k \in 1..n
      PROVE  Shot!Contains(done, <<r, k>>)
  <2> DEFINE j == (r - 1) * n + k
  <2>1. done = Shot!Complete(M)
    BY <1>3, ShotMeans DEF ShownIsTrue, Shot!RunsAsOften
  <2>2. Shot!Complete(M) = [i \in 1..M * n |-> Shot!Nth(i)]
    BY DEF Shot!Complete
  <2>3. Shot!Nth(j) = <<r, k>>
    BY <1>1, <1>3, NthResult
  <2>4. j \in 1..M * n
    <3> HIDE DEF M, n
    <3>1. /\ (r - 1) * n \in Nat /\ r * n \in Nat /\ M * n \in Nat
          /\ (r - 1) * n + n = r * n /\ r * n <= M * n
      BY <1>1, <1>3, RunLength
    <3>2. \A a, b, c \in Nat : a + n = b /\ b <= c => a + k \in 1..c
      BY <1>1, <1>3
    <3>3. QED
      BY <3>1, <3>2
  <2>5. M * n \in Nat
    BY <1>1
  <2> HIDE DEF j, M, n
  <2>6. done[j] = <<r, k>> /\ Len(done) = M * n
    BY <2>1, <2>2, <2>3, <2>4, <2>5
  <2>7. QED
    BY <2>4, <2>6 DEF Shot!Contains
<1>4. ASSUME task.kind \notin {"sql", "text", "other"}, NEW k \in 1..n
      PROVE  k \in failed \/ Shot!Contains(done, <<1, k>>)
  BY <1>4 DEF Shot!IInv, Shot!Accounted
<1>5. \A r \in 1..M : task.kind # "sql" => r = 1
  BY <1>1
<1> HIDE DEF M, n
<1>6. task.kind \notin {"text", "other"} =>
          \A r \in 1..M, k \in 1..n : k \in failed \/ Shot!Contains(done, <<r, k>>)
  BY <1>3, <1>4, <1>5
<1>7. QED
  BY <1>2, <1>6 DEF Shot!ExitCodeTells, M, n

LEMMA ShotGo == Shot!IInv /\ [Go]_<<vars, shotVars>> => Shot!IInv'
<1> SUFFICES ASSUME Shot!IInv, [Go]_<<vars, shotVars>> PROVE Shot!IInv'
  OBVIOUS
<1>1. CASE UNCHANGED shotVars \/ Abort
  <2>1. /\ UNCHANGED <<task, rep, pos, results, kept, chunks, out, exported, recorded, done, durable>>
        /\ \/ UNCHANGED <<pc, status, failed>>
           \/ pc' = "exit" /\ status' = 1 /\ failed' = failed \cup {0}
    BY <1>1 DEF Abort, Shot!Exit, shotVars
  <2>2. Shot!TypeOK' /\ Shot!ChunksOK'
    <3>1. 0 \in 0..task.n
      BY TaskFacts DEF Shot!IInv, Shot!TypeOK
    <3>2. failed \subseteq 0..task.n => failed' \subseteq 0..task.n
      BY <2>1, <3>1
    <3>3. QED
      BY <2>1, <3>2 DEF Shot!IInv, Shot!TypeOK, Shot!ChunksOK, Shot!Results, Shot!Runs
  <2>3. failed \subseteq failed' /\ (Shot!Aborted' <=> Shot!Aborted)
    BY <2>1 DEF Shot!Aborted, Shot!InBlock
  <2>4. Shot!DoneInOrder'
    <3>1. Shot!Intact' => Shot!Intact
      BY <2>1, <2>3 DEF Shot!Intact, Shot!Forgiven, Shot!Tolerates
    <3>2. Shot!Running' => Shot!Running
      BY <2>1 DEF Shot!Running
    <3>3. pc' = "start" => pc = "start"
      BY <2>1
    <3>4. QED
      BY <2>1, <3>1, <3>2, <3>3 DEF Shot!IInv, Shot!DoneInOrder, Shot!Nth, Shot!Runs
  <2>5. Shot!RunsCounted'
    BY <2>1 DEF Shot!IInv, Shot!RunsCounted, Shot!Complete, Shot!Nth, Shot!Runs
  <2>6. Shot!Accounted'
    <3>1. pc' = "start" => failed' = failed
      BY <2>1
    <3>2. status' # 1 => failed' = failed /\ status' = status
      BY <2>1
    <3>3. \A e : Shot!Contains(done', e) <=> Shot!Contains(done, e)
      BY <2>1
    <3>4. QED
      BY <2>1, <2>3, <3>1, <3>2, <3>3 DEF Shot!IInv, Shot!Accounted, Shot!Forgiven, Shot!Tolerates
  <2>7. Shot!OnlyExecutedLeaves'
    BY <2>1 DEF Shot!IInv, Shot!OnlyExecutedLeaves, Shot!Executed, Shot!Contains
  <2>8. Shot!OnlyDurableLeaves'
    BY <2>1, <2>3 DEF Shot!IInv, Shot!OnlyDurableLeaves, Shot!Durable, Shot!InBlock, Shot!Contains
  <2>9. Shot!AllOrNothing'
    BY <2>1, <2>3 DEF Shot!IInv, Shot!AllOrNothing, Shot!InBlock, Shot!Complete, Shot!Nth
  <2>10. QED
    BY <2>2, <2>4, <2>5, <2>6, <2>7, <2>8, <2>9 DEF Shot!IInv
<1>2. CASE Work
  BY <1>2, ShotStep DEF Work
<1>3. QED
  BY <1>1, <1>2 DEF Go, Resolve, vars

\* However the command line is taken apart and whatever fails: a statement runs
\* as often as --repeat says and no more, what is printed and exported is the
\* first run of it, complete, and was executed; and it is on the server unless
\* the single transaction of a script was aborted by an error that was forgiven,
\* of which nothing is there.
THEOREM ShownIsHonest == ProgramSpec => []ShownIsTrue
<1>1. Begin => Shot!IInv
  BY ShotInit DEF Begin
<1>2. QED
  BY <1>1, ShotGo, ShotMeans, PTL DEF ProgramSpec

-----------------------------------------------------------------------------
(* Where the program connects. *)

\* A set of natural numbers has a least one.
LEMMA LeastIsThere ==
    ASSUME NEW I, I \subseteq Nat, I # {}
    PROVE  Min(I) \in I /\ \A k \in I : Min(I) <= k
<1> DEFINE R == OpToRel(<, Nat)
<1>1. IsWellFoundedOn(R, Nat)
  BY NatLessThanWellFounded
<1>2. \A x, y \in Nat : x < y => <<x, y>> \in R
  BY DEF OpToRel
<1> HIDE DEF R
<1>3. PICK x \in I : \A y \in I : ~(<<y, x>> \in R)
  BY <1>1, WFMin
<1>4. \A y \in I : x <= y
  <2>1. \A y \in I : ~(y < x)
    BY <1>2, <1>3, Zenon
  <2>2. x \in Nat /\ \A y \in I : y \in Nat
    OBVIOUS
  <2>3. QED
    BY <2>1, <2>2
<1>5. QED
  BY <1>3, <1>4 DEF Min

\* The line that is used is the first one that matches.
LEMMA FirstMatch ==
    ASSUME NEW lines \in Seq(LineType), NEW c
    PROVE  \/ PgpassLine(lines, c) = 0 /\ \A k \in DOMAIN lines : ~Matches(lines[k], c)
           \/ /\ PgpassLine(lines, c) \in DOMAIN lines
              /\ Matches(lines[PgpassLine(lines, c)], c)
              /\ \A k \in 1..PgpassLine(lines, c) - 1 : ~Matches(lines[k], c)
<1> DEFINE I == {k \in 1..Len(lines) : Matches(lines[k], c)}
           p == PgpassLine(lines, c)
<1>1. p = IF I # {} THEN Min(I) ELSE 0
  BY DEF PgpassLine, SelectInSeq
<1>2. I \subseteq Nat /\ DOMAIN lines = 1..Len(lines)
  OBVIOUS
<1> HIDE DEF p
<1>3. CASE I = {}
  <2>1. p = 0
    BY <1>1, <1>3
  <2>2. \A k \in DOMAIN lines : ~Matches(lines[k], c)
    BY <1>2, <1>3
  <2>3. QED
    BY <2>1, <2>2 DEF p
<1>4. CASE I # {}
  <2>1. p \in I /\ \A k \in I : p <= k
    BY <1>1, <1>2, <1>4, LeastIsThere
  <2>2. p \in 1..Len(lines) /\ Matches(lines[p], c)
    BY <2>1
  <2>3. \A k \in 1..p - 1 : k \in 1..Len(lines) /\ ~(p <= k)
    BY <2>2
  <2>4. \A k \in 1..p - 1 : ~Matches(lines[k], c)
    BY <2>1, <2>3
  <2>5. QED
    BY <1>2, <2>2, <2>4 DEF p
<1>5. QED
  BY <1>3, <1>4

LEMMA FirstIs ==
    ASSUME NEW S, NEW s \in Seq(S), NEW k \in DOMAIN s, s[k] # None,
           \A j \in 1..k - 1 : s[j] = None
    PROVE  FirstGiven(s) = s[k]
<1> DEFINE First(m) == s[m] # None /\ \A j \in 1..m - 1 : s[j] = None
           m == CHOOSE x \in DOMAIN s : First(x)
<1>1. DOMAIN s \subseteq Nat \ {0} /\ First(k)
  OBVIOUS
<1>2. m \in DOMAIN s /\ First(m)
  <2> HIDE DEF First
  <2>1. QED
    BY <1>1
<1>3. FirstGiven(s) = s[m]
  BY DEF FirstGiven
<1> HIDE DEF m
<1>4. ~(m < k) /\ ~(k < m)
  BY <1>1, <1>2
<1>5. m = k
  BY <1>1, <1>2, <1>4
<1>6. QED
  BY <1>3, <1>5

LEMMA FirstOfFour ==
    ASSUME NEW a, NEW b, NEW c, NEW d, d # None
    PROVE  FirstGiven(<<a, b, c, d>>) = IF a # None THEN a ELSE IF b # None THEN b
                                        ELSE IF c # None THEN c ELSE d
<1> DEFINE s == <<a, b, c, d>>
<1>1. s \in Seq({a, b, c, d}) /\ DOMAIN s = 1..4
  OBVIOUS
<1>2. s[1] = a /\ s[2] = b /\ s[3] = c /\ s[4] = d
  OBVIOUS
<1> HIDE DEF s
<1>3. CASE a # None
  <2>1. FirstGiven(s) = s[1]
    BY <1>1, <1>2, <1>3, FirstIs
  <2>2. QED
    BY <1>2, <1>3, <2>1 DEF s
<1>4. CASE a = None /\ b # None
  <2>1. FirstGiven(s) = s[2]
    BY <1>1, <1>2, <1>4, FirstIs
  <2>2. QED
    BY <1>2, <1>4, <2>1 DEF s
<1>5. CASE a = None /\ b = None /\ c # None
  <2>1. FirstGiven(s) = s[3]
    BY <1>1, <1>2, <1>5, FirstIs
  <2>2. QED
    BY <1>2, <1>5, <2>1 DEF s
<1>6. CASE a = None /\ b = None /\ c = None
  <2>1. FirstGiven(s) = s[4]
    BY <1>1, <1>2, <1>6, FirstIs
  <2>2. QED
    BY <1>2, <1>6, <2>1 DEF s
<1>7. QED
  BY <1>3, <1>4, <1>5, <1>6

LEMMA FirstOfFive ==
    ASSUME NEW a, NEW b, NEW c, NEW d, NEW e, e # None
    PROVE  FirstGiven(<<a, b, c, d, e>>) = IF a # None THEN a ELSE IF b # None THEN b
                                           ELSE IF c # None THEN c ELSE IF d # None THEN d ELSE e
<1> DEFINE s == <<a, b, c, d, e>>
<1>1. s \in Seq({a, b, c, d, e}) /\ DOMAIN s = 1..5
  OBVIOUS
<1>2. s[1] = a /\ s[2] = b /\ s[3] = c /\ s[4] = d /\ s[5] = e
  OBVIOUS
<1> HIDE DEF s
<1>3. CASE a # None
  <2>1. FirstGiven(s) = s[1]
    BY <1>1, <1>2, <1>3, FirstIs
  <2>2. QED
    BY <1>2, <1>3, <2>1 DEF s
<1>4. CASE a = None /\ b # None
  <2>1. FirstGiven(s) = s[2]
    BY <1>1, <1>2, <1>4, FirstIs
  <2>2. QED
    BY <1>2, <1>4, <2>1 DEF s
<1>5. CASE a = None /\ b = None /\ c # None
  <2>1. FirstGiven(s) = s[3]
    BY <1>1, <1>2, <1>5, FirstIs
  <2>2. QED
    BY <1>2, <1>5, <2>1 DEF s
<1>6. CASE a = None /\ b = None /\ c = None /\ d # None
  <2>1. FirstGiven(s) = s[4]
    BY <1>1, <1>2, <1>6, FirstIs
  <2>2. QED
    BY <1>2, <1>6, <2>1 DEF s
<1>7. CASE a = None /\ b = None /\ c = None /\ d = None
  <2>1. FirstGiven(s) = s[5]
    BY <1>1, <1>2, <1>7, FirstIs
  <2>2. QED
    BY <1>2, <1>7, <2>1 DEF s
<1>8. QED
  BY <1>3, <1>4, <1>5, <1>6, <1>7

LEMMA InputFacts ==
    ASSUME NEW i \in Inputs
    PROVE  /\ i.host \in {None, "flag"} /\ i.port \in {None, "flag", "bad"}
           /\ i.username \in {None, "flag"} /\ i.dbname \in {None, "flag"}
           /\ i.positional \in {None, "uri", "name"}
           /\ i.uri.host \in {None, "uri", "bad"} /\ i.uri.port \in {None, "uri", "bad"}
           /\ i.uri.user \in {None, "uri"} /\ i.uri.database \in {None, "uri"}
           /\ i.PGHOST \in {None, "env"} /\ i.PGPORT \in {None, "env", "bad"}
           /\ i.PGUSER \in {None, "env"} /\ i.PGDATABASE \in {None, "env"}
           /\ i.USER \in {None, "os"} /\ i.PGPASSWORD \in {None, "env"}
           /\ i.PGSSLMODE \in {None, "disable", "allow", "prefer", "require", "verify-ca",
                               "verify-full", "bad"}
           /\ i.no_tls \in BOOLEAN /\ i.require_tls \in BOOLEAN /\ i.tls_ca \in BOOLEAN
<1>1. i \in InputType
  BY InputAssumption
<1>2. i.uri \in UriType
  BY <1>1 DEF InputType
<1>3. /\ i.uri.host \in {None, "uri", "bad"} /\ i.uri.port \in {None, "uri", "bad"}
      /\ i.uri.user \in {None, "uri"} /\ i.uri.database \in {None, "uri"}
  BY <1>2 DEF UriType, Maybe
<1>4. QED
  BY <1>1, <1>3 DEF InputType, Maybe

\* What the positional argument alone says.
LEMMA PositionalFacts ==
    ASSUME NEW i \in Inputs
    PROVE  LET P == Positional(i)
           IN  /\ DOMAIN P = DOMAIN Defaults
               /\ P.host = IF InUri(i, "host") # None THEN i.uri.host ELSE "localhost"
               /\ P.port = IF InUri(i, "port") # None THEN i.uri.port ELSE "5432"
               /\ P.user = IF InUri(i, "user") # None THEN i.uri.user ELSE ""
               /\ P.database = IF InUri(i, "database") # None THEN i.uri.database
                               ELSE IF i.positional = "name" THEN "positional" ELSE ""
               /\ P.password = IF i.positional = "uri" /\ i.uri.password # NoText
                               THEN OfUri(PercentDecode(i.uri.password)) ELSE NoPassword
               /\ P.tls = "prefer"
<1>1. CASE i.positional = "uri"
  <2> DEFINE F == FromUri(i.uri)
  <2>1. /\ F.host = (IF i.uri.host = None THEN "localhost" ELSE i.uri.host)
        /\ F.port = (IF i.uri.port = None THEN "5432" ELSE i.uri.port)
        /\ F.user = (IF i.uri.user = None THEN "" ELSE i.uri.user)
        /\ F.database = (IF i.uri.database = None THEN "" ELSE i.uri.database)
        /\ F.password = (IF i.uri.password = NoText THEN NoPassword
                         ELSE OfUri(PercentDecode(i.uri.password)))
    BY DEF FromUri, Defaults
  <2>2. /\ DOMAIN Defaults = {"host", "port", "user", "database", "password", "tls"}
        /\ Defaults.host = "localhost" /\ Defaults.port = "5432" /\ Defaults.user = ""
        /\ Defaults.database = "" /\ Defaults.password = NoPassword /\ Defaults.tls = "prefer"
    BY DEF Defaults
  <2>3. Positional(i) = [f \in DOMAIN Defaults |->
            IF f = "tls" \/ F[f] = Defaults[f] THEN Defaults[f] ELSE F[f]]
    BY <1>1 DEF Positional, Merge
  <2> HIDE DEF F
  <2>4. /\ DOMAIN Positional(i) = DOMAIN Defaults
        /\ Positional(i).host = F.host /\ Positional(i).port = F.port
        /\ Positional(i).user = F.user /\ Positional(i).database = F.database
        /\ Positional(i).password = F.password /\ Positional(i).tls = "prefer"
    BY <2>2, <2>3
  <2>5. /\ InUri(i, "host") = i.uri.host /\ InUri(i, "port") = i.uri.port
        /\ InUri(i, "user") = i.uri.user /\ InUri(i, "database") = i.uri.database
    BY <1>1 DEF InUri
  <2>6. QED
    BY <1>1, <2>1, <2>4, <2>5
<1>2. CASE i.positional = "name"
  BY <1>2 DEF Positional, Defaults, InUri
<1>3. CASE i.positional = None
  BY <1>3 DEF Positional, Defaults, InUri, None
<1>4. QED
  BY <1>1, <1>2, <1>3, InputFacts

\* The arguments as the parser hands them on.
Parsed(i) ==
    [host     |-> ArgOf(i.host, i.PGHOST),         port   |-> ArgOf(i.port, i.PGPORT),
     username |-> ArgOf(i.username, i.PGUSER),     dbname |-> ArgOf(i.dbname, i.PGDATABASE)]

\* What from_args makes of them.
Settled(c) ==
    /\ DOMAIN c = DOMAIN Defaults
    /\ in.positional = "uri" => UriOk(in.uri)
    /\ ResolveTlsMode(in) # "bad" /\ args.port # "bad"
    /\ c.host = HostOf(args, in) /\ c.port = PortOf(args, in)
    /\ c.user = UserOf(args, in) /\ c.database = DatabaseOf(args, in)
    /\ c.tls = ResolveTlsMode(in)
    /\ \/ c.password = PasswordOf(args, in, file)
       \/ c.password = Typed /\ PasswordOf(args, in, file) = NoPassword

\* From the command line to the configuration: nothing is lost or made up.
Traced ==
    /\ phase \in {"start", "parsed", "resolved", "list", "command", "file",
                  "repl", "upgrade", "usage", "failed"}
    /\ in \in Inputs /\ file \in Pgpass
    /\ phase # "start" => args = Parsed(in)
    /\ phase = "parsed" => args.port # "bad"
    /\ Ready => Settled(cfg)
    /\ phase \in {"start", "parsed", "usage", "upgrade"} => cfg = Defaults
    /\ phase = "failed" => cfg = Defaults \/ Settled(cfg)

LEMMA TracedInit == Init => Traced
BY DEF Init, Traced, Ready

LEMMA TracedStep == Traced /\ [Next]_vars => Traced'
<1> SUFFICES ASSUME Traced, [Next]_vars PROVE Traced'
  OBVIOUS
<1>1. CASE Parse
  <2>1. /\ phase = "start" /\ args' = Parsed(in) /\ UNCHANGED <<in, file, cfg>>
        /\ phase' \in {"usage", "upgrade", "parsed"} /\ (phase' = "parsed" => args'.port # "bad")
    BY <1>1 DEF Parse, Parsed
  <2>2. cfg = Defaults /\ in \in Inputs /\ file \in Pgpass
    BY <2>1 DEF Traced
  <2>3. ~Ready'
    BY <2>1 DEF Ready
  <2>4. QED
    BY <2>1, <2>2, <2>3 DEF Traced, Parsed
<1>2. CASE FromArgs
  <2> DEFINE P == Positional(in)
             W == Where(args, in)
             c == [W EXCEPT !.password = PasswordOf(args, in, file), !.tls = ResolveTlsMode(in)]
  <2>1. /\ phase = "parsed" /\ phase' = "resolved" /\ UNCHANGED <<in, file, args>> /\ cfg' = c
        /\ in.positional = "uri" => UriOk(in.uri)
        /\ ResolveTlsMode(in) # "bad"
    BY <1>2 DEF FromArgs
  <2>2. in \in Inputs /\ file \in Pgpass /\ args = Parsed(in) /\ args.port # "bad"
    BY <2>1 DEF Traced
  <2>3. DOMAIN P = DOMAIN Defaults
    BY <2>2, PositionalFacts
  <2>4. DOMAIN Defaults = {"host", "port", "user", "database", "password", "tls"}
    BY DEF Defaults
  <2> HIDE DEF P
  <2>5. W = [P EXCEPT !.host = HostOf(args, in), !.port = PortOf(args, in),
                      !.user = UserOf(args, in), !.database = DatabaseOf(args, in)]
    BY DEF Where, P
  <2>6. /\ DOMAIN W = DOMAIN Defaults
        /\ W.host = HostOf(args, in) /\ W.port = PortOf(args, in)
        /\ W.user = UserOf(args, in) /\ W.database = DatabaseOf(args, in)
    <3> HIDE DEF W
    <3>1. QED
      BY <2>3, <2>4, <2>5
  <2> HIDE DEF W
  <2>7. /\ DOMAIN c = DOMAIN Defaults
        /\ c.host = HostOf(args, in) /\ c.port = PortOf(args, in)
        /\ c.user = UserOf(args, in) /\ c.database = DatabaseOf(args, in)
        /\ c.tls = ResolveTlsMode(in) /\ c.password = PasswordOf(args, in, file)
    BY <2>4, <2>6
  <2>8. Settled(cfg)'
    <3> HIDE DEF c
    <3>1. QED
      BY <2>1, <2>2, <2>7 DEF Settled
  <2>9. QED
    BY <2>1, <2>2, <2>8 DEF Traced, Ready, Parsed
<1>3. CASE FromArgsFails
  BY <1>3 DEF FromArgsFails, Traced, Ready, Parsed
<1>4. CASE Prompt
  <2>1. phase = "resolved" /\ MustPrompt /\ UNCHANGED <<in, file, args>>
    BY <1>4 DEF Prompt
  <2>2. Settled(cfg) /\ in \in Inputs /\ file \in Pgpass /\ args = Parsed(in)
    BY <2>1 DEF Traced, Ready
  <2>3. CASE phase' = "failed" /\ UNCHANGED cfg
    <3>1. Settled(cfg)'
      BY <2>1, <2>2, <2>3 DEF Settled
    <3>2. QED
      BY <2>1, <2>2, <2>3, <3>1 DEF Traced, Ready, Parsed
  <2>4. CASE cfg' = [cfg EXCEPT !.password = Typed] /\ phase' = Mode
    <3>1. DOMAIN Defaults = {"host", "port", "user", "database", "password", "tls"}
      BY DEF Defaults
    <3>2. DOMAIN cfg = DOMAIN Defaults
      BY <2>2 DEF Settled
    <3>3. /\ DOMAIN cfg' = DOMAIN Defaults /\ cfg'.password = Typed
          /\ cfg'.host = cfg.host /\ cfg'.port = cfg.port /\ cfg'.user = cfg.user
          /\ cfg'.database = cfg.database /\ cfg'.tls = cfg.tls
      BY <2>4, <3>1, <3>2
    <3>4. PasswordOf(args, in, file) = NoPassword
      BY <2>1, <2>2 DEF MustPrompt, Settled, NoPassword, Typed
    <3>5. Settled(cfg)'
      BY <2>1, <2>2, <3>3, <3>4 DEF Settled
    <3>6. phase' \in {"list", "command", "file", "repl"}
      BY <2>4 DEF Mode
    <3>7. QED
      BY <2>1, <2>2, <3>5, <3>6 DEF Traced, Ready, Parsed
  <2>5. QED
    BY <1>4, <2>3, <2>4 DEF Prompt
<1>5. CASE Proceed
  <2>1. phase = "resolved" /\ UNCHANGED <<in, file, args, cfg>> /\ phase' = Mode
    BY <1>5 DEF Proceed
  <2>2. Settled(cfg)' /\ in \in Inputs /\ file \in Pgpass /\ args = Parsed(in)
    BY <2>1 DEF Traced, Ready, Settled
  <2>3. phase' \in {"list", "command", "file", "repl"}
    BY <2>1 DEF Mode
  <2>4. QED
    BY <2>1, <2>2, <2>3 DEF Traced, Ready, Parsed
<1>6. CASE UNCHANGED vars
  BY <1>6 DEF vars, Traced, Ready, Parsed, Settled
<1>7. QED
  BY <1>1, <1>2, <1>3, <1>4, <1>5, <1>6 DEF Next

\* Where the settings come from, source by source.
HostSource ==
    cfg.host = IF in.host # None THEN in.host ELSE IF in.PGHOST # None THEN in.PGHOST
               ELSE IF InUri(in, "host") # None THEN InUri(in, "host") ELSE "localhost"

PortSource ==
    cfg.port = IF in.port # None THEN in.port ELSE IF in.PGPORT # None THEN in.PGPORT
               ELSE IF InUri(in, "port") # None THEN InUri(in, "port") ELSE "5432"

UserSource ==
    cfg.user = IF in.username # None THEN in.username
               ELSE IF in.PGUSER # None THEN in.PGUSER
               ELSE IF InUri(in, "user") # None THEN InUri(in, "user")
               ELSE IF in.USER # None THEN in.USER ELSE ""

DatabaseSource ==
    cfg.database = IF in.dbname # None THEN in.dbname
                   ELSE IF in.PGDATABASE # None THEN in.PGDATABASE
                   ELSE IF in.positional # None THEN Positional(in).database
                   ELSE cfg.user

LEMMA SettledMeans ==
    ASSUME Traced, Settled(cfg), phase # "start"
    PROVE  HostSource /\ PortSource /\ UserSource /\ DatabaseSource
<1>1. in \in Inputs /\ args = Parsed(in)
  BY DEF Traced
<1>2. /\ args.host = (IF in.host # None THEN in.host ELSE in.PGHOST)
      /\ args.port = (IF in.port # None THEN in.port ELSE in.PGPORT)
      /\ args.username = (IF in.username # None THEN in.username ELSE in.PGUSER)
      /\ args.dbname = (IF in.dbname # None THEN in.dbname ELSE in.PGDATABASE)
  BY <1>1 DEF Parsed, ArgOf
<1>3. /\ Positional(in).host = IF InUri(in, "host") # None THEN in.uri.host ELSE "localhost"
      /\ Positional(in).port = IF InUri(in, "port") # None THEN in.uri.port ELSE "5432"
      /\ Positional(in).user = IF InUri(in, "user") # None THEN in.uri.user ELSE ""
  BY <1>1, PositionalFacts
<1>4. UriSuppliesUser(in) <=> InUri(in, "user") # None
  BY <1>1 DEF UriSuppliesUser, InUri, None
<1>5. cfg.host = HostOf(args, in) /\ cfg.port = PortOf(args, in)
      /\ cfg.user = UserOf(args, in) /\ cfg.database = DatabaseOf(args, in)
  BY DEF Settled
<1>6. /\ InUri(in, "host") # None => InUri(in, "host") = in.uri.host
      /\ InUri(in, "port") # None => InUri(in, "port") = in.uri.port
      /\ InUri(in, "user") # None => InUri(in, "user") = in.uri.user
  BY DEF InUri
<1>7. HostSource /\ PortSource
  BY <1>2, <1>3, <1>5, <1>6 DEF HostOf, PortOf, HostSource, PortSource
<1>8. UserSource
  BY <1>2, <1>3, <1>4, <1>5, <1>6 DEF UserOf, UserSource
<1>9. DatabaseSource
  BY <1>2, <1>5 DEF DatabaseOf, DatabaseSource
<1>10. QED
  BY <1>7, <1>8, <1>9

LEMMA TypesMeant == Traced => TypeOK
<1> SUFFICES ASSUME Traced PROVE TypeOK
  OBVIOUS
<1>0. in \in Inputs /\ phase \in {"start", "parsed", "resolved", "list", "command", "file",
                                  "repl", "upgrade", "usage", "failed"}
  BY DEF Traced
<1>1. CASE cfg = Defaults
  BY <1>0, <1>1 DEF TypeOK, Defaults
<1>2. CASE Settled(cfg) /\ phase # "start"
  <2>1. HostSource /\ PortSource /\ UserSource /\ DatabaseSource
    BY <1>2, SettledMeans
  <2>2. /\ InUri(in, "host") \in {None, "uri"} /\ InUri(in, "port") \in {None, "uri"}
        /\ InUri(in, "user") \in {None, "uri"} /\ InUri(in, "database") \in {None, "uri"}
    <3>1. in.positional = "uri" => in.uri.host # "bad" /\ in.uri.port # "bad"
      BY <1>2 DEF Settled, UriOk
    <3>2. QED
      BY <1>0, <3>1, InputFacts DEF InUri
  <2>3. cfg.host \in {"localhost", "flag", "env", "uri"}
    <3>1. in.host \in {None, "flag"} /\ in.PGHOST \in {None, "env"}
      BY <1>0, InputFacts
    <3>2. QED
      BY <2>1, <2>2, <3>1 DEF HostSource
  <2>4. cfg.port \in {"5432", "flag", "env", "uri"}
    <3>1. args.port # "bad" /\ args.port = (IF in.port # None THEN in.port ELSE in.PGPORT)
      BY <1>2 DEF Settled, Traced, Parsed, ArgOf
    <3>2. in.port \in {None, "flag", "bad"} /\ in.PGPORT \in {None, "env", "bad"}
      BY <1>0, InputFacts
    <3>3. QED
      BY <2>1, <2>2, <3>1, <3>2 DEF PortSource, None
  <2>5. cfg.user \in {"", "flag", "env", "uri", "os"}
    <3>1. in.username \in {None, "flag"} /\ in.PGUSER \in {None, "env"} /\ in.USER \in {None, "os"}
      BY <1>0, InputFacts
    <3>2. QED
      BY <2>1, <2>2, <3>1 DEF UserSource
  <2>6. Positional(in).database \in {"", "uri", "positional"}
    <3>1. Positional(in).database = IF InUri(in, "database") # None THEN in.uri.database
                                    ELSE IF in.positional = "name" THEN "positional" ELSE ""
      BY <1>0, PositionalFacts
    <3>2. InUri(in, "database") # None => in.uri.database = InUri(in, "database")
      BY DEF InUri
    <3>3. QED
      BY <2>2, <3>1, <3>2
  <2>7. cfg.database \in {"", "flag", "env", "uri", "positional", "os"}
    <3>1. in.dbname \in {None, "flag"} /\ in.PGDATABASE \in {None, "env"}
      BY <1>0, InputFacts
    <3>2. QED
      BY <2>1, <2>5, <2>6, <3>1 DEF DatabaseSource
  <2>8. cfg.tls \in {"disable", "prefer", "require", "verify-full"}
    <3>1. cfg.tls = ResolveTlsMode(in) /\ ResolveTlsMode(in) # "bad"
      BY <1>2 DEF Settled
    <3>2. QED
      BY <1>0, <3>1, InputFacts DEF ResolveTlsMode
  <2>9. QED
    BY <1>0, <2>3, <2>4, <2>5, <2>7, <2>8 DEF TypeOK
<1>3. QED
  BY <1>1, <1>2 DEF Traced, Ready

LEMMA PrecedenceMeant == Traced => Precedence
<1> SUFFICES ASSUME Traced, Ready PROVE Precedence
  BY DEF Precedence
<1>1. Settled(cfg) /\ phase # "start" /\ in \in Inputs
  BY DEF Traced, Ready
<1>2. HostSource /\ PortSource /\ UserSource /\ DatabaseSource
  BY <1>1, SettledMeans
<1>3. "localhost" # None /\ "5432" # None /\ "" # None /\ "positional" # None
  BY DEF None
<1>4. cfg.host = FirstGiven(<<in.host, in.PGHOST, InUri(in, "host"), "localhost">>)
  <2> DEFINE last == "localhost"
  <2>1. last # None /\ cfg.host = IF in.host # None THEN in.host
              ELSE IF in.PGHOST # None THEN in.PGHOST
              ELSE IF InUri(in, "host") # None THEN InUri(in, "host") ELSE last
    BY <1>2, <1>3 DEF HostSource
  <2> HIDE DEF last
  <2>2. cfg.host = FirstGiven(<<in.host, in.PGHOST, InUri(in, "host"), last>>)
    BY <2>1, FirstOfFour
  <2>3. QED
    BY <2>2 DEF last
<1>5. cfg.port = FirstGiven(<<in.port, in.PGPORT, InUri(in, "port"), "5432">>)
  <2> DEFINE last == "5432"
  <2>1. last # None /\ cfg.port = IF in.port # None THEN in.port
              ELSE IF in.PGPORT # None THEN in.PGPORT
              ELSE IF InUri(in, "port") # None THEN InUri(in, "port") ELSE last
    BY <1>2, <1>3 DEF PortSource
  <2> HIDE DEF last
  <2>2. cfg.port = FirstGiven(<<in.port, in.PGPORT, InUri(in, "port"), last>>)
    BY <2>1, FirstOfFour
  <2>3. QED
    BY <2>2 DEF last
<1>6. cfg.user = FirstGiven(<<in.username, in.PGUSER, InUri(in, "user"), in.USER, "">>)
  <2> DEFINE last == ""
  <2>1. last # None /\ cfg.user = IF in.username # None THEN in.username
              ELSE IF in.PGUSER # None THEN in.PGUSER
              ELSE IF InUri(in, "user") # None THEN InUri(in, "user")
              ELSE IF in.USER # None THEN in.USER ELSE last
    BY <1>2, <1>3 DEF UserSource
  <2> HIDE DEF last
  <2>2. cfg.user = FirstGiven(<<in.username, in.PGUSER, InUri(in, "user"), in.USER, last>>)
    BY <2>1, FirstOfFive
  <2>3. QED
    BY <2>2 DEF last
<1>7. ASSUME ~(in.positional = "uri" /\ in.uri.database = None)
      PROVE  cfg.database = FirstGiven(<<in.dbname, in.PGDATABASE, InUri(in, "database"),
                 IF in.positional = "name" THEN "positional" ELSE None, cfg.user>>)
  <2> DEFINE p == IF in.positional = "name" THEN "positional" ELSE None
  <2>1. cfg.user # None
    BY TypesMeant DEF TypeOK, None
  <2>2. FirstGiven(<<in.dbname, in.PGDATABASE, InUri(in, "database"), p, cfg.user>>)
          = IF in.dbname # None THEN in.dbname ELSE IF in.PGDATABASE # None THEN in.PGDATABASE
            ELSE IF InUri(in, "database") # None THEN InUri(in, "database")
            ELSE IF p # None THEN p ELSE cfg.user
    <3> HIDE DEF p
    <3>1. QED
      BY <2>1, FirstOfFive
  <2>3. Positional(in).database = IF InUri(in, "database") # None THEN in.uri.database
                                  ELSE IF in.positional = "name" THEN "positional" ELSE ""
    BY <1>1, PositionalFacts
  <2>4. in.positional # None /\ InUri(in, "database") = None => in.positional = "name"
    BY <1>1, <1>7, InputFacts DEF InUri
  <2>5. in.positional = None => InUri(in, "database") = None /\ p = None
    BY DEF InUri, None
  <2>6. in.positional = "name" => in.positional # None
    BY DEF None
  <2>7. InUri(in, "database") # None => InUri(in, "database") = in.uri.database
    BY DEF InUri
  <2>8. QED
    BY <1>2, <1>3, <2>2, <2>3, <2>4, <2>5, <2>6, <2>7 DEF DatabaseSource
<1>8. QED
  BY <1>4, <1>5, <1>6, <1>7 DEF Precedence

LEMMA TlsMeant == Traced => TlsFlagsDecide
<1> SUFFICES ASSUME Traced, Ready PROVE TlsFlagsDecide
  BY DEF TlsFlagsDecide
<1>1. cfg.tls = ResolveTlsMode(in) /\ ResolveTlsMode(in) # "bad" /\ in \in Inputs
  BY DEF Traced, Settled
<1>2. QED
  BY <1>1, InputFacts DEF ResolveTlsMode, TlsFlagsDecide, None

\* Passwords from different places are different.
LEMMA Provenance ==
    ASSUME NEW k, NEW j, NEW text
    PROVE  /\ OfLine(k) = OfLine(j) => k = j
           /\ OfLine(k) # NoPassword /\ OfLine(k) # OfVariable /\ OfLine(k) # Typed
           /\ OfLine(k) # OfUri(text) /\ OfUri(text) # NoPassword /\ OfUri(text) # Typed
           /\ NoPassword # OfVariable /\ NoPassword # Typed
<1>1. /\ OfLine(k).from = "pgpass" /\ OfLine(k).line = k /\ OfLine(j).line = j
      /\ NoPassword.from = "none" /\ OfVariable.from = "PGPASSWORD" /\ Typed.from = "prompt"
      /\ OfUri(text).from = "uri"
  BY DEF OfLine, NoPassword, OfVariable, Typed, OfUri, None
<1> QED
  BY <1>1

\* Which of the three places the password comes from.
LEMMA PasswordMeans ==
    ASSUME Traced, Settled(cfg), phase # "start"
    PROVE  LET p == PgpassLine(file, Where(args, in))
               uri == in.positional = "uri" /\ in.uri.password # NoText
           IN  PasswordOf(args, in, file) =
                   IF in.PGPASSWORD # None THEN OfVariable
                   ELSE IF uri THEN OfUri(PercentDecode(in.uri.password))
                   ELSE IF p = 0 THEN NoPassword ELSE OfLine(p)
<1>1. in \in Inputs
  BY DEF Traced
<1>2. Positional(in).password = IF in.positional = "uri" /\ in.uri.password # NoText
                                THEN OfUri(PercentDecode(in.uri.password)) ELSE NoPassword
  BY <1>1, PositionalFacts
<1>3. OfUri(PercentDecode(in.uri.password)) # NoPassword
  BY Provenance
<1>4. QED
  BY <1>2, <1>3 DEF PasswordOf, ReadPgpass

\* The lines that the search accepts are those meant for the connection.
LEMMA MatchMeans == ASSUME NEW line, NEW c PROVE Matches(line, c) <=> MeantFor(line, c)
  BY DEF Matches, MeantFor, Fields

LEMMA SameTarget ==
    ASSUME Traced, Settled(cfg), phase # "start", NEW line
    PROVE  Matches(line, Where(args, in)) <=> Matches(line, cfg)
<1> DEFINE W == Where(args, in)
           P == Positional(in)
<1>1. DOMAIN P = {"host", "port", "user", "database", "password", "tls"}
  BY PositionalFacts DEF Traced, Defaults
<1> HIDE DEF P
<1>2. W = [P EXCEPT !.host = HostOf(args, in), !.port = PortOf(args, in),
                    !.user = UserOf(args, in), !.database = DatabaseOf(args, in)]
  BY DEF Where, P
<1> HIDE DEF W
<1>3. W.host = cfg.host /\ W.port = cfg.port /\ W.user = cfg.user /\ W.database = cfg.database
  BY <1>1, <1>2 DEF Settled
<1>4. Matches(line, W) <=> Matches(line, cfg)
  BY <1>3 DEF Matches, Fields
<1>5. QED
  BY <1>4 DEF W

LEMMA PasswordMeant == Traced => PasswordFitsTarget
<1> SUFFICES ASSUME Traced, Ready PROVE PasswordFitsTarget
  BY DEF PasswordFitsTarget
<1> DEFINE p == PgpassLine(file, Where(args, in))
           uri == in.positional = "uri" /\ in.uri.password # NoText
           w == PasswordOf(args, in, file)
<1>1. Settled(cfg) /\ phase # "start" /\ file \in Seq(LineType)
  BY InputAssumption DEF Traced, Ready
<1>2. w = IF in.PGPASSWORD # None THEN OfVariable
          ELSE IF uri THEN OfUri(PercentDecode(in.uri.password))
          ELSE IF p = 0 THEN NoPassword ELSE OfLine(p)
  BY <1>1, PasswordMeans
<1>3. \/ p = 0 /\ \A k \in DOMAIN file : ~Matches(file[k], cfg)
      \/ /\ p \in DOMAIN file /\ Matches(file[p], cfg)
         /\ \A k \in 1..p - 1 : ~Matches(file[k], cfg)
  <2>1. \A line : Matches(line, Where(args, in)) <=> Matches(line, cfg)
    BY <1>1, SameTarget
  <2>2. \/ p = 0 /\ \A k \in DOMAIN file : ~Matches(file[k], Where(args, in))
        \/ /\ p \in DOMAIN file /\ Matches(file[p], Where(args, in))
           /\ \A k \in 1..p - 1 : ~Matches(file[k], Where(args, in))
    BY <1>1, FirstMatch
  <2>3. QED
    BY <2>1, <2>2
<1>4. cfg.password = w \/ (cfg.password = Typed /\ w = NoPassword)
  BY <1>1 DEF Settled
<1> HIDE DEF p, uri, w
<1>5. ASSUME NEW k \in DOMAIN file, cfg.password = OfLine(k)
      PROVE  p = k /\ p # 0 /\ in.PGPASSWORD = None /\ ~uri
  <2>1. w = OfLine(k)
    BY <1>4, <1>5, Provenance
  <2>2. in.PGPASSWORD = None
    BY <1>2, <2>1, Provenance
  <2>3. ~uri
    BY <1>2, <2>1, <2>2, Provenance
  <2>4. p # 0 /\ w = OfLine(p)
    BY <1>2, <2>1, <2>2, <2>3, Provenance
  <2>5. QED
    BY <2>1, <2>2, <2>3, <2>4, Provenance
<1>6. ASSUME cfg.password = NoPassword
      PROVE  \A k \in DOMAIN file : ~Matches(file[k], cfg)
  <2>1. w = NoPassword
    BY <1>4, <1>6, Provenance
  <2>2. p = 0
    BY <1>2, <2>1, Provenance
  <2>3. DOMAIN file = 1..Len(file)
    BY <1>1
  <2>4. QED
    BY <1>3, <2>2, <2>3
<1>7. \A k \in DOMAIN file : cfg.password = OfLine(k) =>
          /\ Matches(file[k], cfg)
          /\ \A j \in 1..k - 1 : ~Matches(file[j], cfg)
          /\ in.PGPASSWORD = None
          /\ in.positional = "uri" => in.uri.password = NoText
  BY <1>3, <1>5 DEF uri
<1>8. \A line : Matches(line, cfg) <=> MeantFor(line, cfg)
  BY MatchMeans
<1>9. QED
  BY <1>6, <1>7, <1>8 DEF PasswordFitsTarget

-----------------------------------------------------------------------------
(* The escapes of a URI. *)

Bytes == Characters \cup {"byte C3", "byte A9", None}

Escape(s, i) == SubSeq(s, i + 1, i + 2)
Escaped(s, i) == s[i] = "%" /\ i + 2 <= Len(s) /\ ByteOf(Escape(s, i)) # None

LEMMA ByteFacts ==
    /\ \A pair : ByteOf(pair) \in Bytes
    /\ ByteOf(<<"2", "5">>) = "%" /\ ByteOf(<<"6", "1">>) = "a"
  BY DEF ByteOf, Bytes, Characters, HexPairs

\* f[i] is what stands for the text from character i on.
Decodes(f, s) ==
    /\ f[Len(s) + 1] = <<>>
    /\ \A i \in 1..Len(s) :
          f[i] = IF Escaped(s, i) THEN <<ByteOf(Escape(s, i))>> \o f[i + 3]
                 ELSE <<s[i]>> \o f[i + 1]

LEMMA DecodeIs ==
    ASSUME NEW s \in Text
    PROVE  \E f : PercentDecode(s) = f[1] /\ Decodes(f, s)
<1> DEFINE D == 1..Len(s) + 1
           V == Seq(Bytes)
           body(f, i) ==
               IF i > Len(s) THEN <<>>
               ELSE IF /\ s[i] = "%" /\ i + 2 <= Len(s)
                       /\ ByteOf(SubSeq(s, i + 1, i + 2)) # None
                    THEN <<ByteOf(SubSeq(s, i + 1, i + 2))>> \o f[i + 3]
                    ELSE <<s[i]>> \o f[i + 1]
           Body == [i \in D |-> [f \in [D -> V] |-> body(f, i)]]
           rank == [i \in D |-> (Len(s) + 1) - i]
           Is(f) == f = [i \in D |-> body(f, i)]
<1>1. PercentDecode(s) = (CHOOSE f : Is(f))[1]
  BY DEF PercentDecode
<1>2. Len(s) \in Nat /\ \A i \in 1..Len(s) : s[i] \in Characters
  BY DEF Text
<1>3. \A i \in D : /\ i <= Len(s) => i + 1 \in D /\ i \in 1..Len(s)
                   /\ i + 2 <= Len(s) => i + 3 \in D
  BY <1>2
<1>4. \A i, j \in D : rank[j] < rank[i] <=> i < j
  BY <1>2
<1>5. rank \in [D -> 0..Len(s)]
  BY <1>2
<1> HIDE DEF rank
<1>6. ASSUME NEW i \in D, NEW f, NEW g, \A j \in D : rank[j] < rank[i] => f[j] = g[j]
      PROVE  body(f, i) = body(g, i)
  <2>1. i \in Nat
    OBVIOUS
  <2>2. i <= Len(s) => f[i + 1] = g[i + 1]
    BY <1>2, <1>3, <1>4, <1>6, <2>1
  <2>3. i + 2 <= Len(s) => f[i + 3] = g[i + 3]
    BY <1>2, <1>3, <1>4, <1>6, <2>1
  <2>4. i > Len(s) \/ i <= Len(s)
    BY <1>2, <2>1
  <2>5. QED
    BY <2>2, <2>3, <2>4
<1> HIDE DEF D, V
<1>7. ASSUME NEW i \in D, NEW f \in [D -> V]
      PROVE  body(f, i) \in V
  <2>1. i > Len(s) \/ i <= Len(s)
    BY <1>2 DEF D
  <2>2. i <= Len(s) => f[i + 1] \in V /\ s[i] \in Bytes
    BY <1>2, <1>3 DEF Bytes
  <2>3. i + 2 <= Len(s) => f[i + 3] \in V
    BY <1>3
  <2>4. \A x \in Bytes, q \in V : <<x>> \o q \in V
    BY DEF V
  <2>5. <<>> \in V
    BY DEF V
  <2>6. QED
    BY <2>1, <2>2, <2>3, <2>4, <2>5, ByteFacts
<1>8. \A f : Is(f) => \A i \in D : f[i] = body(f, i)
  OBVIOUS
<1> HIDE DEF body
<1>9. \A i \in D : \A f \in [D -> V] : Body[i][f] = body(f, i)
  OBVIOUS
<1>10. IsRecursion(D, V, rank, Body)
  <2>0. <<>> \in V
    BY DEF V
  <2>1. Body \in [D -> [[D -> V] -> V]]
    BY <1>7
  <2> HIDE DEF Body
  <2>2. ASSUME NEW i \in D, NEW f \in [D -> V], NEW g \in [D -> V],
               \A j \in D : rank[j] < rank[i] => f[j] = g[j]
        PROVE  Body[i][f] = Body[i][g]
    <3>1. body(f, i) = body(g, i)
      BY <1>6, <2>2
    <3>2. QED
      BY <1>9, <3>1
  <2>3. QED
    BY <1>2, <1>5, <2>0, <2>1, <2>2 DEF IsRecursion
<1> HIDE DEF Body
<1>11. \E f : Is(f)
  <2>1. PICK f \in [D -> V] : \A i \in D : f[i] = Body[i][f]
    BY <1>10, RecursiveFunction
  <2>2. QED
    BY <1>9, <2>1
<1> DEFINE h == CHOOSE f : Is(f)
<1>12. Is(h)
  <2> HIDE DEF Is
  <2>1. QED
    BY <1>11
<1>13. \A i \in D : h[i] = body(h, i)
  <2> HIDE DEF h
  <2>1. QED
    BY <1>12
<1> HIDE DEF h, Is
<1>14. Decodes(h, s)
  <2>1. Len(s) + 1 \in D /\ Len(s) + 1 > Len(s) /\ 1..Len(s) \subseteq D
    BY <1>2 DEF D
  <2>2. \A i \in 1..Len(s) : ~(i > Len(s))
    BY <1>2
  <2>3. QED
    BY <1>13, <2>1, <2>2 DEF body, Decodes, Escaped, Escape
<1>15. QED
  BY <1>1, <1>14 DEF h

LEMMA PairIs ==
    ASSUME NEW S, NEW s \in Seq(S), NEW i \in Nat, 1 <= i, i + 2 <= Len(s)
    PROVE  SubSeq(s, i + 1, i + 2) = <<s[i + 1], s[i + 2]>>
<1>1. SubSeq(s, i + 1, i + 2) = [j \in 1..2 |-> s[i + j]]
  <2>1. (i + 2) - (i + 1) + 1 = 2
    OBVIOUS
  <2>2. \A j \in 1..2 : (i + 1) + j - 1 = i + j
    OBVIOUS
  <2>3. QED
    BY <2>1, <2>2
<1>2. [j \in 1..2 |-> s[i + j]] = <<s[i + 1], s[i + 2]>>
  OBVIOUS
<1>3. QED
  BY <1>1, <1>2

LEMMA EncodingFacts ==
    ASSUME NEW c \in Characters, NEW p \in Encodings(c)
    PROVE  /\ p \in Text
           /\ \/ Len(p) = 1 /\ p[1] = c /\ c # "%"
              \/ /\ Len(p) = 3 /\ p[1] = "%"
                 /\ ByteOf(<<p[2], p[3]>>) = c /\ c # None
<1>1. c # None
  BY DEF Characters, None
<1>2. CASE c # "%" /\ p = <<c>>
  BY <1>2 DEF Text
<1>3. CASE c = "a" /\ p = <<"%", "6", "1">>
  BY <1>1, <1>3, ByteFacts DEF Text, Characters
<1>4. CASE c = "%" /\ p = <<"%", "2", "5">>
  BY <1>1, <1>4, ByteFacts DEF Text, Characters
<1>5. QED
  BY <1>2, <1>3, <1>4 DEF Encodings

\* Percent escapes are read back as what was written with them.
THEOREM DecodeMeans ==
    ASSUME NEW t \in Text, NEW s \in WaysToWrite(t), s \in Text
    PROVE  PercentDecode(s) = t
<1> DEFINE n == Len(t)
<1>1. n \in Nat /\ DOMAIN t = 1..n /\ t \in Seq(Characters) /\ \A k \in 1..n : t[k] \in Characters
  BY DEF Text
<1>2. PICK p \in [DOMAIN t -> UNION {Encodings(t[k]) : k \in DOMAIN t}] :
          s = FlattenSeq(p) /\ \A k \in DOMAIN t : p[k] \in Encodings(t[k])
  BY DEF WaysToWrite
<1>3. /\ DOMAIN p = 1..n
      /\ \A k \in 1..n :
            /\ p[k] \in Text
            /\ \/ Len(p[k]) = 1 /\ p[k][1] = t[k] /\ t[k] # "%"
               \/ /\ Len(p[k]) = 3 /\ p[k][1] = "%"
                  /\ ByteOf(<<p[k][2], p[k][3]>>) = t[k] /\ t[k] # None
  BY <1>1, <1>2, EncodingFacts
<1>4. p \in Seq(Seq(Characters)) /\ Len(p) = n
  <2>1. p = [k \in 1..n |-> p[k]] /\ \A k \in 1..n : p[k] \in Seq(Characters)
    BY <1>1, <1>2, <1>3 DEF Text
  <2> HIDE DEF n
  <2>2. QED
    BY <1>1, <2>1
<1>5. PICK cut : IsCut(cut, s, p)
  BY <1>2, <1>4, FlattenParts
<1>6. PICK f : PercentDecode(s) = f[1] /\ Decodes(f, s)
  BY DecodeIs
<1> HIDE DEF n
<1>7. /\ cut \in [0..n -> Nat] /\ cut[0] = 0 /\ cut[n] = Len(s)
      /\ \A k \in 1..n :
            /\ cut[k] = cut[k - 1] + Len(p[k]) /\ cut[k] <= Len(s)
            /\ \A j \in 1..Len(p[k]) : s[cut[k - 1] + j] = p[k][j]
  BY <1>4, <1>5 DEF IsCut
<1> DEFINE Suffix(k) == SubSeq(t, k + 1, n)
           D == 0..n
           rank == [k \in D |-> n - k]
           T == {k \in D : f[cut[k] + 1] = Suffix(k)}
<1>8. rank \in [D -> Nat] /\ \A k \in 1..n : k \in D /\ k - 1 \in D /\ rank[k] < rank[k - 1]
  BY <1>1
<1>9. n \in T
  <2>1. n \in D /\ Suffix(n) = <<>>
    BY <1>1 DEF n
  <2>2. QED
    BY <1>6, <1>7, <2>1 DEF Decodes
<1>10. ASSUME NEW k \in 1..n, k \in T PROVE k - 1 \in T
  <2> DEFINE i == cut[k - 1] + 1
             l == Len(p[k])
  <2>1. k - 1 \in D /\ k \in D /\ Len(s) \in Nat
    <3>1. s \in Seq(Characters)
      BY DEF Text
    <3>2. Len(s) \in Nat
      BY <3>1
    <3>3. QED
      BY <1>8, <3>2
  <2>2. cut[k - 1] \in Nat /\ i \in Nat /\ 1 <= i /\ cut[k - 1] + 1 = i
    BY <1>7, <2>1
  <2>3. /\ cut[k] = cut[k - 1] + l /\ cut[k] <= Len(s)
        /\ \A j \in 1..l : s[cut[k - 1] + j] = p[k][j]
    BY <1>7
  <2>4. f[cut[k] + 1] = Suffix(k)
    BY <1>10
  <2>5. Suffix(k - 1) = <<t[k]>> \o Suffix(k)
    <3>1. (k - 1) + 1 = k
      OBVIOUS
    <3>2. QED
      BY <1>1, <3>1, SubSeqRecursiveFirst DEF n
  <2> SUFFICES f[i] = <<t[k]>> \o f[cut[k] + 1]
    BY <2>1, <2>2, <2>4, <2>5
  <2> HIDE DEF i, l, Suffix, T
  <2>6. CASE l = 1 /\ p[k][1] = t[k] /\ t[k] # "%"
    <3>1. cut[k] = i /\ i <= Len(s) /\ 1 \in 1..l
      BY <2>2, <2>3, <2>6
    <3>2. s[i] = t[k] /\ i \in 1..Len(s)
      BY <2>1, <2>2, <2>3, <2>6, <3>1
    <3>3. ~Escaped(s, i)
      BY <2>6, <3>2 DEF Escaped
    <3>4. QED
      BY <1>6, <3>1, <3>2, <3>3 DEF Decodes
  <2>7. CASE l = 3 /\ p[k][1] = "%" /\ ByteOf(<<p[k][2], p[k][3]>>) = t[k] /\ t[k] # None
    <3>1. cut[k] = i + 2 /\ i + 2 <= Len(s) /\ i \in 1..Len(s)
      BY <2>1, <2>2, <2>3, <2>7
    <3>2. cut[k - 1] + 2 = i + 1 /\ cut[k - 1] + 3 = i + 2 /\ {1, 2, 3} \subseteq 1..l
      BY <2>2, <2>7
    <3>3. s[i] = "%" /\ s[i + 1] = p[k][2] /\ s[i + 2] = p[k][3]
      BY <2>2, <2>3, <2>7, <3>2
    <3>4. Escape(s, i) = <<p[k][2], p[k][3]>>
      BY <2>2, <3>1, <3>3, PairIs DEF Escape, Text
    <3>5. Escaped(s, i) /\ ByteOf(Escape(s, i)) = t[k]
      BY <2>7, <3>1, <3>3, <3>4 DEF Escaped
    <3>6. f[i] = <<t[k]>> \o f[i + 3]
      BY <1>6, <3>1, <3>5 DEF Decodes
    <3>7. (i + 2) + 1 = i + 3
      BY <2>2
    <3>8. QED
      BY <3>1, <3>6, <3>7
  <2>8. QED
    BY <1>3, <2>6, <2>7 DEF l
<1>11. D \subseteq T
  <2>1. ASSUME NEW k \in D, \A j \in D : rank[j] < rank[k] => j \in T
        PROVE  k \in T
    <3>1. CASE k = n
      BY <1>9, <3>1
    <3>2. CASE k # n
      <4>1. k + 1 \in 1..n /\ (k + 1) - 1 = k
        BY <1>1, <3>2
      <4>2. k + 1 \in T
        BY <1>8, <2>1, <4>1
      <4>3. QED
        BY <1>10, <4>1, <4>2
    <3>3. QED
      BY <3>1, <3>2
  <2> HIDE DEF D, rank, T
  <2>2. QED
    BY <1>8, <2>1, RankInduction
<1>12. 0 \in T
  <2>1. 0 \in D
    BY <1>1
  <2> HIDE DEF D, T
  <2>2. QED
    BY <1>11, <2>1
<1>13. f[1] = SubSeq(t, 1, n)
  BY <1>7, <1>12
<1>14. SubSeq(t, 1, n) = t
  BY <1>1 DEF n
<1>15. QED
  BY <1>6, <1>13, <1>14

LEMMA NeverNoText ==
    ASSUME NEW t \in Text
    PROVE  NoText \notin WaysToWrite(t)
<1>1. ASSUME NEW p \in [DOMAIN t -> UNION {Encodings(t[k]) : k \in DOMAIN t}],
             \A k \in DOMAIN t : p[k] \in Encodings(t[k])
      PROVE  FlattenSeq(p) \in Text
  <2>0. t \in Seq(Characters) /\ \A k \in DOMAIN t : t[k] \in Characters
    BY DEF Text
  <2>1. \A k \in DOMAIN t : p[k] \in Text
    BY <1>1, <2>0, EncodingFacts
  <2>2. p \in Seq(Text)
    <3>1. DOMAIN t = 1..Len(t) /\ Len(t) \in Nat
      BY DEF Text
    <3>2. p = [k \in 1..Len(t) |-> p[k]] /\ \A k \in 1..Len(t) : p[k] \in Text
      BY <2>1, <3>1
    <3>3. QED
      BY <3>1, <3>2
  <2>3. QED
    BY <2>2, FlattenParts DEF Text
<1>2. NoText \notin Text
  BY DEF NoText, Text, None, Characters
<1>3. QED
  BY <1>1, <1>2 DEF WaysToWrite

LEMMA ReadBackMeant == Traced => UriPasswordReadsBack
<1> SUFFICES ASSUME Traced, Ready, in.PGPASSWORD = None, in.positional = "uri",
                    in.uri.password \in WaysToWrite(in.intended)
             PROVE  cfg.password = OfUri(in.intended)
  BY DEF UriPasswordReadsBack
<1>1. Settled(cfg) /\ phase # "start" /\ in \in Inputs
  BY DEF Traced, Ready
<1>2. in.intended \in Text /\ in.uri.password \in Text \cup {NoText}
  BY <1>1, InputAssumption DEF InputType, UriType
<1>3. in.uri.password # NoText
  BY <1>2, NeverNoText
<1>4. PasswordOf(args, in, file) = OfUri(PercentDecode(in.uri.password))
  BY <1>1, <1>3, PasswordMeans
<1>5. cfg.password = OfUri(PercentDecode(in.uri.password))
  BY <1>1, <1>4, Provenance DEF Settled
<1>6. QED
  BY <1>2, <1>3, <1>5, DecodeMeans

-----------------------------------------------------------------------------
LEMMA TracedGo == Traced /\ [Go]_<<vars, shotVars>> => Traced'
<1>1. [Go]_<<vars, shotVars>> => [Next]_vars
  BY DEF Go, Resolve, Abort, Work
<1>2. QED
  BY <1>1, TracedStep

\* For every command line, environment and password file, the program connects
\* where, as whom, how and with the password that they say.
THEOREM ConnectsWhereTold == ProgramSpec => []ConnectsAsTold
<1>1. Begin => Traced
  BY TracedInit DEF Begin
<1>2. Traced => ConnectsAsTold
  BY TypesMeant, PrecedenceMeant, TlsMeant, PasswordMeant, ReadBackMeant DEF ConnectsAsTold
<1>3. QED
  BY <1>1, <1>2, TracedGo, PTL DEF ProgramSpec

-----------------------------------------------------------------------------
InMode == phase \in {"list", "command", "file"}

\* Before the mode is chosen nothing has happened, unless the program was ended
\* because of that.
BeforeMode == ~InMode => status \in {1, 9}

\* A mode that was chosen stays chosen.
LEMMA ModeIsChosen == ASSUME Next, InMode PROVE FALSE
BY DEF Next, Parse, FromArgs, FromArgsFails, Prompt, Proceed, InMode

LEMMA BeforeModeStep == BeforeMode /\ [Go]_<<vars, shotVars>> => BeforeMode'
<1> SUFFICES ASSUME BeforeMode, [Go]_<<vars, shotVars>> PROVE BeforeMode'
  OBVIOUS
<1>1. CASE Resolve
  <2>1. UNCHANGED shotVars /\ ~InMode
    BY <1>1, ModeIsChosen DEF Resolve
  <2>2. QED
    BY <2>1 DEF BeforeMode, shotVars
<1>2. CASE Abort
  BY <1>2 DEF Abort, Shot!Exit, BeforeMode
<1>3. CASE Work
  BY <1>3 DEF Work, InMode, BeforeMode, vars
<1>4. CASE UNCHANGED <<vars, shotVars>>
  BY <1>4 DEF BeforeMode, InMode, vars, shotVars
<1>5. QED
  BY <1>1, <1>2, <1>3, <1>4 DEF Go

-----------------------------------------------------------------------------
\* The exit code is 0 only if every error was a forgiven one, those of \sf, \sv,
\* extended descriptions and statements under \on_error continue: nothing failed
\* while the command line was taken apart, nor a directive, a commit, a write or
\* the export, and every statement was executed or has failed by itself.
THEOREM ExitCodeIsHonest == ProgramSpec => []ExitCodeTells
<1>1. Begin => Shot!IInv /\ BeforeMode
  BY ShotInit DEF Begin, Shot!Init, BeforeMode
<1>2. Shot!IInv /\ BeforeMode => ExitCodeTells
  BY ShotTells DEF BeforeMode, InMode, ExitCodeTells
<1>3. QED
  BY <1>1, <1>2, ShotGo, BeforeModeStep, PTL DEF ProgramSpec
=============================================================================
