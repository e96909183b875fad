---------------------------- MODULE TextsProofs ----------------------------
(***************************************************************************)
(* What holds of texts, of any length. Of Numbers: numerics, intervals and *)
(* durations are shown as the value they are, for any number of digits and *)
(* groups, any numbers of months, days and microseconds; the percentiles   *)
(* and the histogram are those of any number of samples. Of SqlText:       *)
(* whatever is typed, over any characters, cutting it into statements      *)
(* loses and repeats nothing, the caret of an error stands where the       *)
(* server meant, the editor and the splitter end in the same token, and    *)
(* the highlighter paints the token the editor is in.                      *)
(***************************************************************************)
EXTENDS MCTexts, Recursion

----------------------------------------------------------------------------
(* Numbers. Its instance has copies of the library's operators. *)

LEMMA SameLibrary ==
    /\ \A s : Figures!FlattenSeq(s) = FlattenSeq(s)
    /\ \A S : Figures!Cardinality(S) = Cardinality(S)
<1>1. \A s : Figures!FlattenSeq(s) = FlattenSeq(s)
  BY DEF Figures!FlattenSeq, FlattenSeq
<1>2. \A S : Figures!Cardinality(S) = Cardinality(S)
  BY DEF Figures!Cardinality, Cardinality
<1>3. QED
  BY <1>1, <1>2

\* A number is so many times another and a rest below it.
LEMMA Division ==
    ASSUME NEW a \in Nat, NEW b \in Nat \ {0}
    PROVE  /\ a \div b \in Nat
           /\ (a \div b) * b <= a /\ a < (a \div b) * b + b
<1>1. a \div b \in Nat
  OBVIOUS
<1>2. (a \div b) * b <= a
  OBVIOUS
<1>3. a < (a \div b) * b + b
  OBVIOUS
<1>4. QED
  BY <1>1, <1>2, <1>3

\* The fields s of an interval v.
FieldsAddUp(v, s) ==
    LET seconds == (s.hours * 60 + s.minutes) * 60 + s.seconds
        sum == seconds * MicrosPerSecond + s.micros
    IN  /\ s.years * 12 + s.months = v.months
        /\ s.days = v.days
        /\ sum = v.micros <=> v.micros >= 0 \/ s.micros = 0
        /\ Figures!Magnitude(s.months) < 12 /\ Figures!Magnitude(s.minutes) < 60 /\ Figures!Magnitude(s.seconds) < 60
        /\ s.micros \in 0 .. MicrosPerSecond - 1

\* The fields of an interval, for the numbers the code has in it.
LEMMA IntervalFields ==
    ASSUME MicrosPerSecond \in Nat \ {0},
           NEW micros \in Int, NEW days, NEW months \in Int
    PROVE  FieldsAddUp([micros |-> micros, days |-> days, months |-> months],
                       Figures!DecodeInterval([micros |-> micros, days |-> days, months |-> months]))
<1> DEFINE v == [micros |-> micros, days |-> days, months |-> months]
           s == Figures!DecodeInterval(v)
           secs == Figures!Quotient(micros, MicrosPerSecond)
           m == Figures!Magnitude(micros)
           M == MicrosPerSecond
           seconds == (s.hours * 60 + s.minutes) * 60 + s.seconds
<1>1. /\ s.years = Figures!Quotient(months, 12) /\ s.months = Figures!Remainder(months, 12) /\ s.days = days
      /\ s.hours = Figures!Quotient(secs, 3600) /\ s.minutes = Figures!Quotient(Figures!Remainder(secs, 3600), 60)
      /\ s.seconds = Figures!Remainder(secs, 60) /\ s.micros = Figures!Remainder(m, M)
  BY DEF Figures!DecodeInterval
<1> HIDE DEF s
<1>2. m \in Nat /\ m = IF micros < 0 THEN -micros ELSE micros
  BY DEF Figures!Magnitude
<1>3. m \div M \in Nat /\ (m \div M) * M <= m /\ m < (m \div M) * M + M
  BY <1>2, Division
<1>4. secs = IF micros < 0 THEN -(m \div M) ELSE m \div M
  BY <1>2 DEF Figures!Quotient
<1>5. s.micros = m - M * (m \div M)
  BY <1>1, <1>2 DEF Figures!Remainder, Figures!Quotient
<1>6. secs \in Int
  BY <1>3, <1>4
<1>7. seconds = secs
  <2> HIDE DEF secs
  <2>1. QED
    BY <1>1, <1>6 DEF Figures!Quotient, Figures!Remainder
<1>8. seconds * M + s.micros = micros <=> micros >= 0 \/ s.micros = 0
  <2> DEFINE q == m \div M
             qM == q * M
  <2>1. q \in Nat /\ qM \in Nat /\ M * q = qM /\ (-q) * M = -qM
    BY <1>3
  <2>2. s.micros = m - qM /\ seconds = IF micros < 0 THEN -q ELSE q
    BY <1>4, <1>5, <1>7, <2>1
  <2> HIDE DEF q, qM, m, secs, seconds
  <2>3. CASE micros < 0
    BY <1>2, <2>1, <2>2, <2>3
  <2>4. CASE micros >= 0
    BY <1>2, <2>1, <2>2, <2>4
  <2>5. QED
    BY <2>3, <2>4
<1>9. s.years * 12 + s.months = months /\ Figures!Magnitude(s.months) < 12
  BY <1>1 DEF Figures!Quotient, Figures!Remainder, Figures!Magnitude
<1>10. Figures!Magnitude(s.minutes) < 60 /\ Figures!Magnitude(s.seconds) < 60
  <2> HIDE DEF secs
  <2>1. QED
    BY <1>1, <1>6 DEF Figures!Quotient, Figures!Remainder, Figures!Magnitude
<1>11. s.micros \in 0..M - 1
  <2> DEFINE qM == (m \div M) * M
  <2>1. qM \in Nat /\ qM <= m /\ m < qM + M /\ s.micros = m - qM
    <3>1. M * (m \div M) = qM /\ qM \in Nat
      BY <1>3
    <3>2. QED
      BY <1>3, <1>5, <3>1
  <2> HIDE DEF qM, m
  <2>2. QED
    BY <1>2, <2>1
<1>12. QED
  <2>1. v.micros = micros /\ v.months = months /\ v.days = days
    OBVIOUS
  <2> HIDE DEF v
  <2>2. FieldsAddUp(v, s)
    BY <1>1, <1>8, <1>9, <1>10, <1>11, <2>1 DEF FieldsAddUp
  <2>3. QED
    BY <2>2 DEF v, s

\* The time a query took, in its unit.
IsTime(s, ms) ==
    /\ (s.minutes * 60 + s.secs) * 1000 + s.ms = ms
    /\ s.secs < 60 /\ s.ms < 1000
    /\ s.unit = "m" <=> ms >= 60000

LEMMA DurationParts ==
    ASSUME NEW ms \in Nat
    PROVE  IsTime(Figures!FormatDuration(ms), ms)
<1>1. CASE ms = 0
  <2>1. Figures!FormatDuration(ms) = [unit |-> "none", minutes |-> 0, secs |-> 0, ms |-> 0]
    BY <1>1 DEF Figures!FormatDuration
  <2>2. QED
    BY <1>1, <2>1 DEF IsTime
<1>2. CASE 1 <= ms /\ ms < 1000
  <2>1. Figures!FormatDuration(ms) = [unit |-> "ms", minutes |-> 0, secs |-> 0, ms |-> ms]
    BY <1>2 DEF Figures!FormatDuration
  <2>2. QED
    BY <1>2, <2>1 DEF IsTime
<1>3. CASE 1000 <= ms /\ ms < 60000
  <2>1. Figures!FormatDuration(ms) =
            [unit |-> "s", minutes |-> 0, secs |-> ms \div 1000, ms |-> ms % 1000]
    BY <1>3 DEF Figures!FormatDuration
  <2>2. QED
    BY <1>3, <2>1 DEF IsTime
<1>4. CASE 60000 <= ms
  <2>1. Figures!FormatDuration(ms) =
            [unit |-> "m", minutes |-> ms \div 60000, secs |-> (ms % 60000) \div 1000,
             ms |-> ms % 1000]
    BY <1>4 DEF Figures!FormatDuration
  <2>2. QED
    BY <1>4, <2>1 DEF IsTime
<1>5. ms = 0 \/ (1 <= ms /\ ms < 1000) \/ (1000 <= ms /\ ms < 60000) \/ 60000 <= ms
  OBVIOUS
<1>6. QED
  BY <1>1, <1>2, <1>3, <1>4, <1>5

(* Sorting. *)

Rising(s) == \A i, j \in DOMAIN s : i < j => s[i] <= s[j]

Perms(n) == {p \in [1..n -> 1..n] : Figures!IsInjective(p)}

\* Some permutation puts the numbers into order.
LEMMA SomeOrder ==
    \A n \in Nat : \A s \in [1..n -> Nat] : \E p \in Perms(n) :
        \A i, j \in 1..n : i < j => s[p[i]] <= s[p[j]]
<1> DEFINE Ordered(p, s, n) == \A i, j \in 1..n : i < j => s[p[i]] <= s[p[j]]
           T == {n \in Nat : \A s \in [1..n -> Nat] : \E p \in Perms(n) : Ordered(p, s, n)}
<1>1. 0 \in T
  <2> SUFFICES ASSUME NEW s \in [1..0 -> Nat] PROVE \E p \in Perms(0) : Ordered(p, s, 0)
    OBVIOUS
  <2>1. [i \in 1..0 |-> i] \in Perms(0)
    BY DEF Perms, Figures!IsInjective
  <2>2. Ordered([i \in 1..0 |-> i], s, 0)
    OBVIOUS
  <2>3. QED
    BY <2>1, <2>2
<1>2. ASSUME NEW n \in Nat, n \in T PROVE n + 1 \in T
  <2> SUFFICES ASSUME NEW s \in [1..n + 1 -> Nat]
               PROVE  \E p \in Perms(n + 1) : Ordered(p, s, n + 1)
    OBVIOUS
  <2> DEFINE t == [i \in 1..n |-> s[i]]
  <2>1. t \in [1..n -> Nat]
    OBVIOUS
  <2>2. PICK q \in Perms(n) : Ordered(q, t, n)
    BY <1>2, <2>1
  <2>3. /\ q \in [1..n -> 1..n] /\ \A i, j \in 1..n : q[i] = q[j] => i = j
        /\ \A i \in 1..n : q[i] \in 1..n + 1 /\ q[i] # n + 1 /\ s[q[i]] \in Nat
    <3>1. q \in [1..n -> 1..n] /\ \A i, j \in 1..n : q[i] = q[j] => i = j
      BY <2>2 DEF Perms, Figures!IsInjective
    <3>2. \A x \in 1..n : x \in 1..n + 1 /\ x # n + 1
      OBVIOUS
    <3>3. \A i \in 1..n : q[i] \in 1..n + 1 /\ q[i] # n + 1
      BY <3>1, <3>2
    <3>4. QED
      BY <3>1, <3>3
  <2>4. \A i, j \in 1..n : i < j => s[q[i]] <= s[q[j]]
    <3> SUFFICES ASSUME NEW i \in 1..n, NEW j \in 1..n, i < j PROVE s[q[i]] <= s[q[j]]
      OBVIOUS
    <3>1. q[i] \in 1..n /\ q[j] \in 1..n /\ t[q[i]] <= t[q[j]]
      BY <2>2, <2>3
    <3>2. QED
      BY <3>1
  \* The new number goes before the first greater one.
  <2> DEFINE I == {i \in 1..n : s[q[i]] > s[n + 1]} \cup {n + 1}
  <2>5. I \subseteq Nat /\ I # {}
    OBVIOUS
  <2>6. PICK m \in I : \A k \in I : m <= k
    <3> HIDE DEF I
    <3>1. QED
      BY <2>5, LeastNumber
  <2>7. /\ m \in 1..n + 1
        /\ \A i \in 1..n : i < m => s[q[i]] <= s[n + 1]
        /\ m \in 1..n => s[q[m]] > s[n + 1]
    <3>1. m \in 1..n + 1 /\ (m \in 1..n => s[q[m]] > s[n + 1])
      BY <2>6
    <3>2. ASSUME NEW i \in 1..n, i < m PROVE s[q[i]] <= s[n + 1]
      <4>1. i \notin I
        <5> HIDE DEF I
        <5>1. QED
          BY <2>6, <3>1, <3>2
      <4>2. ~(s[q[i]] > s[n + 1])
        BY <4>1
      <4>3. n + 1 \in 1..n + 1
        OBVIOUS
      <4>4. s[q[i]] \in Nat /\ s[n + 1] \in Nat
        BY <2>3, <4>3
      <4>5. QED
        BY <4>2, <4>4
    <3>3. QED
      BY <3>1, <3>2
  <2> HIDE DEF I, t
  <2> DEFINE p == [i \in 1..n + 1 |-> IF i < m THEN q[i] ELSE IF i = m THEN n + 1 ELSE q[i - 1]]
  <2>8. p \in Perms(n + 1)
    <3>1. p \in [1..n + 1 -> 1..n + 1]
      <4> SUFFICES ASSUME NEW i \in 1..n + 1
                   PROVE  (IF i < m THEN q[i] ELSE IF i = m THEN n + 1 ELSE q[i - 1]) \in 1..n + 1
        OBVIOUS
      <4>1. CASE i < m
        <5>1. i \in 1..n
          BY <2>7, <4>1
        <5>2. QED
          BY <2>3, <4>1, <5>1
      <4>2. CASE i = m
        BY <2>7, <4>2
      <4>3. CASE i > m
        <5>1. i - 1 \in 1..n /\ ~(i < m) /\ i # m
          BY <2>7, <4>3
        <5>2. QED
          BY <2>3, <5>1
      <4>4. QED
        BY <2>7, <4>1, <4>2, <4>3
    <3>2. ASSUME NEW i \in 1..n + 1, NEW j \in 1..n + 1, p[i] = p[j] PROVE i = j
      <4>1. \A k \in 1..n + 1 : /\ k < m => k \in 1..n /\ p[k] = q[k]
                                /\ k = m => p[k] = n + 1
                                /\ k > m => k - 1 \in 1..n /\ p[k] = q[k - 1]
        BY <2>7
      <4> HIDE DEF p
      <4>2. i = m <=> j = m
        <5>1. \A k \in 1..n + 1 : k # m => p[k] # n + 1
          <6> SUFFICES ASSUME NEW k \in 1..n + 1, k # m PROVE p[k] # n + 1
            OBVIOUS
          <6>1. k < m \/ k > m
            BY <2>7
          <6>2. QED
            BY <2>3, <4>1, <6>1
        <5>2. QED
          BY <3>2, <4>1, <5>1
      <4>3. CASE i = m
        BY <4>2, <4>3
      <4>4. CASE i # m
        <5> DEFINE u(k) == IF k < m THEN k ELSE k - 1
        <5>1. u(i) \in 1..n /\ u(j) \in 1..n /\ q[u(i)] = q[u(j)]
          BY <2>7, <3>2, <4>1, <4>2, <4>4
        <5>2. u(i) = u(j)
          BY <2>3, <5>1
        <5>3. QED
          BY <2>7, <4>2, <4>4, <5>2
      <4>5. QED
        BY <4>3, <4>4
    <3> HIDE DEF p
    <3>3. QED
      <4>1. DOMAIN p = 1..n + 1
        BY <3>1
      <4>2. QED
        BY <3>1, <3>2, <4>1 DEF Perms, Figures!IsInjective
  <2>9. Ordered(p, s, n + 1)
    <3> SUFFICES ASSUME NEW i \in 1..n + 1, NEW j \in 1..n + 1, i < j
                 PROVE  s[p[i]] <= s[p[j]]
      OBVIOUS
    <3>1. \A k \in 1..n : s[q[k]] \in Nat
      BY <2>3
    <3>2. s[n + 1] \in Nat
      OBVIOUS
    <3>3. CASE j < m
      <4>1. i \in 1..n /\ j \in 1..n /\ p[i] = q[i] /\ p[j] = q[j]
        BY <2>7, <3>3
      <4>2. QED
        BY <2>4, <4>1
    <3>4. CASE j = m
      <4>1. i \in 1..n /\ p[i] = q[i] /\ p[j] = n + 1
        BY <2>7, <3>4
      <4>2. QED
        BY <2>7, <3>4, <4>1
    <3>5. CASE j > m
      <4>1. j - 1 \in 1..n /\ p[j] = q[j - 1]
        BY <2>7, <3>5
      <4>2. CASE i < m
        <5>1. i \in 1..n /\ p[i] = q[i] /\ i < j - 1
          BY <2>7, <3>5, <4>2
        <5>2. QED
          BY <2>4, <4>1, <5>1
      <4>3. CASE i = m
        <5>1. m \in 1..n /\ p[i] = n + 1 /\ (m < j - 1 \/ m = j - 1)
          BY <2>7, <3>5, <4>3
        <5>2. s[q[m]] > s[n + 1] /\ (m < j - 1 => s[q[m]] <= s[q[j - 1]])
          BY <2>4, <2>7, <4>1, <5>1
        <5>3. s[q[m]] \in Nat /\ s[q[j - 1]] \in Nat
          BY <3>1, <4>1, <5>1
        <5>4. s[n + 1] <= s[q[j - 1]]
          <6>1. \A a, b, c \in Nat : a > c /\ a <= b => c <= b
            OBVIOUS
          <6>2. \A a, c \in Nat : a > c => c <= a
            OBVIOUS
          <6>3. QED
            BY <3>2, <5>1, <5>2, <5>3, <6>1, <6>2
        <5>5. QED
          BY <4>1, <5>1, <5>4
      <4>4. CASE i > m
        <5>1. i - 1 \in 1..n /\ p[i] = q[i - 1] /\ i - 1 < j - 1
          BY <2>7, <4>4
        <5>2. QED
          BY <2>4, <4>1, <5>1
      <4>5. QED
        BY <2>7, <4>2, <4>3, <4>4
    <3>6. QED
      BY <2>7, <3>3, <3>4, <3>5
  <2> HIDE DEF p
  <2>10. QED
    BY <2>8, <2>9
<1> HIDE DEF T
<1>3. Nat \subseteq T
  BY <1>1, <1>2, Induction
<1>4. QED
  BY <1>3 DEF T

\* Sorting keeps the numbers and puts them into order.
LEMMA SortedIs ==
    ASSUME NEW S, S \subseteq Nat, NEW s \in Seq(S)
    PROVE  Figures!Sorted(s) \in Seq(S) /\ Len(Figures!Sorted(s)) = Len(s) /\ Rising(Figures!Sorted(s))
<1> DEFINE n == Len(s)
           Ok(p) == \A i, j \in 1..n : i < j => s[p[i]] <= s[p[j]]
           P == CHOOSE p \in Perms(n) : Ok(p)
<1>1. n \in Nat /\ s \in [1..n -> S]
  OBVIOUS
<1>2. s \in [1..n -> Nat]
  BY <1>1
<1>3. Figures!Sorted(s) = [i \in 1..n |-> s[P[i]]]
  BY DEF Figures!Sorted, Perms
<1>4. \E p \in Perms(n) : Ok(p)
  BY <1>1, <1>2, SomeOrder
<1>5. P \in Perms(n) /\ Ok(P)
  BY <1>4
<1> HIDE DEF P, n
<1>6. P \in [1..n -> 1..n]
  BY <1>5 DEF Perms
<1>7. \A i \in 1..n : s[P[i]] \in S
  BY <1>1, <1>6
<1>8. Figures!Sorted(s) \in Seq(S) /\ Len(Figures!Sorted(s)) = n /\ DOMAIN Figures!Sorted(s) = 1..n
  BY <1>1, <1>3, <1>7
<1>9. Rising(Figures!Sorted(s))
  BY <1>3, <1>5, <1>8 DEF Rising
<1>10. QED
  BY <1>8, <1>9 DEF n

(* Percentiles. *)

LEMMA RankOf ==
    ASSUME NEW a \in Nat, NEW n \in Nat, 1 <= a, a <= 100 * n
    PROVE  LET r == Figures!Smaller((a + 99) \div 100, n)
           IN  r \in 1..n /\ r * 100 >= a /\ (r - 1) * 100 < a
<1> DEFINE c == (a + 99) \div 100
<1>1. c \in Nat /\ 1 <= c /\ c <= n /\ c * 100 >= a /\ (c - 1) * 100 < a
  OBVIOUS
<1> HIDE DEF c
<1>2. Figures!Smaller(c, n) = c
  BY <1>1 DEF Figures!Smaller
<1>3. QED
  BY <1>1, <1>2 DEF c

\* x is the nearest rank of p in s.
Below(s, x) == {k \in DOMAIN s : s[k] <= x}
IsNearest(s, x, p) ==
    /\ x \in Figures!ToSet(s)
    /\ Cardinality(Below(s, x)) * 100 >= p * Len(s)
    /\ \A y \in Figures!ToSet(s) : y < x => Cardinality(Below(s, y)) * 100 < p * Len(s)

LEMMA NearestRank ==
    ASSUME NEW s \in Seq(Nat), Len(s) > 0, Rising(s), NEW p \in 1..100
    PROVE  IsNearest(s, Figures!Percentile(s, p), p)
<1> DEFINE n == Len(s)
           a == p * n
           r == Figures!Smaller((a + 99) \div 100, n)
<1>1. n \in Nat /\ 1 <= n /\ DOMAIN s = 1..n /\ \A i \in 1..n : s[i] \in Nat
  OBVIOUS
<1>2. a \in Nat /\ 1 <= a /\ a <= 100 * n
  <2> HIDE DEF n
  <2>1. p \in Int /\ n \in Int /\ 1 <= p /\ p <= 100
    BY <1>1
  <2>2. p * n >= 1 * n
    BY <1>1, <2>1
  <2>3. p * n <= 100 * n
    BY <1>1, <2>1
  <2>4. QED
    BY <1>1, <2>1, <2>2, <2>3
<1> HIDE DEF a, n
<1>3. r \in 1..n /\ r * 100 >= a /\ (r - 1) * 100 < a
  BY <1>1, <1>2, RankOf
<1>4. Figures!Percentile(s, p) = s[r]
  BY DEF Figures!Percentile, n, a
<1> HIDE DEF r
<1>5. \A i, j \in 1..n : i < j => s[i] <= s[j]
  BY <1>1 DEF Rising
<1>6. s[r] \in Figures!ToSet(s)
  BY <1>1, <1>3 DEF Figures!ToSet
<1>7. IsFiniteSet(1..n) /\ \A k \in 0..n : IsFiniteSet(1..k) /\ Cardinality(1..k) = k
  <2>1. \A k \in 0..n : k \in Int
    BY <1>1
  <2>2. ASSUME NEW k \in 0..n PROVE IsFiniteSet(1..k) /\ Cardinality(1..k) = k
    <3>1. 1 \in Int /\ k \in Int
      BY <2>1
    <3>2. IsFiniteSet(1..k) /\ Cardinality(1..k) = IF 1 > k THEN 0 ELSE k - 1 + 1
      BY <3>1, FS_Interval
    <3>3. QED
      BY <1>1, <3>2
  <2>3. QED
    BY <1>1, <2>2
<1>8. Cardinality(Below(s, s[r])) * 100 >= a
  <2> DEFINE B == Below(s, s[r])
  <2>1. B \subseteq 1..n /\ 1..r \subseteq B
    <3>1. ASSUME NEW k \in 1..r PROVE k \in 1..n /\ s[k] <= s[r]
      <4>1. k \in 1..n /\ r \in 1..n /\ (k < r \/ k = r)
        BY <1>1, <1>3
      <4>2. CASE k < r
        BY <1>5, <4>1, <4>2
      <4>3. CASE k = r
        BY <1>1, <4>1, <4>3
      <4>4. QED
        BY <4>1, <4>2, <4>3
    <3>2. QED
      BY <1>1, <3>1 DEF Below
  <2> HIDE DEF B
  <2>2. IsFiniteSet(B) /\ Cardinality(B) \in Nat
    BY <1>7, <2>1, FS_Subset, FS_CardinalityType
  <2>3. Cardinality(1..r) <= Cardinality(B)
    BY <2>1, <2>2, FS_Subset
  <2>4. Cardinality(1..r) = r /\ r \in Nat
    BY <1>1, <1>3, <1>7
  <2>5. QED
    BY <1>2, <1>3, <2>2, <2>3, <2>4 DEF B
<1>9. ASSUME NEW y \in Figures!ToSet(s), y < s[r]
      PROVE  Cardinality(Below(s, y)) * 100 < a
  <2> DEFINE B == Below(s, y)
  <2>0. y \in Nat
    BY <1>1, <1>9 DEF Figures!ToSet
  <2>1. B \subseteq 1..r - 1
    <3> SUFFICES ASSUME NEW k \in 1..n, s[k] <= y PROVE k \in 1..r - 1
      BY <1>1 DEF Below
    <3>1. ~(r <= k)
      <4> SUFFICES ASSUME r <= k PROVE FALSE
        OBVIOUS
      <4>1. s[r] <= s[k]
        <5>1. r < k \/ r = k
          BY <1>1, <1>3
        <5>2. QED
          BY <1>1, <1>3, <1>5, <5>1
      <4>2. s[r] \in Nat /\ s[k] \in Nat
        BY <1>1, <1>3
      <4>3. QED
        BY <1>9, <2>0, <4>1, <4>2
    <3>2. QED
      BY <1>1, <1>3, <3>1
  <2> HIDE DEF B
  <2>2. r - 1 \in 0..n
    BY <1>1, <1>3
  <2>3. IsFiniteSet(1..r - 1) /\ Cardinality(1..r - 1) = r - 1
    BY <1>7, <2>2
  <2>4. IsFiniteSet(B) /\ Cardinality(B) \in Nat /\ Cardinality(B) <= r - 1
    BY <2>1, <2>3, FS_Subset, FS_CardinalityType
  <2>5. QED
    BY <1>1, <1>2, <1>3, <2>4 DEF B
<1>10. QED
  BY <1>4, <1>6, <1>8, <1>9 DEF IsNearest, a, n

(* The histogram. *)

\* A sum from left to right is the function that adds one number after the other.
LEMMA FoldSum ==
    ASSUME NEW seq \in Seq(Nat), NEW h \in [0..Len(seq) -> Nat], h[0] = 0,
           \A k \in 1..Len(seq) : h[k] = h[k - 1] + seq[k]
    PROVE  Figures!FoldLeft(LAMBDA a, b : a + b, 0, seq) = h[Len(seq)]
<1> DEFINE n == Len(seq)
           D == SUBSET (1..n)
           body(f, A) == IF A = {} THEN 0 ELSE f[A \ {Figures!Max(A)}] + seq[Figures!Max(A)]
           Is(f) == f = [A \in D |-> body(f, A)]
           Body == [A \in D |-> [f \in [D -> Nat] |-> body(f, A)]]
           rank == [A \in D |-> Cardinality(A)]
           total == Figures!FoldLeft(LAMBDA a, b : a + b, 0, seq)
<1>1. n \in Nat /\ DOMAIN seq = 1..n /\ \A k \in 1..n : seq[k] \in Nat
  OBVIOUS
<1>2. total = (CHOOSE f : Is(f))[1..n]
  BY <1>1 DEF Figures!FoldLeft, Figures!MapThenFoldSet
<1> HIDE DEF n, total
<1>3. IsFiniteSet(1..n) /\ Cardinality(1..n) = n
  <2>1. 1 \in Int /\ n \in Int
    BY <1>1
  <2>2. QED
    BY <1>1, <2>1, FS_Interval
<1>4. ASSUME NEW A \in D
      PROVE  IsFiniteSet(A) /\ Cardinality(A) \in 0..n
  <2>1. IsFiniteSet(A) /\ Cardinality(A) <= n
    BY <1>3, FS_Subset
  <2>2. Cardinality(A) \in Nat
    BY <2>1, FS_CardinalityType
  <2> HIDE DEF D
  <2>3. QED
    BY <1>1, <2>1, <2>2
<1>5. ASSUME NEW A \in D, A # {}
      PROVE  /\ Figures!Max(A) \in A /\ \A x \in A : Figures!Max(A) >= x
             /\ A \ {Figures!Max(A)} \in D /\ Cardinality(A \ {Figures!Max(A)}) < Cardinality(A)
  <2> DEFINE I == {n - x : x \in A}
  <2>1. I \subseteq Nat /\ I # {}
    <3>1. \A x \in A : n - x \in Nat
      BY <1>1
    <3>2. QED
      BY <1>5, <3>1
  <2>2. PICK m \in I : \A k \in I : m <= k
    <3> HIDE DEF I
    <3>1. QED
      BY <2>1, LeastNumber
  <2>3. PICK x \in A : m = n - x
    BY <2>2
  <2>4. \A y \in A : x >= y
    <3> SUFFICES ASSUME NEW y \in A PROVE x >= y
      OBVIOUS
    <3>1. n - x <= n - y
      BY <2>2, <2>3
    <3>2. x \in Nat /\ y \in Nat
      OBVIOUS
    <3>3. QED
      BY <1>1, <3>1, <3>2
  <2>5. Figures!Max(A) \in A /\ \A y \in A : Figures!Max(A) >= y
    BY <2>4 DEF Figures!Max
  <2>6. Cardinality(A \ {Figures!Max(A)}) = Cardinality(A) - 1 /\ Cardinality(A) \in Nat
    BY <1>4, <2>5, FS_RemoveElement
  <2>7. A \ {Figures!Max(A)} \in D
    OBVIOUS
  <2> HIDE DEF D
  <2>8. \A c \in Nat : c - 1 < c
    OBVIOUS
  <2>9. QED
    BY <2>5, <2>6, <2>7, <2>8
<1>6. \A A \in D : rank[A] = Cardinality(A)
  OBVIOUS
<1>7. rank \in [D -> 0..n]
  BY <1>4
<1> HIDE DEF D, rank
<1>8. ASSUME NEW A \in D, NEW f, NEW g, \A B \in D : rank[B] < rank[A] => f[B] = g[B]
      PROVE  body(f, A) = body(g, A)
  <2>1. A # {} => f[A \ {Figures!Max(A)}] = g[A \ {Figures!Max(A)}]
    BY <1>5, <1>6, <1>8
  <2>2. QED
    BY <2>1
<1>9. ASSUME NEW A \in D, NEW f \in [D -> Nat]
      PROVE  body(f, A) \in Nat
  <2>1. A # {} => f[A \ {Figures!Max(A)}] \in Nat /\ seq[Figures!Max(A)] \in Nat
    <3>1. A # {} => Figures!Max(A) \in 1..n /\ A \ {Figures!Max(A)} \in D
      BY <1>5 DEF D
    <3>2. QED
      BY <1>1, <3>1
  <2>2. QED
    BY <2>1
<1>10. \A f : Is(f) => \A A \in D : f[A] = body(f, A)
  OBVIOUS
<1> HIDE DEF body
<1>11. \A A \in D : \A f \in [D -> Nat] : Body[A][f] = body(f, A)
  OBVIOUS
<1>12. IsRecursion(D, Nat, rank, Body)
  <2>1. Nat # {} /\ Body \in [D -> [[D -> Nat] -> Nat]]
    BY <1>9
  <2> HIDE DEF Body
  <2>2. ASSUME NEW A \in D, NEW f \in [D -> Nat], NEW g \in [D -> Nat],
               \A B \in D : rank[B] < rank[A] => f[B] = g[B]
        PROVE  Body[A][f] = Body[A][g]
    <3>1. body(f, A) = body(g, A)
      BY <1>8, <2>2
    <3>2. QED
      BY <1>11, <3>1
  <2>3. QED
    BY <1>1, <1>7, <2>1, <2>2 DEF IsRecursion
<1> HIDE DEF Body
<1>13. \E f : Is(f)
  <2>1. PICK f \in [D -> Nat] : \A A \in D : f[A] = Body[A][f]
    BY <1>12, RecursiveFunction
  <2>2. QED
    BY <1>11, <2>1
<1> DEFINE g == CHOOSE f : Is(f)
<1>14. \A A \in D : g[A] = body(g, A)
  <2>1. Is(g)
    <3> HIDE DEF Is
    <3>1. QED
      BY <1>13
  <2> HIDE DEF g, Is
  <2>2. QED
    BY <1>10, <2>1
<1> HIDE DEF g, Is
\* It adds the numbers from the first to the last of the prefixes.
<1> DEFINE T == {k \in Nat : k <= n => g[1..k] = h[k]}
<1>15. 0 \in T
  <2>1. 1..0 = {} /\ 1..0 \in D
    BY DEF D
  <2>2. g[1..0] = 0
    BY <1>14, <2>1 DEF body
  <2>3. QED
    BY <2>2
<1>16. ASSUME NEW k \in Nat, k \in T PROVE k + 1 \in T
  <2> SUFFICES ASSUME k + 1 <= n PROVE g[1..k + 1] = h[k + 1]
    OBVIOUS
  <2>1. 1..k + 1 \in D /\ 1..k + 1 # {} /\ k + 1 \in 1..n /\ k <= n /\ (k + 1) - 1 = k
    <3>1. k + 1 \in 1..k + 1 /\ k + 1 \in 1..n /\ k <= n /\ (k + 1) - 1 = k
      BY <1>1
    <3>2. \A x \in 1..k + 1 : x \in 1..n
      BY <1>1
    <3>3. QED
      BY <3>1, <3>2 DEF D
  <2>2. Figures!Max(1..k + 1) = k + 1
    <3>1. Figures!Max(1..k + 1) \in 1..k + 1 /\ \A x \in 1..k + 1 : Figures!Max(1..k + 1) >= x
      BY <1>5, <2>1
    <3>2. QED
      BY <3>1
  <2>3. 1..k + 1 \ {k + 1} = 1..k
    OBVIOUS
  <2>4. g[1..k + 1] = g[1..k] + seq[k + 1]
    BY <1>14, <2>1, <2>2, <2>3 DEF body
  <2>5. h[k + 1] = h[k] + seq[k + 1]
    BY <2>1 DEF n
  <2>6. QED
    BY <1>16, <2>1, <2>4, <2>5
<1> HIDE DEF T
<1>17. n \in T
  BY <1>1, <1>15, <1>16, Induction
<1>18. g[1..n] = h[n]
  BY <1>1, <1>17 DEF T
<1>19. total = h[n]
  BY <1>2, <1>18 DEF g
<1>20. QED
  BY <1>19 DEF total, n

\* Every sample has a bar, and stands in its range.
LEMMA BarHolds ==
    ASSUME Buckets \in Nat \ {0}, NEW s \in Seq(Nat), Len(s) > 0, Rising(s),
           NEW k \in 1..Len(s)
    PROVE  /\ Figures!Bar(s, s[k]) \in 0..Buckets - 1
           /\ s[k] \in s[1] + Figures!Bar(s, s[k]) * Figures!Width(s)
                       .. s[1] + Figures!Bar(s, s[k]) * Figures!Width(s) + Figures!Width(s) - 1
<1> DEFINE n == Len(s)
           d == s[n] - s[1]
           w == Figures!Width(s)
           x == s[k] - s[1]
           q == x \div w
<1>1. n \in Nat /\ 1 <= n /\ DOMAIN s = 1..n /\ \A i \in 1..n : s[i] \in Nat
  OBVIOUS
<1>2. s[1] \in Nat /\ s[k] \in Nat /\ s[n] \in Nat /\ s[1] <= s[k] /\ s[k] <= s[n]
  <2>0. k \in 1..n
    OBVIOUS
  <2> HIDE DEF n, d, w, x
  <2>1. 1 \in 1..n /\ n \in 1..n /\ (1 < k \/ k = 1) /\ (k < n \/ k = n)
    BY <1>1, <2>0
  <2>2. QED
    BY <1>1, <2>0, <2>1 DEF Rising
<1>3. w = d \div Buckets + 1
  BY DEF Figures!Width
<1>4. d \in Nat /\ x \in Nat /\ x <= d
  BY <1>2
<1> HIDE DEF n, d, w, x
<1>5. d \div Buckets \in Nat /\ d < (d \div Buckets) * Buckets + Buckets
  BY <1>4, Division
<1>6. w \in Nat \ {0} /\ d < w * Buckets
  <2> DEFINE e == d \div Buckets
  <2>1. (e + 1) * Buckets = e * Buckets + Buckets
    BY <1>5
  <2> HIDE DEF e
  <2>2. e \in Nat /\ w = e + 1 /\ d < e * Buckets + Buckets
    BY <1>3, <1>5 DEF e
  <2>3. QED
    BY <2>1, <2>2
<1>7. q \in Nat /\ q * w <= x /\ x < q * w + w /\ q * w \in Nat
  <2>1. q \in Nat /\ q * w <= x /\ x < q * w + w
    BY <1>4, <1>6, Division
  <2> HIDE DEF q
  <2>2. QED
    BY <1>6, <2>1
<1> HIDE DEF q
<1>8. q <= Buckets - 1
  <2> SUFFICES ASSUME q >= Buckets PROVE FALSE
    BY <1>7
  <2>1. q * w >= Buckets * w
    BY <1>6, <1>7
  <2>2. Buckets * w = w * Buckets
    BY <1>6
  <2>3. w * Buckets \in Nat
    BY <1>6
  <2>4. QED
    BY <1>4, <1>6, <1>7, <2>1, <2>2, <2>3
<1>9. Figures!Bar(s, s[k]) = q
  <2>1. Figures!Bar(s, s[k]) = Figures!Smaller(q, Buckets - 1)
    BY DEF Figures!Bar, q, x, w
  <2>2. QED
    BY <1>7, <1>8, <2>1 DEF Figures!Smaller
<1>10. s[k] \in s[1] + q * w .. s[1] + q * w + w - 1
  <2> DEFINE qw == q * w
  <2> HIDE DEF qw
  <2>1. qw \in Nat /\ qw <= x /\ x < qw + w
    BY <1>7 DEF qw
  <2>2. s[k] = s[1] + x
    BY <1>2 DEF x
  <2>3. s[k] \in s[1] + qw .. s[1] + qw + w - 1
    BY <1>2, <1>4, <1>6, <2>1, <2>2
  <2>4. QED
    BY <2>3 DEF qw
<1>11. QED
  BY <1>7, <1>8, <1>9, <1>10 DEF w

\* The bars count every sample once.
LEMMA BarsAddUp ==
    ASSUME Buckets \in Nat \ {0}, NEW s \in Seq(Nat), Len(s) > 0, Rising(s),
           Figures!Histogram(s) # <<>>
    PROVE  Figures!FoldLeft(LAMBDA a, b : a + b, 0, Figures!Histogram(s)) = Len(s)
<1> DEFINE n == Len(s)
           bar(k) == Figures!Bar(s, s[k])
           InBar(b) == {k \in 1..n : bar(k) = b}
           UpTo(b) == {k \in 1..n : bar(k) < b}
           seq == [b \in 1..Buckets |-> Cardinality(InBar(b - 1))]
           h == [b \in 0..Buckets |-> Cardinality(UpTo(b))]
<1>1. n \in Nat /\ DOMAIN s = 1..n /\ \A k \in 1..n : bar(k) \in 0..Buckets - 1
  BY BarHolds
<1>2. Figures!Histogram(s) = seq
  BY <1>1, SameLibrary DEF Figures!Histogram
<1>3. IsFiniteSet(1..n) /\ Cardinality(1..n) = n
  <2>1. 1 \in Int /\ n \in Int
    BY <1>1
  <2>2. QED
    BY <1>1, <2>1, FS_Interval
<1> HIDE DEF bar, n
<1>4. \A b : /\ IsFiniteSet(InBar(b)) /\ Cardinality(InBar(b)) \in Nat
             /\ IsFiniteSet(UpTo(b)) /\ Cardinality(UpTo(b)) \in Nat
  <2>1. \A b : InBar(b) \subseteq 1..n /\ UpTo(b) \subseteq 1..n
    OBVIOUS
  <2> HIDE DEF InBar, UpTo
  <2>2. QED
    BY <1>3, <2>1, FS_Subset, FS_CardinalityType
<1>5. ASSUME NEW b \in 1..Buckets
      PROVE  Cardinality(UpTo(b)) = Cardinality(UpTo(b - 1)) + Cardinality(InBar(b - 1))
  <2>1. UpTo(b) = UpTo(b - 1) \cup InBar(b - 1)
    <3> SUFFICES ASSUME NEW k \in 1..n
                 PROVE  bar(k) < b <=> bar(k) < b - 1 \/ bar(k) = b - 1
      OBVIOUS
    <3>1. bar(k) \in Nat
      BY <1>1
    <3>2. QED
      BY <3>1
  <2>2. UpTo(b - 1) \cap InBar(b - 1) = {}
    <3> SUFFICES ASSUME NEW k \in 1..n, bar(k) < b - 1, bar(k) = b - 1 PROVE FALSE
      OBVIOUS
    <3>1. QED
      OBVIOUS
  <2> HIDE DEF InBar, UpTo
  <2>3. Cardinality(UpTo(b - 1) \cap InBar(b - 1)) = 0
    BY <2>2, FS_EmptySet
  <2>4. Cardinality(UpTo(b - 1) \cup InBar(b - 1)) =
            Cardinality(UpTo(b - 1)) + Cardinality(InBar(b - 1))
                - Cardinality(UpTo(b - 1) \cap InBar(b - 1))
    BY <1>4, FS_Union
  <2>5. QED
    BY <1>4, <2>1, <2>3, <2>4
<1>6. UpTo(0) = {} /\ UpTo(Buckets) = 1..n
  BY <1>1
<1> HIDE DEF InBar, UpTo
<1>7. seq \in Seq(Nat) /\ Len(seq) = Buckets
  BY <1>4
<1>8. h \in [0..Buckets -> Nat] /\ h[0] = 0 /\ h[Buckets] = n
  <2>1. h \in [0..Buckets -> Nat] /\ h[0] = Cardinality(UpTo(0)) /\ h[Buckets] = Cardinality(UpTo(Buckets))
    BY <1>4
  <2>2. QED
    BY <1>3, <1>6, <2>1, FS_EmptySet
<1>9. \A b \in 1..Buckets : h[b] = h[b - 1] + seq[b]
  BY <1>5
<1> HIDE DEF seq, h
<1>10. Figures!FoldLeft(LAMBDA a, b : a + b, 0, seq) = h[Len(seq)]
  BY <1>7, <1>8, <1>9, FoldSum
<1>11. QED
  BY <1>2, <1>7, <1>8, <1>10 DEF n

(* Groups of digits. *)

Group(d, k) == SubSeq(d, 4 * k - 3, 4 * k)

\* Groups that follow one another, behind a part of any length, are the digits
\* between the first and the last of them.
LEMMA GroupsFlat ==
    ASSUME NEW S, NEW d \in Seq(S), NEW parts \in Seq(Seq(S)), Len(parts) >= 1, NEW o \in Nat,
           4 * (Len(parts) + o) <= Len(d),
           \A k \in 2..Len(parts) : parts[k] = Group(d, k + o)
    PROVE  FlattenSeq(parts) = parts[1] \o SubSeq(d, 4 * o + 5, 4 * (o + Len(parts)))
<1> DEFINE m == Len(parts)
           F == Len(parts[1])
           flat == FlattenSeq(parts)
           tail == SubSeq(d, 4 * o + 5, 4 * (o + m))
<1>1. m \in Nat /\ 1 <= m /\ Len(d) \in Nat /\ parts[1] \in Seq(S) /\ F \in Nat
  <2>1. 1 \in 1..Len(parts)
    OBVIOUS
  <2>2. parts[1] \in Seq(S)
    BY <2>1, ElementOfSeq
  <2>3. QED
    BY <2>2
<1>2. PICK cut : IsCut(cut, flat, parts)
  BY FlattenParts
<1>3. flat \in Seq(S)
  BY FlattenParts
<1> HIDE DEF flat, F, m
<1>4. /\ cut \in [0..m -> Nat] /\ cut[0] = 0 /\ cut[m] = Len(flat)
      /\ \A k \in 1..m : cut[k] = cut[k - 1] + Len(parts[k])
      /\ \A k \in 1..m : \A j \in 1..Len(parts[k]) : flat[cut[k - 1] + j] = parts[k][j]
  BY <1>2 DEF IsCut, m
<1>5. \A x \in 1..Len(flat) : \E k \in 1..m : \E j \in 1..Len(parts[k]) :
          x = cut[k - 1] + j /\ flat[x] = parts[k][j]
  <2>1. \A x \in 1..Len(flat) : \E k \in 1..Len(parts) : \E j \in 1..Len(parts[k]) :
            x = cut[k - 1] + j /\ flat[x] = parts[k][j]
    <3>1. parts \in Seq(Seq(S)) /\ flat \in Seq(S) /\ IsCut(cut, flat, parts)
      BY <1>2, <1>3
    <3> DEFINE Covered(f, c, q) ==
                   \A x \in 1..Len(f) : \E k \in 1..Len(q) : \E j \in 1..Len(q[k]) :
                       x = c[k - 1] + j /\ f[x] = q[k][j]
    <3>2. \A q \in Seq(Seq(S)), f \in Seq(S) : \A c : IsCut(c, f, q) => Covered(f, c, q)
      BY CutCovers
    <3> HIDE DEF Covered
    <3>3. Covered(flat, cut, parts)
      BY <3>1, <3>2, Zenon
    <3>4. QED
      BY <3>3 DEF Covered
  <2>2. QED
    BY <2>1 DEF m
<1>6. ASSUME NEW k \in 2..m
      PROVE  /\ Len(parts[k]) = 4
             /\ \A j \in 1..4 : parts[k][j] = d[4 * (k + o) - 4 + j]
  <2> DEFINE a == 4 * (k + o) - 3
             b == 4 * (k + o)
  <2>1. a \in Int /\ b \in Int /\ a <= b /\ b - a + 1 = 4 /\ 1 <= a /\ b <= Len(d)
    BY <1>1 DEF m
  <2>2. parts[k] = SubSeq(d, a, b)
    BY DEF m, Group
  <2>3. \A j \in 1..4 : a + j - 1 = 4 * (k + o) - 4 + j
    OBVIOUS
  <2> HIDE DEF a, b
  <2>4. \A i \in a..b : d[i] \in S
    BY <2>1
  <2>5. Len(SubSeq(d, a, b)) = b - a + 1 /\ \A i \in 1..b - a + 1 : SubSeq(d, a, b)[i] = d[a + i - 1]
    BY <2>1, <2>4, SubSeqProperties
  <2>6. QED
    BY <2>1, <2>2, <2>3, <2>5
\* Where part k begins.
<1> DEFINE T == {k \in Nat : k + 1 <= m => cut[k + 1] = F + 4 * k}
<1>7. 0 \in T
  <2>1. cut[1] = cut[0] + F
    BY <1>1, <1>4 DEF F
  <2>2. QED
    BY <1>1, <1>4, <2>1
<1>8. ASSUME NEW k \in Nat, k \in T PROVE k + 1 \in T
  <2> SUFFICES ASSUME (k + 1) + 1 <= m PROVE cut[(k + 1) + 1] = F + 4 * (k + 1)
    OBVIOUS
  <2>1. (k + 1) + 1 \in 1..m /\ (k + 1) + 1 \in 2..m /\ ((k + 1) + 1) - 1 = k + 1 /\ k + 1 <= m
    BY <1>1
  <2>2. cut[(k + 1) + 1] = cut[k + 1] + 4
    BY <1>4, <1>6, <2>1
  <2>3. QED
    BY <1>1, <1>8, <2>1, <2>2
<1> HIDE DEF T
<1>9. \A k \in 1..m : cut[k] = F + 4 * (k - 1)
  <2>1. Nat \subseteq T
    BY <1>7, <1>8, Induction
  <2> SUFFICES ASSUME NEW k \in 1..m PROVE cut[k] = F + 4 * (k - 1)
    OBVIOUS
  <2>2. k - 1 \in T /\ (k - 1) + 1 = k /\ k <= m
    BY <1>1, <2>1
  <2>3. QED
    BY <2>2 DEF T
<1>10. Len(flat) = F + 4 * (m - 1)
  BY <1>1, <1>4, <1>9
<1> DEFINE a == 4 * o + 5
           b == 4 * (o + m)
<1>11. /\ a \in Int /\ b \in Int /\ 1 <= a /\ b <= Len(d)
       /\ (IF a <= b THEN b - a + 1 ELSE 0) = 4 * (m - 1)
  BY <1>1 DEF m
<1>12. /\ tail \in Seq(S) /\ Len(tail) = 4 * (m - 1)
       /\ \A i \in 1..4 * (m - 1) : tail[i] = d[4 * o + 4 + i]
  <2>1. tail = SubSeq(d, a, b) /\ b - a + 1 = 4 * (m - 1)
    BY <1>1
  <2>2. \A i \in 1..4 * (m - 1) : a + i - 1 = 4 * o + 4 + i
    OBVIOUS
  <2> HIDE DEF a, b, tail
  <2>3. \A i \in a..b : d[i] \in S
    BY <1>11
  <2>4. /\ SubSeq(d, a, b) \in Seq(S) /\ Len(SubSeq(d, a, b)) = IF a <= b THEN b - a + 1 ELSE 0
        /\ \A i \in 1..b - a + 1 : SubSeq(d, a, b)[i] = d[a + i - 1]
    BY <1>11, <2>3, SubSeqProperties
  <2>5. QED
    BY <1>11, <2>1, <2>2, <2>4
<1> HIDE DEF a, b, tail
<1> DEFINE rhs == parts[1] \o tail
<1>13. /\ rhs \in Seq(S) /\ Len(rhs) = F + 4 * (m - 1)
       /\ \A x \in 1..F + 4 * (m - 1) : rhs[x] = IF x <= F THEN parts[1][x] ELSE tail[x - F]
  <2> DEFINE p == parts[1]
  <2>1. p \in Seq(S) /\ Len(p) = F
    BY <1>1 DEF F
  <2> HIDE DEF p
  <2>2. /\ p \o tail \in Seq(S) /\ Len(p \o tail) = Len(p) + Len(tail)
        /\ \A x \in 1..Len(p) + Len(tail) :
              (p \o tail)[x] = IF x <= Len(p) THEN p[x] ELSE tail[x - Len(p)]
    BY <1>12, <2>1, ConcatProperties
  <2>3. QED
    BY <1>12, <2>1, <2>2 DEF p
<1> HIDE DEF rhs
<1>14. ASSUME NEW x \in 1..Len(flat) PROVE flat[x] = rhs[x]
  <2>1. PICK k \in 1..m : \E j \in 1..Len(parts[k]) : x = cut[k - 1] + j /\ flat[x] = parts[k][j]
    BY <1>5
  <2>2. PICK j \in 1..Len(parts[k]) : x = cut[k - 1] + j /\ flat[x] = parts[k][j]
    BY <2>1
  <2>3. CASE k = 1
    <3>1. cut[k - 1] = 0 /\ j \in 1..F /\ parts[k] = parts[1]
      BY <1>4, <2>3 DEF F
    <3>2. x = j /\ x <= F
      BY <1>1, <2>2, <3>1
    <3>3. x \in 1..F + 4 * (m - 1)
      BY <1>10
    <3>4. QED
      BY <1>13, <2>2, <3>1, <3>2, <3>3
  <2>4. CASE k \in 2..m
    <3>1. k - 1 \in 1..m /\ j \in 1..4
      <4>1. Len(parts[k]) = 4
        BY <1>6, <2>4
      <4>2. k - 1 \in 1..m
        BY <1>1, <2>4
      <4>3. QED
        BY <4>1, <4>2
    <3>2. x = F + 4 * (k - 2) + j
      <4>1. cut[k - 1] = F + 4 * ((k - 1) - 1)
        BY <1>9, <3>1
      <4>2. QED
        BY <1>1, <2>2, <2>4, <3>1, <4>1
    <3>3. flat[x] = d[4 * (k + o) - 4 + j]
      BY <1>6, <2>2, <2>4, <3>1
    <3>4. x \in 1..F + 4 * (m - 1) /\ ~(x <= F) /\ x - F \in 1..4 * (m - 1)
      BY <1>1, <1>10, <2>4, <3>1, <3>2
    <3>5. rhs[x] = d[4 * o + 4 + (x - F)]
      BY <1>12, <1>13, <3>4
    <3>6. 4 * o + 4 + (x - F) = 4 * (k + o) - 4 + j
      BY <1>1, <3>1, <3>2
    <3>7. QED
      BY <3>3, <3>5, <3>6
  <2>5. QED
    BY <1>1, <2>3, <2>4
<1>15. flat = rhs
  BY <1>3, <1>10, <1>13, <1>14, SeqEqual
<1>16. QED
  BY <1>15 DEF flat, rhs, tail, m

WholeDigits(int) == Figures!Zeros((4 - (Len(int) % 4)) % 4) \o int
RestDigits(frac) == frac \o Figures!Zeros((4 - (Len(frac) % 4)) % 4)

LEMMA ZerosAre ==
    ASSUME NEW S, 0 \in S, NEW n \in Nat
    PROVE  Figures!Zeros(n) \in Seq(S) /\ Len(Figures!Zeros(n)) = n /\ \A i \in 1..n : Figures!Zeros(n)[i] = 0
<1>1. Figures!Zeros(n) = [i \in 1..n |-> 0]
  BY DEF Figures!Zeros
<1>2. QED
  BY <1>1

\* The digits before the point stand at the end of whole groups.
LEMMA WholeLayout ==
    ASSUME NEW S, 0 \in S, NEW int \in Seq(S)
    PROVE  /\ WholeDigits(int) \in Seq(S)
           /\ \E pad \in 0..3 : \E W \in Nat :
                /\ Len(WholeDigits(int)) = 4 * W /\ pad + Len(int) = 4 * W
                /\ \A i \in 1..pad : WholeDigits(int)[i] = 0
                /\ \A i \in 1..Len(int) : WholeDigits(int)[pad + i] = int[i]
<1> DEFINE l == Len(int)
           pad == (4 - (l % 4)) % 4
           z == Figures!Zeros(pad)
           w == z \o int
<1>1. l \in Nat
  OBVIOUS
<1>2. pad \in 0..3 /\ (pad + l) % 4 = 0
  BY <1>1
<1>3. PICK W \in Nat : pad + l = 4 * W
  <2>1. (pad + l) \div 4 \in Nat /\ pad + l = 4 * ((pad + l) \div 4)
    BY <1>1, <1>2
  <2>2. QED
    BY <2>1
<1> HIDE DEF l, pad
<1>4. pad \in Nat /\ z \in Seq(S) /\ Len(z) = pad /\ \A i \in 1..pad : z[i] = 0
  BY <1>2, ZerosAre
<1> HIDE DEF z
<1>5. /\ w \in Seq(S) /\ Len(w) = pad + l
      /\ \A i \in 1..pad + l : w[i] = IF i <= pad THEN z[i] ELSE int[i - pad]
  BY <1>4, ConcatProperties DEF l
<1> HIDE DEF w
<1>6. \A i \in 1..pad : w[i] = 0
  <2>1. \A i \in 1..pad : i \in 1..pad + l /\ i <= pad
    BY <1>1, <1>4
  <2>2. QED
    BY <1>4, <1>5, <2>1
<1>7. \A i \in 1..l : w[pad + i] = int[i]
  <2>1. \A i \in 1..l : pad + i \in 1..pad + l /\ ~(pad + i <= pad) /\ (pad + i) - pad = i
    BY <1>1, <1>4
  <2>2. QED
    BY <1>5, <2>1
<1>8. WholeDigits(int) = w
  BY DEF WholeDigits, w, z, pad, l
<1>9. QED
  BY <1>2, <1>3, <1>5, <1>6, <1>7, <1>8 DEF l

\* Those behind the point at the beginning.
LEMMA RestLayout ==
    ASSUME NEW S, 0 \in S, NEW frac \in Seq(S)
    PROVE  /\ RestDigits(frac) \in Seq(S)
           /\ \E R \in Nat :
                /\ Len(RestDigits(frac)) = 4 * R /\ Len(frac) <= 4 * R
                /\ \A i \in 1..Len(frac) : RestDigits(frac)[i] = frac[i]
                /\ \A i \in Len(frac) + 1..4 * R : RestDigits(frac)[i] = 0
<1> DEFINE l == Len(frac)
           pad == (4 - (l % 4)) % 4
           z == Figures!Zeros(pad)
           w == frac \o z
<1>1. l \in Nat
  OBVIOUS
<1>2. pad \in 0..3 /\ (l + pad) % 4 = 0
  BY <1>1
<1>3. PICK R \in Nat : l + pad = 4 * R
  <2>1. (l + pad) \div 4 \in Nat /\ l + pad = 4 * ((l + pad) \div 4)
    BY <1>1, <1>2
  <2>2. QED
    BY <2>1
<1> HIDE DEF l, pad
<1>4. pad \in Nat /\ z \in Seq(S) /\ Len(z) = pad /\ \A i \in 1..pad : z[i] = 0
  BY <1>2, ZerosAre
<1> HIDE DEF z
<1>5. /\ w \in Seq(S) /\ Len(w) = l + pad
      /\ \A i \in 1..l + pad : w[i] = IF i <= l THEN frac[i] ELSE z[i - l]
  BY <1>4, ConcatProperties DEF l
<1> HIDE DEF w
<1>6. \A i \in 1..l : w[i] = frac[i]
  <2>1. \A i \in 1..l : i \in 1..l + pad /\ i <= l
    BY <1>1, <1>4
  <2>2. QED
    BY <1>5, <2>1
<1>7. \A i \in l + 1..4 * R : w[i] = 0
  <2>1. \A i \in l + 1..l + pad : i \in 1..l + pad /\ ~(i <= l) /\ i - l \in 1..pad
    BY <1>1, <1>4
  <2>2. QED
    BY <1>3, <1>4, <1>5, <2>1
<1>8. RestDigits(frac) = w
  BY DEF RestDigits, w, z, pad, l
<1>9. l <= 4 * R
  BY <1>1, <1>3, <1>4
<1>10. QED
  BY <1>3, <1>5, <1>6, <1>7, <1>8, <1>9 DEF l

\* All groups of a number.
AllGroups(d) == [k \in 1..Len(d) \div 4 |-> SubSeq(d, 4 * k - 3, 4 * k)]

AreGroups(all, d, S, n) ==
    /\ all \in Seq(Seq(S)) /\ Len(all) = n
    /\ \A k \in 1..n : /\ all[k] = Group(d, k)
                       /\ Group(d, k) \in Seq(S) /\ Len(Group(d, k)) = 4
                       /\ \A j \in 1..4 : Group(d, k)[j] = d[4 * k - 4 + j]
                       /\ Group(d, k) = Figures!Zeros(4) <=> \A x \in 4 * k - 3..4 * k : d[x] = 0

LEMMA GroupsAre ==
    ASSUME NEW S, 0 \in S, NEW d \in Seq(S), NEW n \in Nat, Len(d) = 4 * n
    PROVE  AreGroups(AllGroups(d), d, S, n)
<1>1. Len(d) \div 4 = n
  OBVIOUS
<1>2. ASSUME NEW k \in 1..n
      PROVE  /\ Group(d, k) \in Seq(S) /\ Len(Group(d, k)) = 4
             /\ \A j \in 1..4 : Group(d, k)[j] = d[4 * k - 4 + j]
  <2> DEFINE a == 4 * k - 3
             b == 4 * k
  <2>1. a \in Int /\ b \in Int /\ a <= b /\ b - a + 1 = 4 /\ 1 <= a /\ b <= Len(d)
    OBVIOUS
  <2>2. \A j \in 1..4 : a + j - 1 = 4 * k - 4 + j
    OBVIOUS
  <2>3. Group(d, k) = SubSeq(d, a, b)
    BY DEF Group
  <2> HIDE DEF a, b
  <2>4. \A i \in a..b : d[i] \in S
    BY <2>1
  <2>5. /\ SubSeq(d, a, b) \in Seq(S) /\ Len(SubSeq(d, a, b)) = IF a <= b THEN b - a + 1 ELSE 0
        /\ \A i \in 1..b - a + 1 : SubSeq(d, a, b)[i] = d[a + i - 1]
    BY <2>1, <2>4, SubSeqProperties
  <2>6. QED
    BY <2>1, <2>2, <2>3, <2>5
<1>3. ASSUME NEW k \in 1..n
      PROVE  Group(d, k) = Figures!Zeros(4) <=> \A x \in 4 * k - 3..4 * k : d[x] = 0
  <2>1. Figures!Zeros(4) \in Seq(S) /\ Len(Figures!Zeros(4)) = 4 /\ \A i \in 1..4 : Figures!Zeros(4)[i] = 0
    BY ZerosAre
  <2>2. ASSUME Group(d, k) = Figures!Zeros(4), NEW x \in 4 * k - 3..4 * k PROVE d[x] = 0
    <3>1. x - (4 * k - 4) \in 1..4 /\ 4 * k - 4 + (x - (4 * k - 4)) = x
      OBVIOUS
    <3>2. Group(d, k)[x - (4 * k - 4)] = 0
      BY <2>1, <2>2, <3>1
    <3>3. Group(d, k)[x - (4 * k - 4)] = d[4 * k - 4 + (x - (4 * k - 4))]
      BY <1>2, <3>1
    <3>4. QED
      BY <3>1, <3>2, <3>3
  <2>3. ASSUME \A x \in 4 * k - 3..4 * k : d[x] = 0 PROVE Group(d, k) = Figures!Zeros(4)
    <3>1. \A j \in 1..4 : 4 * k - 4 + j \in 4 * k - 3..4 * k
      OBVIOUS
    <3>2. \A j \in 1..4 : Group(d, k)[j] = 0
      BY <1>2, <2>3, <3>1
    <3> DEFINE g == Group(d, k)
    <3>3. g \in Seq(S) /\ Len(g) = Len(Figures!Zeros(4)) /\ \A j \in 1..Len(g) : g[j] = Figures!Zeros(4)[j]
      BY <1>2, <2>1, <3>2
    <3> HIDE DEF g
    <3>4. g = Figures!Zeros(4)
      BY <2>1, <3>3, SeqEqual
    <3>5. QED
      BY <3>4 DEF g
  <2>4. QED
    BY <2>2, <2>3
<1>4. \A k \in 1..n : AllGroups(d)[k] = Group(d, k)
  BY <1>1 DEF AllGroups, Group
<1>5. AllGroups(d) \in Seq(Seq(S)) /\ Len(AllGroups(d)) = n
  <2>1. AllGroups(d) = [k \in 1..n |-> Group(d, k)]
    BY <1>1 DEF AllGroups, Group
  <2>2. \A k \in 1..n : Group(d, k) \in Seq(S)
    BY <1>2
  <2>3. QED
    BY <2>1, <2>2
<1>6. QED
  BY <1>2, <1>3, <1>4, <1>5 DEF AreGroups

(* Where the digits of a number are among the digits that are cut into groups. *)
Layout(d, int, frac, pad, W, R) ==
    /\ Len(d) = 4 * (W + R)
    /\ pad + Len(int) = 4 * W /\ Len(frac) <= 4 * R
    /\ \A i \in 1..pad : d[i] = 0
    /\ \A i \in 1..Len(int) : d[pad + i] = int[i]
    /\ \A i \in 1..Len(frac) : d[4 * W + i] = frac[i]
    /\ \A i \in Len(frac) + 1..4 * R : d[4 * W + i] = 0

\* What is sent of a number that is zero, and of one that is not.
NothingSent(w, d) ==
    /\ w.groups = <<>> /\ w.weight = 0 /\ w.sign = "+"
    /\ \A x \in 1..Len(d) : d[x] = 0

GroupsSent(w, d, negative, W, R, first, last) ==
    /\ Len(w.groups) = last - first + 1
    /\ \A k \in 1..last - first + 1 : w.groups[k] = Group(d, k + (first - 1))
    /\ w.weight = W - first
    /\ negative => w.sign = "-"
    /\ ~negative => w.sign = "+"
    /\ \A x \in 1..4 * (first - 1) : d[x] = 0
    /\ \A x \in 4 * last + 1..4 * (W + R) : d[x] = 0

LEMMA LayoutIs ==
    ASSUME NEW S, 0 \in S, NEW int \in Seq(S), NEW frac \in Seq(S),
           NEW d, d = WholeDigits(int) \o RestDigits(frac)
    PROVE  /\ d \in Seq(S)
           /\ \E pad \in 0..3, W \in Nat, R \in Nat :
                Len(WholeDigits(int)) = 4 * W /\ Layout(d, int, frac, pad, W, R)
<1> DEFINE u == WholeDigits(int)
           v == RestDigits(frac)
<1>1. u \in Seq(S) /\ v \in Seq(S)
  BY WholeLayout, RestLayout
<1>2. PICK pad \in 0..3, W \in Nat :
        /\ Len(u) = 4 * W /\ pad + Len(int) = 4 * W
        /\ \A i \in 1..pad : u[i] = 0
        /\ \A i \in 1..Len(int) : u[pad + i] = int[i]
  BY WholeLayout
<1>3. PICK R \in Nat :
        /\ Len(v) = 4 * R /\ Len(frac) <= 4 * R
        /\ \A i \in 1..Len(frac) : v[i] = frac[i]
        /\ \A i \in Len(frac) + 1..4 * R : v[i] = 0
  BY RestLayout
<1> HIDE DEF u, v
<1>4. d = u \o v
  BY DEF u, v
<1>5. /\ d \in Seq(S) /\ Len(d) = Len(u) + Len(v)
      /\ \A x \in 1..Len(u) + Len(v) : d[x] = IF x <= Len(u) THEN u[x] ELSE v[x - Len(u)]
  BY <1>1, <1>4, ConcatProperties
<1>6. \A x \in 1..4 * W + 4 * R : d[x] = IF x <= 4 * W THEN u[x] ELSE v[x - 4 * W]
  BY <1>2, <1>3, <1>5
<1>7. \A x \in 1..4 * W : d[x] = u[x]
  <2>1. \A x \in 1..4 * W : x \in 1..4 * W + 4 * R /\ x <= 4 * W
    OBVIOUS
  <2>2. QED
    BY <1>6, <2>1
<1>8. \A i \in 1..4 * R : d[4 * W + i] = v[i]
  <2>1. \A i \in 1..4 * R : 4 * W + i \in 1..4 * W + 4 * R /\ ~(4 * W + i <= 4 * W)
                              /\ (4 * W + i) - 4 * W = i
    OBVIOUS
  <2>2. QED
    BY <1>6, <2>1
<1>9. Len(int) \in Nat /\ Len(frac) \in Nat
  OBVIOUS
<1>10. /\ \A i \in 1..pad : d[i] = 0
       /\ \A i \in 1..Len(int) : d[pad + i] = int[i]
  <2>1. \A i \in 1..pad : i \in 1..4 * W
    BY <1>2, <1>9
  <2>2. \A i \in 1..Len(int) : pad + i \in 1..4 * W
    BY <1>2, <1>9
  <2>3. QED
    BY <1>2, <1>7, <2>1, <2>2
<1>11. /\ \A i \in 1..Len(frac) : d[4 * W + i] = frac[i]
       /\ \A i \in Len(frac) + 1..4 * R : d[4 * W + i] = 0
  <2>1. \A i \in 1..Len(frac) : i \in 1..4 * R
    BY <1>3, <1>9
  <2>2. \A i \in Len(frac) + 1..4 * R : i \in 1..4 * R
    BY <1>3, <1>9
  <2>3. QED
    BY <1>3, <1>8, <2>1, <2>2
<1>12. Layout(d, int, frac, pad, W, R)
  <2>1. Len(d) = 4 * (W + R)
    BY <1>2, <1>3, <1>5
  <2>2. QED
    BY <1>2, <1>3, <1>10, <1>11, <2>1 DEF Layout
<1>13. QED
  BY <1>2, <1>5, <1>12 DEF u

\* The greatest of some numbers up to a bound.
LEMMA GreatestNumber ==
    ASSUME NEW N \in Nat, NEW I, I \subseteq 1..N, I # {}
    PROVE  \E m \in I : \A k \in I : m >= k
<1> DEFINE J == {N - k : k \in I}
<1>1. J \subseteq Nat /\ J # {}
  <2>1. \A k \in I : N - k \in Nat
    OBVIOUS
  <2>2. QED
    BY <2>1
<1>2. \A k \in I : N - k \in J
  OBVIOUS
<1>3. \A j \in J : \E k \in I : j = N - k
  OBVIOUS
<1> HIDE DEF J
<1>4. PICK j \in J : \A i \in J : j <= i
  BY <1>1, LeastNumber
<1>5. PICK m \in I : j = N - m
  BY <1>3
<1>6. QED
  BY <1>2, <1>4, <1>5

Number(int, frac) == WholeDigits(int) \o RestDigits(frac)

LEMMA EncodeIs ==
    ASSUME NEW S, 0 \in S, NEW int \in Seq(S), NEW frac \in Seq(S), NEW negative \in BOOLEAN,
           Number(int, frac) \in Seq(S), NEW W \in Nat, NEW R \in Nat,
           Len(Number(int, frac)) = 4 * (W + R), Len(WholeDigits(int)) = 4 * W,
           NEW w, w = Figures!Encode(negative, int, frac)
    PROVE  /\ w.dscale = Len(frac) /\ w.groups \in Seq(Seq(S))
           /\ \/ NothingSent(w, Number(int, frac))
              \/ \E first, last \in 1..W + R :
                    /\ first <= last
                    /\ GroupsSent(w, Number(int, frac), negative, W, R, first, last)
<1> DEFINE d == Number(int, frac)
           all == AllGroups(d)
           solid == {k \in DOMAIN all : all[k] # Figures!Zeros(4)}
           first == CHOOSE k \in solid : \A j \in solid : k <= j
           last == CHOOSE k \in solid : \A j \in solid : k >= j
           n == W + R
<1>1. w = [groups |-> IF solid = {} THEN <<>> ELSE SubSeq(all, first, last),
           weight |-> IF solid = {} THEN 0 ELSE Len(WholeDigits(int)) \div 4 - first,
           sign   |-> IF negative /\ solid # {} THEN "-" ELSE "+",
           dscale |-> Len(frac)]
  BY DEF Figures!Encode, WholeDigits, RestDigits, AllGroups, Number
<1>1a. d \in Seq(S) /\ Len(d) = 4 * (W + R)
  OBVIOUS
<1> HIDE DEF d
<1>2. n \in Nat /\ n = W + R /\ d \in Seq(S) /\ Len(d) = 4 * n
  BY <1>1a
<1> HIDE DEF n
<1>3. /\ all \in Seq(Seq(S)) /\ Len(all) = n
      /\ \A k \in 1..n : /\ all[k] = Group(d, k)
                         /\ all[k] = Figures!Zeros(4) <=> \A x \in 4 * k - 3..4 * k : d[x] = 0
  <2>1. AreGroups(all, d, S, n)
    BY <1>2, GroupsAre
  <2>2. QED
    BY <2>1 DEF AreGroups
<1> HIDE DEF all
<1>4. solid = {k \in 1..n : all[k] # Figures!Zeros(4)}
  BY <1>3
<1> HIDE DEF solid, first, last
<1>5. \A x \in 1..4 * n : \E k \in 1..n : x \in 4 * k - 3..4 * k
  <2> SUFFICES ASSUME NEW x \in 1..4 * n PROVE \E k \in 1..n : x \in 4 * k - 3..4 * k
    OBVIOUS
  <2> DEFINE k == (x + 3) \div 4
  <2>1. k \in Int /\ k * 4 <= x + 3 /\ x + 3 < k * 4 + 4
    BY Division
  <2>2. k \in 1..n /\ x \in 4 * k - 3..4 * k
    <3> HIDE DEF k
    <3>1. QED
      BY <1>2, <2>1
  <2>3. QED
    BY <2>2
<1>6. CASE solid = {}
  <2>1. w.groups = <<>> /\ w.weight = 0 /\ w.sign = "+" /\ w.dscale = Len(frac)
    BY <1>1, <1>6
  <2>2. \A x \in 1..Len(d) : d[x] = 0
    BY <1>2, <1>3, <1>4, <1>5, <1>6
  <2>3. QED
    BY <2>1, <2>2 DEF NothingSent, d
<1>7. CASE solid # {}
  <2>1. solid \subseteq 1..n /\ solid \subseteq Nat
    BY <1>4
  <2>2. \E m \in solid : \A k \in solid : m <= k
    BY <1>7, <2>1, LeastNumber
  <2>3. \E m \in solid : \A k \in solid : m >= k
    BY <1>2, <1>7, <2>1, GreatestNumber
  <2>4. first \in solid /\ \A k \in solid : first <= k
    BY <2>2 DEF first
  <2>5. last \in solid /\ \A k \in solid : last >= k
    BY <2>3 DEF last
  <2>6. first \in 1..n /\ last \in 1..n /\ first <= last
    BY <2>1, <2>4, <2>5
  <2>7. /\ w.groups = SubSeq(all, first, last) /\ w.weight = W - first /\ w.dscale = Len(frac)
        /\ negative => w.sign = "-"
        /\ ~negative => w.sign = "+"
    <3>1. Len(WholeDigits(int)) \div 4 = W
      OBVIOUS
    <3>2. w.groups = SubSeq(all, first, last) /\ w.weight = W - first /\ w.dscale = Len(frac)
      <4> DEFINE q == Len(WholeDigits(int)) \div 4
      <4>1. w.weight = q - first
        BY <1>1, <1>7
      <4>2. q = W
        BY <3>1
      <4> HIDE DEF q
      <4>3. w.weight = W - first
        BY <4>1, <4>2
      <4> DEFINE g == SubSeq(all, first, last)
      <4>4. w.groups = IF solid = {} THEN <<>> ELSE g
        <5> HIDE DEF g
        <5>1. w = [groups |-> IF solid = {} THEN <<>> ELSE g,
                   weight |-> IF solid = {} THEN 0 ELSE q - first,
                   sign   |-> IF negative /\ solid # {} THEN "-" ELSE "+",
                   dscale |-> Len(frac)]
          BY <1>1, Zenon DEF g, q
        <5>2. QED
          BY <5>1
      <4>5. w.dscale = Len(frac)
        BY <1>1
      <4>6. QED
        BY <1>7, <4>3, <4>4, <4>5, Zenon
    <3>3. w.sign = IF negative THEN "-" ELSE "+"
      BY <1>1, <1>7
    <3>4. QED
      BY <3>2, <3>3
  <2>8. /\ w.groups \in Seq(Seq(S)) /\ Len(w.groups) = last - first + 1
        /\ \A k \in 1..last - first + 1 : w.groups[k] = all[first + k - 1]
    <3>1. \A i \in first..last : all[i] \in Seq(S)
      BY <1>2, <1>3, <2>6
    <3>2. /\ SubSeq(all, first, last) \in Seq(Seq(S))
          /\ Len(SubSeq(all, first, last)) = IF first <= last THEN last - first + 1 ELSE 0
          /\ \A k \in 1..last - first + 1 : SubSeq(all, first, last)[k] = all[first + k - 1]
      BY <1>2, <2>6, <3>1, SubSeqProperties
    <3>3. QED
      BY <2>6, <2>7, <3>2
  <2>9. \A k \in 1..last - first + 1 : w.groups[k] = Group(d, k + (first - 1))
    <3>1. \A k \in 1..last - first + 1 : /\ first + k - 1 \in 1..n
                                        /\ first + k - 1 = k + (first - 1)
      BY <1>2, <2>6
    <3>2. QED
      BY <1>3, <2>8, <3>1
  <2>10. ASSUME NEW x \in 1..4 * n, x <= 4 * (first - 1) \/ x >= 4 * last + 1 PROVE d[x] = 0
    <3>1. PICK k \in 1..n : x \in 4 * k - 3..4 * k
      BY <1>5
    <3>2. k < first \/ k > last
      BY <1>2, <2>6, <2>10, <3>1
    <3>3. k \notin solid
      BY <1>2, <2>4, <2>5, <2>6, <3>2
    <3>4. QED
      BY <1>3, <1>4, <3>1, <3>3
  <2>11. \A x \in 1..4 * (first - 1) : x \in 1..4 * n /\ x <= 4 * (first - 1)
    BY <1>2, <2>6
  <2>12. \A x \in 4 * last + 1..4 * n : x \in 1..4 * n /\ x >= 4 * last + 1
    BY <1>2, <2>6
  <2>13. GroupsSent(w, d, negative, W, R, first, last)
    BY <2>7, <2>8, <2>9, <2>10, <2>11, <2>12, <1>2 DEF GroupsSent
  <2>14. QED
    BY <1>2, <2>6, <2>7, <2>8, <2>13 DEF d
<1>8. QED
  BY <1>6, <1>7

LEMMA StrippedIs ==
    ASSUME NEW S, NEW s \in Seq(S)
    PROVE  \/ (\A i \in 1..Len(s) : s[i] = 0) /\ Figures!Stripped(s) = <<>>
           \/ \E i \in 1..Len(s) : /\ s[i] # 0 /\ \A j \in 1..i - 1 : s[j] = 0
                                   /\ Figures!Stripped(s) = SubSeq(s, i, Len(s))
<1> DEFINE solid == {i \in DOMAIN s : s[i] # 0}
           i0 == CHOOSE i \in solid : \A j \in solid : i <= j
           n == Len(s)
<1>1. Figures!Stripped(s) = IF solid = {} THEN <<>> ELSE SubSeq(s, i0, n)
  BY DEF Figures!Stripped
<1>2. n \in Nat /\ solid = {i \in 1..n : s[i] # 0}
  OBVIOUS
<1> HIDE DEF solid, i0, n
<1>3. CASE solid = {}
  BY <1>1, <1>2, <1>3 DEF n
<1>4. CASE solid # {}
  <2>1. \E m \in solid : \A k \in solid : m <= k
    <3>1. solid \subseteq Nat
      BY <1>2
    <3>2. QED
      BY <1>4, <3>1, LeastNumber
  <2>2. i0 \in solid /\ \A k \in solid : i0 <= k
    BY <2>1 DEF i0
  <2>3. \A j \in 1..i0 - 1 : s[j] = 0
    BY <1>2, <2>2
  <2>4. Figures!Stripped(s) = SubSeq(s, i0, n) /\ i0 \in 1..n /\ s[i0] # 0
    BY <1>1, <1>2, <1>4, <2>2
  <2>5. QED
    BY <2>3, <2>4 DEF n
<1>5. QED
  BY <1>3, <1>4

RunHolds(flat, S, d, o, m) ==
    /\ flat \in Seq(S) /\ Len(flat) = 4 * m
    /\ \A i \in 1..4 * m : flat[i] = d[4 * o + i]

\* The groups from one place to another, put together.
LEMMA RunOfGroups ==
    ASSUME NEW S, 0 \in S, NEW d \in Seq(S), NEW n \in Nat, Len(d) = 4 * n,
           NEW parts \in Seq(Seq(S)), NEW o \in Nat, o + Len(parts) <= n,
           \A k \in 1..Len(parts) : parts[k] = Group(d, k + o)
    PROVE  RunHolds(FlattenSeq(parts), S, d, o, Len(parts))
<1> DEFINE m == Len(parts)
           flat == FlattenSeq(parts)
<1>1. m \in Nat /\ o + m <= n /\ \A k \in 1..m : parts[k] = Group(d, k + o)
  OBVIOUS
<1>2. CASE m = 0
  <2>1. parts = <<>>
    BY <1>2
  <2>2. flat = <<>>
    BY <2>1 DEF FlattenSeq
  <2>3. QED
    BY <1>2, <2>2 DEF RunHolds
<1>3. CASE m >= 1
  <2> DEFINE a == 4 * o + 5
             b == 4 * (o + m)
             head == parts[1]
             tail == SubSeq(d, a, b)
  <2>1. flat = head \o tail
    <3>1. /\ Len(parts) >= 1 /\ 4 * (Len(parts) + o) <= Len(d)
          /\ \A k \in 2..Len(parts) : parts[k] = Group(d, k + o)
      BY <1>1, <1>3
    <3>2. FlattenSeq(parts) = parts[1] \o SubSeq(d, 4 * o + 5, 4 * (o + Len(parts)))
      BY <3>1, GroupsFlat
    <3>3. QED
      BY <3>2
  <2>2. head = Group(d, 1 + o) /\ 1 + o \in 1..n
    BY <1>1, <1>3
  <2>3. /\ Group(d, 1 + o) \in Seq(S) /\ Len(Group(d, 1 + o)) = 4
        /\ \A j \in 1..4 : Group(d, 1 + o)[j] = d[4 * (1 + o) - 4 + j]
    <3>1. AreGroups(AllGroups(d), d, S, n)
      BY GroupsAre
    <3>2. QED
      BY <2>2, <3>1 DEF AreGroups
  <2>4. /\ head \in Seq(S) /\ Len(head) = 4
        /\ \A j \in 1..4 : head[j] = d[4 * o + j]
    <3>1. \A j \in 1..4 : 4 * (1 + o) - 4 + j = 4 * o + j
      OBVIOUS
    <3>2. QED
      BY <2>2, <2>3, <3>1
  <2>5. /\ a \in Int /\ b \in Int /\ 1 <= a /\ b <= Len(d)
        /\ (IF a <= b THEN b - a + 1 ELSE 0) = 4 * (m - 1) /\ b - a + 1 = 4 * (m - 1)
    BY <1>1, <1>3
  <2>6. \A i \in 1..4 * (m - 1) : a + i - 1 = 4 * o + 4 + i
    OBVIOUS
  <2>7. tail = SubSeq(d, a, b)
    OBVIOUS
  <2> HIDE DEF a, b, head, tail, flat, m
  <2>8. /\ tail \in Seq(S) /\ Len(tail) = 4 * (m - 1)
        /\ \A i \in 1..4 * (m - 1) : tail[i] = d[4 * o + 4 + i]
    <3>1. \A i \in a..b : d[i] \in S
      BY <2>5
    <3>2. /\ SubSeq(d, a, b) \in Seq(S) /\ Len(SubSeq(d, a, b)) = IF a <= b THEN b - a + 1 ELSE 0
          /\ \A i \in 1..b - a + 1 : SubSeq(d, a, b)[i] = d[a + i - 1]
      BY <2>5, <3>1, SubSeqProperties
    <3>3. QED
      BY <2>5, <2>6, <2>7, <3>2
  <2>9. /\ flat \in Seq(S) /\ Len(flat) = 4 + 4 * (m - 1)
        /\ \A x \in 1..4 + 4 * (m - 1) : flat[x] = IF x <= 4 THEN head[x] ELSE tail[x - 4]
    <3>1. /\ head \o tail \in Seq(S) /\ Len(head \o tail) = Len(head) + Len(tail)
          /\ \A x \in 1..Len(head) + Len(tail) :
                (head \o tail)[x] = IF x <= Len(head) THEN head[x] ELSE tail[x - Len(head)]
      BY <2>4, <2>8, ConcatProperties
    <3>2. QED
      BY <2>1, <2>4, <2>8, <3>1
  <2>10. 4 + 4 * (m - 1) = 4 * m
    BY <1>1
  <2>11. ASSUME NEW x \in 1..4 * m PROVE flat[x] = d[4 * o + x]
    <3>1. CASE x <= 4
      <4>1. x \in 1..4 /\ x \in 1..4 + 4 * (m - 1)
        BY <2>10, <3>1
      <4>2. flat[x] = head[x]
        BY <2>9, <3>1, <4>1
      <4>3. QED
        BY <2>4, <4>1, <4>2
    <3>2. CASE ~(x <= 4)
      <4>1. x - 4 \in 1..4 * (m - 1) /\ 4 * o + 4 + (x - 4) = 4 * o + x
        BY <1>1, <3>2
      <4>2. flat[x] = tail[x - 4]
        BY <2>9, <2>10, <3>2
      <4>3. QED
        BY <2>8, <4>1, <4>2
    <3>3. QED
      BY <3>1, <3>2
  <2>12. QED
    BY <2>9, <2>10, <2>11 DEF RunHolds, flat, m
<1>4. QED
  BY <1>1, <1>2, <1>3

\* Digits that agree with the fraction as far as they go, and that are missing
\* only where it is zero, are the fraction when they are cut and filled.
LEMMA FillOrCut ==
    ASSUME NEW S, 0 \in S, NEW frac \in Seq(S), NEW digits \in Seq(S),
           \A i \in 1..Len(frac) :
               frac[i] = IF i <= Len(digits) THEN digits[i] ELSE 0
    PROVE  (IF Len(digits) < Len(frac) THEN digits \o Figures!Zeros(Len(frac) - Len(digits))
            ELSE SubSeq(digits, 1, Len(frac))) = frac
<1> DEFINE l == Len(frac)
           m == Len(digits)
<1>1. l \in Nat /\ m \in Nat
  OBVIOUS
<1>2. CASE m < l
  <2> DEFINE z == Figures!Zeros(l - m)
             r == digits \o z
  <2>1. l - m \in Nat
    BY <1>1, <1>2
  <2>2. z \in Seq(S) /\ Len(z) = l - m /\ \A i \in 1..l - m : z[i] = 0
    <3> HIDE DEF l, m
    <3>1. QED
      BY <2>1, ZerosAre
  <2> HIDE DEF z
  <2>3. /\ r \in Seq(S) /\ Len(r) = m + (l - m)
        /\ \A i \in 1..m + (l - m) : r[i] = IF i <= m THEN digits[i] ELSE z[i - m]
    BY <2>2, ConcatProperties
  <2>4. m + (l - m) = l /\ \A i \in 1..l : i <= m \/ i - m \in 1..l - m
    BY <1>1
  <2> HIDE DEF r
  <2>5. \A i \in 1..l : r[i] = frac[i]
    BY <1>1, <2>2, <2>3, <2>4
  <2>6. Len(r) = Len(frac) /\ r \in Seq(S)
    BY <2>3, <2>4
  <2>7. r = frac
    BY <2>5, <2>6, SeqEqual
  <2>8. QED
    BY <1>2, <2>7 DEF r, z
<1>3. CASE ~(m < l)
  <2> DEFINE r == SubSeq(digits, 1, l)
  <2>1. \A i \in 1..l : digits[i] \in S
    BY <1>1, <1>3
  <2>2. /\ r \in Seq(S) /\ Len(r) = (IF 1 <= l THEN l - 1 + 1 ELSE 0)
        /\ \A i \in 1..l - 1 + 1 : r[i] = digits[1 + i - 1]
    <3> HIDE DEF l
    <3>1. QED
      BY <1>1, <2>1, SubSeqProperties
  <2>3. (IF 1 <= l THEN l - 1 + 1 ELSE 0) = l /\ \A i \in 1..l : i \in 1..l - 1 + 1 /\ 1 + i - 1 = i
    BY <1>1
  <2> HIDE DEF r
  <2>4. \A i \in 1..l : r[i] = frac[i]
    BY <1>1, <1>3, <2>2, <2>3
  <2>5. r = frac
    BY <2>2, <2>3, <2>4, SeqEqual
  <2>6. QED
    BY <1>3, <2>5 DEF r
<1>4. QED
  BY <1>2, <1>3

\* Two sequences with the same elements (SeqEqual, for use with hidden names).
Text(w, stored) ==
    Figures!FlattenSeq([k \in 1..stored |->
                   IF k = 1 THEN IF Figures!Stripped(w.groups[1]) = <<>> THEN <<0>>
                                 ELSE Figures!Stripped(w.groups[1])
                   ELSE w.groups[k]])

WholeOf(w, stored, text, absent) ==
    IF absent <= 0 THEN IF text = <<>> THEN <<0>> ELSE text
    ELSE IF text = <<>> THEN <<0>> \o Figures!Zeros(4 * (absent - 1))
    ELSE text \o Figures!Zeros(4 * absent)

LEMMA WholePartIs ==
    ASSUME NEW w
    PROVE  Figures!WholePart(w) =
               IF w.weight < 0 THEN <<0>>
               ELSE WholeOf(w, Figures!Smaller(w.weight + 1, Len(w.groups)),
                            Text(w, Figures!Smaller(w.weight + 1, Len(w.groups))),
                            w.weight + 1 - Len(w.groups))
  BY DEF Figures!WholePart, WholeOf, Text

TextHolds(text, S, int, stored, pad) ==
    /\ text \in Seq(S) /\ Len(text) = 4 * stored - pad
    /\ \A i \in 1..4 * stored - pad : text[i] = int[i]

\* The whole part of a number of which something is sent.
LEMMA WholeTextIs ==
    ASSUME NEW S, 0 \in S, NEW int \in Seq(S), NEW frac \in Seq(S), int # <<>>, int[1] # 0,
           NEW d \in Seq(S), NEW pad \in Nat, pad <= 3, NEW W \in Nat, NEW R \in Nat,
           Layout(d, int, frac, pad, W, R),
           NEW negative, NEW last \in 1..W + R,
           NEW w, w.groups \in Seq(Seq(S)), GroupsSent(w, d, negative, W, R, 1, last),
           NEW stored, stored = Figures!Smaller(W, last)
    PROVE  TextHolds(Text(w, stored), S, int, stored, pad)
<1>1. Len(int) \in Nat \ {0} /\ W >= 1 /\ pad + Len(int) = 4 * W /\ Len(d) = 4 * (W + R)
  BY DEF Layout
<1>2. stored \in 1..W /\ stored <= last /\ stored \in 1..W + R
  BY <1>1 DEF Figures!Smaller
<1>3. /\ Len(w.groups) = last - 1 + 1
      /\ \A k \in 1..last - 1 + 1 : w.groups[k] = Group(d, k + (1 - 1))
  BY DEF GroupsSent
<1>4. \A k \in 1..last : w.groups[k] = Group(d, k)
  BY <1>3
<1>5. /\ Group(d, 1) \in Seq(S) /\ Len(Group(d, 1)) = 4
      /\ \A j \in 1..4 : Group(d, 1)[j] = d[j]
      /\ \A k \in 1..W + R : Group(d, k) \in Seq(S)
  <2>1. AreGroups(AllGroups(d), d, S, W + R)
    BY <1>1, GroupsAre
  <2>2. 1 \in 1..W + R
    BY <1>1
  <2>3. \A j \in 1..4 : 4 * 1 - 4 + j = j
    OBVIOUS
  <2>4. QED
    BY <2>1, <2>2, <2>3 DEF AreGroups
<1> DEFINE g == Group(d, 1)
           t == Figures!Stripped(g)
           parts == [k \in 1..stored |->
                        IF k = 1 THEN IF Figures!Stripped(w.groups[1]) = <<>> THEN <<0>>
                                      ELSE Figures!Stripped(w.groups[1])
                        ELSE w.groups[k]]
<1>6. \A i \in 1..pad : d[i] = 0
  BY DEF Layout
<1>7. d[pad + 1] # 0
  <2>1. 1 \in 1..Len(int)
    BY <1>1
  <2>2. \A i \in 1..Len(int) : d[pad + i] = int[i]
    BY DEF Layout
  <2>3. d[pad + 1] = int[1]
    BY <2>1, <2>2
  <2>4. QED
    BY <2>3
<1>8. /\ t \in Seq(S) /\ Len(t) = 4 - pad /\ t # <<>>
      /\ \A j \in 1..4 - pad : t[j] = d[pad + j]
  <2>1. /\ g \in Seq(S) /\ Len(g) = 4 /\ \A i \in 1..pad : g[i] = 0
        /\ g[pad + 1] # 0 /\ pad + 1 \in 1..4
    <3>1. pad + 1 \in 1..4 /\ \A i \in 1..pad : i \in 1..4
      OBVIOUS
    <3>2. QED
      BY <1>5, <1>6, <1>7, <3>1
  <2> HIDE DEF g
  <2>2. PICK i \in 1..4 : /\ g[i] # 0 /\ \A j \in 1..i - 1 : g[j] = 0
                          /\ t = SubSeq(g, i, 4)
    BY <2>1, StrippedIs
  <2>3. i = pad + 1
    <3>1. ~(i <= pad)
      BY <2>1, <2>2
    <3>2. ~(pad + 1 <= i - 1)
      BY <2>1, <2>2
    <3>3. QED
      BY <3>1, <3>2
  <2>3a. i \in Int /\ 4 \in Int /\ 1 <= i
    BY <2>2
  <2>4. \A j \in i..4 : g[j] \in S
    <3>1. \A j \in 1..Len(g) : g[j] \in S
      BY <2>1, ElementOfSeq
    <3>2. \A j \in i..4 : j \in 1..Len(g)
      BY <2>1, <2>3a
    <3>3. QED
      BY <3>1, <3>2
  <2>5. /\ SubSeq(g, i, 4) \in Seq(S) /\ Len(SubSeq(g, i, 4)) = IF i <= 4 THEN 4 - i + 1 ELSE 0
        /\ \A j \in 1..4 - i + 1 : SubSeq(g, i, 4)[j] = g[i + j - 1]
    BY <2>3a, <2>4, SubSeqProperties
  <2>6. i <= 4 /\ 4 - i + 1 = 4 - pad /\ \A j \in 1..4 - pad : i + j - 1 = pad + j /\ pad + j \in 1..4
    BY <2>3
  <2> HIDE DEF t
  <2>7. t \in Seq(S) /\ Len(t) = 4 - pad /\ \A j \in 1..4 - pad : t[j] = g[pad + j]
    BY <2>2, <2>5, <2>6
  <2>8. \A j \in 1..4 - pad : t[j] = d[pad + j]
    BY <1>5, <2>6, <2>7 DEF g
  <2>9. QED
    BY <2>7, <2>8
<1> HIDE DEF g, t
<1>9. w.groups[1] = g
  <2>1. 1 \in 1..last
    OBVIOUS
  <2>2. QED
    BY <1>4, <2>1 DEF g
<1>10. parts = [k \in 1..stored |-> IF k = 1 THEN t ELSE w.groups[k]]
  BY <1>8, <1>9 DEF t
<1> HIDE DEF parts
<1>11. /\ parts \in Seq(Seq(S)) /\ Len(parts) = stored /\ parts[1] = t
       /\ \A k \in 2..stored : parts[k] = Group(d, k)
  <2>1. \A k \in 2..stored : k \in 1..stored /\ k \in 1..last /\ k \in 1..W + R /\ ~(k = 1)
    BY <1>2
  <2>2. \A k \in 1..stored : parts[k] \in Seq(S)
    <3>1. \A k \in 1..stored : k = 1 \/ k \in 2..stored
      BY <1>2
    <3>2. parts[1] = t /\ \A k \in 2..stored : parts[k] = Group(d, k)
      BY <1>2, <1>4, <1>10, <2>1
    <3> SUFFICES ASSUME NEW k \in 1..stored PROVE parts[k] \in Seq(S)
      OBVIOUS
    <3>3. CASE k = 1
      BY <1>8, <3>2, <3>3
    <3>4. CASE k \in 2..stored
      BY <1>5, <2>1, <3>2, <3>4
    <3>5. QED
      BY <3>1, <3>3, <3>4
  <2>3. parts \in Seq(Seq(S)) /\ Len(parts) = stored
    <3> DEFINE F(k) == IF k = 1 THEN t ELSE w.groups[k]
    <3>1. parts = [k \in 1..stored |-> F(k)] /\ \A k \in 1..stored : F(k) \in Seq(S)
      <4>1. parts = [k \in 1..stored |-> F(k)]
        BY <1>10
      <4>2. \A k \in 1..stored : parts[k] = F(k)
        BY <4>1
      <4> HIDE DEF F
      <4>3. QED
        BY <2>2, <4>1, <4>2
    <3>2. stored \in Nat
      BY <1>2
    <3> HIDE DEF F
    <3>3. parts \in [1..stored -> Seq(S)]
      BY <3>1
    <3>4. parts \in Seq(Seq(S)) /\ DOMAIN parts = 1..stored
      <4>1. \A n \in Nat : \A S1 : \A f \in [1..n -> S1] : f \in Seq(S1)
        OBVIOUS
      <4>2. QED
        BY <3>2, <3>3, <4>1
    <3>5. QED
      BY <3>2, <3>4, LenProperties
  <2>4. QED
    BY <1>2, <1>4, <1>10, <2>1, <2>3
<1>12. FlattenSeq(parts) = t \o SubSeq(d, 5, 4 * stored)
  <2>1. /\ Len(parts) >= 1 /\ 4 * (Len(parts) + 0) <= Len(d) /\ 0 \in Nat
        /\ \A k \in 2..Len(parts) : parts[k] = Group(d, k + 0)
    BY <1>1, <1>2, <1>11
  <2>2. FlattenSeq(parts) = parts[1] \o SubSeq(d, 4 * 0 + 5, 4 * (0 + Len(parts)))
    BY <1>11, <2>1, GroupsFlat
  <2>3. 4 * 0 + 5 = 5 /\ 4 * (0 + Len(parts)) = 4 * stored
    BY <1>2, <1>11
  <2>4. QED
    BY <1>11, <2>2, <2>3
<1> DEFINE e == SubSeq(d, 5, 4 * stored)
           m == 4 * stored - 4
<1>13. /\ e \in Seq(S) /\ Len(e) = m /\ m \in Nat
       /\ \A i \in 1..m : e[i] = d[4 + i]
  <2>1. \A i \in 5..4 * stored : d[i] \in S
    BY <1>1, <1>2
  <2>2. /\ SubSeq(d, 5, 4 * stored) \in Seq(S)
        /\ Len(SubSeq(d, 5, 4 * stored)) = IF 5 <= 4 * stored THEN 4 * stored - 5 + 1 ELSE 0
        /\ \A i \in 1..4 * stored - 5 + 1 : SubSeq(d, 5, 4 * stored)[i] = d[5 + i - 1]
    BY <1>2, <2>1, SubSeqProperties
  <2>3. /\ (IF 5 <= 4 * stored THEN 4 * stored - 5 + 1 ELSE 0) = 4 * stored - 4
        /\ 4 * stored - 5 + 1 = 4 * stored - 4 /\ 4 * stored - 4 \in Nat
        /\ \A i \in 1..4 * stored - 4 : 5 + i - 1 = 4 + i
    BY <1>2
  <2>4. QED
    BY <2>2, <2>3
<1> HIDE DEF e
<1> DEFINE r == t \o e
<1>14. /\ r \in Seq(S) /\ Len(r) = (4 - pad) + m
       /\ \A i \in 1..(4 - pad) + m : r[i] = IF i <= 4 - pad THEN t[i] ELSE e[i - (4 - pad)]
  <2>1. /\ t \o e \in Seq(S) /\ Len(t \o e) = Len(t) + Len(e)
        /\ \A i \in 1..Len(t) + Len(e) : (t \o e)[i] = IF i <= Len(t) THEN t[i] ELSE e[i - Len(t)]
    BY <1>8, <1>13, ConcatProperties
  <2>2. QED
    BY <1>8, <1>13, <2>1
<1> HIDE DEF r
<1>15. (4 - pad) + m = 4 * stored - pad /\ 4 * stored - pad <= Len(int)
  BY <1>1, <1>2
<1>16. ASSUME NEW i \in 1..4 * stored - pad PROVE r[i] = int[i]
  <2>1. r[i] = d[pad + i]
    <3>1. CASE i <= 4 - pad
      <4>1. i \in 1..4 - pad /\ i \in 1..(4 - pad) + m
        BY <1>2, <1>15, <3>1
      <4>2. QED
        BY <1>8, <1>14, <3>1, <4>1
    <3>2. CASE ~(i <= 4 - pad)
      <4>1. /\ i - (4 - pad) \in 1..m /\ i \in 1..(4 - pad) + m
            /\ 4 + (i - (4 - pad)) = pad + i
        BY <1>2, <1>15, <3>2
      <4>2. QED
        BY <1>13, <1>14, <3>2, <4>1
    <3>3. QED
      BY <3>1, <3>2
  <2>2. i \in 1..Len(int)
    BY <1>1, <1>2, <1>15
  <2>3. d[pad + i] = int[i]
    BY <2>2 DEF Layout
  <2>4. QED
    BY <2>1, <2>3
<1>17. Text(w, stored) = r
  BY <1>12, SameLibrary DEF Text, parts, r, e
<1>18. QED
  BY <1>14, <1>15, <1>16, <1>17 DEF TextHolds

Sent(w, d, negative, W, R) ==
    \/ NothingSent(w, d)
    \/ \E first, last \in 1..W + R : first <= last /\ GroupsSent(w, d, negative, W, R, first, last)

LEMMA WholeReadsBack ==
    ASSUME NEW S, 0 \in S, NEW int \in Seq(S), NEW frac \in Seq(S), int = <<>> \/ int[1] # 0,
           NEW d \in Seq(S), NEW pad \in Nat, pad <= 3, NEW W \in Nat, NEW R \in Nat,
           Layout(d, int, frac, pad, W, R),
           NEW negative, NEW w, w.groups \in Seq(Seq(S)), Sent(w, d, negative, W, R)
    PROVE  Figures!WholePart(w) = IF int = <<>> THEN <<0>> ELSE int
<1> DEFINE G == Len(w.groups)
           stored == Figures!Smaller(w.weight + 1, G)
           text == Text(w, stored)
           absent == w.weight + 1 - G
<1>1. Figures!WholePart(w) = IF w.weight < 0 THEN <<0>> ELSE WholeOf(w, stored, text, absent)
  BY WholePartIs
<1>2. pad + Len(int) = 4 * W /\ Len(d) = 4 * (W + R) /\ Len(int) \in Nat
  BY DEF Layout
<1>3. \A i \in 1..Len(int) : d[pad + i] = int[i]
  BY DEF Layout
<1>4. CASE NothingSent(w, d)
  <2>1. w.groups = <<>> /\ w.weight = 0 /\ \A x \in 1..Len(d) : d[x] = 0
    BY <1>4 DEF NothingSent
  <2>2. int = <<>>
    <3> SUFFICES ASSUME int # <<>> PROVE FALSE
      OBVIOUS
    <3>1. Len(int) >= 1
      BY <1>2
    <3>2. 1 \in 1..Len(int) /\ pad + 1 \in 1..Len(d)
      BY <1>2, <3>1
    <3>3. QED
      BY <1>3, <2>1, <3>2
  <2>3. G = 0 /\ stored = 0 /\ absent = 1
    BY <2>1 DEF Figures!Smaller
  <2>4. text = <<>>
    <3> DEFINE parts == [k \in 1..stored |->
                           IF k = 1 THEN IF Figures!Stripped(w.groups[1]) = <<>> THEN <<0>>
                                         ELSE Figures!Stripped(w.groups[1])
                           ELSE w.groups[k]]
    <3>1. text = FlattenSeq(parts)
      BY SameLibrary DEF Text
    <3>2. parts = <<>>
      <4> DEFINE E(k) == IF k = 1 THEN IF Figures!Stripped(w.groups[1]) = <<>> THEN <<0>>
                                       ELSE Figures!Stripped(w.groups[1])
                         ELSE w.groups[k]
      <4>1. parts = [k \in 1..stored |-> E(k)]
        OBVIOUS
      <4> HIDE DEF stored, E, parts
      <4>2. parts = [k \in 1..0 |-> E(k)]
        BY <2>3, <4>1, Zenon
      <4>3. 1..0 = {}
        OBVIOUS
      <4>4. DOMAIN parts = {} /\ parts = [k \in DOMAIN parts |-> parts[k]]
        BY <4>2, <4>3
      <4>5. QED
        BY <4>4
    <3>3. FlattenSeq(<<>>) = <<>>
      BY DEF FlattenSeq
    <3> HIDE DEF parts, text
    <3>4. QED
      BY <3>1, <3>2, <3>3
  <2> HIDE DEF text, absent, stored, G
  <2>5. Figures!WholePart(w) = <<0>> \o Figures!Zeros(4 * (1 - 1))
    BY <1>1, <2>1, <2>3, <2>4 DEF WholeOf
  <2>6. Figures!Zeros(4 * (1 - 1)) = <<>>
    <3>1. 1..4 * (1 - 1) = {}
      OBVIOUS
    <3>2. QED
      BY <3>1 DEF Figures!Zeros
  <2>7. <<0>> \o <<>> = <<0>>
    <3>1. <<0>> \in Seq(S)
      OBVIOUS
    <3>2. QED
      BY <3>1, ConcatEmptySeq
  <2>8. QED
    BY <2>2, <2>5, <2>6, <2>7
<1>5. ASSUME NEW first \in 1..W + R, NEW last \in 1..W + R, first <= last,
             GroupsSent(w, d, negative, W, R, first, last)
      PROVE  Figures!WholePart(w) = IF int = <<>> THEN <<0>> ELSE int
  <2>1. w.weight = W - first /\ G = last - first + 1 /\ \A x \in 1..4 * (first - 1) : d[x] = 0
    BY <1>5 DEF GroupsSent
  <2>2. CASE int = <<>>
    <3>1. W = 0
      BY <1>2, <2>2
    <3>2. w.weight < 0
      BY <2>1, <3>1
    <3>3. QED
      BY <1>1, <2>2, <3>2
  <2>3. CASE int # <<>>
    <3>1. Len(int) >= 1 /\ int[1] # 0 /\ W >= 1
      BY <1>2, <2>3
    <3>2. first = 1
      <4>1. d[pad + 1] # 0
        <5>1. 1 \in 1..Len(int)
          BY <1>2, <3>1
        <5>2. QED
          BY <1>3, <3>1, <5>1
      <4>2. ~(pad + 1 <= 4 * (first - 1))
        BY <2>1, <4>1
      <4>3. QED
        BY <4>2
    <3>3. w.weight = W - 1 /\ G = last /\ stored = Figures!Smaller(W, last) /\ absent = W - last
      BY <2>1, <3>2
    <3>4. /\ Text(w, stored) \in Seq(S) /\ Len(Text(w, stored)) = 4 * stored - pad
          /\ \A i \in 1..4 * stored - pad : Text(w, stored)[i] = int[i]
      <4>1. GroupsSent(w, d, negative, W, R, 1, last)
        BY <1>5, <3>2
      <4>2. stored = Figures!Smaller(W, last) /\ int # <<>> /\ int[1] # 0
        BY <2>3, <3>1, <3>3
      <4> HIDE DEF stored
      <4>3. TextHolds(Text(w, stored), S, int, stored, pad)
        BY <4>1, <4>2, WholeTextIs
      <4>4. QED
        BY <4>3 DEF TextHolds
    <3>5. \A x \in 4 * last + 1..4 * (W + R) : d[x] = 0
      BY <1>5 DEF GroupsSent
    <3>6. stored \in 1..W /\ (absent <= 0 => stored = W) /\ (~(absent <= 0) => stored = last)
      BY <3>1, <3>3 DEF Figures!Smaller
    <3> HIDE DEF stored, G, absent
    <3>7. text \in Seq(S) /\ Len(text) = 4 * stored - pad /\ \A i \in 1..4 * stored - pad : text[i] = int[i]
      BY <3>4
    <3> HIDE DEF text
    <3>8. text # <<>>
      BY <3>6, <3>7
    <3>9. Figures!WholePart(w) = IF absent <= 0 THEN text ELSE text \o Figures!Zeros(4 * absent)
      BY <1>1, <3>1, <3>3, <3>8 DEF WholeOf
    <3>10. CASE absent <= 0
      <4>1. Len(text) = Len(int) /\ 4 * stored - pad = Len(int)
        BY <1>2, <3>6, <3>7, <3>10
      <4>2. text = int
        BY <3>7, <4>1, SeqEqual
      <4>3. QED
        BY <2>3, <3>9, <3>10, <4>2
    <3>11. CASE ~(absent <= 0)
      <4> DEFINE a == 4 * absent
                 z == Figures!Zeros(a)
                 r == text \o z
                 m == 4 * last - pad
      <4>1. a \in Nat /\ m \in Nat /\ m + a = Len(int) /\ stored = last
        BY <1>2, <3>3, <3>6, <3>11
      <4>2. z \in Seq(S) /\ Len(z) = a /\ \A i \in 1..a : z[i] = 0
        <5> HIDE DEF a
        <5>1. QED
          BY <4>1, ZerosAre
      <4> HIDE DEF z, a
      <4>3. text \in Seq(S) /\ Len(text) = m /\ \A i \in 1..m : text[i] = int[i]
        BY <3>7, <4>1
      <4>4. /\ r \in Seq(S) /\ Len(r) = m + a
            /\ \A i \in 1..m + a : r[i] = IF i <= m THEN text[i] ELSE z[i - m]
        <5>1. /\ text \o z \in Seq(S) /\ Len(text \o z) = Len(text) + Len(z)
              /\ \A i \in 1..Len(text) + Len(z) :
                    (text \o z)[i] = IF i <= Len(text) THEN text[i] ELSE z[i - Len(text)]
          BY <4>2, <4>3, ConcatProperties
        <5> HIDE DEF m
        <5>2. QED
          BY <4>2, <4>3, <5>1
      <4> HIDE DEF r
      <4>5. ASSUME NEW i \in 1..Len(int) PROVE r[i] = int[i]
        <5>1. CASE i <= m
          <6>1. i \in 1..m /\ i \in 1..m + a
            BY <4>1, <5>1
          <6>2. QED
            BY <4>3, <4>4, <5>1, <6>1
        <5>2. CASE ~(i <= m)
          <6>1. i \in 1..m + a /\ i - m \in 1..a /\ pad + i \in 4 * last + 1..4 * (W + R)
            <7>1. pad + i >= 4 * last + 1
              BY <5>2
            <7>2. pad + i <= 4 * (W + R)
              BY <1>2
            <7>3. i \in 1..m + a /\ i - m \in 1..a
              BY <4>1, <5>2
            <7>4. QED
              BY <7>1, <7>2, <7>3
          <6>2. r[i] = 0
            BY <4>2, <4>4, <5>2, <6>1
          <6>3. d[pad + i] = 0
            BY <3>5, <6>1
          <6>4. QED
            BY <1>3, <6>2, <6>3
        <5>3. QED
          BY <5>1, <5>2
      <4>6. r = int
        BY <4>1, <4>4, <4>5, SeqEqual
      <4>7. QED
        BY <2>3, <3>9, <3>11, <4>6 DEF r, z, a
    <3>12. QED
      BY <3>10, <3>11
  <2>4. QED
    BY <2>2, <2>3
<1>6. QED
  BY <1>4, <1>5 DEF Sent

FractionDigits(w) ==
    (IF w.weight < -1 THEN Figures!Zeros(4 * (-w.weight - 1)) ELSE <<>>)
    \o Figures!FlattenSeq(SubSeq(w.groups,
                         (IF w.weight >= 0 THEN Figures!Smaller(w.weight + 1, Len(w.groups)) ELSE 0) + 1,
                         Len(w.groups)))

LEMMA FractionIs ==
    ASSUME NEW w
    PROVE  Figures!Fraction(w) =
             IF Len(FractionDigits(w)) < w.dscale
             THEN FractionDigits(w) \o Figures!Zeros(w.dscale - Len(FractionDigits(w)))
             ELSE SubSeq(FractionDigits(w), 1, w.dscale)
  BY DEF Figures!Fraction, FractionDigits

\* The digits behind the point that arrive, q groups of them.
DigitsHold(digits, S, d, W, q) ==
    /\ digits \in Seq(S) /\ Len(digits) = 4 * q
    /\ \A i \in 1..4 * q : digits[i] = d[4 * W + i]

LEMMA FractionDigitsAre ==
    ASSUME NEW S, 0 \in S, NEW d \in Seq(S), NEW W \in Nat, NEW R \in Nat, Len(d) = 4 * (W + R),
           NEW negative, NEW w, w.groups \in Seq(Seq(S)),
           NEW first \in 1..W + R, NEW last \in 1..W + R, first <= last,
           GroupsSent(w, d, negative, W, R, first, last)
    PROVE  DigitsHold(FractionDigits(w), S, d, W, IF last <= W THEN 0 ELSE last - W)
<1> DEFINE G == Len(w.groups)
           start == IF w.weight >= 0 THEN Figures!Smaller(w.weight + 1, G) ELSE 0
           leading == IF w.weight < -1 THEN Figures!Zeros(4 * (-w.weight - 1)) ELSE <<>>
           tail == SubSeq(w.groups, start + 1, G)
           flat == FlattenSeq(tail)
           n == W + R
           skip == IF w.weight < 0 THEN first - W - 1 ELSE 0
           o == W + skip
           c == G - start
<1>1. FractionDigits(w) = leading \o flat
  BY SameLibrary DEF FractionDigits
<1>2. /\ G = last - first + 1 /\ w.weight = W - first
      /\ \A k \in 1..last - first + 1 : w.groups[k] = Group(d, k + (first - 1))
      /\ \A x \in 1..4 * (first - 1) : d[x] = 0
  BY DEF GroupsSent
<1>3. G \in Nat /\ start \in 0..G /\ skip \in Nat /\ o \in Nat /\ c \in Nat
  <2>1. G \in Nat /\ G >= 1
    BY <1>2
  <2>2. start \in 0..G
    <3>1. CASE w.weight >= 0
      <4> DEFINE a == w.weight + 1
      <4>1. start = Figures!Smaller(a, G)
        BY <3>1
      <4>2. a \in Nat
        BY <1>2, <3>1
      <4> HIDE DEF start, G, a
      <4>3. QED
        BY <2>1, <4>1, <4>2 DEF Figures!Smaller
    <3>2. CASE ~(w.weight >= 0)
      <4>1. start = 0
        BY <3>2
      <4> HIDE DEF start, G
      <4>2. QED
        BY <2>1, <4>1
    <3>3. QED
      BY <3>1, <3>2
  <2>3. skip \in Nat
    BY <1>2
  <2>4. c \in Nat
    <3> HIDE DEF start, G
    <3>1. QED
      BY <2>1, <2>2
  <2>5. o \in Nat
    <3> HIDE DEF skip
    <3>1. QED
      BY <2>3
  <2>6. QED
    BY <2>1, <2>2, <2>3, <2>4, <2>5
<1>4. c = 0 \/ (o + c = last /\ start + first - 1 = o)
  BY <1>2, <1>3 DEF Figures!Smaller
<1>4a. /\ (last <= W => c = 0 /\ skip = 0)
       /\ (~(last <= W) => o + c = last /\ start + first - 1 = o)
  BY <1>2, <1>3 DEF Figures!Smaller
<1>5. leading \in Seq(S) /\ Len(leading) = 4 * skip /\ \A i \in 1..4 * skip : leading[i] = 0
  <2>1. CASE w.weight < -1
    <3> DEFINE s == 4 * (-w.weight - 1)
    <3>1. s \in Nat /\ s = 4 * skip
      BY <1>2, <2>1
    <3>2. leading = Figures!Zeros(s)
      BY <2>1
    <3> HIDE DEF s, leading, skip
    <3>3. QED
      BY <3>1, <3>2, ZerosAre
  <2>2. CASE ~(w.weight < -1)
    <3>1. skip = 0
      BY <1>2, <2>2
    <3>2. leading = <<>>
      BY <2>2
    <3> HIDE DEF leading, skip
    <3>3. QED
      BY <3>1, <3>2
  <2>3. QED
    BY <2>1, <2>2
<1>5a. tail = SubSeq(w.groups, start + 1, G) /\ c = G - start
  OBVIOUS
<1> HIDE DEF leading, start, tail, G, skip, c
<1>6. /\ tail \in Seq(Seq(S)) /\ Len(tail) = c
      /\ \A k \in 1..c : tail[k] = w.groups[start + k]
  <2>1. \A i \in start + 1..G : w.groups[i] \in Seq(S)
    <3>1. \A i \in start + 1..G : i \in 1..Len(w.groups)
      BY <1>3 DEF G
    <3>2. QED
      BY <3>1, ElementOfSeq
  <2>2. /\ SubSeq(w.groups, start + 1, G) \in Seq(Seq(S))
        /\ Len(SubSeq(w.groups, start + 1, G)) = IF start + 1 <= G THEN G - (start + 1) + 1 ELSE 0
        /\ \A k \in 1..G - (start + 1) + 1 :
              SubSeq(w.groups, start + 1, G)[k] = w.groups[(start + 1) + k - 1]
    <3> DEFINE a == start + 1
    <3>1. a \in Int /\ G \in Int /\ \A i \in a..G : w.groups[i] \in Seq(S)
      BY <1>3, <2>1
    <3> HIDE DEF a
    <3>2. /\ SubSeq(w.groups, a, G) \in Seq(Seq(S))
          /\ Len(SubSeq(w.groups, a, G)) = IF a <= G THEN G - a + 1 ELSE 0
          /\ \A k \in 1..G - a + 1 : SubSeq(w.groups, a, G)[k] = w.groups[a + k - 1]
      BY <3>1, SubSeqProperties
    <3>3. QED
      BY <3>2 DEF a
  <2>3. /\ (IF start + 1 <= G THEN G - (start + 1) + 1 ELSE 0) = c
        /\ G - (start + 1) + 1 = c
        /\ \A k \in 1..c : (start + 1) + k - 1 = start + k
    BY <1>3, <1>5a
  <2>4. QED
    BY <1>5a, <2>2, <2>3
<1>7. (\A k \in 1..c : tail[k] = Group(d, k + o)) /\ (c # 0 => o + c <= n)
  <2>1. CASE c = 0
    BY <2>1
  <2>2. CASE c # 0
    <3>1. o + c = last /\ start + first - 1 = o
      BY <1>4, <2>2
    <3>2. \A k \in 1..c : start + k \in 1..last - first + 1 /\ start + k + (first - 1) = k + o
      BY <1>2, <1>3, <1>5a, <3>1
    <3>3. \A k \in 1..c : w.groups[start + k] = Group(d, k + o)
      BY <1>2, <3>2
    <3>4. \A k \in 1..c : tail[k] = Group(d, k + o)
      BY <1>6, <3>3
    <3>5. o + c <= n
      BY <3>1
    <3>6. QED
      BY <3>4, <3>5
  <2>3. QED
    BY <2>1, <2>2
<1>8. flat \in Seq(S) /\ Len(flat) = 4 * c /\ \A i \in 1..4 * c : flat[i] = d[4 * o + i]
  <2>1. CASE c = 0
    <3>1. tail = <<>>
      BY <1>6, <2>1
    <3>2. flat = <<>>
      BY <3>1 DEF FlattenSeq
    <3>3. QED
      BY <2>1, <3>2
  <2>2. CASE c # 0
    <3>1. o + c <= n
      BY <1>3, <1>7, <2>2
    <3>2. n \in Nat /\ Len(d) = 4 * n
      OBVIOUS
    <3> HIDE DEF o, n
    <3>3. \A k \in 1..Len(tail) : tail[k] = Group(d, k + o)
      BY <1>6, <1>7
    <3>4. RunHolds(FlattenSeq(tail), S, d, o, Len(tail))
      <4>1. o + Len(tail) <= n /\ tail \in Seq(Seq(S))
        BY <1>6, <3>1
      <4>2. QED
        BY <1>3, <3>2, <3>3, <4>1, RunOfGroups
    <3>5. QED
      BY <1>6, <3>4 DEF RunHolds
  <2>3. QED
    BY <2>1, <2>2
<1> HIDE DEF flat
<1> DEFINE r == leading \o flat
           a == 4 * skip
           b == 4 * c
<1>9. /\ r \in Seq(S) /\ Len(r) = a + b
      /\ \A i \in 1..a + b : r[i] = IF i <= a THEN leading[i] ELSE flat[i - a]
  <2> HIDE DEF a, b
  <2>1. leading \in Seq(S) /\ flat \in Seq(S) /\ Len(leading) = a /\ Len(flat) = b
    BY <1>5, <1>8 DEF a, b
  <2>2. /\ leading \o flat \in Seq(S) /\ Len(leading \o flat) = Len(leading) + Len(flat)
        /\ \A i \in 1..Len(leading) + Len(flat) :
              (leading \o flat)[i] = IF i <= Len(leading) THEN leading[i] ELSE flat[i - Len(leading)]
    BY <2>1, ConcatProperties
  <2>3. QED
    BY <2>1, <2>2
<1> HIDE DEF r
<1>10. r = FractionDigits(w)
  BY <1>1 DEF r
<1>11. CASE last <= W
  <2>1. a + b = 4 * 0
    BY <1>4a, <1>11
  <2>2. r \in Seq(S) /\ Len(r) = 4 * 0 /\ \A i \in 1..4 * 0 : r[i] = d[4 * W + i]
    BY <1>9, <2>1
  <2>3. QED
    BY <1>10, <1>11, <2>2 DEF DigitsHold
<1>12. CASE ~(last <= W)
  <2> DEFINE q == last - W
  <2>1. a + b = 4 * q /\ q \in Nat
    BY <1>3, <1>4a, <1>12
  <2>2. ASSUME NEW i \in 1..4 * q PROVE r[i] = d[4 * W + i]
    <3>1. CASE i <= a
      <4>1. i \in 1..a /\ i \in 1..a + b
        BY <2>1, <3>1
      <4>2. r[i] = 0
        BY <1>5, <1>9, <3>1, <4>1
      <4>3. 4 * W + i \in 1..4 * (first - 1)
        <5>1. skip # 0
          BY <3>1
        <5>2. skip = first - W - 1
          BY <5>1 DEF skip
        <5>3. QED
          BY <3>1, <5>2
      <4>4. QED
        BY <1>2, <4>2, <4>3
    <3>2. CASE ~(i <= a)
      <4>1. i - a \in 1..b /\ i \in 1..a + b /\ 4 * o + (i - a) = 4 * W + i
        <5>1. i - a \in 1..b /\ i \in 1..a + b
          BY <1>3, <2>1, <3>2
        <5>2. 4 * o + (i - a) = 4 * W + i
          BY <1>3
        <5>3. QED
          BY <5>1, <5>2
      <4>2. r[i] = flat[i - a]
        BY <1>9, <3>2, <4>1
      <4>3. QED
        BY <1>8, <4>1, <4>2
    <3>3. QED
      BY <3>1, <3>2
  <2>3. DigitsHold(r, S, d, W, q)
    BY <1>9, <2>1, <2>2 DEF DigitsHold
  <2>4. QED
    BY <1>10, <1>12, <2>3
<1>13. QED
  BY <1>11, <1>12

LEMMA FractionReadsBack ==
    ASSUME NEW S, 0 \in S, NEW int \in Seq(S), NEW frac \in Seq(S),
           NEW d \in Seq(S), NEW pad \in Nat, pad <= 3, NEW W \in Nat, NEW R \in Nat,
           Layout(d, int, frac, pad, W, R),
           NEW negative, NEW w, w.groups \in Seq(Seq(S)), w.dscale = Len(frac),
           Sent(w, d, negative, W, R)
    PROVE  Figures!Fraction(w) = frac
<1> DEFINE digits == FractionDigits(w)
<1>1. Len(d) = 4 * (W + R) /\ Len(frac) \in Nat /\ Len(frac) <= 4 * R
  BY DEF Layout
<1>2. \A i \in 1..Len(frac) : d[4 * W + i] = frac[i]
  BY DEF Layout
<1>3. /\ digits \in Seq(S)
      /\ \A i \in 1..Len(frac) : frac[i] = IF i <= Len(digits) THEN digits[i] ELSE 0
  <2>1. CASE NothingSent(w, d)
    <3>1. w.groups = <<>> /\ w.weight = 0 /\ \A x \in 1..Len(d) : d[x] = 0
      BY <2>1 DEF NothingSent
    <3>2. digits = <<>>
      <4> DEFINE start == IF w.weight >= 0 THEN Figures!Smaller(w.weight + 1, Len(w.groups)) ELSE 0
                 leading == IF w.weight < -1 THEN Figures!Zeros(4 * (-w.weight - 1)) ELSE <<>>
                 tail == SubSeq(w.groups, start + 1, Len(w.groups))
      <4>1. digits = leading \o FlattenSeq(tail)
        BY SameLibrary DEF FractionDigits
      <4>2. start = 0
        BY <3>1 DEF Figures!Smaller
      <4>3. leading = <<>>
        BY <3>1
      <4>4. tail = SubSeq(<<>>, 1, 0)
        <5> HIDE DEF start
        <5>1. QED
          BY <3>1, <4>2
      <4>5. SubSeq(<<>>, 1, 0) = <<>>
        BY SubSeqEmpty
      <4>6. FlattenSeq(<<>>) = <<>>
        BY DEF FlattenSeq
      <4> HIDE DEF start, leading, tail, digits
      <4>7. FlattenSeq(tail) = <<>>
        BY <4>4, <4>5, <4>6
      <4>8. <<>> \o <<>> = <<>>
        OBVIOUS
      <4>9. QED
        BY <4>1, <4>3, <4>7, <4>8
    <3> HIDE DEF digits
    <3>3. \A i \in 1..Len(frac) : frac[i] = 0
      <4>1. \A i \in 1..Len(frac) : 4 * W + i \in 1..Len(d)
        BY <1>1
      <4>2. QED
        BY <1>2, <3>1, <4>1
    <3>4. \A i \in 1..Len(frac) : ~(i <= 0)
      OBVIOUS
    <3>5. QED
      BY <3>2, <3>3, <3>4
  <2>2. ASSUME NEW first \in 1..W + R, NEW last \in 1..W + R, first <= last,
               GroupsSent(w, d, negative, W, R, first, last)
        PROVE  /\ digits \in Seq(S)
               /\ \A i \in 1..Len(frac) : frac[i] = IF i <= Len(digits) THEN digits[i] ELSE 0
    <3> DEFINE q == IF last <= W THEN 0 ELSE last - W
    <3>1. DigitsHold(digits, S, d, W, q)
      BY <1>1, <2>2, FractionDigitsAre
    <3>2. \A x \in 4 * last + 1..4 * (W + R) : d[x] = 0
      BY <2>2 DEF GroupsSent
    <3> HIDE DEF digits
    <3>3. q \in Nat /\ last <= W + q
      OBVIOUS
    <3> HIDE DEF q
    <3>4. digits \in Seq(S) /\ Len(digits) = 4 * q /\ \A i \in 1..4 * q : digits[i] = d[4 * W + i]
      BY <3>1 DEF DigitsHold
    <3>5. ASSUME NEW i \in 1..Len(frac)
          PROVE  frac[i] = IF i <= Len(digits) THEN digits[i] ELSE 0
      <4>1. CASE i <= 4 * q
        <5>1. i \in 1..4 * q
          BY <3>3, <4>1
        <5>2. QED
          BY <1>2, <3>4, <4>1, <5>1
      <4>2. CASE ~(i <= 4 * q)
        <5>1. 4 * W + i \in 4 * last + 1..4 * (W + R)
          BY <1>1, <3>3, <4>2
        <5>2. QED
          BY <1>2, <3>2, <3>4, <4>2, <5>1
      <4>3. QED
        BY <4>1, <4>2
    <3>6. QED
      BY <3>4, <3>5
  <2>3. QED
    BY <2>1, <2>2 DEF Sent
<1> HIDE DEF digits
<1>4. (IF Len(digits) < Len(frac) THEN digits \o Figures!Zeros(Len(frac) - Len(digits))
       ELSE SubSeq(digits, 1, Len(frac))) = frac
  BY <1>3, FillOrCut
<1>5. QED
  BY <1>4, FractionIs DEF digits

\* A number that is received is shown as it is.
ReadsBack(s, negative, int, frac) ==
    /\ s.int = IF int = <<>> THEN <<0>> ELSE int
    /\ s.frac = frac
    /\ s.sign = "-" => negative
    /\ negative /\ Figures!Stripped(int \o frac) # <<>> => s.sign = "-"

LEMMA NumericIsRead ==
    ASSUME NEW S, 0 \in S, NEW int \in Seq(S), NEW frac \in Seq(S), int = <<>> \/ int[1] # 0,
           NEW negative \in BOOLEAN
    PROVE  ReadsBack(Figures!DecodeNumeric(Figures!Encode(negative, int, frac)), negative, int, frac)
<1> DEFINE d == Number(int, frac)
           w == Figures!Encode(negative, int, frac)
           s == Figures!DecodeNumeric(w)
<1>1. /\ d \in Seq(S)
      /\ \E pad \in 0..3, W \in Nat, R \in Nat :
            Len(WholeDigits(int)) = 4 * W /\ Layout(d, int, frac, pad, W, R)
  BY LayoutIs DEF Number
<1>2. PICK pad \in 0..3, W \in Nat, R \in Nat :
        Len(WholeDigits(int)) = 4 * W /\ Layout(d, int, frac, pad, W, R)
  BY <1>1
<1>3. pad \in Nat /\ pad <= 3
  OBVIOUS
<1>4. Len(d) = 4 * (W + R)
  BY <1>2 DEF Layout
<1>5. /\ w.dscale = Len(frac) /\ w.groups \in Seq(Seq(S))
      /\ \/ NothingSent(w, d)
         \/ \E first, last \in 1..W + R :
               first <= last /\ GroupsSent(w, d, negative, W, R, first, last)
  BY <1>1, <1>2, <1>4, EncodeIs
<1> HIDE DEF d, w
<1>5a. /\ d \in Seq(S) /\ Layout(d, int, frac, pad, W, R)
       /\ w.groups \in Seq(Seq(S)) /\ w.dscale = Len(frac) /\ Sent(w, d, negative, W, R)
  BY <1>1, <1>2, <1>5 DEF Sent
<1>6. Figures!WholePart(w) = IF int = <<>> THEN <<0>> ELSE int
  BY <1>3, <1>5a, WholeReadsBack
<1>7. Figures!Fraction(w) = frac
  BY <1>3, <1>5a, FractionReadsBack
<1>8. s = [sign |-> w.sign, int |-> Figures!WholePart(w), frac |-> IF w.dscale > 0 THEN Figures!Fraction(w) ELSE <<>>]
  BY DEF Figures!DecodeNumeric
<1> HIDE DEF s
<1>9. s.frac = frac
  <2>1. CASE w.dscale > 0
    BY <1>7, <1>8, <2>1
  <2>2. CASE ~(w.dscale > 0)
    <3>1. Len(frac) = 0
      BY <1>5, <2>2
    <3>2. frac = <<>>
      BY <3>1
    <3>3. QED
      BY <1>8, <2>2, <3>2
  <2>3. QED
    BY <2>1, <2>2
<1>10. s.sign = w.sign /\ s.int = Figures!WholePart(w)
  BY <1>8
<1>11. CASE NothingSent(w, d)
  <2>1. w.sign = "+" /\ \A x \in 1..Len(d) : d[x] = 0
    BY <1>11 DEF NothingSent
  <2>2. Figures!Stripped(int \o frac) = <<>>
    <3> DEFINE t == int \o frac
               l == Len(int)
               f == Len(frac)
    <3>1. /\ t \in Seq(S) /\ Len(t) = l + f /\ l \in Nat /\ f \in Nat
          /\ \A i \in 1..l + f : t[i] = IF i <= l THEN int[i] ELSE frac[i - l]
      BY ConcatProperties
    <3>2. /\ \A i \in 1..l : d[pad + i] = int[i]
          /\ \A i \in 1..f : d[4 * W + i] = frac[i]
          /\ pad + l = 4 * W /\ f <= 4 * R
      BY <1>2 DEF Layout
    <3> HIDE DEF t, l, f
    <3>3. \A i \in 1..l : int[i] = 0
      <4>1. \A i \in 1..l : pad + i \in 1..Len(d)
        BY <1>3, <1>4, <3>1, <3>2
      <4>2. QED
        BY <2>1, <3>2, <4>1
    <3>4. \A i \in 1..f : frac[i] = 0
      <4>1. \A i \in 1..f : 4 * W + i \in 1..Len(d)
        BY <1>4, <3>1, <3>2
      <4>2. QED
        BY <2>1, <3>2, <4>1
    <3>5. \A i \in 1..Len(t) : t[i] = 0
      <4> SUFFICES ASSUME NEW i \in 1..l + f PROVE t[i] = 0
        BY <3>1
      <4>1. CASE i <= l
        BY <3>1, <3>3, <4>1
      <4>2. CASE ~(i <= l)
        <5>1. i - l \in 1..f
          BY <3>1, <4>2
        <5>2. QED
          BY <3>1, <3>4, <4>2, <5>1
      <4>3. QED
        BY <4>1, <4>2
    <3>6. Figures!Stripped(t) = <<>>
      BY <3>1, <3>5, StrippedIs
    <3>7. QED
      BY <3>6 DEF t
  <2>3. "+" # "-"
    OBVIOUS
  <2>4. QED
    BY <1>6, <1>9, <1>10, <2>1, <2>2, <2>3 DEF ReadsBack, s, w
<1>12. ASSUME NEW first \in 1..W + R, NEW last \in 1..W + R,
              GroupsSent(w, d, negative, W, R, first, last)
       PROVE  ReadsBack(s, negative, int, frac)
  <2>1. (negative => w.sign = "-") /\ (~negative => w.sign = "+")
    BY <1>12 DEF GroupsSent
  <2>2. "+" # "-"
    OBVIOUS
  <2>3. QED
    BY <1>6, <1>9, <1>10, <2>1, <2>2 DEF ReadsBack
<1>13. QED
  BY <1>5, <1>11, <1>12 DEF s, w

\* What was made of the value that arrived last.
NumericShown ==
    \E negative \in BOOLEAN, int \in Seq(DigitsUsed), frac \in Seq(DigitsUsed) :
      /\ int = <<>> \/ int[1] # 0
      /\ received.value = [negative |-> negative, int |-> int, frac |-> frac]
      /\ shown = [kind |-> "numeric", value |-> Figures!DecodeNumeric(Figures!Encode(negative, int, frac))]

IntervalShown ==
    \E micros \in Micros, days \in Days, months \in Months :
      /\ received.value = [micros |-> micros, days |-> days, months |-> months]
      /\ shown = [kind |-> "interval", value |-> Figures!DecodeInterval(received.value)]

DurationShown ==
    /\ received.value \in Durations
    /\ shown = [kind |-> "duration", value |-> Figures!FormatDuration(received.value)]

BenchShown ==
    /\ Len(samples) > 0 /\ Rising(samples)
    /\ shown = [kind |-> "bench", value |-> Figures!Report(samples)]

Kinds == {"none", "numeric", "interval", "duration", "run", "bench"}

FiguresInv ==
    /\ samples \in Seq(Samples) /\ Len(samples) <= MaxRuns
    /\ received.kind \in Kinds
    /\ received.kind = "none" => shown = Figures!Nothing
    /\ received.kind = "run" => Len(samples) > 0
    /\ received.kind = "numeric" => NumericShown
    /\ received.kind = "interval" => IntervalShown
    /\ received.kind = "duration" => DurationShown
    /\ received.kind = "bench" => BenchShown

LEMMA InitFigures == Figures!NumbersAssumption /\ Figures!Init => FiguresInv
<1> SUFFICES ASSUME Figures!NumbersAssumption, Figures!Init PROVE FiguresInv
  OBVIOUS
<1>1. received.kind = "none" /\ shown = Figures!Nothing /\ samples = <<>>
  BY DEF Figures!Init, Figures!Nothing
<1>2. samples \in Seq(Samples) /\ Len(samples) = 0 /\ MaxRuns \in Nat
  BY <1>1 DEF Figures!NumbersAssumption
<1>3. QED
  BY <1>1, <1>2 DEF FiguresInv, Kinds

LEMMA NextFigures == Figures!NumbersAssumption /\ FiguresInv /\ [Figures!Next]_Figures!vars => FiguresInv'
<1> SUFFICES ASSUME Figures!NumbersAssumption, FiguresInv, [Figures!Next]_Figures!vars PROVE FiguresInv'
  OBVIOUS
<1>0. samples \in Seq(Samples) /\ Len(samples) <= MaxRuns /\ MaxRuns \in Nat /\ Samples \subseteq Nat
  BY DEF FiguresInv, Figures!NumbersAssumption
<1>1. CASE Figures!ReceiveNumeric
  <2>1. PICK int \in Figures!Wholes, frac \in Figures!Fractions, negative \in BOOLEAN :
          /\ received' = [kind |-> "numeric",
                          value |-> [negative |-> negative, int |-> int, frac |-> frac]]
          /\ shown' = [kind |-> "numeric", value |-> Figures!DecodeNumeric(Figures!Encode(negative, int, frac))]
          /\ UNCHANGED samples
    BY <1>1 DEF Figures!ReceiveNumeric
  <2>2. int \in Seq(DigitsUsed) /\ frac \in Seq(DigitsUsed) /\ (int = <<>> \/ int[1] # 0)
    <3>1. ASSUME NEW n \in Nat PROVE Figures!BoundedSeq(DigitsUsed, n) \subseteq Seq(DigitsUsed)
      BY DEF Figures!BoundedSeq, Figures!SeqOf
    <3>2. QED
      BY <3>1 DEF Figures!Wholes, Figures!Fractions, Figures!NumbersAssumption
  <2>3. received'.kind = "numeric" /\ received'.value = [negative |-> negative, int |-> int, frac |-> frac]
    BY <2>1
  <2>4. NumericShown'
    BY <2>1, <2>2, <2>3 DEF NumericShown
  <2>5. QED
    BY <1>0, <2>1, <2>3, <2>4 DEF FiguresInv, Kinds
<1>2. CASE Figures!ReceiveInterval
  <2>1. PICK micros \in Micros, days \in Days, months \in Months :
          /\ received' = [kind |-> "interval",
                          value |-> [micros |-> micros, days |-> days, months |-> months]]
          /\ shown' = [kind |-> "interval", value |-> Figures!DecodeInterval(received'.value)]
          /\ UNCHANGED samples
    BY <1>2 DEF Figures!ReceiveInterval
  <2>2. received'.kind = "interval"
        /\ received'.value = [micros |-> micros, days |-> days, months |-> months]
    BY <2>1
  <2>3. IntervalShown'
    BY <2>1, <2>2 DEF IntervalShown
  <2>4. QED
    BY <1>0, <2>1, <2>2, <2>3 DEF FiguresInv, Kinds
<1>3. CASE Figures!QueryEnds
  <2>1. PICK ms \in Durations :
          /\ received' = [kind |-> "duration", value |-> ms]
          /\ shown' = [kind |-> "duration", value |-> Figures!FormatDuration(ms)]
          /\ UNCHANGED samples
    BY <1>3 DEF Figures!QueryEnds
  <2>2. received'.kind = "duration" /\ received'.value = ms
    BY <2>1
  <2>3. DurationShown'
    BY <2>1, <2>2 DEF DurationShown
  <2>4. QED
    BY <1>0, <2>1, <2>2, <2>3 DEF FiguresInv, Kinds
<1>4. CASE Figures!Record
  <2>1. PICK ns \in Samples : samples' = Append(samples, ns) /\ received' = [kind |-> "run", value |-> 0]
    BY <1>4 DEF Figures!Record
  <2>2. received'.kind = "run" /\ Len(samples) < MaxRuns
    BY <1>4, <2>1 DEF Figures!Record
  <2>3. samples' \in Seq(Samples) /\ Len(samples') = Len(samples) + 1 /\ Len(samples) \in Nat
    BY <1>0, <2>1
  <2>4. Len(samples') <= MaxRuns /\ Len(samples') > 0
    BY <1>0, <2>2, <2>3
  <2>5. QED
    BY <2>2, <2>3, <2>4 DEF FiguresInv, Kinds
<1>5. CASE Figures!Finish
  <2>1. /\ received' = [kind |-> "bench", value |-> 0] /\ samples' = Figures!Sorted(samples)
        /\ shown' = [kind |-> "bench", value |-> Figures!Report(samples')] /\ received.kind = "run"
    BY <1>5 DEF Figures!Finish
  <2>2. samples' \in Seq(Samples) /\ Len(samples') = Len(samples) /\ Rising(samples')
    BY <1>0, <2>1, SortedIs
  <2>3. Len(samples) > 0
    BY <2>1 DEF FiguresInv
  <2>4. received'.kind = "bench"
    BY <2>1
  <2>5. BenchShown'
    BY <2>1, <2>2, <2>3 DEF BenchShown, Rising
  <2>6. QED
    BY <1>0, <2>2, <2>4, <2>5 DEF FiguresInv, Kinds
<1>6. CASE UNCHANGED Figures!vars
  BY <1>6 DEF Figures!vars, FiguresInv, NumericShown, IntervalShown, DurationShown, BenchShown, Rising
<1>7. QED
  BY <1>1, <1>2, <1>3, <1>4, <1>5, <1>6 DEF Figures!Next

\* What the invariant says is what the properties ask.
LEMMA FiguresFollow ==
    ASSUME Figures!NumbersAssumption, FiguresInv
    PROVE  Figures!TypeOK /\ Figures!NumericReadsBack /\ Figures!IntervalAddsUp /\ Figures!DurationReadsBack
           /\ Figures!PercentileIsNearestRank /\ Figures!HistogramIsComplete
<1>1. Figures!TypeOK
  <2>1. received.kind \in {"none", "numeric", "interval", "duration", "run", "bench"}
    BY DEF FiguresInv, Kinds
  <2>2. received.kind # "run" => shown.kind = received.kind
    <3>1. /\ NumericShown => shown.kind = "numeric"
          /\ IntervalShown => shown.kind = "interval"
          /\ DurationShown => shown.kind = "duration"
          /\ BenchShown => shown.kind = "bench"
          /\ shown = Figures!Nothing => shown.kind = "none"
      <4>1. NumericShown => shown.kind = "numeric"
        BY DEF NumericShown
      <4>2. IntervalShown => shown.kind = "interval"
        BY DEF IntervalShown
      <4>3. DurationShown => shown.kind = "duration"
        BY DEF DurationShown
      <4>4. BenchShown => shown.kind = "bench"
        BY DEF BenchShown
      <4>5. shown = Figures!Nothing => shown.kind = "none"
        BY DEF Figures!Nothing
      <4>6. QED
        BY <4>1, <4>2, <4>3, <4>4, <4>5
    <3>2. QED
      BY <2>1, <3>1 DEF FiguresInv
  <2>3. Len(samples) <= MaxRuns /\ Figures!ToSet(samples) \subseteq Samples
    <3>1. samples \in Seq(Samples) /\ Len(samples) <= MaxRuns
      BY DEF FiguresInv
    <3>2. QED
      BY <3>1 DEF Figures!ToSet
  <2>4. received.kind = "bench" => \A i, j \in DOMAIN samples : i < j => samples[i] <= samples[j]
    BY DEF FiguresInv, BenchShown, Rising
  <2>5. QED
    BY <2>1, <2>2, <2>3, <2>4 DEF Figures!TypeOK
<1>2. Figures!NumericReadsBack
  <2> SUFFICES ASSUME received.kind = "numeric"
               PROVE  ReadsBack(shown.value, received.value.negative, received.value.int,
                                received.value.frac)
    BY DEF Figures!NumericReadsBack, ReadsBack
  <2>1. PICK negative \in BOOLEAN, int \in Seq(DigitsUsed), frac \in Seq(DigitsUsed) :
          /\ int = <<>> \/ int[1] # 0
          /\ received.value = [negative |-> negative, int |-> int, frac |-> frac]
          /\ shown = [kind |-> "numeric", value |-> Figures!DecodeNumeric(Figures!Encode(negative, int, frac))]
    BY DEF FiguresInv, NumericShown
  <2>2. ReadsBack(Figures!DecodeNumeric(Figures!Encode(negative, int, frac)), negative, int, frac)
    <3>1. 0 \in DigitsUsed
      BY DEF Figures!NumbersAssumption
    <3>2. QED
      BY <2>1, <3>1, NumericIsRead
  <2>3. QED
    BY <2>1, <2>2
<1>3. Figures!IntervalAddsUp
  <2> SUFFICES ASSUME received.kind = "interval" PROVE Figures!IntervalAddsUp
    BY DEF Figures!IntervalAddsUp
  <2>1. PICK micros \in Micros, days \in Days, months \in Months :
          /\ received.value = [micros |-> micros, days |-> days, months |-> months]
          /\ shown = [kind |-> "interval", value |-> Figures!DecodeInterval(received.value)]
    BY DEF FiguresInv, IntervalShown
  <2>2. MicrosPerSecond \in Nat \ {0} /\ micros \in Int /\ months \in Int
    BY DEF Figures!NumbersAssumption
  <2>3. FieldsAddUp([micros |-> micros, days |-> days, months |-> months],
                    Figures!DecodeInterval([micros |-> micros, days |-> days, months |-> months]))
    BY <2>2, IntervalFields
  <2>4. FieldsAddUp(received.value, shown.value)
    BY <2>1, <2>3
  <2>5. QED
    BY <2>4 DEF Figures!IntervalAddsUp, FieldsAddUp
<1>4. Figures!DurationReadsBack
  <2>1. received.kind = "duration" => IsTime(shown.value, received.value)
    BY DurationParts DEF FiguresInv, DurationShown, Figures!NumbersAssumption
  <2>2. QED
    BY <2>1 DEF Figures!DurationReadsBack, IsTime
<1>5. ASSUME received.kind = "bench"
      PROVE  samples \in Seq(Nat) /\ Len(samples) > 0 /\ Rising(samples)
             /\ shown.value = Figures!Report(samples) /\ Buckets \in Nat \ {0}
  BY <1>5, SeqMonotonic DEF FiguresInv, BenchShown, Figures!NumbersAssumption
<1>6. Figures!PercentileIsNearestRank
  <2> SUFFICES ASSUME received.kind = "bench"
               PROVE  /\ IsNearest(samples, shown.value.p50, 50)
                      /\ IsNearest(samples, shown.value.p95, 95)
                      /\ IsNearest(samples, shown.value.p99, 99)
    BY SameLibrary DEF Figures!PercentileIsNearestRank, IsNearest, Below
  <2>1. /\ IsNearest(samples, Figures!Percentile(samples, 50), 50)
        /\ IsNearest(samples, Figures!Percentile(samples, 95), 95)
        /\ IsNearest(samples, Figures!Percentile(samples, 99), 99)
    BY <1>5, NearestRank
  <2>2. /\ shown.value.p50 = Figures!Percentile(samples, 50) /\ shown.value.p95 = Figures!Percentile(samples, 95)
        /\ shown.value.p99 = Figures!Percentile(samples, 99)
    BY <1>5 DEF Figures!Report
  <2>3. QED
    BY <2>1, <2>2
<1>7. Figures!HistogramIsComplete
  <2> SUFFICES ASSUME received.kind = "bench", shown.value.histogram # <<>>
               PROVE  Figures!HistogramIsComplete
    BY DEF Figures!HistogramIsComplete
  <2>1. shown.value.histogram = Figures!Histogram(samples) /\ Figures!Histogram(samples) # <<>>
    BY <1>5 DEF Figures!Report
  <2> DEFINE total == Figures!FoldLeft(LAMBDA a, b : a + b, 0, shown.value.histogram)
  <2>2. total = Len(samples)
    <3>1. Figures!FoldLeft(LAMBDA a, b : a + b, 0, Figures!Histogram(samples)) = Len(samples)
      BY <1>5, <2>1, BarsAddUp
    <3>2. QED
      BY <2>1, <3>1, Zenon
  <2>3. \A k \in DOMAIN samples :
           LET b  == Figures!Bar(samples, samples[k])
               lo == samples[1] + b * Figures!Width(samples)
           IN  samples[k] \in lo .. lo + Figures!Width(samples) - 1
    <3>1. DOMAIN samples = 1..Len(samples)
      BY <1>5
    <3>2. QED
      BY <1>5, <3>1, BarHolds
  <2>4. QED
    BY <2>2, <2>3, Zenon DEF Figures!HistogramIsComplete
<1>8. QED
  BY <1>1, <1>2, <1>3, <1>4, <1>6, <1>7

----------------------------------------------------------------------------
(* SqlScanners: the states of a scanner. *)

Modes == {"code", "dollar", "line", "block", "quote", "ident"}

\* The characters of a text. The marks are strings like the others, which the
\* provers do not know of a string that is written out.
Alphabet == STRING \cup Marks

Chars == Seq(Alphabet)

ScannerStates ==
    [at : Nat \ {0}, mode : Modes, tag : Chars, body : Nat \ {0}, start : Nat \ {0},
     done : Seq(Chars), depth : Int]

Dialects == {Splitter, Completer}

\* A letter is none of the characters the scanners test.
LEMMA LettersAreNotMarks == \A c \in Marks : c \notin Letters /\ c \notin Wide
  BY SqlTextAssumption

LEMMA LeastOfIs ==
    ASSUME NEW S, S \subseteq Nat, S # {}
    PROVE  LeastOf(S) \in S /\ \A m \in S : LeastOf(S) <= m
<1>1. \E m \in S : \A k \in S : m <= k
  BY LeastNumber
<1>2. QED
  BY <1>1 DEF LeastOf

LEMMA TagEndIs ==
    ASSUME NEW t \in Chars, NEW i \in 1..Len(t)
    PROVE  /\ TagEnd(t, i) \in i + 1..Len(t) + 1
           /\ At(t, TagEnd(t, i)) \notin Letters
           /\ \A j \in i + 1..TagEnd(t, i) - 1 : j \in 1..Len(t) /\ t[j] \in Letters
<1> DEFINE S == {j \in i + 1..Len(t) + 1 : At(t, j) \notin Letters}
<1>1. Len(t) \in Nat /\ DOMAIN t = 1..Len(t)
  BY DEF Chars
<1>2. Len(t) + 1 \in S
  <2>1. At(t, Len(t) + 1) = "end"
    BY <1>1 DEF At
  <2>2. "end" \notin Letters
    BY LettersAreNotMarks DEF Marks
  <2>3. QED
    BY <1>1, <2>1, <2>2
<1>3. S \subseteq Nat
  BY <1>1
<1>4. TagEnd(t, i) = LeastOf(S)
  BY DEF TagEnd
<1>5. LeastOf(S) \in S /\ \A m \in S : LeastOf(S) <= m
  <2> HIDE DEF S
  <2>1. QED
    BY <1>2, <1>3, LeastOfIs
<1>6. ASSUME NEW j \in i + 1..LeastOf(S) - 1 PROVE j \in 1..Len(t) /\ t[j] \in Letters
  <2>1. LeastOf(S) \in i + 1..Len(t) + 1
    BY <1>5
  <2>2. j \in i + 1..Len(t) + 1 /\ j \in 1..Len(t) /\ ~(LeastOf(S) <= j)
    <3> DEFINE e == LeastOf(S)
    <3> HIDE DEF e, S
    <3>1. e \in i + 1..Len(t) + 1 /\ j \in i + 1..e - 1
      BY <2>1 DEF e
    <3>2. j \in i + 1..Len(t) + 1 /\ j \in 1..Len(t) /\ ~(e <= j)
      BY <1>1, <3>1
    <3>3. QED
      BY <3>2 DEF e
  <2>3. j \notin S
    BY <1>5, <2>2
  <2>4. At(t, j) \in Letters
    BY <2>2, <2>3
  <2>5. QED
    BY <1>1, <2>2, <2>4 DEF At
<1>7. QED
  BY <1>4, <1>5, <1>6


LEMMA TextIs ==
    ASSUME NEW t \in Chars
    PROVE  /\ Len(t) \in Nat /\ DOMAIN t = 1..Len(t)
           /\ \A i \in 1..Len(t) : t[i] \in Alphabet /\ At(t, i) = t[i]
           /\ \A i : i \notin 1..Len(t) => At(t, i) = "end"
<1>1. Len(t) \in Nat /\ DOMAIN t = 1..Len(t)
  BY DEF Chars
<1>2. \A i \in 1..Len(t) : t[i] \in Alphabet
  BY DEF Chars
<1>3. (\A i \in 1..Len(t) : At(t, i) = t[i]) /\ \A i : i \notin 1..Len(t) => At(t, i) = "end"
  BY <1>1 DEF At
<1>5. QED
  BY <1>1, <1>2, <1>3

LEMMA ModesAre == {"code", "dollar", "line", "block", "quote", "ident"} \subseteq Modes
  BY DEF Modes

LEMMA StayTyped ==
    ASSUME NEW s \in ScannerStates, NEW n \in {1, 2}
    PROVE  /\ Stay(s, n) \in ScannerStates /\ Stay(s, n).at = s.at + n
           /\ Leave(s, n) \in ScannerStates /\ Leave(s, n).at = s.at + n
<1>1. s.at + n \in Nat \ {0} /\ "code" \in Modes
  BY ModesAre DEF ScannerStates
<1>2. Stay(s, n) \in ScannerStates /\ Stay(s, n).at = s.at + n
  BY <1>1 DEF Stay, ScannerStates
<1>3. Leave(s, n) \in ScannerStates /\ Leave(s, n).at = s.at + n
  BY <1>1 DEF Leave, ScannerStates
<1>4. QED
  BY <1>2, <1>3

LEMMA EnterTyped ==
    ASSUME NEW s \in ScannerStates, NEW m \in Modes
    PROVE  Enter(s, m) \in ScannerStates /\ Enter(s, m).at = s.at + 1
<1>1. s.at + 1 \in Nat \ {0}
  BY DEF ScannerStates
<1>2. QED
  BY <1>1 DEF Enter, ScannerStates

\* The states of a scanner of t.
States(t) == {s \in ScannerStates : s.start <= s.at /\ s.at <= Len(t) + 1 /\ s.body <= s.at}

\* From s to r only the place and the kind of token change, and what is open.
Moves(s, r, mode, n) ==
    /\ r.at = s.at + n /\ r.mode = mode
    /\ r.tag = s.tag /\ r.body = s.body /\ r.start = s.start /\ r.done = s.done

\* A statement is cut off.
CutsAt(t, s, r) ==
    /\ r.at = s.at + 1 /\ r.mode = "code" /\ r.start = s.at + 1
    /\ r.tag = s.tag /\ r.body = s.body
    /\ r.done = Append(s.done, SubSeq(t, s.start, s.at - 1))

\* A dollar sign at s, up to the first character behind it that is no letter.
Tagged(d, t, s, r) ==
    LET j == TagEnd(t, s.at)
    IN  /\ r.start = s.start /\ r.done = s.done
        /\ At(t, j) = "$" =>
             /\ r.mode = "dollar" /\ r.at = j + 1
             /\ r.tag = SubSeq(t, s.at + 1, j - 1)
             /\ r.body = IF d.whole THEN s.start ELSE j + 1
        /\ At(t, j) # "$" => r.mode = "code" /\ r.at = j /\ r.tag = s.tag /\ r.body = s.body

\* A character that begins nothing.
Plain(d, c, n) ==
    /\ ~(c = "-" /\ n = "-") /\ ~(c = "/" /\ n = "*")
    /\ c # "'" /\ ~(c = "\"" /\ d.idents) /\ ~(c = "$" /\ d.dollars) /\ c # ";"

\* What a step from s to r does.
StepTakes(d, t, s, r) ==
    LET c == t[s.at]
        n == At(t, s.at + 1)
    IN  /\ s.mode = "dollar" =>
             Moves(s, r, IF IsSuffix(<<"$">> \o s.tag \o <<"$">>, SubSeq(t, s.body, s.at))
                         THEN "code" ELSE "dollar", 1)
        /\ s.mode = "line" => Moves(s, r, IF c = "\n" THEN "code" ELSE "line", 1)
        /\ s.mode = "block" =>
             Moves(s, r, IF c = "/" /\ t[s.at - 1] = "*" THEN "code" ELSE "block", 1)
        /\ s.mode = "ident" => Moves(s, r, IF c = "\"" THEN "code" ELSE "ident", 1)
        /\ s.mode = "quote" /\ c # "'" => Moves(s, r, "quote", 1)
        /\ s.mode = "quote" /\ c = "'" /\ n = "'" => Moves(s, r, "quote", 2)
        /\ s.mode = "quote" /\ c = "'" /\ n # "'" => Moves(s, r, "code", 1)
        /\ s.mode = "code" /\ c = "-" /\ n = "-" => Moves(s, r, "line", 1)
        /\ s.mode = "code" /\ c = "/" /\ n = "*" => Moves(s, r, "block", 1)
        /\ s.mode = "code" /\ c = "'" => Moves(s, r, "quote", 1)
        /\ s.mode = "code" /\ c = "\"" /\ d.idents => Moves(s, r, "ident", 1)
        /\ s.mode = "code" /\ c = "$" /\ d.dollars => Tagged(d, t, s, r)
        /\ s.mode = "code" /\ c = ";" => CutsAt(t, s, r)
        /\ s.mode = "code" /\ Plain(d, c, n) => Moves(s, r, "code", 1)

LEMMA StepBy ==
    ASSUME NEW d, NEW t, NEW s
    PROVE  /\ s.mode = "dollar" => Step(d, t, s) = InDollar(t, s)
           /\ s.mode = "line" =>
                Step(d, t, s) = IF t[s.at] = "\n" THEN Leave(s, 1) ELSE Stay(s, 1)
           /\ s.mode = "block" => Step(d, t, s) = InBlock(t, s)
           /\ s.mode = "quote" => Step(d, t, s) = InQuote(t, s)
           /\ s.mode = "ident" =>
                Step(d, t, s) = IF t[s.at] = "\"" THEN Leave(s, 1) ELSE Stay(s, 1)
           /\ s.mode = "code" => Step(d, t, s) = InCode(d, t, s)
  BY Zenon DEF Step

\* What is done with a character outside of any token.
CodeSteps(d, t, s, r) ==
    LET c == t[s.at]
        n == At(t, s.at + 1)
    IN  /\ c = "-" /\ n = "-" => r = Enter(s, "line")
        /\ c = "/" /\ n = "*" => r = Enter(s, "block")
        /\ c = "'" => r = Enter(s, "quote")
        /\ c = "\"" /\ d.idents => r = Enter(s, "ident")
        /\ c = "$" /\ d.dollars => r = Dollar(d, t, s)
        /\ c = ";" => r = Cut(t, s)
        /\ c = "(" => r = [Stay(s, 1) EXCEPT !.depth = @ + 1]
        /\ c = ")" => r = [Stay(s, 1) EXCEPT !.depth = @ - 1]
        /\ Plain(d, c, n) /\ c # "(" /\ c # ")" => r = Stay(s, 1)

LEMMA InCodeBy == \A d, t, s : CodeSteps(d, t, s, InCode(d, t, s))
<1> SUFFICES ASSUME NEW d, NEW t, NEW s PROVE CodeSteps(d, t, s, InCode(d, t, s))
  BY Zenon
<1> DEFINE c == t[s.at]
           n == At(t, s.at + 1)
           r == InCode(d, t, s)
<1>1. /\ c = "-" /\ n = "-" => r = Enter(s, "line")
      /\ c = "/" /\ n = "*" => r = Enter(s, "block")
      /\ c = "'" => r = Enter(s, "quote")
      /\ c = "\"" /\ d.idents => r = Enter(s, "ident")
      /\ c = "$" /\ d.dollars => r = Dollar(d, t, s)
      /\ c = ";" => r = Cut(t, s)
      /\ c = "(" => r = [Stay(s, 1) EXCEPT !.depth = @ + 1]
      /\ c = ")" => r = [Stay(s, 1) EXCEPT !.depth = @ - 1]
      /\ Plain(d, c, n) /\ c # "(" /\ c # ")" => r = Stay(s, 1)
  BY Zenon DEF InCode, Plain
<1>2. QED
  BY <1>1, Zenon DEF CodeSteps

LEMMA StayMoves ==
    ASSUME NEW t \in Chars, NEW s \in States(t), NEW n \in {1, 2}, s.at + n <= Len(t) + 1
    PROVE  /\ Stay(s, n) \in States(t) /\ Moves(s, Stay(s, n), s.mode, n)
           /\ Leave(s, n) \in States(t) /\ Moves(s, Leave(s, n), "code", n)
<1>1. s \in ScannerStates /\ s.start <= s.at /\ s.body <= s.at /\ Len(t) \in Nat
  BY TextIs DEF States
<1>2. s.at \in Nat /\ s.start \in Nat /\ s.body \in Nat
  BY <1>1 DEF ScannerStates
<1>3. Moves(s, Stay(s, n), s.mode, n) /\ Moves(s, Leave(s, n), "code", n)
  BY <1>1 DEF Moves, Stay, Leave, ScannerStates
<1>4. Stay(s, n) \in ScannerStates /\ Leave(s, n) \in ScannerStates
  BY <1>1, StayTyped
<1>5. \A r : r \in ScannerStates /\ (Moves(s, r, s.mode, n) \/ Moves(s, r, "code", n)) => r \in States(t)
  BY <1>1, <1>2 DEF Moves, States
<1>6. QED
  BY <1>3, <1>4, <1>5

LEMMA EnterMoves ==
    ASSUME NEW t \in Chars, NEW s \in States(t), NEW m \in Modes, s.at <= Len(t)
    PROVE  Enter(s, m) \in States(t) /\ Moves(s, Enter(s, m), m, 1)
<1>1. s \in ScannerStates /\ s.start <= s.at /\ s.body <= s.at /\ Len(t) \in Nat
  BY TextIs DEF States
<1>2. s.at \in Nat /\ s.start \in Nat /\ s.body \in Nat
  BY <1>1 DEF ScannerStates
<1>3. Moves(s, Enter(s, m), m, 1)
  BY <1>1 DEF Moves, Enter, ScannerStates
<1>4. Enter(s, m) \in ScannerStates
  BY <1>1, EnterTyped
<1>5. QED
  BY <1>1, <1>2, <1>3, <1>4 DEF Moves, States


LEMMA PartOfText ==
    ASSUME NEW t \in Chars, NEW i \in 1..Len(t) + 1, NEW j \in 0..Len(t), i <= j + 1
    PROVE  /\ SubSeq(t, i, j) \in Chars
           /\ Len(SubSeq(t, i, j)) = j - i + 1
           /\ \A k \in 1..j - i + 1 : SubSeq(t, i, j)[k] = t[i + k - 1]
<1>1. j \in i - 1..Len(t) /\ Len(t) \in Nat
  BY TextIs
<1>2. QED
  BY <1>1, SubSeqProperties DEF Chars

LEMMA Appended ==
    ASSUME NEW q \in Seq(Chars), NEW p \in Chars PROVE Append(q, p) \in Seq(Chars)
  OBVIOUS

LEMMA CutMoves ==
    ASSUME NEW t \in Chars, NEW s \in States(t), s.at <= Len(t), s.mode = "code"
    PROVE  Cut(t, s) \in States(t) /\ CutsAt(t, s, Cut(t, s))
<1>1. s \in ScannerStates /\ s.start <= s.at /\ s.body <= s.at /\ Len(t) \in Nat
  BY TextIs DEF States
<1>2. s.at \in Nat \ {0} /\ s.start \in Nat \ {0} /\ s.body \in Nat \ {0} /\ s.done \in Seq(Chars)
  BY <1>1 DEF ScannerStates
<1>3. SubSeq(t, s.start, s.at - 1) \in Chars
  <2>1. s.start \in 1..Len(t) + 1 /\ s.at - 1 \in 0..Len(t) /\ s.start <= (s.at - 1) + 1
    BY <1>1, <1>2
  <2>2. QED
    BY <2>1, PartOfText
<1> DEFINE stretch == SubSeq(t, s.start, s.at - 1)
           more == Append(s.done, stretch)
<1>4. more \in Seq(Chars)
  BY <1>2, <1>3, Appended
<1>5. Cut(t, s) = [s EXCEPT !.done = more, !.at = s.at + 1, !.start = s.at + 1]
  BY DEF Cut
<1> HIDE DEF stretch, more
<1>6. s.at + 1 \in Nat \ {0}
  BY <1>2
<1>7. Cut(t, s) \in ScannerStates
  BY <1>1, <1>4, <1>5, <1>6 DEF ScannerStates
<1>8. /\ Cut(t, s).at = s.at + 1 /\ Cut(t, s).start = s.at + 1 /\ Cut(t, s).done = more
      /\ Cut(t, s).mode = s.mode /\ Cut(t, s).tag = s.tag /\ Cut(t, s).body = s.body
  BY <1>1, <1>5 DEF ScannerStates
<1>9. QED
  BY <1>1, <1>2, <1>7, <1>8 DEF States, CutsAt, stretch, more

LEMMA DollarMoves ==
    ASSUME NEW d \in Dialects, NEW t \in Chars, NEW s \in States(t), s.at <= Len(t),
           s.mode = "code"
    PROVE  Dollar(d, t, s) \in States(t) /\ Tagged(d, t, s, Dollar(d, t, s))
<1>1. s \in ScannerStates /\ s.start <= s.at /\ s.body <= s.at /\ Len(t) \in Nat
  BY TextIs DEF States
<1>2. s.at \in Nat \ {0} /\ s.start \in Nat \ {0} /\ s.body \in Nat \ {0} /\ s.at \in 1..Len(t)
  BY <1>1 DEF ScannerStates
<1> DEFINE j == TagEnd(t, s.at)
           tag == SubSeq(t, s.at + 1, j - 1)
           body == IF d.whole THEN s.start ELSE j + 1
           r == Dollar(d, t, s)
<1>3. j \in s.at + 1..Len(t) + 1
  BY <1>2, TagEndIs
<1>4. r = IF At(t, j) = "$"
          THEN [s EXCEPT !.mode = "dollar", !.tag = tag, !.at = j + 1, !.body = body]
          ELSE [s EXCEPT !.at = j]
  BY DEF Dollar
<1> HIDE DEF j
<1>5. tag \in Chars
  <2>1. s.at + 1 \in 1..Len(t) + 1 /\ j - 1 \in 0..Len(t) /\ s.at + 1 <= (j - 1) + 1
    BY <1>1, <1>2, <1>3
  <2>2. QED
    BY <2>1, PartOfText
<1>6. At(t, j) = "$" => j <= Len(t)
  <2>1. j \notin 1..Len(t) => At(t, j) = "end"
    BY TextIs
  <2>2. QED
    BY <1>1, <1>2, <1>3, <2>1
<1>7. body \in Nat \ {0} /\ body <= j + 1 /\ j \in Nat \ {0} /\ j + 1 \in Nat \ {0} /\ s.at < j
      /\ (s.start <= j + 1) /\ (s.start <= j) /\ (s.body <= j)
  BY <1>1, <1>2, <1>3
<1> HIDE DEF tag, body, r
<1>8. CASE At(t, j) = "$"
  <2>1. "dollar" \in Modes
    BY ModesAre
  <2>2. r = [s EXCEPT !.mode = "dollar", !.tag = tag, !.at = j + 1, !.body = body]
    BY <1>4, <1>8
  <2>3. r \in ScannerStates
    BY <1>1, <1>5, <1>7, <2>1, <2>2 DEF ScannerStates
  <2>4. r.mode = "dollar" /\ r.tag = tag /\ r.at = j + 1 /\ r.body = body
        /\ r.start = s.start /\ r.done = s.done
    BY <1>1, <2>2 DEF ScannerStates
  <2>5. r \in States(t)
    BY <1>1, <1>3, <1>6, <1>7, <1>8, <2>3, <2>4 DEF States
  <2>6. Tagged(d, t, s, r)
    BY <1>8, <2>4 DEF Tagged, j, tag, body
  <2>7. QED
    BY <2>5, <2>6 DEF r
<1>9. CASE At(t, j) # "$"
  <2>2. r = [s EXCEPT !.at = j]
    BY <1>4, <1>9
  <2>3. r \in ScannerStates
    BY <1>1, <1>7, <2>2 DEF ScannerStates
  <2>4. r.mode = "code" /\ r.tag = s.tag /\ r.at = j /\ r.body = s.body
        /\ r.start = s.start /\ r.done = s.done
    BY <1>1, <2>2 DEF ScannerStates
  <2>5. r \in States(t)
    BY <1>1, <1>3, <1>7, <2>3, <2>4 DEF States
  <2>6. Tagged(d, t, s, r)
    BY <1>9, <2>4 DEF Tagged, j
  <2>7. QED
    BY <2>5, <2>6 DEF r
<1>10. QED
  BY <1>8, <1>9

LEMMA ParenMoves ==
    ASSUME NEW t \in Chars, NEW s \in States(t), s.at <= Len(t), s.mode = "code",
           NEW r, r \in {[Stay(s, 1) EXCEPT !.depth = @ + 1], [Stay(s, 1) EXCEPT !.depth = @ - 1]}
    PROVE  r \in States(t) /\ Moves(s, r, "code", 1)
<1> DEFINE q == Stay(s, 1)
<1>1. s \in ScannerStates /\ Len(t) \in Nat
  BY TextIs DEF States
<1>2. s.at \in Nat
  BY <1>1 DEF ScannerStates
<1>3. s.at + 1 <= Len(t) + 1 /\ 1 \in {1, 2}
  BY <1>1, <1>2
<1>4. q \in States(t) /\ Moves(s, q, "code", 1)
  BY <1>3, StayMoves
<1>5. PICK e \in Int : r = [q EXCEPT !.depth = e]
  <2>1. q.depth \in Int
    BY <1>4 DEF States, ScannerStates
  <2>2. q.depth + 1 \in Int /\ q.depth - 1 \in Int
    BY <2>1
  <2>3. r = [q EXCEPT !.depth = q.depth + 1] \/ r = [q EXCEPT !.depth = q.depth - 1]
    OBVIOUS
  <2> HIDE DEF q
  <2>4. QED
    BY <2>2, <2>3
<1> HIDE DEF q
<1>6. q \in ScannerStates
  BY <1>4 DEF States
<1>7. r \in ScannerStates
  BY <1>5, <1>6 DEF ScannerStates
<1>8. r.at = q.at /\ r.mode = q.mode /\ r.tag = q.tag /\ r.body = q.body /\ r.start = q.start
      /\ r.done = q.done
  BY <1>5, <1>6 DEF ScannerStates
<1>9. QED
  BY <1>4, <1>7, <1>8 DEF States, Moves

LEMMA StepMoves ==
    ASSUME NEW d \in Dialects, NEW t \in Chars, NEW s \in States(t), s.at <= Len(t)
    PROVE  /\ Step(d, t, s) \in States(t)
           /\ StepTakes(d, t, s, Step(d, t, s))
<1> DEFINE r == Step(d, t, s)
           c == t[s.at]
           n == At(t, s.at + 1)
<1>1. s \in ScannerStates /\ Len(t) \in Nat /\ s.at \in Nat \ {0}
  BY TextIs DEF States, ScannerStates
<1>2. 1 \in {1, 2} /\ 2 \in {1, 2} /\ s.at + 1 <= Len(t) + 1 /\ s.at \in 1..Len(t)
  BY <1>1
<1>3. /\ Stay(s, 1) \in States(t) /\ Moves(s, Stay(s, 1), s.mode, 1)
      /\ Leave(s, 1) \in States(t) /\ Moves(s, Leave(s, 1), "code", 1)
  BY <1>2, StayMoves
<1>4. \A m \in Modes : Enter(s, m) \in States(t) /\ Moves(s, Enter(s, m), m, 1)
  BY EnterMoves
<1>5. CASE s.mode = "dollar"
  <2>1. r = Stay(s, 1) \/ r = Leave(s, 1)
    BY <1>5, StepBy DEF InDollar
  <2>2. r = IF IsSuffix(<<"$">> \o s.tag \o <<"$">>, SubSeq(t, s.body, s.at))
            THEN Leave(s, 1) ELSE Stay(s, 1)
    BY <1>5, StepBy DEF InDollar
  <2> HIDE DEF r
  <2>3. StepTakes(d, t, s, r)
    BY <1>3, <1>5, <2>2 DEF StepTakes
  <2>4. QED
    BY <1>3, <2>1, <2>3 DEF r
<1>6. CASE s.mode = "line"
  <2>1. r = IF c = "\n" THEN Leave(s, 1) ELSE Stay(s, 1)
    BY <1>6, StepBy
  <2> HIDE DEF r
  <2>3. StepTakes(d, t, s, r)
    BY <1>3, <1>6, <2>1 DEF StepTakes
  <2>4. QED
    BY <1>3, <2>1, <2>3 DEF r
<1>7. CASE s.mode = "block"
  <2>1. r = IF c = "/" /\ t[s.at - 1] = "*" THEN Leave(s, 1) ELSE Stay(s, 1)
    BY <1>7, StepBy DEF InBlock
  <2> HIDE DEF r
  <2>3. StepTakes(d, t, s, r)
    BY <1>3, <1>7, <2>1 DEF StepTakes
  <2>4. QED
    BY <1>3, <2>1, <2>3 DEF r
<1>8. CASE s.mode = "ident"
  <2>1. r = IF c = "\"" THEN Leave(s, 1) ELSE Stay(s, 1)
    BY <1>8, StepBy
  <2> HIDE DEF r
  <2>3. StepTakes(d, t, s, r)
    BY <1>3, <1>8, <2>1 DEF StepTakes
  <2>4. QED
    BY <1>3, <2>1, <2>3 DEF r
<1>9. CASE s.mode = "quote"
  <2>1. r = InQuote(t, s)
    BY <1>9, StepBy
  <2>2. CASE c # "'"
    <3>1. r = Stay(s, 1)
      BY <2>1, <2>2 DEF InQuote
    <3> HIDE DEF r
    <3>2. StepTakes(d, t, s, r)
      BY <1>3, <1>9, <2>2, <3>1 DEF StepTakes
    <3>3. QED
      BY <1>3, <3>1, <3>2 DEF r
  <2>3. CASE c = "'" /\ n = "'"
    <3>1. r = Stay(s, 2)
      BY <2>1, <2>3 DEF InQuote
    <3>2. s.at + 2 <= Len(t) + 1
      <4>1. s.at + 1 \notin 1..Len(t) => n = "end"
        BY TextIs
      <4>2. QED
        BY <1>1, <1>2, <2>3, <4>1
    <3>3. Stay(s, 2) \in States(t) /\ Moves(s, Stay(s, 2), s.mode, 2)
      BY <1>2, <3>2, StayMoves
    <3> HIDE DEF r
    <3>4. StepTakes(d, t, s, r)
      BY <1>9, <2>3, <3>1, <3>3 DEF StepTakes
    <3>5. QED
      BY <3>1, <3>3, <3>4 DEF r
  <2>4. CASE c = "'" /\ n # "'"
    <3>1. r = Leave(s, 1)
      BY <2>1, <2>4 DEF InQuote
    <3> HIDE DEF r
    <3>2. StepTakes(d, t, s, r)
      BY <1>3, <1>9, <2>4, <3>1 DEF StepTakes
    <3>3. QED
      BY <1>3, <3>1, <3>2 DEF r
  <2>5. QED
    BY <2>2, <2>3, <2>4
<1>10. CASE s.mode = "code"
  <2>1. r = InCode(d, t, s)
    BY <1>10, StepBy
  <2>2. /\ c = "-" /\ n = "-" => r = Enter(s, "line")
        /\ c = "/" /\ n = "*" => r = Enter(s, "block")
        /\ c = "'" => r = Enter(s, "quote")
        /\ c = "\"" /\ d.idents => r = Enter(s, "ident")
        /\ c = "$" /\ d.dollars => r = Dollar(d, t, s)
        /\ c = ";" => r = Cut(t, s)
        /\ c = "(" => r = [Stay(s, 1) EXCEPT !.depth = @ + 1]
        /\ c = ")" => r = [Stay(s, 1) EXCEPT !.depth = @ - 1]
        /\ Plain(d, c, n) /\ c # "(" /\ c # ")" => r = Stay(s, 1)
    <3>1. CodeSteps(d, t, s, r)
      BY <2>1, InCodeBy
    <3>2. QED
      BY <3>1, Zenon DEF CodeSteps
  <2> HIDE DEF r, c, n
  <2>3. CASE c = "-" /\ n = "-"
    <3>1. r \in States(t) /\ Moves(s, r, "line", 1)
      BY <1>4, <2>2, <2>3, ModesAre
    <3>2. QED
      BY <1>10, <2>3, <3>1 DEF StepTakes, Plain, r, c, n
  <2>4. CASE c = "/" /\ n = "*"
    <3>1. r \in States(t) /\ Moves(s, r, "block", 1)
      BY <1>4, <2>2, <2>4, ModesAre
    <3>2. QED
      BY <1>10, <2>4, <3>1 DEF StepTakes, Plain, r, c, n
  <2>5. CASE c = "'"
    <3>1. r \in States(t) /\ Moves(s, r, "quote", 1)
      BY <1>4, <2>2, <2>5, ModesAre
    <3>2. QED
      BY <1>10, <2>5, <3>1 DEF StepTakes, Plain, r, c, n
  <2>6. CASE c = "\"" /\ d.idents
    <3>1. r \in States(t) /\ Moves(s, r, "ident", 1)
      BY <1>4, <2>2, <2>6, ModesAre
    <3>2. QED
      BY <1>10, <2>6, <3>1 DEF StepTakes, Plain, r, c, n
  <2>7. CASE c = "$" /\ d.dollars
    <3>1. r \in States(t) /\ Tagged(d, t, s, r)
      BY <1>10, <2>2, <2>7, DollarMoves
    <3>2. QED
      BY <1>10, <2>7, <3>1 DEF StepTakes, Plain, r, c, n
  <2>8. CASE c = ";"
    <3>1. r \in States(t) /\ CutsAt(t, s, r)
      BY <1>10, <2>2, <2>8, CutMoves
    <3>2. QED
      BY <1>10, <2>8, <3>1 DEF StepTakes, Plain, r, c, n
  <2>9. CASE Plain(d, c, n)
    <3>1. r \in States(t) /\ Moves(s, r, "code", 1)
      <4>1. CASE c = "(" \/ c = ")"
        <5>1. r \in {[Stay(s, 1) EXCEPT !.depth = @ + 1], [Stay(s, 1) EXCEPT !.depth = @ - 1]}
          BY <2>2, <4>1
        <5>2. QED
          BY <1>10, <5>1, ParenMoves
      <4>2. CASE c # "(" /\ c # ")"
        BY <1>3, <1>10, <2>2, <2>9, <4>2
      <4>3. QED
        BY <4>1, <4>2
    <3>2. QED
      BY <1>10, <2>9, <3>1 DEF StepTakes, Plain, r, c, n
  <2>10. QED
    BY <2>3, <2>4, <2>5, <2>6, <2>7, <2>8, <2>9 DEF Plain
<1>11. QED
  BY <1>1, <1>5, <1>6, <1>7, <1>8, <1>9, <1>10 DEF ScannerStates, Modes

LEMMA StepReadsOn ==
    ASSUME NEW d \in Dialects, NEW t \in Chars, NEW s \in States(t), s.at <= Len(t)
    PROVE  Step(d, t, s).at > s.at
<1> DEFINE r == Step(d, t, s)
           c == t[s.at]
           n == At(t, s.at + 1)
           j == TagEnd(t, s.at)
<1>1. s.mode \in Modes /\ s.at \in 1..Len(t) /\ s.at \in Nat /\ Len(t) \in Nat
  BY TextIs DEF States, ScannerStates
<1>2. StepTakes(d, t, s, r)
  BY StepMoves
<1>3. j \in s.at + 1..Len(t) + 1
  BY <1>1, TagEndIs
<1>4. \/ \E m \in Modes, k \in {1, 2} : Moves(s, r, m, k)
      \/ CutsAt(t, s, r)
      \/ Tagged(d, t, s, r)
  <2> HIDE DEF r
  <2>1. QED
    BY <1>1, <1>2, ModesAre DEF StepTakes, Plain, Modes
<1> HIDE DEF r, j
<1>5. ASSUME NEW m \in Modes, NEW k \in {1, 2}, Moves(s, r, m, k) PROVE r.at > s.at
  BY <1>1, <1>5 DEF Moves
<1>6. ASSUME CutsAt(t, s, r) PROVE r.at > s.at
  BY <1>1, <1>6 DEF CutsAt
<1>7. ASSUME Tagged(d, t, s, r) PROVE r.at > s.at
  <2>1. r.at = j + 1 \/ r.at = j
    BY <1>7 DEF Tagged, j
  <2>2. QED
    BY <1>1, <1>3, <2>1
<1>8. QED
  BY <1>4, <1>5, <1>6, <1>7 DEF r

----------------------------------------------------------------------------
(* SqlScanners: the run of a scanner. *)

LEMMA ScannerIs ==
    ASSUME NEW t \in Chars
    PROVE  /\ Scanner \in States(t) /\ Scanner.at = 1 /\ Scanner.mode = "code"
           /\ Scanner.start = 1 /\ Scanner.done = <<>> /\ Scanner.body = 1
<1>1. /\ Scanner.at = 1 /\ Scanner.mode = "code" /\ Scanner.tag = <<>> /\ Scanner.start = 1
      /\ Scanner.done = <<>> /\ Scanner.body = 1 /\ Scanner.depth = 0
  BY DEF Scanner
<1>2. <<>> \in Chars /\ <<>> \in Seq(Chars) /\ "code" \in Modes /\ 1 \in Nat \ {0}
  BY ModesAre DEF Chars
<1>3. Scanner \in ScannerStates
  BY <1>2 DEF Scanner, ScannerStates
<1>4. Len(t) \in Nat
  BY TextIs
<1>5. QED
  BY <1>1, <1>3, <1>4 DEF States

\* A scanner that has read everything rests.
Onward(d, t, s) == IF s.at > Len(t) THEN s ELSE Step(d, t, s)

IsRun(d, t, h) ==
    /\ h \in [0..Len(t) -> States(t)]
    /\ h[0] = Scanner
    /\ \A k \in 1..Len(t) : h[k] = Onward(d, t, h[k - 1])

LEMMA OnwardTyped ==
    ASSUME NEW d \in Dialects, NEW t \in Chars, NEW s \in States(t)
    PROVE  Onward(d, t, s) \in States(t)
<1>1. Len(t) \in Nat /\ s.at \in Nat
  BY TextIs DEF States, ScannerStates
<1>2. CASE s.at <= Len(t)
  BY <1>1, <1>2, StepMoves DEF Onward
<1>3. CASE s.at > Len(t)
  BY <1>3 DEF Onward
<1>4. QED
  BY <1>1, <1>2, <1>3

LEMMA ScanRuns ==
    ASSUME NEW d \in Dialects, NEW t \in Chars
    PROVE  \E h : IsRun(d, t, h) /\ Scan(d, t) = h[Len(t)]
<1> DEFINE n == Len(t)
           D == SUBSET (1..n)
           V == States(t)
           Is(f) == f = [A \in D |-> IF A = {} THEN Scanner
                                     ELSE IF f[A \ {Max(A)}].at > Len(t) THEN f[A \ {Max(A)}]
                                          ELSE Step(d, t, f[A \ {Max(A)}])]
           N == [s \in V |-> Onward(d, t, s)]
           total == Scan(d, t)
<1>1. n \in Nat /\ DOMAIN t = 1..n
  BY TextIs
<1>2. total = (CHOOSE f : Is(f))[1..n]
  BY <1>1, Zenon DEF Scan, FoldLeft, MapThenFoldSet
<1> HIDE DEF total
<1>3. N \in [V -> V] /\ Scanner \in V
  BY OnwardTyped, ScannerIs
<1> HIDE DEF n
<1>4. PICK f \in [D -> V] : StepsAlong(f, n, Scanner, N)
  <2> HIDE DEF N, V
  <2>1. QED
    BY <1>1, <1>3, StepsExist
<1>5. \A A \in D : A # {} => A \ {Max(A)} \in D
  BY <1>1, GreatestPlace
<1>6. \A A \in D : f[A] = IF A = {} THEN Scanner ELSE Onward(d, t, f[A \ {Max(A)}])
  <2>0. \A A \in D : f[A] = IF A = {} THEN Scanner ELSE N[f[A \ {Max(A)}]]
    BY <1>4 DEF StepsAlong
  <2> HIDE DEF D, V
  <2>1. \A A \in D : A # {} => f[A \ {Max(A)}] \in V
    BY <1>4, <1>5
  <2>2. \A s \in V : N[s] = Onward(d, t, s)
    OBVIOUS
  <2> HIDE DEF N
  <2>3. QED
    BY <2>0, <2>1, <2>2
<1>7. Is(f)
  <2>1. f = [A \in D |-> f[A]]
    BY <1>4
  <2>2. QED
    BY <1>6, <2>1 DEF Onward
<1> DEFINE g == CHOOSE e : Is(e)
<1>8. Is(g)
  <2> HIDE DEF Is
  <2>1. QED
    BY <1>7
<1>9. \A A \in D : g[A] = IF A = {} THEN Scanner ELSE Onward(d, t, g[A \ {Max(A)}])
  <2> HIDE DEF g, D
  <2>1. QED
    BY <1>8 DEF Onward
<1>10. total = g[1..n]
  BY <1>2
<1> HIDE DEF g, Is
<1> DEFINE h == [k \in 0..n |-> g[1..k]]
<1>11. 1..0 = {} /\ {} \in D
  BY <1>1
<1>12. h[0] = Scanner
  <2>1. h[0] = g[1..0]
    BY <1>1
  <2> HIDE DEF h, D
  <2>2. g[{}] = Scanner
    BY <1>9, <1>11
  <2>3. QED
    BY <1>11, <2>1, <2>2
<1>13. ASSUME NEW k \in 1..n PROVE h[k] = Onward(d, t, h[k - 1])
  <2>1. 1..k \in D /\ 1..k # {} /\ 1..k \ {Max(1..k)} = 1..k - 1
    BY <1>1, PlacesBefore
  <2>2. k \in 0..n /\ k - 1 \in 0..n
    BY <1>1
  <2>3. h[k] = g[1..k] /\ h[k - 1] = g[1..k - 1]
    BY <2>2
  <2> HIDE DEF h
  <2>4. g[1..k] = Onward(d, t, g[1..k \ {Max(1..k)}])
    BY <1>9, <2>1
  <2>5. QED
    BY <2>1, <2>3, <2>4
<1>14. \A k \in 0..n : h[k] \in V
  <2> DEFINE T == {k \in Nat : k <= n => h[k] \in V}
  <2> HIDE DEF h
  <2>1. 0 \in T
    BY <1>3, <1>12
  <2>2. ASSUME NEW k \in Nat, k \in T PROVE k + 1 \in T
    <3> SUFFICES ASSUME k + 1 <= n PROVE h[k + 1] \in V
      OBVIOUS
    <3>1. k + 1 \in 1..n /\ (k + 1) - 1 = k /\ k <= n
      BY <1>1
    <3>2. h[k + 1] = Onward(d, t, h[k]) /\ h[k] \in V
      BY <1>13, <2>2, <3>1
    <3>3. QED
      BY <3>2, OnwardTyped
  <2> HIDE DEF T
  <2>3. Nat \subseteq T
    BY <2>1, <2>2, Induction
  <2>4. QED
    BY <1>1, <2>3 DEF T
<1>15. h \in [0..n -> V] /\ total = h[n]
  BY <1>1, <1>10, <1>14
<1> HIDE DEF h
<1>16. IsRun(d, t, h)
  BY <1>12, <1>13, <1>15 DEF IsRun, n
<1>17. QED
  BY <1>15, <1>16 DEF n, total

\* A set of states that no step leaves.
Closed(d, t, I) ==
    /\ I \subseteq States(t) /\ Scanner \in I
    /\ \A s \in I : s.at <= Len(t) => Step(d, t, s) \in I

\* The states a scanner of t comes through.
Visited(d, t) == {s \in States(t) : \A I \in SUBSET States(t) : Closed(d, t, I) => s \in I}

LEMMA RunStays ==
    ASSUME NEW d \in Dialects, NEW t \in Chars, NEW h, IsRun(d, t, h), NEW I, Closed(d, t, I)
    PROVE  \A k \in 0..Len(t) : h[k] \in I
<1> DEFINE n == Len(t)
           T == {k \in Nat : k <= n => h[k] \in I}
<1>1. n \in Nat /\ \A k \in 0..n : h[k] \in States(t) /\ h[k].at \in Nat
  BY TextIs DEF IsRun, States, ScannerStates
<1>2. 0 \in T
  BY DEF IsRun, Closed
<1>3. ASSUME NEW k \in Nat, k \in T PROVE k + 1 \in T
  <2> SUFFICES ASSUME k + 1 <= n PROVE h[k + 1] \in I
    OBVIOUS
  <2>1. k + 1 \in 1..n /\ (k + 1) - 1 = k /\ k \in 0..n
    BY <1>1
  <2>2. h[k + 1] = Onward(d, t, h[k]) /\ h[k] \in I
    BY <1>3, <2>1 DEF IsRun
  <2>3. h[k].at <= n \/ h[k].at > n
    BY <1>1, <2>1
  <2>4. QED
    BY <2>2, <2>3 DEF Closed, Onward
<1> HIDE DEF T
<1>4. Nat \subseteq T
  BY <1>2, <1>3, Induction
<1>5. QED
  BY <1>1, <1>4 DEF T

LEMMA RunReadsOn ==
    ASSUME NEW d \in Dialects, NEW t \in Chars, NEW h, IsRun(d, t, h)
    PROVE  /\ \A k \in 0..Len(t) : h[k].at > k \/ h[k].at > Len(t)
           /\ \A k \in 0..Len(t) : h[k].at > Len(t) => h[Len(t)] = h[k]
<1> DEFINE n == Len(t)
           T == {k \in Nat : k <= n => h[k].at > k \/ h[k].at > n}
<1>1. n \in Nat /\ \A k \in 0..n : h[k] \in States(t) /\ h[k].at \in Nat
  BY TextIs DEF IsRun, States, ScannerStates
<1>2. 0 \in T
  BY ScannerIs DEF IsRun
<1>3. ASSUME NEW k \in Nat, k \in T PROVE k + 1 \in T
  <2> SUFFICES ASSUME k + 1 <= n PROVE h[k + 1].at > k + 1 \/ h[k + 1].at > n
    OBVIOUS
  <2>1. k + 1 \in 1..n /\ (k + 1) - 1 = k /\ k \in 0..n
    BY <1>1
  <2>2. h[k + 1] = Onward(d, t, h[k]) /\ (h[k].at > k \/ h[k].at > n)
    BY <1>3, <2>1 DEF IsRun
  <2>3. CASE h[k].at > n
    BY <2>2, <2>3 DEF Onward
  <2>4. CASE ~(h[k].at > n)
    <3>1. h[k + 1] = Step(d, t, h[k])
      BY <2>2, <2>4 DEF Onward
    <3>2. Step(d, t, h[k]).at > h[k].at
      BY <1>1, <2>1, <2>4, StepReadsOn
    <3>3. h[k + 1].at \in Nat
      BY <1>1
    <3>4. QED
      BY <1>1, <2>1, <2>2, <2>4, <3>1, <3>2, <3>3
  <2>5. QED
    BY <2>3, <2>4
<1> HIDE DEF T
<1>4. Nat \subseteq T
  BY <1>2, <1>3, Induction
<1>5. ASSUME NEW k \in 0..n, h[k].at > n PROVE h[n] = h[k]
  <2> DEFINE W == {m \in Nat : m >= k /\ m <= n => h[m] = h[k]}
  <2>1. 0 \in W
    BY <1>1
  <2>2. ASSUME NEW m \in Nat, m \in W PROVE m + 1 \in W
    <3> SUFFICES ASSUME m + 1 >= k, m + 1 <= n PROVE h[m + 1] = h[k]
      OBVIOUS
    <3>1. CASE m + 1 = k
      BY <3>1
    <3>2. CASE m + 1 # k
      <4>1. m >= k /\ m <= n /\ m + 1 \in 1..n /\ (m + 1) - 1 = m
        BY <1>1, <3>2
      <4>2. h[m + 1] = Onward(d, t, h[m]) /\ h[m] = h[k]
        BY <2>2, <4>1 DEF IsRun
      <4>3. QED
        BY <1>5, <4>2 DEF Onward
    <3>3. QED
      BY <3>1, <3>2
  <2> HIDE DEF W
  <2>3. Nat \subseteq W
    BY <2>1, <2>2, Induction
  <2>4. QED
    BY <1>1, <2>3 DEF W
<1>6. QED
  BY <1>1, <1>4, <1>5 DEF T


\* What holds of all the states of a scanner holds of its last.
LEMMA ScanInvariant ==
    ASSUME NEW d \in Dialects, NEW t \in Chars, NEW I, Closed(d, t, I)
    PROVE  Scan(d, t) \in I /\ Scan(d, t) \in States(t) /\ Scan(d, t).at = Len(t) + 1
<1>1. PICK h : IsRun(d, t, h) /\ Scan(d, t) = h[Len(t)]
  BY ScanRuns
<1>2. Len(t) \in Nat
  BY TextIs
<1>3. h[Len(t)] \in I
  BY <1>1, <1>2, RunStays
<1>4. h[Len(t)] \in States(t)
  BY <1>3 DEF Closed
<1>5. h[Len(t)].at > Len(t)
  BY <1>1, <1>2, RunReadsOn
<1>6. h[Len(t)].at <= Len(t) + 1 /\ h[Len(t)].at \in Nat
  BY <1>4 DEF States, ScannerStates
<1>7. QED
  BY <1>1, <1>2, <1>3, <1>4, <1>5, <1>6

LEMMA AllStatesClosed ==
    ASSUME NEW d \in Dialects, NEW t \in Chars PROVE Closed(d, t, States(t))
  BY ScannerIs, StepMoves DEF Closed

LEMMA ScanEnds ==
    ASSUME NEW d \in Dialects, NEW t \in Chars
    PROVE  Scan(d, t) \in States(t) /\ Scan(d, t).at = Len(t) + 1
  BY AllStatesClosed, ScanInvariant

LEMMA VisitedIs ==
    ASSUME NEW d \in Dialects, NEW t \in Chars
    PROVE  /\ Visited(d, t) \subseteq States(t)
           /\ Scanner \in Visited(d, t)
           /\ \A s \in Visited(d, t) : s.at <= Len(t) => Step(d, t, s) \in Visited(d, t)
           /\ Closed(d, t, Visited(d, t))
<1>1. Visited(d, t) \subseteq States(t) /\ Scanner \in Visited(d, t)
  BY ScannerIs DEF Visited, Closed
<1>2. ASSUME NEW s \in Visited(d, t), s.at <= Len(t) PROVE Step(d, t, s) \in Visited(d, t)
  <2>1. s \in States(t)
    BY <1>1
  <2>2. Step(d, t, s) \in States(t)
    BY <1>2, <2>1, StepMoves
  <2>3. ASSUME NEW I \in SUBSET States(t), Closed(d, t, I) PROVE Step(d, t, s) \in I
    <3>1. s \in I
      BY <2>3 DEF Visited
    <3>2. QED
      BY <1>2, <2>3, <3>1 DEF Closed
  <2>4. QED
    BY <2>2, <2>3 DEF Visited
<1>3. QED
  BY <1>1, <1>2 DEF Closed

\* A scanner that has read everything is where Scan ends.
LEMMA VisitEnds ==
    ASSUME NEW d \in Dialects, NEW t \in Chars, NEW s \in Visited(d, t), s.at > Len(t)
    PROVE  Scan(d, t) = s
<1>1. PICK h : IsRun(d, t, h) /\ Scan(d, t) = h[Len(t)]
  BY ScanRuns
<1> DEFINE n == Len(t)
           I == {r \in States(t) : \E k \in 0..n : h[k] = r}
<1>2. n \in Nat /\ \A k \in 0..n : h[k] \in States(t) /\ h[k].at \in Nat
  BY <1>1, TextIs DEF IsRun, States, ScannerStates
<1>3. Closed(d, t, I)
  <2>1. Scanner \in I
    BY <1>1, <1>2 DEF IsRun
  <2>2. ASSUME NEW r \in I, r.at <= n PROVE Step(d, t, r) \in I
    <3>1. PICK k \in 0..n : h[k] = r
      OBVIOUS
    <3>2. k + 1 \in 1..n /\ (k + 1) - 1 = k /\ k + 1 \in 0..n
      <4>1. h[k].at > k \/ h[k].at > n
        BY <1>1, RunReadsOn
      <4>2. k < h[k].at /\ h[k].at \in Nat /\ h[k].at <= n
        BY <1>2, <2>2, <3>1, <4>1
      <4>3. QED
        BY <1>2, <4>2
    <3>3. h[k + 1] = Onward(d, t, r)
      BY <1>1, <3>1, <3>2 DEF IsRun
    <3>4. Onward(d, t, r) = Step(d, t, r)
      <4>1. ~(r.at > n)
        BY <1>2, <2>2, <3>1
      <4>2. QED
        BY <4>1 DEF Onward
    <3>5. QED
      BY <1>2, <3>2, <3>3, <3>4
  <2>3. I \subseteq States(t)
    OBVIOUS
  <2> HIDE DEF I
  <2>4. QED
    BY <2>1, <2>2, <2>3 DEF Closed
<1>4. s \in I
  <2>1. I \in SUBSET States(t)
    OBVIOUS
  <2> HIDE DEF I
  <2>2. QED
    BY <1>3, <2>1 DEF Visited
<1>5. PICK k \in 0..n : h[k] = s
  BY <1>4
<1>6. QED
  BY <1>1, <1>2, <1>5, RunReadsOn

LEMMA ScanVisited ==
    ASSUME NEW d \in Dialects, NEW t \in Chars
    PROVE  Scan(d, t) \in Visited(d, t)
  BY VisitedIs, ScanInvariant

----------------------------------------------------------------------------
(* SqlText: the statements are the text. *)

\* The statements put together again, each with its semicolon.
WithSemicolons(done) == [i \in DOMAIN done |-> done[i] \o <<";">>]
Glued(done) == FlattenSeq(WithSemicolons(done))

LEMMA OneIs == ASSUME NEW S, NEW c \in S PROVE <<c>> \in Seq(S)
  OBVIOUS

LEMMA SequenceOf ==
    ASSUME NEW S, NEW n \in Nat, NEW w \in [1..n -> S] PROVE w \in Seq(S) /\ Len(w) = n
  OBVIOUS

AppendHolds(S, q, e) ==
    /\ Append(q, e) \in Seq(S) /\ Len(Append(q, e)) = Len(q) + 1
    /\ \A i \in 1..Len(q) : Append(q, e)[i] = q[i]
    /\ Append(q, e)[Len(q) + 1] = e

LEMMA AppendIs == ASSUME NEW S, NEW q \in Seq(S), NEW e \in S PROVE AppendHolds(S, q, e)
  BY DEF AppendHolds

LEMMA GluedAppend ==
    ASSUME NEW done \in Seq(Chars), NEW p \in Chars
    PROVE  /\ Glued(<<>>) = <<>>
           /\ Glued(done) \in Chars
           /\ Glued(Append(done, p)) = Glued(done) \o (p \o <<";">>)
<1>1. \A c \in Chars : c \o <<";">> \in Chars
  <2>1. ";" \in Alphabet
    BY DEF Alphabet, Marks
  <2>2. <<";">> \in Seq(Alphabet)
    BY <2>1, OneIs
  <2>3. \A c, e \in Seq(Alphabet) : c \o e \in Seq(Alphabet)
    OBVIOUS
  <2>4. QED
    BY <2>2, <2>3 DEF Chars
<1>2. \A q \in Seq(Chars) : WithSemicolons(q) \in Seq(Chars) /\ Len(WithSemicolons(q)) = Len(q)
                            /\ \A i \in 1..Len(q) : WithSemicolons(q)[i] = q[i] \o <<";">>
  <2> SUFFICES ASSUME NEW q \in Seq(Chars)
               PROVE  WithSemicolons(q) \in Seq(Chars) /\ Len(WithSemicolons(q)) = Len(q)
                      /\ \A i \in 1..Len(q) : WithSemicolons(q)[i] = q[i] \o <<";">>
    OBVIOUS
  <2>1. DOMAIN q = 1..Len(q) /\ Len(q) \in Nat /\ \A i \in 1..Len(q) : q[i] \in Chars
    OBVIOUS
  <2>2. WithSemicolons(q) = [i \in 1..Len(q) |-> q[i] \o <<";">>]
    BY <2>1 DEF WithSemicolons
  <2> DEFINE w == WithSemicolons(q)
  <2>3. w \in [1..Len(q) -> Chars] /\ \A i \in 1..Len(q) : w[i] = q[i] \o <<";">>
    BY <1>1, <2>1, <2>2
  <2> HIDE DEF w
  <2>4. w \in Seq(Chars) /\ Len(w) = Len(q)
    BY <2>1, <2>3, SequenceOf
  <2>5. QED
    BY <2>3, <2>4 DEF w
<1>3. Append(done, p) \in Seq(Chars) /\ Len(Append(done, p)) = Len(done) + 1 /\ Len(done) \in Nat
      /\ (\A i \in 1..Len(done) : Append(done, p)[i] = done[i]) /\ Append(done, p)[Len(done) + 1] = p
  OBVIOUS
<1>4. WithSemicolons(Append(done, p)) = Append(WithSemicolons(done), p \o <<";">>)
  <2> DEFINE a == WithSemicolons(Append(done, p))
             w == WithSemicolons(done)
             x == p \o <<";">>
             b == Append(w, x)
  <2>1. a \in Seq(Chars) /\ Len(a) = Len(done) + 1 /\ w \in Seq(Chars) /\ Len(w) = Len(done)
        /\ (\A i \in 1..Len(done) : w[i] = done[i] \o <<";">>)
        /\ (\A i \in 1..Len(done) + 1 : a[i] = Append(done, p)[i] \o <<";">>)
    BY <1>2, <1>3
  <2>2. x \in Chars
    BY <1>1
  <2> HIDE DEF a, w
  <2>3. (\A i \in 1..Len(done) : a[i] = w[i]) /\ a[Len(done) + 1] = x
    <3>1. \A i \in 1..Len(done) : i \in 1..Len(done) + 1
      BY <1>3
    <3>2. Len(done) + 1 \in 1..Len(done) + 1
      BY <1>3
    <3>3. QED
      BY <1>3, <2>1, <3>1, <3>2
  <2> HIDE DEF x
  <2>4. b \in Seq(Chars) /\ Len(b) = Len(done) + 1 /\ (\A i \in 1..Len(done) : b[i] = w[i])
        /\ b[Len(done) + 1] = x
    <3>1. w \in Seq(Chars) /\ x \in Chars
      BY <2>1, <2>2
    <3>2. AppendHolds(Chars, w, x)
      BY <3>1, AppendIs
    <3>3. QED
      BY <2>1, <3>2 DEF AppendHolds
  <2> HIDE DEF b
  <2>5. \A i \in 1..Len(done) + 1 : a[i] = b[i]
    <3> SUFFICES ASSUME NEW i \in 1..Len(done) + 1 PROVE a[i] = b[i]
      OBVIOUS
    <3>1. i \in 1..Len(done) \/ i = Len(done) + 1
      BY <1>3
    <3>2. QED
      BY <2>3, <2>4, <3>1
  <2>6. a = b
    BY <2>1, <2>4, <2>5, SeqEqual
  <2>7. QED
    BY <2>6 DEF a, b, w, x
<1>5. Glued(<<>>) = <<>>
  <2>1. WithSemicolons(<<>>) = <<>>
    BY DEF WithSemicolons
  <2>2. FlattenSeq(<<>>) = <<>>
    BY DEF FlattenSeq
  <2>3. QED
    BY <2>1, <2>2 DEF Glued
<1>6. WithSemicolons(done) \in Seq(Seq(Alphabet)) /\ p \o <<";">> \in Seq(Alphabet)
  BY <1>1, <1>2 DEF Chars
<1>7. Glued(done) \in Chars
  BY <1>6, FlattenParts DEF Glued, Chars
<1>8. Glued(Append(done, p)) = Glued(done) \o (p \o <<";">>)
  BY <1>4, <1>6, FlattenAppend DEF Glued
<1>9. QED
  BY <1>5, <1>7, <1>8

LEMMA GluedEmpty == Glued(<<>>) = <<>>
<1>1. <<>> \in Seq(Chars) /\ <<>> \in Chars
  BY DEF Chars
<1>2. QED
  BY <1>1, GluedAppend

\* What a part of a text holds.
PartHolds(t, i, j) ==
    /\ SubSeq(t, i, j) \in Chars
    /\ Len(SubSeq(t, i, j)) = j - i + 1
    /\ \A k \in 1..j - i + 1 : SubSeq(t, i, j)[k] = t[i + k - 1]

LEMMA PartIs ==
    ASSUME NEW t \in Chars, NEW i \in 1..Len(t) + 1, NEW j \in 0..Len(t), i <= j + 1
    PROVE  PartHolds(t, i, j)
  BY PartOfText DEF PartHolds

\* What two texts hold together.
JoinHolds(a, b) ==
    /\ a \o b \in Chars /\ Len(a \o b) = Len(a) + Len(b)
    /\ \A x \in 1..Len(a) + Len(b) :
          (a \o b)[x] = IF x <= Len(a) THEN a[x] ELSE b[x - Len(a)]

LEMMA JoinIs == ASSUME NEW a \in Chars, NEW b \in Chars PROVE JoinHolds(a, b)
  BY ConcatProperties DEF JoinHolds, Chars


\* A step either cuts or leaves what was cut as it is.
LEMMA StepKinds ==
    ASSUME NEW d \in Dialects, NEW t \in Chars, NEW s \in States(t), s.at <= Len(t)
    PROVE  LET r == Step(d, t, s)
           IN  \/ /\ s.mode = "code" /\ t[s.at] = ";" /\ CutsAt(t, s, r)
               \/ /\ r.start = s.start /\ r.done = s.done
<1> DEFINE r == Step(d, t, s)
<1>1. s.mode \in Modes
  BY DEF States, ScannerStates
<1>2. StepTakes(d, t, s, r)
  BY StepMoves
<1> HIDE DEF r
<1>3. \/ s.mode = "code" /\ t[s.at] = ";" /\ CutsAt(t, s, r)
      \/ Tagged(d, t, s, r)
      \/ \E m \in Modes, k \in {1, 2} : Moves(s, r, m, k)
  BY <1>1, <1>2, ModesAre DEF StepTakes, Plain, Modes
<1>4. QED
  BY <1>3 DEF Tagged, Moves, r

\* A text is what stands up to a place and what follows.
LEMMA TextSplit ==
    ASSUME NEW t \in Chars, NEW i \in 1..Len(t), NEW k \in 1..i
    PROVE  SubSeq(t, 1, i) = SubSeq(t, 1, k - 1) \o (SubSeq(t, k, i - 1) \o <<t[i]>>)
<1> DEFINE n == Len(t)
           a == SubSeq(t, 1, k - 1)
           b == SubSeq(t, k, i - 1)
           c == SubSeq(t, 1, i)
           e == <<t[i]>>
<1>1. n \in Nat /\ t[i] \in Alphabet
  BY TextIs
<1>2. a \in Chars /\ Len(a) = k - 1 /\ \A x \in 1..k - 1 : a[x] = t[x]
  <2>1. 1 \in 1..n + 1 /\ k - 1 \in 0..n /\ 1 <= (k - 1) + 1 /\ (k - 1) - 1 + 1 = k - 1
    BY <1>1
  <2>2. PartHolds(t, 1, k - 1)
    BY <2>1, PartIs
  <2>3. \A x \in 1..k - 1 : 1 + x - 1 = x
    BY <2>1
  <2>4. QED
    BY <2>1, <2>2, <2>3 DEF PartHolds
<1>3. b \in Chars /\ Len(b) = i - k /\ \A x \in 1..i - k : b[x] = t[k + x - 1]
  <2>1. k \in 1..n + 1 /\ i - 1 \in 0..n /\ k <= (i - 1) + 1 /\ (i - 1) - k + 1 = i - k
    BY <1>1
  <2>2. PartHolds(t, k, i - 1)
    BY <2>1, PartIs
  <2>3. QED
    BY <2>1, <2>2 DEF PartHolds
<1>4. c \in Chars /\ Len(c) = i /\ \A x \in 1..i : c[x] = t[x]
  <2>1. 1 \in 1..n + 1 /\ i \in 0..n /\ 1 <= i + 1 /\ i - 1 + 1 = i
    BY <1>1
  <2>2. PartHolds(t, 1, i)
    BY <2>1, PartIs
  <2>3. \A x \in 1..i : 1 + x - 1 = x
    BY <2>1
  <2>4. QED
    BY <2>1, <2>2, <2>3 DEF PartHolds
<1>5. e \in Chars /\ Len(e) = 1 /\ e[1] = t[i]
  BY <1>1, OneIs DEF Chars
<1> HIDE DEF a, b, c, e, n
<1> DEFINE p == b \o e
<1>6. p \in Chars /\ Len(p) = (i - k) + 1 /\ (\A x \in 1..i - k : p[x] = b[x]) /\ p[(i - k) + 1] = t[i]
  <2>1. JoinHolds(b, e)
    BY <1>3, <1>5, JoinIs
  <2>2. i - k \in Nat /\ (i - k) + 1 - (i - k) = 1 /\ (i - k) + 1 \in 1..(i - k) + 1
    OBVIOUS
  <2>3. \A x \in 1..i - k : x \in 1..(i - k) + 1 /\ x <= i - k
    BY <2>2
  <2>4. ~((i - k) + 1 <= i - k)
    BY <2>2
  <2>5. QED
    BY <1>3, <1>5, <2>1, <2>2, <2>3, <2>4 DEF JoinHolds
<1> HIDE DEF p
<1> DEFINE q == a \o p
<1>7. q \in Chars /\ Len(q) = i /\ (\A x \in 1..k - 1 : q[x] = a[x])
      /\ (\A x \in k..i : q[x] = p[x - (k - 1)])
  <2>1. JoinHolds(a, p)
    BY <1>2, <1>6, JoinIs
  <2>2. (k - 1) + ((i - k) + 1) = i /\ \A x \in 1..k - 1 : x \in 1..i /\ x <= k - 1
    OBVIOUS
  <2>3. \A x \in k..i : x \in 1..i /\ ~(x <= k - 1)
    OBVIOUS
  <2>4. QED
    BY <1>2, <1>6, <2>1, <2>2, <2>3 DEF JoinHolds
<1> HIDE DEF q
<1>8. \A x \in 1..i : c[x] = q[x]
  <2> SUFFICES ASSUME NEW x \in 1..i PROVE c[x] = q[x]
    OBVIOUS
  <2>1. CASE x \in 1..k - 1
    BY <1>2, <1>4, <1>7, <2>1
  <2>2. CASE x \in k..i - 1
    <3>1. x - (k - 1) \in 1..i - k /\ k + (x - (k - 1)) - 1 = x /\ x \in k..i
      BY <2>2
    <3>2. q[x] = p[x - (k - 1)] /\ p[x - (k - 1)] = b[x - (k - 1)]
      BY <1>6, <1>7, <3>1
    <3>3. b[x - (k - 1)] = t[x]
      BY <1>3, <3>1
    <3>4. QED
      BY <1>4, <3>2, <3>3
  <2>3. CASE x = i
    <3>1. x - (k - 1) = (i - k) + 1 /\ x \in k..i
      BY <2>3
    <3>2. q[x] = p[(i - k) + 1]
      BY <1>7, <3>1
    <3>3. QED
      BY <1>4, <1>6, <2>3, <3>2
  <2>4. x \in 1..k - 1 \/ x \in k..i - 1 \/ x = i
    OBVIOUS
  <2>5. QED
    BY <2>1, <2>2, <2>3, <2>4
<1>9. c = q
  BY <1>4, <1>7, <1>8, SeqEqual DEF Chars
<1>10. QED
  BY <1>9 DEF c, q, a, p, b, e

LEMMA SplitterKnown == Splitter \in Dialects
  BY DEF Dialects

\* What was cut is the text up to where the current statement begins.
LEMMA CutsGlue ==
    ASSUME NEW t \in Chars
    PROVE  LET s == Scan(Splitter, t)
           IN  s \in States(t) /\ Glued(s.done) = SubSeq(t, 1, s.start - 1)
<1> DEFINE I == {s \in States(t) : Glued(s.done) = SubSeq(t, 1, s.start - 1)}
<1>1. Scanner \in I
  <2>1. Glued(<<>>) = <<>>
    BY GluedEmpty
  <2>2. SubSeq(t, 1, 0) = <<>>
    BY TextIs DEF Chars
  <2>3. Scanner.start - 1 = 0
    BY ScannerIs
  <2>4. QED
    BY <2>1, <2>2, <2>3, ScannerIs
<1>2. ASSUME NEW s \in I, s.at <= Len(t) PROVE Step(Splitter, t, s) \in I
  <2> DEFINE r == Step(Splitter, t, s)
  <2>1. /\ s \in States(t) /\ s.done \in Seq(Chars) /\ s.at \in 1..Len(t) /\ s.start \in 1..s.at
        /\ Glued(s.done) = SubSeq(t, 1, s.start - 1)
    <3>1. s \in States(t) /\ Glued(s.done) = SubSeq(t, 1, s.start - 1)
      OBVIOUS
    <3>2. s.done \in Seq(Chars) /\ s.at \in Nat \ {0} /\ s.start \in Nat \ {0} /\ s.start <= s.at
      BY <3>1 DEF States, ScannerStates
    <3>3. QED
      BY <1>2, <3>1, <3>2, TextIs
  <2>2. r \in States(t)
    BY <1>2, <2>1, SplitterKnown, StepMoves
  <2> HIDE DEF I
  <2>3. CASE r.start = s.start /\ r.done = s.done
    BY <2>1, <2>2, <2>3 DEF I
  <2>4. CASE t[s.at] = ";" /\ CutsAt(t, s, r)
    <3> DEFINE p == SubSeq(t, s.start, s.at - 1)
    <3>1. p \in Chars
      <4>1. s.start \in 1..Len(t) + 1 /\ s.at - 1 \in 0..Len(t) /\ s.start <= (s.at - 1) + 1
        BY <2>1, TextIs
      <4>2. QED
        BY <4>1, PartOfText
    <3>2. r.done = Append(s.done, p) /\ r.start = s.at + 1
      BY <2>4 DEF CutsAt
    <3>3. SubSeq(t, 1, s.at) = SubSeq(t, 1, s.start - 1) \o (p \o <<";">>)
      BY <2>1, <2>4, TextSplit
    <3> HIDE DEF p, r
    <3>4. Glued(Append(s.done, p)) = Glued(s.done) \o (p \o <<";">>)
      BY <2>1, <3>1, GluedAppend
    <3>5. r.start - 1 = s.at
      BY <2>1, <3>2
    <3>6. Glued(r.done) = SubSeq(t, 1, r.start - 1)
      BY <2>1, <3>2, <3>3, <3>4, <3>5
    <3>7. QED
      BY <2>2, <3>6 DEF I, r
  <2>5. QED
    BY <1>2, <2>1, <2>3, <2>4, SplitterKnown, StepKinds
<1>3. Closed(Splitter, t, I)
  <2>1. I \subseteq States(t)
    OBVIOUS
  <2> HIDE DEF I
  <2>2. QED
    BY <1>1, <1>2, <2>1 DEF Closed
<1>4. Scan(Splitter, t) \in I
  <2> HIDE DEF I
  <2>1. QED
    BY <1>3, SplitterKnown, ScanInvariant
<1>5. QED
  BY <1>4


LEMMA StateIs ==
    ASSUME NEW t \in Chars, NEW s \in States(t)
    PROVE  /\ s.at \in Nat /\ s.at >= 1 /\ s.at <= Len(t) + 1
           /\ s.start \in Nat /\ s.start >= 1 /\ s.start <= s.at
           /\ s.body \in Nat /\ s.body >= 1 /\ s.body <= s.at
           /\ s.mode \in Modes /\ s.tag \in Chars /\ s.done \in Seq(Chars)
  BY DEF States, ScannerStates

\* u is t from the character behind o on.
FromPlace(t, o, u) ==
    /\ u \in Chars /\ Len(u) = Len(t) - o
    /\ \A k \in 1..Len(t) - o : u[k] = t[k + o]
    /\ \A k \in Nat \ {0} : At(u, k) = At(t, k + o)

LEMMA RestIs ==
    ASSUME NEW t \in Chars, NEW o \in 0..Len(t)
    PROVE  FromPlace(t, o, SubSeq(t, o + 1, Len(t)))
<1> DEFINE u == SubSeq(t, o + 1, Len(t))
           n == Len(t)
<1>1. n \in Nat /\ o + 1 \in 1..n + 1 /\ n \in 0..n /\ o + 1 <= n + 1
  BY TextIs
<1>2. PartHolds(t, o + 1, n)
  BY <1>1, PartIs
<1>3. u \in Chars /\ Len(u) = n - o /\ \A k \in 1..n - o : u[k] = t[k + o]
  <2>1. n - (o + 1) + 1 = n - o /\ \A k \in 1..n - o : (o + 1) + k - 1 = k + o
    BY <1>1
  <2>2. QED
    BY <1>2, <2>1 DEF PartHolds
<1> HIDE DEF u
<1>4. ASSUME NEW k \in Nat \ {0} PROVE At(u, k) = At(t, k + o)
  <2>1. DOMAIN u = 1..n - o /\ DOMAIN t = 1..n
    BY <1>3, TextIs
  <2>2. k \in 1..n - o <=> k + o \in 1..n
    BY <1>1
  <2>3. QED
    BY <1>3, <2>1, <2>2 DEF At
<1>5. QED
  BY <1>3, <1>4 DEF FromPlace, u

SamePart(t, o, u, i, j) == SubSeq(u, i, j) = SubSeq(t, i + o, j + o)

LEMMA PartShift ==
    ASSUME NEW t \in Chars, NEW o \in 0..Len(t), NEW u, FromPlace(t, o, u),
           NEW i \in 1..Len(u) + 1, NEW j \in 0..Len(u), i <= j + 1
    PROVE  SamePart(t, o, u, i, j)
<1> DEFINE a == SubSeq(u, i, j)
           b == SubSeq(t, i + o, j + o)
<1>1. u \in Chars /\ Len(u) = Len(t) - o /\ Len(t) \in Nat
      /\ \A k \in 1..Len(t) - o : u[k] = t[k + o]
  BY TextIs DEF FromPlace
<1>2. PartHolds(u, i, j)
  BY <1>1, PartIs
<1>3. PartHolds(t, i + o, j + o)
  <2>1. i + o \in 1..Len(t) + 1 /\ j + o \in 0..Len(t) /\ i + o <= (j + o) + 1
    BY <1>1
  <2>2. QED
    BY <2>1, PartIs
<1>4. a \in Chars /\ b \in Chars /\ Len(a) = j - i + 1 /\ Len(b) = j - i + 1
  <2>1. (j + o) - (i + o) + 1 = j - i + 1
    BY <1>1
  <2>2. QED
    BY <1>2, <1>3, <2>1 DEF PartHolds
<1>5. ASSUME NEW k \in 1..j - i + 1 PROVE a[k] = b[k]
  <2>1. a[k] = u[i + k - 1]
    BY <1>2 DEF PartHolds
  <2>2. (j + o) - (i + o) + 1 = j - i + 1
    BY <1>1
  <2>3. b[k] = t[(i + o) + k - 1]
    BY <1>3, <2>2 DEF PartHolds
  <2>4. i + k - 1 \in 1..Len(t) - o /\ (i + k - 1) + o = (i + o) + k - 1
    BY <1>1
  <2>5. QED
    BY <1>1, <2>1, <2>3, <2>4
<1> HIDE DEF a, b
<1>6. a = b
  BY <1>4, <1>5, SeqEqual DEF Chars
<1>7. QED
  BY <1>6 DEF a, b, SamePart

\* There is only one place where the letters stop.
LEMMA TagEndOnly ==
    ASSUME NEW t \in Chars, NEW i \in 1..Len(t), NEW j \in i + 1..Len(t) + 1,
           At(t, j) \notin Letters, \A k \in i + 1..j - 1 : At(t, k) \in Letters
    PROVE  TagEnd(t, i) = j
<1> DEFINE e == TagEnd(t, i)
<1>1. /\ e \in i + 1..Len(t) + 1 /\ At(t, e) \notin Letters
      /\ \A k \in i + 1..e - 1 : At(t, k) \in Letters
  <2>1. \A k \in i + 1..e - 1 : k \in 1..Len(t) /\ t[k] \in Letters
    BY TagEndIs
  <2>2. e \in i + 1..Len(t) + 1 /\ At(t, e) \notin Letters
    BY TagEndIs
  <2> HIDE DEF e
  <2>3. \A k \in i + 1..e - 1 : At(t, k) = t[k]
    BY <2>1, TextIs
  <2>4. QED
    BY <2>1, <2>2, <2>3
<1>2. Len(t) \in Nat
  BY TextIs
<1> HIDE DEF e
<1>3. ~(e < j)
  <2> SUFFICES ASSUME e < j PROVE FALSE
    OBVIOUS
  <2>1. e \in i + 1..j - 1
    BY <1>1, <1>2
  <2>2. QED
    BY <1>1, <2>1
<1>4. ~(j < e)
  <2> SUFFICES ASSUME j < e PROVE FALSE
    OBVIOUS
  <2>1. j \in i + 1..e - 1
    BY <1>1, <1>2
  <2>2. QED
    BY <1>1, <2>1
<1>5. e = j
  BY <1>1, <1>2, <1>3, <1>4
<1>6. QED
  BY <1>5 DEF e

LEMMA TagEndShift ==
    ASSUME NEW t \in Chars, NEW o \in 0..Len(t), NEW u, FromPlace(t, o, u), NEW i \in 1..Len(u)
    PROVE  TagEnd(t, i + o) = TagEnd(u, i) + o
<1>1. u \in Chars /\ Len(u) = Len(t) - o /\ Len(t) \in Nat
      /\ \A k \in Nat \ {0} : At(u, k) = At(t, k + o)
  BY TextIs DEF FromPlace
<1> DEFINE j == TagEnd(u, i)
<1>2. /\ j \in i + 1..Len(u) + 1 /\ At(u, j) \notin Letters
      /\ \A k \in i + 1..j - 1 : k \in 1..Len(u) /\ u[k] \in Letters
  BY <1>1, TagEndIs
<1> HIDE DEF j
<1>3. i + o \in 1..Len(t) /\ j + o \in (i + o) + 1..Len(t) + 1 /\ j \in Nat \ {0}
  BY <1>1, <1>2
<1>4. At(t, j + o) \notin Letters
  BY <1>1, <1>2, <1>3
<1>5. ASSUME NEW k \in (i + o) + 1..(j + o) - 1 PROVE At(t, k) \in Letters
  <2>1. k - o \in i + 1..j - 1 /\ (k - o) + o = k /\ k - o \in Nat \ {0}
    BY <1>1, <1>2
  <2>2. At(u, k - o) = u[k - o] /\ u[k - o] \in Letters
    BY <1>1, <1>2, <2>1, TextIs
  <2>3. QED
    BY <1>1, <2>1, <2>2
<1>6. TagEnd(t, i + o) = j + o
  BY <1>3, <1>4, <1>5, TagEndOnly
<1>7. QED
  BY <1>6 DEF j

\* The splitter in s on t is as it is in r on the text from the start of the
\* current statement on.
SameBehind(s, r) ==
    /\ r.at = s.at - (s.start - 1) /\ r.mode = s.mode
    /\ r.start = 1 /\ r.done = <<>>
    /\ s.mode # "code" => s.at > s.start
    /\ s.mode = "dollar" => r.tag = s.tag /\ s.body = s.start /\ r.body = 1

\* A statement ends where s reads.
AtCut(t, s) == s.mode = "code" /\ t[s.at] = ";"

LEMMA StepBehind ==
    ASSUME NEW t \in Chars, NEW s \in States(t), s.at <= Len(t),
           NEW u, FromPlace(t, s.start - 1, u),
           NEW r \in States(u), SameBehind(s, r),
           ~AtCut(t, s)
    PROVE  /\ r.at <= Len(u)
           /\ SameBehind(Step(Splitter, t, s), Step(Splitter, u, r))
           /\ Step(Splitter, t, s).start = s.start
<1> DEFINE o == s.start - 1
           s1 == Step(Splitter, t, s)
           r1 == Step(Splitter, u, r)
<1>0. Len(t) \in Nat
  BY TextIs
<1>1. /\ s.at \in Nat /\ s.at >= 1 /\ s.at <= Len(t)
      /\ s.start \in Nat /\ s.start >= 1 /\ s.start <= s.at /\ s.mode \in Modes
  BY StateIs
<1>2. o \in 0..Len(t) /\ o + 1 = s.start /\ o \in Nat
  BY <1>0, <1>1
<1>3. FromPlace(t, o, u)
  OBVIOUS
<1>4. /\ u \in Chars /\ Len(u) = Len(t) - o
      /\ \A k \in 1..Len(t) - o : u[k] = t[k + o]
      /\ \A k \in Nat \ {0} : At(u, k) = At(t, k + o)
  BY <1>3 DEF FromPlace
<1>5. r.at = s.at - o /\ r.mode = s.mode /\ r.start = 1 /\ r.done = <<>>
      /\ (s.mode # "code" => s.at > s.start)
      /\ (s.mode = "dollar" => r.tag = s.tag /\ s.body = s.start /\ r.body = 1)
  BY DEF SameBehind
<1>6. r.at \in 1..Len(u) /\ r.at <= Len(u) /\ r.at + o = s.at /\ (r.at + 1) + o = s.at + 1
      /\ r.at + 1 \in Nat \ {0}
  <2>1. r.at = s.at - o /\ Len(u) = Len(t) - o
    BY <1>4, <1>5
  <2>2. s.at - o \in 1..Len(t) - o /\ (s.at - o) + o = s.at /\ ((s.at - o) + 1) + o = s.at + 1
        /\ s.at - o <= Len(t) - o /\ (s.at - o) + 1 \in Nat \ {0}
    BY <1>0, <1>1, <1>2
  <2>3. QED
    BY <2>1, <2>2
<1>7. u[r.at] = t[s.at] /\ At(u, r.at + 1) = At(t, s.at + 1)
  BY <1>4, <1>6
<1>8. StepTakes(Splitter, t, s, s1) /\ StepTakes(Splitter, u, r, r1)
  BY <1>4, <1>6, SplitterKnown, StepMoves
<1> HIDE DEF o, s1, r1
<1>9. ASSUME NEW m \in Modes, NEW k \in {1, 2}, Moves(s, s1, m, k), Moves(r, r1, m, k),
             m = "dollar" => s.mode = "dollar"
      PROVE  SameBehind(s1, r1) /\ s1.start = s.start
  <2>1. /\ s1.at = s.at + k /\ s1.mode = m /\ s1.tag = s.tag /\ s1.body = s.body
        /\ s1.start = s.start /\ s1.done = s.done
        /\ r1.at = r.at + k /\ r1.mode = m /\ r1.tag = r.tag /\ r1.body = r.body
        /\ r1.start = r.start /\ r1.done = r.done
    BY <1>9 DEF Moves
  <2>2. s1.at - (s1.start - 1) = (s.at - (s.start - 1)) + k /\ s1.at > s1.start
    BY <1>1, <2>1
  <2>3. QED
    BY <1>5, <1>9, <2>1, <2>2 DEF SameBehind, o
<1>10. CASE s.mode = "dollar"
  <2>1. SubSeq(t, s.body, s.at) = SubSeq(u, r.body, r.at)
    <3>1. 1 \in 1..Len(u) + 1 /\ r.at \in 0..Len(u) /\ 1 <= r.at + 1
      BY <1>4, <1>6
    <3>2. SamePart(t, o, u, 1, r.at)
      BY <1>2, <1>3, <3>1, PartShift
    <3>3. 1 + o = s.start
      BY <1>2
    <3>4. QED
      BY <1>5, <1>6, <1>10, <3>2, <3>3 DEF SamePart
  <2> DEFINE m == IF IsSuffix(<<"$">> \o s.tag \o <<"$">>, SubSeq(t, s.body, s.at))
                  THEN "code" ELSE "dollar"
  <2>2. Moves(s, s1, m, 1)
    BY <1>8, <1>10 DEF StepTakes
  <2>3. Moves(r, r1, IF IsSuffix(<<"$">> \o r.tag \o <<"$">>, SubSeq(u, r.body, r.at))
                     THEN "code" ELSE "dollar", 1)
    BY <1>5, <1>8, <1>10 DEF StepTakes
  <2>4. Moves(r, r1, m, 1)
    BY <1>5, <1>10, <2>1, <2>3
  <2>5. m \in Modes
    BY ModesAre
  <2> HIDE DEF m
  <2>6. QED
    BY <1>6, <1>9, <1>10, <2>2, <2>4, <2>5 DEF s1, r1
<1>11. CASE s.mode = "block"
  <2>1. r.at - 1 \in 1..Len(t) - o /\ (r.at - 1) + o = s.at - 1
    <3>1. s.at > s.start /\ r.at = s.at - o
      BY <1>5, <1>11
    <3>2. (s.at - o) - 1 \in 1..Len(t) - o /\ ((s.at - o) - 1) + o = s.at - 1
      BY <1>0, <1>1, <1>2, <3>1
    <3>3. QED
      BY <3>1, <3>2
  <2>2. u[r.at - 1] = t[s.at - 1]
    BY <1>4, <2>1
  <2> DEFINE m == IF t[s.at] = "/" /\ t[s.at - 1] = "*" THEN "code" ELSE "block"
  <2>3. Moves(s, s1, m, 1)
    BY <1>8, <1>11 DEF StepTakes
  <2>4. Moves(r, r1, IF u[r.at] = "/" /\ u[r.at - 1] = "*" THEN "code" ELSE "block", 1)
    BY <1>5, <1>8, <1>11 DEF StepTakes
  <2>5. Moves(r, r1, m, 1)
    BY <1>7, <2>2, <2>4
  <2>6. m \in Modes /\ (m = "dollar" => s.mode = "dollar")
    BY ModesAre
  <2> HIDE DEF m
  <2>7. QED
    BY <1>6, <1>9, <2>3, <2>5, <2>6 DEF s1, r1
<1>12. CASE s.mode = "line" \/ s.mode = "ident" \/ s.mode = "quote"
  <2>1. \E m \in Modes, k \in {1, 2} : /\ Moves(s, s1, m, k) /\ Moves(r, r1, m, k)
                                       /\ m # "dollar"
    BY <1>5, <1>7, <1>8, <1>12, ModesAre DEF StepTakes
  <2>2. QED
    BY <1>6, <1>9, <2>1 DEF s1, r1
<1>13. CASE s.mode = "code" /\ t[s.at] = "$"
  <2> DEFINE j == TagEnd(u, r.at)
  <2>1. Tagged(Splitter, t, s, s1) /\ Tagged(Splitter, u, r, r1)
    BY <1>5, <1>7, <1>8, <1>13 DEF StepTakes, Splitter
  <2>2. TagEnd(t, s.at) = j + o
    BY <1>2, <1>3, <1>6, TagEndShift
  <2>3. j \in r.at + 1..Len(u) + 1
    BY <1>4, <1>6, TagEndIs
  <2> HIDE DEF j
  <2>4. At(t, j + o) = At(u, j) /\ j \in Nat /\ (j + 1) + o = (j + o) + 1
    <3>1. j \in Nat \ {0}
      BY <1>6, <2>3
    <3>2. QED
      BY <1>2, <1>4, <3>1
  <2>5. SubSeq(u, r.at + 1, j - 1) = SubSeq(t, s.at + 1, (j + o) - 1)
    <3>1. r.at + 1 \in 1..Len(u) + 1 /\ j - 1 \in 0..Len(u) /\ r.at + 1 <= (j - 1) + 1
      <4>1. Len(u) \in Nat /\ r.at \in Nat
        BY <1>6, <1>4, TextIs
      <4>2. QED
        BY <1>6, <2>3, <4>1
    <3>2. SamePart(t, o, u, r.at + 1, j - 1)
      BY <1>2, <1>3, <3>1, PartShift
    <3>3. (j - 1) + o = (j + o) - 1
      BY <1>2, <2>4
    <3>4. QED
      BY <1>6, <3>2, <3>3 DEF SamePart
  <2>6. /\ s1.start = s.start /\ r1.start = r.start /\ r1.done = r.done
        /\ At(u, j) = "$" =>
             /\ s1.mode = "dollar" /\ s1.at = (j + o) + 1 /\ s1.tag = SubSeq(t, s.at + 1, (j + o) - 1)
             /\ s1.body = s.start
             /\ r1.mode = "dollar" /\ r1.at = j + 1 /\ r1.tag = SubSeq(u, r.at + 1, j - 1)
             /\ r1.body = r.start
        /\ At(u, j) # "$" => s1.mode = "code" /\ s1.at = j + o /\ r1.mode = "code" /\ r1.at = j
    BY <2>1, <2>2, <2>4 DEF Tagged, j, Splitter
  <2>7. (j + o) + 1 - (s.start - 1) = j + 1 /\ (j + o) - (s.start - 1) = j /\ (j + o) + 1 > s.start
    <3>1. s.start - 1 = o /\ s.start = o + 1
      BY <1>1, <1>2
    <3>2. (j + o) + 1 - o = j + 1 /\ (j + o) - o = j
      BY <1>2, <2>4
    <3>3. j > 0
      BY <1>6, <2>3
    <3>4. (j + o) + 1 > o + 1
      BY <1>2, <2>4, <3>3
    <3>5. QED
      BY <3>1, <3>2, <3>4
  <2>8. SameBehind(s1, r1)
    <3>1. r1.start = 1 /\ r1.done = <<>> /\ s1.start = s.start /\ r.start = 1
      BY <1>5, <2>6
    <3>2. CASE At(u, j) = "$"
      <4>1. /\ s1.mode = "dollar" /\ s1.at = (j + o) + 1 /\ s1.body = s.start
            /\ r1.mode = "dollar" /\ r1.at = j + 1 /\ r1.body = 1 /\ r1.tag = s1.tag
        BY <2>5, <2>6, <3>1, <3>2
      <4>2. s1.at - (s1.start - 1) = j + 1 /\ s1.at > s1.start /\ s1.body = s1.start
        <5>1. s1.at = (j + o) + 1 /\ s1.start = s.start /\ s1.body = s.start
          BY <3>1, <4>1
        <5>2. o \in Nat /\ j \in Nat /\ j > 0 /\ s.start = o + 1
          BY <1>1, <1>2, <1>6, <2>3, <2>4
        <5>3. s1.at = (j + o) + 1 /\ s1.start = o + 1
          BY <5>1, <5>2
        <5>4. s1.at - (s1.start - 1) = j + 1 /\ s1.at > s1.start
          BY <5>2, <5>3
        <5>5. QED
          BY <5>1, <5>4
      <4>3. QED
        BY <3>1, <4>1, <4>2 DEF SameBehind
    <3>3. CASE At(u, j) # "$"
      <4>1. s1.mode = "code" /\ s1.at = j + o /\ r1.mode = "code" /\ r1.at = j
        BY <2>6, <3>3
      <4>2. QED
        BY <2>7, <3>1, <4>1 DEF SameBehind
    <3>4. QED
      BY <3>2, <3>3
  <2>9. QED
    BY <1>6, <2>6, <2>8 DEF s1, r1
<1>14. CASE s.mode = "code" /\ t[s.at] # "$"
  <2>1. \E m \in Modes, k \in {1, 2} : /\ Moves(s, s1, m, k) /\ Moves(r, r1, m, k)
                                       /\ m # "dollar"
    BY <1>5, <1>7, <1>8, <1>14, ModesAre DEF StepTakes, Plain, Splitter, AtCut
  <2>2. QED
    BY <1>6, <1>9, <2>1 DEF s1, r1
<1>15. QED
  BY <1>1, <1>10, <1>11, <1>12, <1>13, <1>14 DEF Modes

\* What follows the last cut is split as if it stood alone.
LEMMA RestIsAlone ==
    ASSUME NEW t \in Chars
    PROVE  LET s == Scan(Splitter, t)
               u == SubSeq(t, s.start, Len(t))
           IN  u \in Chars /\ SameBehind(s, Scan(Splitter, u))
<1> DEFINE Rest(s) == SubSeq(t, s.start, Len(t))
           I == {s \in States(t) : \E r \in Visited(Splitter, Rest(s)) : SameBehind(s, r)}
<1>0. Len(t) \in Nat
  BY TextIs
<1>1. \A s \in States(t) : s.start \in 1..Len(t) + 1 /\ s.start - 1 \in 0..Len(t)
                           /\ FromPlace(t, s.start - 1, Rest(s)) /\ Rest(s) \in Chars
                           /\ Len(Rest(s)) = Len(t) - (s.start - 1)
  <2> SUFFICES ASSUME NEW s \in States(t)
               PROVE  s.start \in 1..Len(t) + 1 /\ s.start - 1 \in 0..Len(t)
                      /\ FromPlace(t, s.start - 1, Rest(s)) /\ Rest(s) \in Chars
                      /\ Len(Rest(s)) = Len(t) - (s.start - 1)
    OBVIOUS
  <2>1. s.start \in 1..Len(t) + 1 /\ s.start - 1 \in 0..Len(t) /\ (s.start - 1) + 1 = s.start
    BY <1>0, StateIs
  <2>2. FromPlace(t, s.start - 1, Rest(s))
    BY <2>1, RestIs
  <2>3. QED
    BY <2>1, <2>2 DEF FromPlace
<1> HIDE DEF Rest
<1>2. Scanner \in I
  <2>1. Rest(Scanner) \in Chars /\ Scanner \in Visited(Splitter, Rest(Scanner))
    BY <1>1, ScannerIs, SplitterKnown, VisitedIs
  <2>2. SameBehind(Scanner, Scanner)
    BY ScannerIs DEF SameBehind
  <2>3. QED
    BY <2>1, <2>2, ScannerIs
<1>3. ASSUME NEW s \in I, s.at <= Len(t) PROVE Step(Splitter, t, s) \in I
  <2> DEFINE s1 == Step(Splitter, t, s)
  <2>1. PICK r \in Visited(Splitter, Rest(s)) : SameBehind(s, r)
    OBVIOUS
  <2>2. s \in States(t) /\ Rest(s) \in Chars /\ FromPlace(t, s.start - 1, Rest(s))
    BY <1>1
  <2>3. r \in States(Rest(s))
    BY <2>2, SplitterKnown, VisitedIs
  <2>4. s1 \in States(t)
    BY <1>3, <2>2, SplitterKnown, StepMoves
  <2> HIDE DEF I, s1
  <2>5. CASE ~AtCut(t, s)
    <3> DEFINE r1 == Step(Splitter, Rest(s), r)
    <3>1. r.at <= Len(Rest(s)) /\ SameBehind(s1, r1) /\ s1.start = s.start
      BY <1>3, <2>1, <2>2, <2>3, <2>5, StepBehind DEF s1
    <3>2. r1 \in Visited(Splitter, Rest(s))
      BY <2>2, <3>1, SplitterKnown, VisitedIs
    <3>3. Rest(s1) = Rest(s)
      BY <3>1 DEF Rest
    <3> HIDE DEF r1
    <3>4. QED
      BY <2>4, <3>1, <3>2, <3>3 DEF I, s1
  <2>6. CASE AtCut(t, s)
    <3>1. CutsAt(t, s, s1)
      <4>1. StepTakes(Splitter, t, s, s1)
        BY <1>3, <2>2, SplitterKnown, StepMoves DEF s1
      <4>2. QED
        BY <2>6, <4>1, Zenon DEF StepTakes, AtCut
    <3>2. s1.at = s.at + 1 /\ s1.start = s.at + 1 /\ s1.mode = "code" /\ s.at \in Nat
      BY <2>2, <3>1, StateIs DEF CutsAt
    <3>3. SameBehind(s1, Scanner)
      BY <3>2, ScannerIs DEF SameBehind
    <3>4. Rest(s1) \in Chars
      BY <1>1, <2>4
    <3>5. Scanner \in Visited(Splitter, Rest(s1))
      BY <3>4, SplitterKnown, VisitedIs
    <3>6. QED
      BY <2>4, <3>3, <3>5 DEF I, s1
  <2>7. QED
    BY <2>5, <2>6 DEF s1
<1>4. Closed(Splitter, t, I)
  <2>1. I \subseteq States(t)
    OBVIOUS
  <2> HIDE DEF I
  <2>2. QED
    BY <1>2, <1>3, <2>1 DEF Closed
<1> DEFINE z == Scan(Splitter, t)
<1>5. z \in I /\ z \in States(t) /\ z.at = Len(t) + 1
  <2> HIDE DEF I
  <2>1. QED
    BY <1>4, SplitterKnown, ScanInvariant
<1> HIDE DEF z
<1>6. PICK r \in Visited(Splitter, Rest(z)) : SameBehind(z, r)
  BY <1>5
<1>7. r.at = z.at - (z.start - 1) /\ Rest(z) \in Chars /\ Len(Rest(z)) = Len(t) - (z.start - 1)
      /\ z.start - 1 \in 0..Len(t)
  BY <1>1, <1>5, <1>6 DEF SameBehind
<1>8. r.at > Len(Rest(z))
  BY <1>0, <1>5, <1>7
<1>9. Scan(Splitter, Rest(z)) = r
  BY <1>7, <1>8, SplitterKnown, VisitEnds
<1>10. QED
  BY <1>6, <1>7, <1>9 DEF Rest, z

----------------------------------------------------------------------------
(* Trim. *)

\* Nothing but white space, or what is between the first and the last character
\* that is none.
Trimmed(t, r) ==
    \/ r = <<>> /\ \A i \in 1..Len(t) : t[i] \in Blank
    \/ \E a, b \in 1..Len(t) :
         /\ a <= b /\ t[a] \notin Blank /\ t[b] \notin Blank /\ r = SubSeq(t, a, b)
         /\ \A i \in 1..Len(t) : t[i] \notin Blank => a <= i /\ i <= b

LEMMA TrimIs ==
    ASSUME NEW t \in Chars
    PROVE  Trim(t) \in Chars /\ Trimmed(t, Trim(t))
<1> DEFINE S == {i \in DOMAIN t : t[i] \notin Blank}
           b == CHOOSE n \in S : \A m \in S : n >= m
           n == Len(t)
<1>1. n \in Nat /\ DOMAIN t = 1..n
  BY TextIs
<1>2. Trim(t) = IF S = {} THEN <<>> ELSE SubSeq(t, LeastOf(S), b)
  BY DEF Trim
<1>3. CASE S = {}
  <2>1. Trim(t) = <<>>
    BY <1>2, <1>3
  <2>2. \A i \in 1..n : t[i] \in Blank
    BY <1>1, <1>3
  <2>3. <<>> \in Chars
    BY DEF Chars
  <2>4. QED
    BY <2>1, <2>2, <2>3 DEF Trimmed
<1>4. CASE S # {}
  <2>1. S \in SUBSET (1..n) /\ S \subseteq Nat /\ \A i \in 1..n : i \in S <=> t[i] \notin Blank
    BY <1>1
  <2>2. b = Max(S)
    BY DEF Max
  <2>3. Trim(t) = SubSeq(t, LeastOf(S), b)
    BY <1>2, <1>4
  <2> HIDE DEF S, b
  <2>4. b \in S /\ \A m \in S : b >= m
    BY <1>1, <1>4, <2>1, <2>2, GreatestPlace
  <2> DEFINE a == LeastOf(S)
  <2>5. a \in S /\ \A m \in S : a <= m
    BY <1>4, <2>1, LeastOfIs
  <2>6. a \in 1..n /\ b \in 1..n /\ a <= b /\ Trim(t) = SubSeq(t, a, b)
    BY <2>1, <2>3, <2>4, <2>5
  <2> HIDE DEF a
  <2>7. t[a] \notin Blank /\ t[b] \notin Blank
    BY <2>1, <2>4, <2>5, <2>6
  <2>8. \A i \in 1..n : t[i] \notin Blank => a <= i /\ i <= b
    <3> SUFFICES ASSUME NEW i \in 1..n, t[i] \notin Blank PROVE a <= i /\ i <= b
      OBVIOUS
    <3>1. i \in S /\ b \in Nat
      BY <2>1, <2>6
    <3>2. QED
      BY <2>4, <2>5, <2>6, <3>1
  <2>9. Trimmed(t, Trim(t))
    BY <2>6, <2>7, <2>8 DEF Trimmed
  <2>10. SubSeq(t, a, b) \in Chars
    <3>1. a \in 1..Len(t) + 1 /\ b \in 0..Len(t) /\ a <= b + 1
      BY <1>1, <2>6
    <3>2. QED
      BY <3>1, PartOfText
  <2>11. QED
    BY <2>6, <2>9, <2>10
<1>5. QED
  BY <1>3, <1>4

LEMMA WholeText ==
    ASSUME NEW t \in Chars PROVE SubSeq(t, 1, Len(t)) = t
<1>1. Len(t) \in Nat
  BY TextIs
<1>2. PartHolds(t, 1, Len(t))
  BY <1>1, PartIs
<1> DEFINE u == SubSeq(t, 1, Len(t))
<1>3. u \in Chars /\ Len(u) = Len(t) /\ \A k \in 1..Len(t) : u[k] = t[k]
  <2>1. Len(t) - 1 + 1 = Len(t) /\ \A k \in 1..Len(t) : 1 + k - 1 = k
    BY <1>1
  <2>2. QED
    BY <1>2, <2>1 DEF PartHolds
<1> HIDE DEF u
<1>4. u = t
  BY <1>3, SeqEqual DEF Chars
<1>5. QED
  BY <1>4 DEF u

\* A text trimmed stays as it is.
LEMMA TrimTwice ==
    ASSUME NEW t \in Chars PROVE Trim(Trim(t)) = Trim(t)
<1>1. Trim(t) \in Chars /\ Trimmed(t, Trim(t)) /\ Len(t) \in Nat
  BY TrimIs, TextIs
<1> DEFINE r == Trim(t)
<1>2. Trim(r) \in Chars /\ Trimmed(r, Trim(r)) /\ Len(r) \in Nat
  BY <1>1, TrimIs, TextIs
<1> HIDE DEF r
<1>3. CASE r = <<>>
  <2>1. Len(r) = 0
    BY <1>3
  <2>2. \A x \in 1..0 : FALSE
    OBVIOUS
  <2>3. Trim(r) = <<>>
    BY <1>2, <2>1, <2>2 DEF Trimmed
  <2>4. QED
    BY <1>3, <2>3 DEF r
<1>4. CASE r # <<>>
  <2>1. PICK a \in 1..Len(t), b \in 1..Len(t) :
          a <= b /\ t[a] \notin Blank /\ t[b] \notin Blank /\ r = SubSeq(t, a, b)
    BY <1>1, <1>4 DEF Trimmed, r
  <2>2. r \in Chars /\ Len(r) = b - a + 1 /\ \A k \in 1..b - a + 1 : r[k] = t[a + k - 1]
    <3>1. a \in 1..Len(t) + 1 /\ b \in 0..Len(t) /\ a <= b + 1
      BY <1>1, <2>1
    <3>2. PartHolds(t, a, b)
      BY <3>1, PartIs
    <3>3. QED
      BY <2>1, <3>2 DEF PartHolds
  <2>3. 1 \in 1..Len(r) /\ Len(r) \in 1..Len(r) /\ r[1] \notin Blank /\ r[Len(r)] \notin Blank
    <3>1. 1 \in 1..b - a + 1 /\ b - a + 1 \in 1..b - a + 1 /\ a + 1 - 1 = a
          /\ a + (b - a + 1) - 1 = b
      BY <1>1, <2>1
    <3>2. QED
      BY <2>1, <2>2, <3>1
  <2>4. ~(\A i \in 1..Len(r) : r[i] \in Blank)
    BY <2>3
  <2>5. PICK c \in 1..Len(r), e \in 1..Len(r) :
          /\ Trim(r) = SubSeq(r, c, e)
          /\ \A i \in 1..Len(r) : r[i] \notin Blank => c <= i /\ i <= e
    BY <1>2, <2>4 DEF Trimmed
  <2>6. c = 1 /\ e = Len(r)
    <3>1. c <= 1 /\ Len(r) <= e
      BY <2>3, <2>5
    <3>2. QED
      BY <1>2, <2>5, <3>1
  <2>7. Trim(r) = r
    BY <2>2, <2>5, <2>6, WholeText
  <2>8. QED
    BY <2>7 DEF r
<1>5. QED
  BY <1>3, <1>4

----------------------------------------------------------------------------
(* CutsAreTheText. *)

CutsOf(t) ==
    LET s     == Scan(Splitter, t)
        glued == FlattenSeq([i \in DOMAIN s.done |-> s.done[i] \o <<";">>])
        rest  == SubSeq(t, Len(glued) + 1, Len(t))
    IN  /\ IsPrefix(glued, t)
        /\ SplitStatements(t) = s.done \o SplitStatements(rest)
        /\ Scan(Splitter, rest).done = <<>>

LEMMA TextIsCut == ASSUME NEW t \in Chars PROVE CutsOf(t)
<1> DEFINE s == Scan(Splitter, t)
           glued == Glued(s.done)
           rest == SubSeq(t, Len(glued) + 1, Len(t))
           u == SubSeq(t, s.start, Len(t))
<1>1. s \in States(t) /\ glued = SubSeq(t, 1, s.start - 1)
  BY CutsGlue
<1>2. u \in Chars /\ SameBehind(s, Scan(Splitter, u))
  BY RestIsAlone
<1> DEFINE z == Scan(Splitter, u)
<1>3. z.done = <<>> /\ z.start = 1
  BY <1>2 DEF SameBehind
<1>4. SplitStatements(t) = IF Trim(u) = <<>> THEN s.done ELSE Append(s.done, Trim(u))
  BY DEF SplitStatements, Cuts
<1>5. SplitStatements(u) = IF Trim(u) = <<>> THEN <<>> ELSE Append(<<>>, Trim(u))
  <2>1. SplitStatements(u) = LET q == Trim(SubSeq(u, z.start, Len(u)))
                             IN  IF q = <<>> THEN z.done ELSE Append(z.done, q)
    BY DEF SplitStatements, Cuts
  <2>2. SubSeq(u, z.start, Len(u)) = u
    BY <1>2, <1>3, WholeText
  <2> HIDE DEF z, u
  <2>3. QED
    BY <1>3, <2>1, <2>2
<1> HIDE DEF s, glued, u, z
<1>6. /\ s.done \in Seq(Chars) /\ s.start \in Nat /\ s.start >= 1 /\ s.start <= Len(t) + 1
      /\ Len(t) \in Nat
  <2>1. Len(t) \in Nat
    BY TextIs
  <2>2. /\ s.at \in Nat /\ s.at <= Len(t) + 1 /\ s.done \in Seq(Chars)
        /\ s.start \in Nat /\ s.start >= 1 /\ s.start <= s.at
    BY <1>1, StateIs
  <2>3. QED
    BY <2>1, <2>2
<1>7. /\ glued \in Chars /\ Len(glued) = s.start - 1
  <2>1. 1 \in 1..Len(t) + 1 /\ s.start - 1 \in 0..Len(t) /\ 1 <= (s.start - 1) + 1
        /\ (s.start - 1) - 1 + 1 = s.start - 1
    BY <1>6
  <2>2. PartHolds(t, 1, s.start - 1)
    BY <2>1, PartIs
  <2>3. QED
    BY <1>1, <2>1, <2>2 DEF PartHolds
<1>8. rest = u
  <2>1. Len(glued) + 1 = s.start
    BY <1>6, <1>7
  <2>2. QED
    BY <2>1 DEF u
<1>9. IsPrefix(glued, t)
  <2>1. SubSeq(glued, 1, Len(glued)) = glued
    BY <1>7, WholeText
  <2>2. Len(glued) <= Len(t)
    BY <1>6, <1>7
  <2>3. SubSeq(t, 1, Len(glued)) = glued
    BY <1>1, <1>7
  <2>4. QED
    BY <2>1, <2>2, <2>3 DEF IsPrefix
<1>10. SplitStatements(t) = s.done \o SplitStatements(u)
  <2>1. Trim(u) \in Chars
    BY <1>2, TrimIs
  <2>2. \A q \in Seq(Chars), e \in Chars : q \o <<>> = q /\ q \o Append(<<>>, e) = Append(q, e)
    OBVIOUS
  <2>3. QED
    BY <1>4, <1>5, <1>6, <2>1, <2>2
<1>11. Scan(Splitter, u).done = <<>>
  BY <1>3 DEF z
<1>12. QED
  BY <1>8, <1>9, <1>10, <1>11 DEF CutsOf, s, glued, Glued, WithSemicolons

----------------------------------------------------------------------------
(* CutsByParity. *)

\* How many of the numbers up to k are in A.
Count(A, k) == Cardinality({i \in 1..k : i \in A})

LEMMA CountIs ==
    ASSUME NEW A, NEW k \in Nat
    PROVE  /\ Count(A, 0) = 0 /\ Count(A, k) \in Nat
           /\ Count(A, k + 1) = Count(A, k) + (IF k + 1 \in A THEN 1 ELSE 0)
<1> DEFINE U == {i \in 1..k : i \in A}
           V == {i \in 1..k + 1 : i \in A}
<1>1. Count(A, 0) = 0
  <2>1. {i \in 1..0 : i \in A} = {}
    OBVIOUS
  <2>2. QED
    BY <2>1, FS_EmptySet DEF Count
<1>2. IsFiniteSet(U) /\ Cardinality(U) \in Nat
  <2>1. IsFiniteSet(1..k)
    <3>1. 1 \in Int /\ k \in Int
      OBVIOUS
    <3>2. QED
      BY <3>1, FS_Interval
  <2>2. U \subseteq 1..k
    OBVIOUS
  <2> HIDE DEF U
  <2>3. QED
    BY <2>1, <2>2, FS_Subset, FS_CardinalityType
<1>3. V = IF k + 1 \in A THEN U \cup {k + 1} ELSE U
  OBVIOUS
<1>4. k + 1 \notin U
  OBVIOUS
<1>5. Count(A, k) = Cardinality(U) /\ Count(A, k + 1) = Cardinality(V)
  BY DEF Count
<1> HIDE DEF U, V
<1>6. Cardinality(U \cup {k + 1}) = Cardinality(U) + 1
  BY <1>2, <1>4, FS_AddElement
<1>7. QED
  BY <1>1, <1>2, <1>3, <1>5, <1>6

Semicolon == ";"
Quote == "'"

Quotes(t) == {i \in DOMAIN t : t[i] = Quote}
EvenAt(t, k) == Count(Quotes(t), k) % 2 = 0
Ends(t) == {i \in DOMAIN t : t[i] = Semicolon /\ EvenAt(t, i)}

\* Texts of quotes, semicolons and letters.
OnlyQuotes(t) == \A i \in 1..Len(t) : t[i] = Quote \/ t[i] = Semicolon \/ t[i] \in Letters

\* An even number of quotes lies behind s exactly when it reads no literal.
ByParity(t, s) ==
    /\ s.mode = "code" \/ s.mode = "quote"
    /\ s.mode = "code" <=> EvenAt(t, s.at - 1)
    /\ Len(s.done) = Count(Ends(t), s.at - 1)

\* What a step does with such a text.
QuoteSteps(t, s, r) ==
    LET c == t[s.at]
        n == At(t, s.at + 1)
    IN  /\ s.mode = "quote" /\ c # Quote => Moves(s, r, "quote", 1)
        /\ s.mode = "quote" /\ c = Quote /\ n = Quote => Moves(s, r, "quote", 2)
        /\ s.mode = "quote" /\ c = Quote /\ n # Quote => Moves(s, r, "code", 1)
        /\ s.mode = "code" /\ c = Quote => Moves(s, r, "quote", 1)
        /\ s.mode = "code" /\ c = Semicolon => CutsAt(t, s, r)
        /\ s.mode = "code" /\ c \in Letters => Moves(s, r, "code", 1)
        /\ Quote # Semicolon /\ Quote \notin Letters /\ Semicolon \notin Letters

LEMMA QuoteStepsIs ==
    ASSUME NEW t \in Chars, NEW s \in States(t), s.at <= Len(t)
    PROVE  QuoteSteps(t, s, Step(Splitter, t, s))
<1> DEFINE r == Step(Splitter, t, s)
           c == t[s.at]
           n == At(t, s.at + 1)
<1>1. StepTakes(Splitter, t, s, r)
  BY SplitterKnown, StepMoves
<1>2. Quote # Semicolon /\ Quote \notin Letters /\ Semicolon \notin Letters
  BY LettersAreNotMarks DEF Marks, Quote, Semicolon
<1>3. c \in Letters => Plain(Splitter, c, n)
  <2>1. /\ "-" \notin Letters /\ "/" \notin Letters /\ "'" \notin Letters /\ "$" \notin Letters
        /\ ";" \notin Letters
    BY LettersAreNotMarks DEF Marks
  <2>2. Splitter.idents = FALSE
    BY DEF Splitter
  <2> HIDE DEF c, n
  <2>3. QED
    BY <2>1, <2>2, Zenon DEF Plain
<1> HIDE DEF r
<1>4. /\ s.mode = "quote" /\ c # "'" => Moves(s, r, "quote", 1)
      /\ s.mode = "quote" /\ c = "'" /\ n = "'" => Moves(s, r, "quote", 2)
      /\ s.mode = "quote" /\ c = "'" /\ n # "'" => Moves(s, r, "code", 1)
      /\ s.mode = "code" /\ c = "'" => Moves(s, r, "quote", 1)
      /\ s.mode = "code" /\ c = ";" => CutsAt(t, s, r)
      /\ s.mode = "code" /\ Plain(Splitter, c, n) => Moves(s, r, "code", 1)
  BY <1>1, Zenon DEF StepTakes
<1> HIDE DEF c, n
<1>5. QED
  BY <1>2, <1>3, <1>4, Zenon DEF QuoteSteps, c, n, r, Quote, Semicolon

LEMMA Parity ==
    /\ \A q \in Nat : (q + 1) % 2 = 0 <=> ~(q % 2 = 0)
    /\ \A q \in Nat : (q + 2) % 2 = 0 <=> q % 2 = 0
  OBVIOUS

LEMMA StepParity ==
    ASSUME NEW t \in Chars, OnlyQuotes(t), NEW s \in States(t), s.at <= Len(t), ByParity(t, s)
    PROVE  ByParity(t, Step(Splitter, t, s))
<1> DEFINE r == Step(Splitter, t, s)
           p == s.at
           Q == Quotes(t)
           S == Ends(t)
           c == t[p]
           n == At(t, p + 1)
<1>1. Len(t) \in Nat /\ p \in Nat /\ p >= 1 /\ p <= Len(t) /\ p \in 1..Len(t) /\ p - 1 \in Nat
      /\ (p - 1) + 1 = p /\ s.done \in Seq(Chars) /\ Len(s.done) \in Nat /\ DOMAIN t = 1..Len(t)
  <2>1. Len(t) \in Nat /\ DOMAIN t = 1..Len(t)
    BY TextIs
  <2>2. p \in Nat /\ p >= 1 /\ p <= Len(t) /\ s.done \in Seq(Chars)
    BY StateIs
  <2>3. QED
    BY <2>1, <2>2
<1>2. QuoteSteps(t, s, r)
  BY QuoteStepsIs
<1>3. /\ s.mode = "quote" /\ c # Quote => Moves(s, r, "quote", 1)
      /\ s.mode = "quote" /\ c = Quote /\ n = Quote => Moves(s, r, "quote", 2)
      /\ s.mode = "quote" /\ c = Quote /\ n # Quote => Moves(s, r, "code", 1)
      /\ s.mode = "code" /\ c = Quote => Moves(s, r, "quote", 1)
      /\ s.mode = "code" /\ c = Semicolon => CutsAt(t, s, r)
      /\ s.mode = "code" /\ c \in Letters => Moves(s, r, "code", 1)
      /\ Quote # Semicolon /\ Quote \notin Letters /\ Semicolon \notin Letters
  BY <1>2 DEF QuoteSteps
<1>4. c = Quote \/ c = Semicolon \/ c \in Letters
  BY <1>1 DEF OnlyQuotes
<1>5. /\ s.mode = "code" \/ s.mode = "quote"
      /\ s.mode = "code" <=> EvenAt(t, p - 1)
      /\ Len(s.done) = Count(S, p - 1)
  BY DEF ByParity
<1>6. Count(Q, p) = Count(Q, p - 1) + (IF c = Quote THEN 1 ELSE 0) /\ Count(Q, p - 1) \in Nat
  <2>1. p \in Q <=> c = Quote
    BY <1>1 DEF Quotes
  <2> HIDE DEF Q, p
  <2>2. Count(Q, p - 1) \in Nat
        /\ Count(Q, (p - 1) + 1) = Count(Q, p - 1) + (IF (p - 1) + 1 \in Q THEN 1 ELSE 0)
    BY <1>1, CountIs
  <2>3. QED
    BY <1>1, <2>1, <2>2
<1>7. Count(S, p) = Count(S, p - 1) + (IF c = Semicolon /\ EvenAt(t, p) THEN 1 ELSE 0)
      /\ Count(S, p - 1) \in Nat
  <2>1. p \in S <=> c = Semicolon /\ EvenAt(t, p)
    BY <1>1 DEF Ends
  <2> HIDE DEF S, p
  <2>2. Count(S, p - 1) \in Nat
        /\ Count(S, (p - 1) + 1) = Count(S, p - 1) + (IF (p - 1) + 1 \in S THEN 1 ELSE 0)
    BY <1>1, CountIs
  <2>3. QED
    BY <1>1, <2>1, <2>2
<1>8. EvenAt(t, p) <=> (IF c = Quote THEN ~EvenAt(t, p - 1) ELSE EvenAt(t, p - 1))
  BY <1>6, Parity DEF EvenAt
<1> HIDE DEF r, c, n, S, Q
<1>9. ASSUME NEW m, NEW k \in {1, 2}, Moves(s, r, m, k)
      PROVE  r.at - 1 = (p - 1) + k /\ r.mode = m /\ Len(r.done) = Len(s.done)
  BY <1>1, <1>9 DEF Moves
<1>10. CASE s.mode = "quote" /\ c # Quote
  <2>1. Moves(s, r, "quote", 1)
    BY <1>3, <1>10
  <2>2. r.at - 1 = p /\ r.mode = "quote" /\ Len(r.done) = Len(s.done)
    BY <1>1, <1>9, <2>1
  <2>3. ~EvenAt(t, p - 1) /\ ~EvenAt(t, p)
    BY <1>5, <1>8, <1>10
  <2>4. Count(S, p) = Count(S, p - 1)
    BY <1>7, <2>3
  <2>5. QED
    BY <1>5, <2>2, <2>3, <2>4 DEF ByParity, r, S
<1>11. CASE s.mode = "quote" /\ c = Quote /\ n = Quote
  <2>1. Moves(s, r, "quote", 2)
    BY <1>3, <1>11
  <2>2. r.at - 1 = p + 1 /\ r.mode = "quote" /\ Len(r.done) = Len(s.done)
    BY <1>1, <1>9, <2>1
  <2>3. ~EvenAt(t, p - 1) /\ EvenAt(t, p)
    BY <1>5, <1>8, <1>11
  <2>4. p + 1 \in 1..Len(t) /\ t[p + 1] = Quote
    <3>1. Quote # "end"
      BY DEF Quote
    <3>2. QED
      BY <1>1, <1>11, <3>1, TextIs DEF n
  <2>5. Count(Q, p + 1) = Count(Q, p) + 1 /\ Count(Q, p) \in Nat
    <3>1. p + 1 \in Q
      BY <1>1, <2>4 DEF Q, Quotes
    <3>2. QED
      BY <1>1, <3>1, CountIs
  <2>6. ~EvenAt(t, p + 1)
    BY <2>3, <2>5, Parity DEF EvenAt, Q
  <2>7. Count(S, p + 1) = Count(S, p) /\ Count(S, p) = Count(S, p - 1)
    <3>1. p + 1 \notin S
      BY <1>3, <2>4 DEF S, Ends
    <3>2. Count(S, p + 1) = Count(S, p) + 0 /\ Count(S, p) \in Nat
      BY <1>1, <3>1, CountIs
    <3>3. QED
      BY <1>3, <1>7, <1>11, <3>2
  <2>8. QED
    BY <1>5, <2>2, <2>6, <2>7 DEF ByParity, r, S
<1>12. CASE s.mode = "quote" /\ c = Quote /\ n # Quote
  <2>1. Moves(s, r, "code", 1)
    BY <1>3, <1>12
  <2>2. r.at - 1 = p /\ r.mode = "code" /\ Len(r.done) = Len(s.done)
    BY <1>1, <1>9, <2>1
  <2>3. ~EvenAt(t, p - 1) /\ EvenAt(t, p)
    BY <1>5, <1>8, <1>12
  <2>4. Count(S, p) = Count(S, p - 1)
    BY <1>3, <1>7, <1>12
  <2>5. QED
    BY <1>5, <2>2, <2>3, <2>4 DEF ByParity, r, S
<1>13. CASE s.mode = "code" /\ c = Quote
  <2>1. Moves(s, r, "quote", 1)
    BY <1>3, <1>13
  <2>2. r.at - 1 = p /\ r.mode = "quote" /\ Len(r.done) = Len(s.done)
    BY <1>1, <1>9, <2>1
  <2>3. ~EvenAt(t, p)
    BY <1>5, <1>8, <1>13
  <2>4. Count(S, p) = Count(S, p - 1)
    BY <1>7, <2>3
  <2>5. QED
    BY <1>5, <2>2, <2>3, <2>4 DEF ByParity, r, S
<1>14. CASE s.mode = "code" /\ c = Semicolon
  <2>1. CutsAt(t, s, r)
    BY <1>3, <1>14
  <2>2. r.at - 1 = p /\ r.mode = "code"
    BY <1>1, <2>1 DEF CutsAt
  <2>3. Len(r.done) = Len(s.done) + 1
    <3>1. r.done = Append(s.done, SubSeq(t, s.start, s.at - 1))
      BY <2>1 DEF CutsAt
    <3>2. \A x : Len(Append(s.done, x)) = Len(s.done) + 1
      BY <1>1
    <3>3. QED
      BY <3>1, <3>2
  <2>4. EvenAt(t, p)
    BY <1>3, <1>5, <1>8, <1>14
  <2>5. Count(S, p) = Count(S, p - 1) + 1
    BY <1>7, <1>14, <2>4
  <2>6. QED
    BY <1>5, <2>2, <2>3, <2>4, <2>5 DEF ByParity, r, S
<1>15. CASE s.mode = "code" /\ c \in Letters
  <2>1. Moves(s, r, "code", 1)
    BY <1>3, <1>15
  <2>2. r.at - 1 = p /\ r.mode = "code" /\ Len(r.done) = Len(s.done)
    BY <1>1, <1>9, <2>1
  <2>3. EvenAt(t, p)
    BY <1>3, <1>5, <1>8, <1>15
  <2>4. Count(S, p) = Count(S, p - 1)
    BY <1>3, <1>7, <1>15
  <2>5. QED
    BY <1>5, <2>2, <2>3, <2>4 DEF ByParity, r, S
<1>16. QED
  BY <1>4, <1>5, <1>10, <1>11, <1>12, <1>13, <1>14, <1>15

CutsByQuotes(t) ==
    ToSet(t) \subseteq {"'", ";"} \cup Letters =>
    Len(Scan(Splitter, t).done) =
      Cardinality({i \in DOMAIN t :
                     /\ t[i] = ";"
                     /\ Cardinality({j \in 1 .. i : t[j] = "'"}) % 2 = 0})

LEMMA CutAtEnds ==
    ASSUME NEW t \in Chars, OnlyQuotes(t)
    PROVE  Len(Scan(Splitter, t).done) = Count(Ends(t), Len(t))
<1>1. Len(t) \in Nat /\ DOMAIN t = 1..Len(t)
  BY TextIs
<1> DEFINE I == {s \in States(t) : ByParity(t, s)}
<1>3. Scanner \in I
  <2>1. Scanner.at - 1 = 0 /\ Scanner.mode = "code" /\ Len(Scanner.done) = 0
    <3>1. Scanner.at = 1 /\ Scanner.mode = "code" /\ Scanner.done = <<>>
      BY DEF Scanner
    <3>2. QED
      BY <3>1
  <2>2. EvenAt(t, 0) /\ Count(Ends(t), 0) = 0
    <3>1. \A A : Count(A, 0) = 0
      <4>1. 0 \in Nat
        OBVIOUS
      <4>2. QED
        BY <4>1, CountIs
    <3>2. 0 % 2 = 0
      OBVIOUS
    <3>3. QED
      BY <3>1, <3>2, Zenon DEF EvenAt
  <2>3. Scanner \in States(t)
    BY SplitterKnown, ScannerIs
  <2>4. QED
    BY <2>1, <2>2, <2>3, Zenon DEF ByParity
<1>4. ASSUME NEW s \in I, s.at <= Len(t) PROVE Step(Splitter, t, s) \in I
  BY <1>4, SplitterKnown, StepMoves, StepParity
<1>5. Closed(Splitter, t, I)
  <2>1. I \subseteq States(t)
    OBVIOUS
  <2> HIDE DEF I
  <2>2. QED
    BY <1>3, <1>4, <2>1 DEF Closed
<1> DEFINE z == Scan(Splitter, t)
<1>6. z \in I /\ z.at = Len(t) + 1
  <2> HIDE DEF I
  <2>1. QED
    BY <1>5, SplitterKnown, ScanInvariant
<1> HIDE DEF z
<1>7. ByParity(t, z) /\ z.at - 1 = Len(t)
  BY <1>1, <1>6
<1>8. QED
  BY <1>7, Zenon DEF ByParity, z

LEMMA TextIsCutByQuotes == ASSUME NEW t \in Chars PROVE CutsByQuotes(t)
<1>1. Len(t) \in Nat /\ DOMAIN t = 1..Len(t)
  BY TextIs
<1>2. ToSet(t) \subseteq {"'", ";"} \cup Letters => OnlyQuotes(t)
  BY <1>1, Zenon DEF OnlyQuotes, ToSet, Quote, Semicolon
<1>3. \A i \in 1..Len(t) : {j \in 1..i : j \in Quotes(t)} = {j \in 1..i : t[j] = Quote}
  BY <1>1 DEF Quotes
<1>4. \A i \in 1..Len(t) : EvenAt(t, i) <=> Cardinality({j \in 1..i : t[j] = Quote}) % 2 = 0
  BY <1>3, Zenon DEF EvenAt, Count
<1>5. {i \in 1..Len(t) : i \in Ends(t)}
         = {i \in DOMAIN t : t[i] = Semicolon /\ Cardinality({j \in 1..i : t[j] = Quote}) % 2 = 0}
  BY <1>1, <1>4, Zenon DEF Ends
<1>6. OnlyQuotes(t) => Len(Scan(Splitter, t).done) = Cardinality({i \in 1..Len(t) : i \in Ends(t)})
  BY CutAtEnds, Zenon DEF Count
<1>7. QED
  BY <1>2, <1>5, <1>6, Zenon DEF CutsByQuotes, Quote, Semicolon

----------------------------------------------------------------------------
(* CaretPoints. *)

Break == "\n"

WideBefore(t, i) == {j \in 1 .. i - 1 : t[j] \in Wide}

LEMMA OffsetIs ==
    ASSUME NEW t, NEW i \in Nat, i >= 1
    PROVE  /\ Offset(t, i) \in Nat /\ Offset(t, i) >= i - 1
           /\ WideBefore(t, i) = {} => Offset(t, i) = i - 1
<1> DEFINE W == {j \in 1 .. i - 1 : t[j] \in Wide}
<1>1. W \subseteq 1 .. i - 1
  OBVIOUS
<1>2. Offset(t, i) = (i - 1) + Cardinality(W)
  BY DEF Offset
<1>3. IsFiniteSet(1 .. i - 1)
  <2>1. 1 \in Int /\ i - 1 \in Int
    OBVIOUS
  <2>2. QED
    BY <2>1, FS_Interval
<1>4. W = WideBefore(t, i)
  BY DEF WideBefore
<1> HIDE DEF W
<1>5. Cardinality(W) \in Nat /\ (W = {} => Cardinality(W) = 0)
  BY <1>1, <1>3, FS_Subset, FS_CardinalityType, FS_EmptySet
<1>6. QED
  BY <1>2, <1>4, <1>5

\* A character of two bytes stands on a line before that of p.
WideOnEarlierLine(t, p) ==
    \E i \in 1 .. p - 1 : t[i] \in Wide /\ \E j \in i .. p - 1 : t[j] = Break

LEMMA CaretIsExact ==
    ASSUME NEW t \in Chars, NEW p \in 1 .. Len(t), ~WideOnEarlierLine(t, p)
    PROVE  Caret(t, p) = p
<1>1. Len(t) \in Nat /\ DOMAIN t = 1 .. Len(t)
  BY TextIs
<1> DEFINE pos == p - 1
           B == BreaksBefore(t, pos)
           b == CHOOSE i \in B : \A j \in B : i >= j
           first == IF B = {} THEN 1 ELSE b + 1
           stop == StopBefore(t, first, {Break})
           width == Offset(t, stop) - Offset(t, first)
           col == pos - Offset(t, first)
<1>2. Caret(t, p) = first + (IF col > width THEN width ELSE IF col < 0 THEN 0 ELSE col)
  BY Zenon DEF Caret, Break
<1>3. p \in Nat /\ p >= 1 /\ p <= Len(t) /\ pos \in Nat /\ pos + 1 = p
  BY <1>1
<1>4. B = {i \in 1 .. Len(t) : t[i] = Break /\ Offset(t, i) < pos}
  BY <1>1, Zenon DEF BreaksBefore, Break
<1>5. \A i \in 1 .. Len(t) : i \in B <=> t[i] = Break /\ i < p
  <2> SUFFICES ASSUME NEW i \in 1 .. Len(t)
               PROVE  i \in B <=> t[i] = Break /\ i < p
    OBVIOUS
  <2>1. i \in Nat /\ i >= 1
    OBVIOUS
  <2>2. Offset(t, i) \in Nat /\ Offset(t, i) >= i - 1
        /\ (WideBefore(t, i) = {} => Offset(t, i) = i - 1)
    BY <2>1, OffsetIs
  <2>3. ASSUME t[i] = Break, i < p PROVE WideBefore(t, i) = {}
    <3>1. i \in 1 .. p - 1
      BY <1>3, <2>1, <2>3
    <3>2. \A j \in 1 .. i - 1 : j \in 1 .. p - 1 /\ i \in j .. p - 1
      BY <1>3, <2>1, <2>3
    <3>3. QED
      BY <2>3, <3>2 DEF WideBefore, WideOnEarlierLine
  <2>4. i \in B <=> t[i] = Break /\ Offset(t, i) < pos
    BY <1>4
  <2> HIDE DEF B
  <2>5. QED
    BY <1>3, <2>1, <2>2, <2>3, <2>4
<1>6. B \in SUBSET (1 .. Len(t))
  BY <1>4
<1> HIDE DEF B
<1>7. /\ first \in Nat /\ first >= 1 /\ first <= p
      /\ WideBefore(t, first) = {}
      /\ \A i \in first .. p - 1 : t[i] # Break
  <2>1. CASE B = {}
    <3>1. first = 1
      BY <2>1
    <3>2. WideBefore(t, 1) = {}
      BY DEF WideBefore
    <3>3. \A i \in 1 .. p - 1 : t[i] # Break
      <4>1. \A i \in 1 .. p - 1 : i \in 1 .. Len(t) /\ i < p
        BY <1>1, <1>3
      <4>2. QED
        BY <1>5, <2>1, <4>1, Zenon
    <3> HIDE DEF first
    <3>4. QED
      BY <1>3, <3>1, <3>2, <3>3
  <2>2. CASE B # {}
    <3>1. b = Max(B)
      BY DEF Max
    <3> HIDE DEF b
    <3>2. b \in B /\ \A m \in B : b >= m
      BY <1>1, <1>6, <2>2, <3>1, GreatestPlace
    <3>3. b \in 1 .. Len(t) /\ t[b] = Break /\ b < p
      BY <1>5, <1>6, <3>2
    <3>4. first = b + 1
      BY <2>2
    <3> HIDE DEF first
    <3>5. first \in Nat /\ first >= 1 /\ first <= p
      BY <1>3, <3>3, <3>4
    <3>6. WideBefore(t, first) = {}
      <4>1. \A j \in 1 .. first - 1 : j \in 1 .. p - 1 /\ b \in j .. p - 1
        BY <1>3, <3>3, <3>4
      <4>2. QED
        BY <3>3, <4>1 DEF WideBefore, WideOnEarlierLine
    <3>7. \A i \in first .. p - 1 : t[i] # Break
      <4>1. \A i \in first .. p - 1 : i \in 1 .. Len(t) /\ i < p /\ ~(b >= i)
        BY <1>1, <1>3, <3>3, <3>4
      <4>2. QED
        BY <1>5, <3>2, <4>1
    <3>8. QED
      BY <3>5, <3>6, <3>7
  <2>3. QED
    BY <2>1, <2>2
<1> HIDE DEF first, b
<1>8. stop \in Nat /\ stop >= p
  <2> DEFINE S == {k \in first .. Len(t) : t[k] \in {Break}} \cup {Len(t) + 1}
  <2>1. stop = LeastOf(S)
    BY DEF StopBefore
  <2>2. S \subseteq Nat /\ S # {}
    BY <1>1, <1>7
  <2>3. \A k \in S : k >= p
    <3>1. Len(t) + 1 >= p
      BY <1>1, <1>3
    <3>2. \A k \in first .. Len(t) : k >= p \/ k \in first .. p - 1
      BY <1>1, <1>3, <1>7
    <3>3. QED
      BY <1>7, <3>1, <3>2
  <2> HIDE DEF S, stop
  <2>4. stop \in S
    BY <2>1, <2>2, LeastOfIs
  <2>5. QED
    BY <2>2, <2>3, <2>4
<1> HIDE DEF stop
<1>9. Offset(t, first) = first - 1 /\ Offset(t, stop) \in Nat /\ Offset(t, stop) >= stop - 1
  <2>1. stop >= 1
    BY <1>3, <1>8
  <2>2. QED
    BY <1>7, <1>8, <2>1, OffsetIs
<1>10. col = p - first /\ width >= col /\ col >= 0 /\ width \in Int
  BY <1>3, <1>7, <1>8, <1>9
<1> HIDE DEF width
<1>11. QED
  BY <1>2, <1>3, <1>7, <1>10

----------------------------------------------------------------------------
(* Batch. *)

\* Statements that the server is sent: neither empty nor with white space around.
Statements == {c \in Chars : c # <<>> /\ Trim(c) = c}

LEMMA BatchIs ==
    ASSUME NEW q \in Seq(Chars)
    PROVE  FoldLeft(LAMBDA batch, statement :
                      IF Trim(statement) = <<>> THEN batch ELSE Append(batch, Trim(statement)),
                    <<>>, q) \in Seq(Statements)
<1> DEFINE n == Len(q)
           D == SUBSET (1..n)
           V == Seq(Statements)
           op(b, e) == IF Trim(e) = <<>> THEN b ELSE Append(b, Trim(e))
           Is(f) == f = [A \in D |-> IF A = {} THEN <<>> ELSE op(f[A \ {Max(A)}], q[Max(A)])]
           N == [i \in 1..n |-> [b \in V |-> op(b, q[i])]]
           total == FoldLeft(LAMBDA batch, statement :
                      IF Trim(statement) = <<>> THEN batch ELSE Append(batch, Trim(statement)),
                    <<>>, q)
<1>1. n \in Nat /\ DOMAIN q = 1..n
  OBVIOUS
<1>2. total = (CHOOSE f : Is(f))[1..n]
  BY <1>1, Zenon DEF FoldLeft, MapThenFoldSet
<1> HIDE DEF total
<1>3. ASSUME NEW b \in V, NEW i \in 1..n PROVE op(b, q[i]) \in V
  <2>1. q[i] \in Chars
    BY <1>1
  <2>2. Trim(q[i]) \in Chars /\ Trim(Trim(q[i])) = Trim(q[i])
    BY <2>1, TrimIs, TrimTwice
  <2>3. Trim(q[i]) # <<>> => Trim(q[i]) \in Statements
    BY <2>2 DEF Statements
  <2>4. QED
    BY <2>3
<1>4. <<>> \in V
  OBVIOUS
<1> HIDE DEF V, op
<1>5. N \in [1..n -> [V -> V]]
  BY <1>3
<1>6. \A i \in 1..n : \A b \in V : N[i][b] = op(b, q[i])
  OBVIOUS
<1> HIDE DEF N, n
<1>7. \A A \in D : A # {} => A \ {Max(A)} \in D /\ Max(A) \in 1..n
  <2>1. \A A \in D : A # {} => A \ {Max(A)} \in D /\ Max(A) \in A
    BY <1>1, GreatestPlace
  <2>2. QED
    BY <2>1
<1>8. PICK f \in [D -> V] : FoldsAlong(f, n, <<>>, N)
  BY <1>1, <1>4, <1>5, FoldExists
<1>9. \A A \in D : f[A] = IF A = {} THEN <<>> ELSE N[Max(A)][f[A \ {Max(A)}]]
  BY <1>8 DEF FoldsAlong
<1> HIDE DEF D
<1>10. \A A \in D : f[A] = IF A = {} THEN <<>> ELSE op(f[A \ {Max(A)}], q[Max(A)])
  BY <1>6, <1>7, <1>8, <1>9
<1>11. Is(f)
  BY <1>8, <1>10
<1> DEFINE g == CHOOSE e : Is(e)
<1>12. Is(g)
  <2> HIDE DEF Is
  <2>1. QED
    BY <1>11
<1> HIDE DEF g
<1>13. \A A \in D : g[A] = IF A = {} THEN <<>> ELSE op(g[A \ {Max(A)}], q[Max(A)])
  BY <1>12
<1>14. total = g[1..n]
  BY <1>2 DEF g
<1> HIDE DEF Is
<1>15. {} \in D
  BY DEF D
<1>16. g[{}] \in V
  BY <1>4, <1>13, <1>15
<1>17. \A A \in SUBSET (1..n) : A # {} /\ g[A \ {Max(A)}] \in V => g[A] \in V
  BY <1>3, <1>7, <1>13 DEF D
<1>18. g[1..n] \in V
  <2> HIDE DEF D
  <2>1. QED
    BY <1>1, <1>16, <1>17, FoldKeeps
<1>19. total \in V
  BY <1>14, <1>18
<1>20. QED
  BY <1>19 DEF total, V

----------------------------------------------------------------------------
(* Replace and Substitute. *)

LEMMA GlueIs == ASSUME NEW a \in Chars, NEW b \in Chars PROVE a \o b \in Chars
  BY DEF Chars

LEMMA MarkIs == \A c \in Marks : <<c>> \in Chars /\ <<c, c>> \in Chars
<1> SUFFICES ASSUME NEW c \in Marks PROVE <<c>> \in Chars /\ <<c, c>> \in Chars
  OBVIOUS
<1>1. c \in Alphabet
  BY DEF Alphabet
<1>2. QED
  BY <1>1 DEF Chars

LEMMA ReplaceIs ==
    ASSUME NEW t \in Chars, NEW old \in Chars, Len(old) > 0, NEW new \in Chars
    PROVE  Replace(t, old, new) \in Chars
<1> DEFINE n == Len(t)
           m == Len(old)
           D == 1 .. n + 1
           Fits(i) == i + m <= n + 1 /\ SubSeq(t, i, i + m - 1) = old
           body(f, i) == IF i > n THEN <<>>
                         ELSE IF Fits(i) THEN new \o f[i + m]
                         ELSE <<t[i]>> \o f[i + 1]
           Body == [i \in D |-> [f \in [D -> Chars] |-> body(f, i)]]
           rank == [i \in D |-> n + 1 - i]
           Is(f) == f = [i \in D |-> body(f, i)]
<1>1. Replace(t, old, new) = (CHOOSE f : Is(f))[1]
  BY DEF Replace
<1>2. n \in Nat /\ m \in Nat /\ m > 0 /\ \A i \in 1..n : <<t[i]>> \in Chars
  <2>1. n \in Nat /\ m \in Nat /\ \A i \in 1..n : t[i] \in Alphabet
    BY TextIs
  <2>2. QED
    BY <2>1, OneIs DEF Chars
<1> HIDE DEF n, m
<1>3. \A i \in D : /\ ~(i > n) => i + 1 \in D /\ i \in 1..n
                   /\ ~(i > n) /\ Fits(i) => i + m \in D
  BY <1>2
<1>4. rank \in [D -> 0..n]
  BY <1>2
<1>5. \A i \in D : /\ ~(i > n) => rank[i + 1] < rank[i]
                   /\ ~(i > n) /\ Fits(i) => rank[i + m] < rank[i]
  <2> SUFFICES ASSUME NEW i \in D, ~(i > n)
               PROVE  rank[i + 1] < rank[i] /\ (Fits(i) => rank[i + m] < rank[i])
    OBVIOUS
  <2>1. i \in Nat /\ rank[i] = n + 1 - i
    BY <1>2
  <2>2. i + 1 \in D /\ rank[i + 1] = n + 1 - (i + 1)
    BY <1>2, <1>3
  <2>3. Fits(i) => i + m \in D /\ rank[i + m] = n + 1 - (i + m)
    BY <1>3
  <2> HIDE DEF rank, D, Fits
  <2>4. QED
    BY <1>2, <2>1, <2>2, <2>3
<1> HIDE DEF D, Fits
<1>6. ASSUME NEW i \in D, NEW f, NEW g, \A j \in D : rank[j] < rank[i] => f[j] = g[j]
      PROVE  body(f, i) = body(g, i)
  <2>1. ~(i > n) => f[i + 1] = g[i + 1]
    BY <1>3, <1>5, <1>6
  <2>2. ~(i > n) /\ Fits(i) => f[i + m] = g[i + m]
    BY <1>3, <1>5, <1>6
  <2>3. QED
    BY <2>1, <2>2
<1>7. ASSUME NEW i \in D, NEW f \in [D -> Chars]
      PROVE  body(f, i) \in Chars
  <2>1. CASE i > n
    BY <2>1 DEF Chars
  <2>2. CASE ~(i > n) /\ Fits(i)
    <3>1. f[i + m] \in Chars
      BY <1>3, <2>2
    <3>2. new \o f[i + m] \in Chars
      BY <3>1, GlueIs
    <3>3. QED
      BY <2>2, <3>2
  <2>3. CASE ~(i > n) /\ ~Fits(i)
    <3>1. f[i + 1] \in Chars /\ <<t[i]>> \in Chars
      BY <1>2, <1>3, <2>3
    <3>2. <<t[i]>> \o f[i + 1] \in Chars
      BY <3>1, GlueIs
    <3>3. QED
      BY <2>3, <3>2
  <2>4. QED
    BY <2>1, <2>2, <2>3
<1>8. \A f : Is(f) => \A i \in D : f[i] = body(f, i)
  <2> HIDE DEF body
  <2>1. QED
    OBVIOUS
<1> HIDE DEF body, rank
<1>9. \A i \in D : \A f \in [D -> Chars] : Body[i][f] = body(f, i)
  OBVIOUS
<1>10. IsRecursion(D, Chars, rank, Body)
  <2>1. Chars # {} /\ Body \in [D -> [[D -> Chars] -> Chars]]
    BY <1>7 DEF Chars
  <2> HIDE DEF Body
  <2>2. ASSUME NEW i \in D, NEW f \in [D -> Chars], NEW g \in [D -> Chars],
               \A j \in D : rank[j] < rank[i] => f[j] = g[j]
        PROVE  Body[i][f] = Body[i][g]
    <3>1. body(f, i) = body(g, i)
      BY <1>6, <2>2
    <3>2. QED
      BY <1>9, <3>1
  <2>3. QED
    BY <1>2, <1>4, <2>1, <2>2 DEF IsRecursion
<1> HIDE DEF Body
<1>11. \E f : Is(f)
  <2>1. PICK f \in [D -> Chars] : \A i \in D : f[i] = Body[i][f]
    BY <1>10, RecursiveFunction
  <2>2. QED
    BY <1>9, <2>1
<1> DEFINE h == CHOOSE f : Is(f)
<1>12. Is(h)
  <2> HIDE DEF Is
  <2>1. QED
    BY <1>11
<1>13. h = [i \in D |-> h[i]] /\ \A i \in D : h[i] = body(h, i)
  <2> HIDE DEF h
  <2>1. QED
    BY <1>12
<1>14. Replace(t, old, new) = h[1]
  BY <1>1
<1> HIDE DEF h, Is
<1>15. Follows(h, D, Chars, rank, Body)
  <2>1. ASSUME NEW i \in D, NEW f \in [D -> Chars],
               \A j \in D : rank[j] < rank[i] => h[j] = f[j]
        PROVE  h[i] = Body[i][f]
    <3>1. body(h, i) = body(f, i)
      BY <1>6, <2>1
    <3>2. QED
      BY <1>9, <1>13, <3>1
  <2>2. QED
    BY <2>1 DEF Follows
<1>16. h \in [D -> Chars]
  BY <1>10, <1>13, <1>15, RecursiveValues
<1>17. 1 \in D
  BY <1>2 DEF D
<1>18. QED
  BY <1>14, <1>16, <1>17

\* The sequence of a variable's forms, each with what it becomes.
IsForm(form) == form[1] \in Chars /\ Len(form[1]) > 0 /\ form[2] \in Chars

LEMMA FormsAre ==
    ASSUME NEW name \in Chars, NEW value \in Chars
    PROVE  /\ Len(Forms(name, value)) = 3 /\ DOMAIN Forms(name, value) = 1..3
           /\ \A i \in 1..3 : IsForm(Forms(name, value)[i])
<1>1. /\ "'" \in Marks /\ "\"" \in Marks /\ ":" \in Marks
  BY DEF Marks
<1>2. ASSUME NEW q \in Marks, NEW t \in Chars
      PROVE  QuotedBy(t, q) \in Chars /\ Doubled(t, q) \in Chars
  <2>1. <<q>> \in Chars /\ <<q, q>> \in Chars
    BY MarkIs
  <2>2. Len(<<q>>) > 0
    OBVIOUS
  <2>3. Doubled(t, q) \in Chars
    BY <2>1, <2>2, ReplaceIs DEF Doubled
  <2>4. QED
    BY <2>1, <2>3, GlueIs DEF QuotedBy
<1> DEFINE qn == QuotedBy(name, "'")
           dn == QuotedBy(name, "\"")
           lv == Literal(value)
           iv == QuotedBy(Doubled(value, "\""), "\"")
           F == Forms(name, value)
           c == ":"
<1>3. qn \in Chars /\ dn \in Chars /\ lv \in Chars /\ iv \in Chars
  BY <1>1, <1>2 DEF Literal
<1>4. F = << <<<<c>> \o qn, lv>>, <<<<c>> \o dn, iv>>, <<<<c>> \o name, value>> >>
  BY DEF Forms
<1>5. c \in Marks
  BY <1>1
<1> HIDE DEF qn, dn, lv, iv, F, c
<1>6. \A x \in Chars : <<c>> \o x \in Chars /\ Len(<<c>> \o x) > 0
  <2>1. <<c>> \in Chars
    BY <1>5, MarkIs
  <2>2. \A x \in Chars : Len(<<c>> \o x) > 0
    BY <1>5 DEF Chars, Alphabet
  <2>3. QED
    BY <2>1, <2>2, GlueIs
<1>7. Len(F) = 3 /\ DOMAIN F = 1..3
  BY <1>4
<1>8. /\ F[1][1] = <<c>> \o qn /\ F[1][2] = lv
      /\ F[2][1] = <<c>> \o dn /\ F[2][2] = iv
      /\ F[3][1] = <<c>> \o name /\ F[3][2] = value
  BY <1>4
<1>9. IsForm(F[1]) /\ IsForm(F[2]) /\ IsForm(F[3])
  BY <1>3, <1>6, <1>8 DEF IsForm
<1>10. \A i \in 1..3 : i = 1 \/ i = 2 \/ i = 3
  OBVIOUS
<1>11. QED
  BY <1>7, <1>9, <1>10 DEF F


\* One variable in all its forms.
ReplaceForms(u, forms) == FoldLeft(LAMBDA v, form : Replace(v, form[1], form[2]), u, forms)

LEMMA ReplaceFormsIs ==
    ASSUME NEW t \in Chars, NEW q, NEW n \in Nat, DOMAIN q = 1..n,
           \A i \in 1..n : IsForm(q[i])
    PROVE  ReplaceForms(t, q) \in Chars
<1> DEFINE D == SUBSET (1..n)
           op(u, e) == Replace(u, e[1], e[2])
           Is(f) == f = [A \in D |-> IF A = {} THEN t ELSE op(f[A \ {Max(A)}], q[Max(A)])]
           N == [i \in 1..n |-> [u \in Chars |-> op(u, q[i])]]
           total == ReplaceForms(t, q)
<1>2. total = (CHOOSE f : Is(f))[1..n]
  BY Zenon DEF ReplaceForms, FoldLeft, MapThenFoldSet
<1> HIDE DEF total
<1>3. ASSUME NEW u \in Chars, NEW i \in 1..n PROVE op(u, q[i]) \in Chars
  BY ReplaceIs DEF IsForm
<1> HIDE DEF op
<1>5. N \in [1..n -> [Chars -> Chars]]
  BY <1>3
<1>6. \A i \in 1..n : \A u \in Chars : N[i][u] = op(u, q[i])
  OBVIOUS
<1> HIDE DEF N
<1>7. \A A \in D : A # {} => A \ {Max(A)} \in D /\ Max(A) \in 1..n
  <2>1. \A A \in D : A # {} => A \ {Max(A)} \in D /\ Max(A) \in A
    BY GreatestPlace
  <2>2. QED
    BY <2>1
<1>8. PICK f \in [D -> Chars] : FoldsAlong(f, n, t, N)
  BY <1>5, FoldExists
<1>9. \A A \in D : f[A] = IF A = {} THEN t ELSE N[Max(A)][f[A \ {Max(A)}]]
  BY <1>8 DEF FoldsAlong
<1> HIDE DEF D
<1>10. \A A \in D : f[A] = IF A = {} THEN t ELSE op(f[A \ {Max(A)}], q[Max(A)])
  BY <1>6, <1>7, <1>8, <1>9
<1>11. Is(f)
  BY <1>8, <1>10
<1> DEFINE g == CHOOSE e : Is(e)
<1>12. Is(g)
  <2> HIDE DEF Is
  <2>1. QED
    BY <1>11
<1> HIDE DEF g
<1>13. \A A \in D : g[A] = IF A = {} THEN t ELSE op(g[A \ {Max(A)}], q[Max(A)])
  BY <1>12
<1>14. total = g[1..n]
  BY <1>2 DEF g
<1> HIDE DEF Is
<1>15. {} \in D
  BY DEF D
<1>16. g[{}] \in Chars
  BY <1>13, <1>15
<1>17. \A A \in SUBSET (1..n) : A # {} /\ g[A \ {Max(A)}] \in Chars => g[A] \in Chars
  BY <1>3, <1>7, <1>13 DEF D
<1>18. g[1..n] \in Chars
  <2> HIDE DEF D
  <2>1. QED
    BY <1>16, <1>17, FoldKeeps
<1>19. QED
  BY <1>14, <1>18 DEF total

LEMMA SubstituteIs ==
    ASSUME NEW t \in Chars, NEW env \in Environments, NEW order \in Orders(env)
    PROVE  Substitute(t, env, order) \in Chars
<1>1. \A name \in DOMAIN env : name \in Chars /\ env[name] \in Chars
  <2>1. Seq(STRING) \subseteq Chars
    <3>1. STRING \subseteq Alphabet
      BY DEF Alphabet
    <3>2. QED
      BY <3>1, SeqMonotonic DEF Chars
  <2>2. QED
    BY <2>1, SqlTextAssumption
<1> DEFINE n == Cardinality(DOMAIN env)
<1>2. n \in Nat /\ order \in [1..n -> DOMAIN env]
  <2>1. n \in Nat
    BY SqlTextAssumption, FS_CardinalityType
  <2>2. QED
    BY <2>1 DEF Orders, SetToSeqs
<1> HIDE DEF n
<1> DEFINE D == SUBSET (1..n)
           op(u, name) == ReplaceForms(u, Forms(name, env[name]))
           Is(f) == f = [A \in D |-> IF A = {} THEN t ELSE op(f[A \ {Max(A)}], order[Max(A)])]
           N == [i \in 1..n |-> [u \in Chars |-> op(u, order[i])]]
           total == Substitute(t, env, order)
<1>3. total = (CHOOSE f : Is(f))[1..n]
  <2>1. total = FoldLeft(LAMBDA text, name : ReplaceForms(text, Forms(name, env[name])), t, order)
    BY Zenon DEF Substitute, ReplaceForms
  <2>2. DOMAIN order = 1..n
    BY <1>2
  <2> HIDE DEF total
  <2>3. QED
    BY <2>1, <2>2, Zenon DEF FoldLeft, MapThenFoldSet
<1> HIDE DEF total
<1>4. ASSUME NEW u \in Chars, NEW i \in 1..n PROVE op(u, order[i]) \in Chars
  <2>1. order[i] \in Chars /\ env[order[i]] \in Chars
    BY <1>1, <1>2
  <2> DEFINE forms == Forms(order[i], env[order[i]])
  <2>2. DOMAIN forms = 1..3 /\ \A k \in 1..3 : IsForm(forms[k])
    BY <2>1, FormsAre
  <2> HIDE DEF forms
  <2>3. ReplaceForms(u, forms) \in Chars
    BY <2>2, ReplaceFormsIs
  <2>4. QED
    BY <2>3 DEF forms
<1> HIDE DEF op
<1>5. N \in [1..n -> [Chars -> Chars]]
  BY <1>4
<1>6. \A i \in 1..n : \A u \in Chars : N[i][u] = op(u, order[i])
  OBVIOUS
<1> HIDE DEF N
<1>7. \A A \in D : A # {} => A \ {Max(A)} \in D /\ Max(A) \in 1..n
  <2>1. \A A \in D : A # {} => A \ {Max(A)} \in D /\ Max(A) \in A
    BY <1>2, GreatestPlace
  <2>2. QED
    BY <2>1
<1>8. PICK f \in [D -> Chars] : FoldsAlong(f, n, t, N)
  BY <1>2, <1>5, FoldExists
<1>9. \A A \in D : f[A] = IF A = {} THEN t ELSE N[Max(A)][f[A \ {Max(A)}]]
  BY <1>8 DEF FoldsAlong
<1> HIDE DEF D
<1>10. \A A \in D : f[A] = IF A = {} THEN t ELSE op(f[A \ {Max(A)}], order[Max(A)])
  BY <1>6, <1>7, <1>8, <1>9
<1>11. Is(f)
  BY <1>8, <1>10
<1> DEFINE g == CHOOSE e : Is(e)
<1>12. Is(g)
  <2> HIDE DEF Is
  <2>1. QED
    BY <1>11
<1> HIDE DEF g
<1>13. \A A \in D : g[A] = IF A = {} THEN t ELSE op(g[A \ {Max(A)}], order[Max(A)])
  BY <1>12
<1>14. total = g[1..n]
  BY <1>3 DEF g
<1> HIDE DEF Is
<1>15. {} \in D
  BY DEF D
<1>16. g[{}] \in Chars
  BY <1>13, <1>15
<1>17. \A A \in SUBSET (1..n) : A # {} /\ g[A \ {Max(A)}] \in Chars => g[A] \in Chars
  BY <1>4, <1>7, <1>13 DEF D
<1>18. g[1..n] \in Chars
  <2> HIDE DEF D
  <2>1. QED
    BY <1>2, <1>16, <1>17, FoldKeeps
<1>19. QED
  BY <1>14, <1>18 DEF total

LEMMA StatementsAre ==
    ASSUME NEW t \in Chars
    PROVE  SplitStatements(t) \in Seq(Chars) /\ Batch(t) \in Seq(Statements)
<1> DEFINE s == Scan(Splitter, t)
           u == SubSeq(t, s.start, Len(t))
<1>1. s \in States(t) /\ u \in Chars
  BY CutsGlue, RestIsAlone
<1>2. SplitStatements(t) = IF Trim(u) = <<>> THEN s.done ELSE Append(s.done, Trim(u))
  BY DEF SplitStatements, Cuts
<1> HIDE DEF s, u
<1>3. s.done \in Seq(Chars) /\ Trim(u) \in Chars
  BY <1>1, StateIs, TrimIs
<1>4. Append(s.done, Trim(u)) \in Seq(Chars)
  BY <1>3, AppendIs DEF AppendHolds
<1>5. SplitStatements(t) \in Seq(Chars)
  BY <1>2, <1>3, <1>4
<1>6. QED
  BY <1>5, BatchIs DEF Batch

----------------------------------------------------------------------------
(* The invariant of the editor. *)

EditorInv ==
    /\ keys \in Keyboards
    /\ typed \in 0 .. MaxTyped
    /\ buffer \in Chars /\ line \in Chars /\ sent \in Seq(Statements)
    /\ painted = Highlight(line)
    /\ Trim(buffer) # <<>> \/ buffer = <<>>

LEMMA InputIs ==
    ASSUME NEW b \in Chars, NEW l \in Chars
    PROVE  /\ b \o <<"\n">> \o l \in Chars
           /\ Trim(b \o <<"\n">> \o l) \in Chars
<1>1. "\n" \in Marks
  BY DEF Marks
<1>2. <<"\n">> \in Chars
  BY <1>1, MarkIs
<1>3. b \o <<"\n">> \in Chars
  BY <1>2, GlueIs
<1>4. b \o <<"\n">> \o l \in Chars
  BY <1>3, GlueIs
<1>5. QED
  BY <1>4, TrimIs

LEMMA EditorStart == Init => EditorInv
<1> SUFFICES ASSUME Init PROVE EditorInv
  OBVIOUS
<1>1. <<>> \in Chars /\ <<>> \in Seq(Statements) /\ 0 \in 0 .. MaxTyped
  BY SqlTextAssumption DEF Chars
<1>2. QED
  BY <1>1 DEF Init, Blankline, EditorInv

LEMMA EditorKeeps == EditorInv /\ [Next]_vars => EditorInv'
<1> SUFFICES ASSUME EditorInv, [Next]_vars PROVE EditorInv'
  OBVIOUS
<1> USE DEF EditorInv
<1>0. /\ <<>> \in Chars /\ <<>> \in Seq(Statements) /\ 0 \in 0 .. MaxTyped /\ MaxTyped \in Nat
  BY SqlTextAssumption DEF Chars
<1>1. ASSUME NEW piece \in keys, Type(piece) PROVE EditorInv'
  <2>1. piece \in Chars
    <3>1. STRING \subseteq Alphabet
      BY DEF Alphabet
    <3>2. Seq(STRING) \subseteq Chars
      BY <3>1, SeqMonotonic DEF Chars
    <3>3. QED
      BY <3>2, SqlTextAssumption
  <2>2. line' \in Chars
    BY <1>1, <2>1, GlueIs DEF Type
  <2>3. typed' \in 0 .. MaxTyped
    BY <1>0, <1>1 DEF Type
  <2>4. painted' = Highlight(line') /\ keys' = keys /\ buffer' = buffer /\ sent' = <<>>
    BY <1>1 DEF Type
  <2>5. QED
    BY <1>0, <2>2, <2>3, <2>4
<1>2. ASSUME keys' = keys, buffer' = <<>>, line' = <<>>, typed' = 0, painted' = Blankline,
             sent' \in Seq(Statements)
      PROVE  EditorInv'
  BY <1>0, <1>2 DEF Blankline
<1>3. CASE EnterBlank
  BY <1>0, <1>2, <1>3 DEF EnterBlank
<1>4. CASE EnterMore
  <2>1. Input \in Chars
    BY InputIs DEF Input
  <2>2. typed' \in 0 .. MaxTyped
    BY <1>0, <1>4 DEF EnterMore
  <2>3. /\ Trim(Input) # <<>> /\ buffer' = Input /\ line' = <<>> /\ painted' = Blankline
        /\ sent' = <<>> /\ keys' = keys
    BY <1>4 DEF EnterMore
  <2>4. QED
    BY <1>0, <2>1, <2>2, <2>3 DEF Blankline
<1>5. CASE EnterSend
  <2>0. PICK env \in Environments : \E order \in Orders(env) :
          sent' = Batch(Substitute(Trim(Input), env, order))
    BY <1>5 DEF EnterSend
  <2>1. PICK order \in Orders(env) :
          sent' = Batch(Substitute(Trim(Input), env, order))
    BY <2>0
  <2>2. Input \in Chars
    BY InputIs DEF Input
  <2>3. Substitute(Trim(Input), env, order) \in Chars
    BY <2>2, TrimIs, SubstituteIs
  <2>4. sent' \in Seq(Statements)
    BY <2>1, <2>3, StatementsAre
  <2>5. QED
    BY <1>2, <1>5, <2>4 DEF EnterSend
<1>6. CASE CtrlC
  BY <1>0, <1>2, <1>6 DEF CtrlC
<1>7. CASE UNCHANGED vars
  BY <1>7 DEF vars, Input
<1>8. QED
  BY <1>1, <1>3, <1>4, <1>5, <1>6, <1>7 DEF Next

LEMMA EditorAlways == Spec => []EditorInv
  BY EditorStart, EditorKeeps, PTL DEF Spec

\* What EditorInv says of a state.
LEMMA CutsHold == EditorInv => StatementsAreTheText
<1> SUFFICES ASSUME EditorInv PROVE StatementsAreTheText
  OBVIOUS
<1>1. Input \in Chars
  BY InputIs DEF EditorInv, Input
<1>2. CutsAreTheText
  BY <1>1, TextIsCut, Zenon DEF CutsAreTheText, CutsOf
<1>3. CutsByParity
  BY <1>1, TextIsCutByQuotes, Zenon DEF CutsByParity, CutsByQuotes
<1>4. CaretPoints
  <2> SUFFICES ASSUME NEW k \in DOMAIN sent, NEW p \in DOMAIN sent[k],
                      ~WideOnEarlierLine(sent[k], p)
               PROVE  Caret(sent[k], p) = p
    BY Zenon DEF CaretPoints, WideOnEarlierLine, Break
  <2>1. sent[k] \in Statements
    BY DEF EditorInv
  <2>2. sent[k] \in Chars
    BY <2>1 DEF Statements
  <2>3. p \in 1 .. Len(sent[k])
    BY <2>2, TextIs
  <2>4. QED
    BY <2>2, <2>3, CaretIsExact
<1>5. QED
  BY <1>2, <1>3, <1>4 DEF StatementsAreTheText

----------------------------------------------------------------------------
(* ScannersAgree. *)

StandsFirst(p, u) == Len(p) <= Len(u) /\ \A k \in 1..Len(p) : p[k] = u[k]

LEMMA PrefixIs ==
    ASSUME NEW p \in Chars, NEW u \in Chars
    PROVE  IsPrefix(p, u) <=> StandsFirst(p, u)
<1> DEFINE n == Len(p)
           v == SubSeq(u, 1, n)
<1>1. n \in Nat /\ Len(u) \in Nat
  BY TextIs
<1>2. IsPrefix(p, u) <=> n <= Len(u) /\ p = v
  BY WholeText DEF IsPrefix
<1>3. ASSUME n <= Len(u)
      PROVE  v \in Chars /\ Len(v) = n /\ \A k \in 1..n : v[k] = u[k]
  <2>1. 1 \in 1..Len(u) + 1 /\ n \in 0..Len(u) /\ 1 <= n + 1 /\ n - 1 + 1 = n
        /\ \A k \in 1..n : 1 + k - 1 = k
    BY <1>1, <1>3
  <2>2. PartHolds(u, 1, n)
    BY <2>1, PartIs
  <2>3. QED
    BY <2>1, <2>2 DEF PartHolds
<1> HIDE DEF v
<1>4. ASSUME n <= Len(u) PROVE p = v <=> \A k \in 1..n : p[k] = u[k]
  <2>1. (\A k \in 1..n : p[k] = v[k]) => p = v
    BY <1>3, <1>4, SeqEqual DEF Chars
  <2>2. QED
    BY <1>3, <1>4, <2>1
<1>5. QED
  BY <1>2, <1>4 DEF StandsFirst

StandsLast(p, u) ==
    Len(p) <= Len(u) /\ \A k \in 1..Len(p) : p[k] = u[Len(u) - Len(p) + k]

LEMMA ReverseIs ==
    ASSUME NEW p \in Chars
    PROVE  Reverse(p) \in Chars /\ Len(Reverse(p)) = Len(p)
           /\ \A k \in 1..Len(p) : Reverse(p)[k] = p[(Len(p) - k) + 1]
<1>1. Len(p) \in Nat /\ \A i \in 1..Len(p) : p[i] \in Alphabet
  BY TextIs
<1>2. Reverse(p) = [i \in 1..Len(p) |-> p[(Len(p) - i) + 1]]
  BY DEF Reverse
<1>3. \A i \in 1..Len(p) : (Len(p) - i) + 1 \in 1..Len(p)
  BY <1>1
<1>4. Reverse(p) \in [1..Len(p) -> Alphabet]
  BY <1>1, <1>2, <1>3
<1>5. QED
  BY <1>1, <1>2, <1>4, SequenceOf DEF Chars

LEMMA SuffixIs ==
    ASSUME NEW p \in Chars, NEW u \in Chars
    PROVE  IsSuffix(p, u) <=> StandsLast(p, u)
<1> DEFINE n == Len(p)
           m == Len(u)
<1>1. n \in Nat /\ m \in Nat
  BY TextIs
<1>2. IsSuffix(p, u) <=> n <= m /\ \A k \in 1..n : Reverse(p)[k] = Reverse(u)[k]
  BY ReverseIs, PrefixIs DEF IsSuffix, StandsFirst
<1>3. ASSUME n <= m
      PROVE  (\A k \in 1..n : Reverse(p)[k] = Reverse(u)[k]) <=> \A k \in 1..n : p[k] = u[m - n + k]
  <2>1. \A k \in 1..n : k \in 1..m /\ (n - k) + 1 \in 1..n /\ (n - ((n - k) + 1)) + 1 = k
                        /\ m - n + ((n - k) + 1) = (m - k) + 1
    BY <1>1, <1>3
  <2>2. \A k \in 1..n : Reverse(p)[k] = p[(n - k) + 1] /\ Reverse(u)[k] = u[(m - k) + 1]
    BY <2>1, ReverseIs
  <2>3. ASSUME \A k \in 1..n : p[k] = u[m - n + k], NEW k \in 1..n
        PROVE  Reverse(p)[k] = Reverse(u)[k]
    <3>1. p[(n - k) + 1] = u[m - n + ((n - k) + 1)]
      BY <2>1, <2>3
    <3>2. QED
      BY <2>1, <2>2, <3>1
  <2>4. ASSUME \A k \in 1..n : Reverse(p)[k] = Reverse(u)[k], NEW k \in 1..n
        PROVE  p[k] = u[m - n + k]
    <3> DEFINE x == (n - k) + 1
    <3>1. x \in 1..n /\ (n - x) + 1 = k /\ (m - x) + 1 = m - n + k
      BY <1>1
    <3>2. Reverse(p)[x] = p[(n - x) + 1] /\ Reverse(u)[x] = u[(m - x) + 1]
      BY <2>2, <3>1
    <3>3. QED
      BY <2>4, <3>1, <3>2
  <2>5. QED
    BY <2>3, <2>4
<1>4. QED
  BY <1>2, <1>3 DEF StandsLast

LEMMA HasIs ==
    ASSUME NEW t \in Chars, NEW p \in Chars, NEW i \in 1..Len(t),
           i + Len(p) <= Len(t) + 1,
           \A k \in 1..Len(p) : t[i + k - 1] = p[k]
    PROVE  Has(t, p)
<1> DEFINE u == SubSeq(t, i, Len(t))
<1>1. Len(t) \in Nat /\ Len(p) \in Nat /\ DOMAIN t = 1..Len(t)
  BY TextIs
<1>2. u \in Chars /\ Len(u) = Len(t) - i + 1 /\ \A k \in 1..Len(t) - i + 1 : u[k] = t[i + k - 1]
  <2>1. i \in 1..Len(t) + 1 /\ Len(t) \in 0..Len(t) /\ i <= Len(t) + 1
    BY <1>1
  <2>2. PartHolds(t, i, Len(t))
    BY <2>1, PartIs
  <2>3. QED
    BY <2>2 DEF PartHolds
<1> HIDE DEF u
<1>3. Len(p) <= Len(u) /\ \A k \in 1..Len(p) : k \in 1..Len(t) - i + 1
  BY <1>1, <1>2
<1>4. IsPrefix(p, u)
  BY <1>2, <1>3, PrefixIs DEF StandsFirst
<1>5. QED
  BY <1>1, <1>4 DEF Has, u

\* A text with dollar signs around it.
Closing(tag) == <<"$">> \o tag \o <<"$">>

LEMMA ClosingIs ==
    ASSUME NEW tag \in Chars
    PROVE  /\ Closing(tag) \in Chars /\ Len(Closing(tag)) = Len(tag) + 2
           /\ Closing(tag)[1] = "$" /\ Closing(tag)[Len(tag) + 2] = "$"
           /\ \A k \in 2..Len(tag) + 1 : Closing(tag)[k] = tag[k - 1]
<1> DEFINE c == "$"
           m == Len(tag)
<1>1. m \in Nat /\ <<c>> \in Chars /\ Len(<<c>>) = 1 /\ <<c>>[1] = c
  <2>1. c \in Marks
    BY DEF Marks
  <2>2. QED
    BY <2>1, TextIs, MarkIs
<1> HIDE DEF c, m
<1> DEFINE e == <<c>>
           a == e \o tag
           b == a \o e
<1>2. JoinHolds(e, tag)
  BY <1>1, JoinIs
<1> HIDE DEF e
<1>3. a \in Chars /\ Len(a) = m + 1 /\ a[1] = c /\ \A k \in 2..m + 1 : a[k] = tag[k - 1]
  <2>1. 1 + m = m + 1 /\ 1 \in 1..m + 1 /\ \A k \in 2..m + 1 : k \in 1..m + 1 /\ ~(k <= 1)
    BY <1>1
  <2>2. QED
    BY <1>1, <1>2, <2>1 DEF JoinHolds, e, m
<1> HIDE DEF a
<1>4. JoinHolds(a, e)
  BY <1>1, <1>3, JoinIs DEF e
<1>5. b \in Chars /\ Len(b) = m + 2 /\ (\A k \in 1..m + 1 : b[k] = a[k]) /\ b[m + 2] = c
  <2>1. (m + 1) + 1 = m + 2 /\ m + 2 \in 1..m + 2 /\ ~(m + 2 <= m + 1) /\ (m + 2) - (m + 1) = 1
        /\ \A k \in 1..m + 1 : k \in 1..m + 2 /\ k <= m + 1
    BY <1>1
  <2>2. e[1] = c /\ Len(e) = 1
    BY <1>1 DEF e
  <2>3. QED
    BY <1>3, <1>4, <2>1, <2>2 DEF JoinHolds
<1>6. Closing(tag) = b
  BY DEF Closing, a, e, c
<1> HIDE DEF b
<1>7. 1 \in 1..m + 1 /\ \A k \in 2..m + 1 : k \in 1..m + 1
  BY <1>1
<1>8. QED
  BY <1>3, <1>5, <1>6, <1>7 DEF c, m


Closes(t, tag, from, at) == IsSuffix(Closing(tag), SubSeq(t, from, at))

LEMMA ClosesIs ==
    ASSUME NEW t \in Chars, NEW tag \in Chars, NEW from \in 1..Len(t), NEW at \in from..Len(t)
    PROVE  Closes(t, tag, from, at) <=>
             /\ Len(tag) + 2 <= at - from + 1
             /\ \A k \in 1..Len(tag) + 2 : Closing(tag)[k] = t[at - (Len(tag) + 2) + k]
<1> DEFINE u == SubSeq(t, from, at)
           c == Closing(tag)
           n == Len(tag) + 2
           m == at - from + 1
<1>1. Len(t) \in Nat /\ Len(tag) \in Nat /\ n \in Nat /\ m \in Nat
      /\ at \in Nat /\ from \in Nat /\ from >= 1 /\ from <= at /\ at <= Len(t)
  BY TextIs
<1>2. u \in Chars /\ Len(u) = m /\ \A k \in 1..m : u[k] = t[from + k - 1]
  <2>1. from \in 1..Len(t) + 1 /\ at \in 0..Len(t) /\ from <= at + 1
    BY <1>1
  <2>2. PartHolds(t, from, at)
    BY <2>1, PartIs
  <2>3. QED
    BY <2>2 DEF PartHolds
<1>3. c \in Chars /\ Len(c) = n
  BY ClosingIs
<1> HIDE DEF u, c
<1>4. Closes(t, tag, from, at) <=> n <= m /\ \A k \in 1..n : c[k] = u[m - n + k]
  <2>1. Closes(t, tag, from, at) <=> StandsLast(c, u)
    <3>1. Closes(t, tag, from, at) <=> IsSuffix(c, u)
      BY DEF Closes, u, c
    <3>2. QED
      BY <1>2, <1>3, <3>1, SuffixIs
  <2>2. QED
    BY <1>2, <1>3, <2>1 DEF StandsLast
<1>5. ASSUME n <= m PROVE \A k \in 1..n : u[m - n + k] = t[at - n + k]
  <2>1. \A k \in 1..n : m - n + k \in 1..m /\ from + (m - n + k) - 1 = at - n + k
    BY <1>1, <1>5
  <2> HIDE DEF m, n
  <2>2. QED
    BY <1>2, <2>1
<1> HIDE DEF m, n
<1>6. Closes(t, tag, from, at) <=> n <= m /\ \A k \in 1..n : c[k] = t[at - n + k]
  BY <1>4, <1>5
<1>7. QED
  BY <1>6 DEF c, n, m

\* A tag opened at i, with its body from b on.
OpenedAt(t, i, b, tag) ==
    /\ i \in 1..Len(t) /\ t[i] = "$"
    /\ b - 1 \in i + 1..Len(t) /\ TagEnd(t, i) = b - 1 /\ t[b - 1] = "$"
    /\ tag = SubSeq(t, i + 1, b - 2)

\* The tag closes in the statement where it closes in the body.
LEMMA SameClosing ==
    ASSUME NEW t \in Chars, NEW i \in 1..Len(t), NEW b \in Nat, NEW tag \in Chars,
           OpenedAt(t, i, b, tag), NEW start \in 1..i, NEW at \in b..Len(t),
           ~SharesDollar(t)
    PROVE  Closes(t, tag, start, at) <=> Closes(t, tag, b, at)
<1> DEFINE j == b - 1
           n == Len(tag) + 2
           c == Closing(tag)
           L == Len(t)
<1>1. L \in Nat /\ DOMAIN t = 1..L /\ i \in Nat /\ b \in Nat /\ at \in Nat /\ start \in Nat
      /\ i >= 1 /\ start >= 1 /\ start <= i /\ b <= at /\ at <= L
  BY TextIs
<1>2. /\ t[i] = "$" /\ j \in i + 1..L /\ TagEnd(t, i) = j /\ t[j] = "$"
      /\ tag = SubSeq(t, i + 1, b - 2)
  BY DEF OpenedAt
<1>3. Len(tag) = b - i - 2 /\ n = b - i /\ n \in Nat /\ n >= 2
      /\ \A k \in 1..b - i - 2 : tag[k] = t[i + k]
  <2>1. i + 1 \in 1..L + 1 /\ b - 2 \in 0..L /\ i + 1 <= (b - 2) + 1 /\ (b - 2) - (i + 1) + 1 = b - i - 2
        /\ \A k \in 1..b - i - 2 : (i + 1) + k - 1 = i + k
    BY <1>1, <1>2
  <2>2. PartHolds(t, i + 1, b - 2)
    BY <2>1, PartIs
  <2>3. Len(tag) = b - i - 2 /\ \A k \in 1..b - i - 2 : tag[k] = t[i + k]
    BY <1>2, <2>1, <2>2 DEF PartHolds
  <2>4. b - i - 2 + 2 = b - i /\ b - i >= 2 /\ b - i \in Nat
    BY <1>1, <1>2
  <2>5. QED
    BY <2>3, <2>4
<1>4. \A k \in 1..n : c[k] = t[i + k - 1]
  <2>1. /\ Len(c) = n /\ c[1] = "$" /\ c[n] = "$" /\ \A k \in 2..Len(tag) + 1 : c[k] = tag[k - 1]
    BY ClosingIs
  <2> HIDE DEF c, n
  <2> SUFFICES ASSUME NEW k \in 1..n PROVE c[k] = t[i + k - 1]
    OBVIOUS
  <2>2. CASE k = 1
    <3>1. i + k - 1 = i
      BY <1>1, <2>2
    <3>2. QED
      BY <1>2, <2>1, <2>2, <3>1
  <2>3. CASE k = n
    <3>1. i + k - 1 = j
      BY <1>1, <1>3, <2>3
    <3>2. QED
      BY <1>2, <2>1, <2>3, <3>1
  <2>4. CASE k # 1 /\ k # n
    <3>1. k \in 2..Len(tag) + 1 /\ k - 1 \in 1..b - i - 2 /\ i + (k - 1) = i + k - 1
      BY <1>1, <1>3, <2>4
    <3>2. QED
      BY <1>3, <2>1, <3>1
  <2>5. QED
    BY <2>2, <2>3, <2>4
<1> DEFINE fits == \A k \in 1..n : c[k] = t[at - n + k]
<1>5. Closes(t, tag, b, at) <=> n <= at - b + 1 /\ fits
  <2>1. b \in 1..L /\ at \in b..L
    BY <1>1, <1>2
  <2>2. QED
    BY <2>1, ClosesIs
<1>6. Closes(t, tag, start, at) <=> n <= at - start + 1 /\ fits
  <2>1. start \in 1..L /\ at \in start..L
    BY <1>1, <1>2
  <2>2. QED
    BY <2>1, ClosesIs
<1> HIDE DEF c, n
<1>7. n <= at - b + 1 => n <= at - start + 1
  BY <1>1, <1>2, <1>3
<1>8. ASSUME n <= at - start + 1, fits PROVE n <= at - b + 1
  <2> SUFFICES ASSUME ~(n <= at - b + 1) PROVE FALSE
    OBVIOUS
  <2>1. "$" \notin Letters
    BY LettersAreNotMarks DEF Marks
  <2>2. \A k \in i + 1..j - 1 : t[k] \in Letters
    BY <1>2, TagEndIs
  <2> DEFINE q == at - n + 1
  <2>3. q \in i + 1..j /\ q \in Nat
    BY <1>1, <1>2, <1>3
  <2>4. t[q] = "$"
    <3>1. 1 \in 1..n /\ at - n + 1 = q /\ i + 1 - 1 = i
      BY <1>1, <1>3
    <3> HIDE DEF q
    <3>2. c[1] = t[q] /\ c[1] = t[i]
      BY <1>4, <1>8, <3>1
    <3>3. QED
      BY <1>2, <3>2
  <2>5. q = j
    <3>1. q \notin i + 1..j - 1
      BY <2>1, <2>2, <2>4
    <3>2. QED
      BY <1>1, <1>2, <2>3, <3>1
  <2>6. at = j + n - 1 /\ at - n = j - 1 /\ at - j + 1 = n /\ j - i + 1 = n
    BY <1>1, <1>3, <2>5
  <2>7. \A k \in 1..n : t[j + k - 1] = t[i + k - 1]
    <3>1. \A k \in 1..n : at - n + k = j + k - 1
      BY <1>1, <2>6
    <3>2. QED
      BY <1>4, <1>8, <3>1
  <2>8. t[at] = "$"
    <3>1. n \in 1..n /\ j + n - 1 = at /\ i + n - 1 = j
      BY <1>1, <1>3, <2>6
    <3>2. QED
      BY <1>2, <2>7, <3>1
  <2>9. TagEnd(t, j) = at
    <3>1. j \in 1..L /\ at \in j + 1..L + 1 /\ at \in 1..L
      BY <1>1, <1>2, <1>3, <2>6
    <3>2. At(t, at) \notin Letters
      BY <2>1, <2>8, <3>1, TextIs
    <3>3. ASSUME NEW k \in j + 1..at - 1 PROVE At(t, k) \in Letters
      <4>1. k - j + 1 \in 1..n /\ j + (k - j + 1) - 1 = k /\ i + (k - j + 1) - 1 \in i + 1..j - 1
            /\ k \in 1..L
        BY <1>1, <1>2, <1>3, <2>6
      <4>2. t[k] = t[i + (k - j + 1) - 1]
        BY <2>7, <4>1
      <4>3. QED
        BY <2>2, <4>1, <4>2, TextIs
    <3>4. QED
      BY <3>1, <3>2, <3>3, TagEndOnly
  <2>10. SubSeq(t, i, j) = SubSeq(t, j, at)
    <3> DEFINE x == SubSeq(t, i, j)
               y == SubSeq(t, j, at)
    <3>1. PartHolds(t, i, j)
      <4>1. i \in 1..L + 1 /\ j \in 0..L /\ i <= j + 1
        BY <1>1, <1>2
      <4>2. QED
        BY <4>1, PartIs
    <3>2. PartHolds(t, j, at)
      <4>1. j \in 1..L + 1 /\ at \in 0..L /\ j <= at + 1
        BY <1>1, <1>2, <2>6, <1>3
      <4>2. QED
        BY <4>1, PartIs
    <3>3. x \in Chars /\ Len(x) = n /\ \A k \in 1..n : x[k] = t[i + k - 1]
      BY <2>6, <3>1 DEF PartHolds
    <3>4. y \in Chars /\ Len(y) = n /\ \A k \in 1..n : y[k] = t[j + k - 1]
      BY <2>6, <3>2 DEF PartHolds
    <3> HIDE DEF x, y
    <3>5. x = y
      BY <2>7, <3>3, <3>4, SeqEqual DEF Chars
    <3>6. QED
      BY <3>5 DEF x, y
  <2>11. At(t, j) = "$" /\ At(t, at) = "$"
    <3>1. j \in 1..L /\ at \in 1..L
      BY <1>1, <1>2
    <3>2. QED
      BY <1>2, <2>8, <3>1, TextIs
  <2>12. SharesDollar(t)
    BY <1>1, <1>2, <2>9, <2>10, <2>11 DEF SharesDollar
  <2>13. QED
    BY <2>12
<1>9. QED
  BY <1>5, <1>6, <1>7, <1>8


LEMMA CompleterKnown == Completer \in Dialects
  BY DEF Dialects

NoQuotedName(t) == \A i \in 1..Len(t) : t[i] # "\""

\* The completer in e reads the text as the splitter in s does.
SameToken(t, e, s) ==
    /\ e.at = s.at /\ e.mode = s.mode /\ e.mode # "ident"
    /\ e.start = s.start /\ e.done = s.done
    /\ e.mode = "dollar" =>
         /\ e.tag = s.tag /\ s.body = s.start
         /\ \E i \in 1..Len(t) : e.start <= i /\ OpenedAt(t, i, e.body, e.tag)

LEMMA SameInCode ==
    ASSUME NEW t, NEW e, NEW s, e.at = s.at, e.mode = "code", s.mode = "code",
           e.start = s.start, e.done = s.done
    PROVE  SameToken(t, e, s)
<1>1. e.mode # "ident" /\ e.mode # "dollar"
  OBVIOUS
<1>2. QED
  BY <1>1, Zenon DEF SameToken

LEMMA SameInDollar ==
    ASSUME NEW t, NEW e, NEW s, e.at = s.at, e.mode = "dollar", s.mode = "dollar",
           e.start = s.start, e.done = s.done, e.tag = s.tag, s.body = s.start,
           NEW i \in 1..Len(t), e.start <= i, OpenedAt(t, i, e.body, e.tag)
    PROVE  SameToken(t, e, s)
<1>1. e.mode # "ident"
  OBVIOUS
<1>2. QED
  BY <1>1, Zenon DEF SameToken

\* What both do with a character, where they do it alike.
BothStep(t, e, s, e1, s1) ==
    LET c == t[e.at]
        n == At(t, e.at + 1)
    IN  /\ e.mode = "line" =>
             LET m == IF c = "\n" THEN "code" ELSE "line"
             IN  Moves(e, e1, m, 1) /\ Moves(s, s1, m, 1)
        /\ e.mode = "block" =>
             LET m == IF c = "/" /\ t[e.at - 1] = "*" THEN "code" ELSE "block"
             IN  Moves(e, e1, m, 1) /\ Moves(s, s1, m, 1)
        /\ e.mode = "quote" =>
             \E m \in {"code", "quote"}, k \in {1, 2} : Moves(e, e1, m, k) /\ Moves(s, s1, m, k)
        /\ e.mode = "code" =>
             \/ \E m \in {"code", "quote", "line", "block"} : Moves(e, e1, m, 1) /\ Moves(s, s1, m, 1)
             \/ CutsAt(t, e, e1) /\ CutsAt(t, s, s1)
             \/ c = "$" /\ Tagged(Completer, t, e, e1) /\ Tagged(Splitter, t, s, s1)

LEMMA BothTake ==
    ASSUME NEW t \in Chars, NoQuotedName(t), NEW e \in States(t), NEW s \in States(t),
           e.at <= Len(t), e.at = s.at, e.mode = s.mode,
           NEW e1, StepTakes(Completer, t, e, e1), NEW s1, StepTakes(Splitter, t, s, s1)
    PROVE  BothStep(t, e, s, e1, s1)
<1> DEFINE c == t[e.at]
           n == At(t, e.at + 1)
<1>1. c # "\""
  <2>1. e.at \in 1..Len(t)
    BY StateIs, TextIs
  <2>2. QED
    BY <2>1 DEF NoQuotedName
<1>2. /\ Splitter.dollars = TRUE /\ Completer.dollars = TRUE
      /\ Splitter.idents = FALSE
  BY DEF Splitter, Completer
<1>3. Plain(Splitter, c, n) <=> Plain(Completer, c, n)
  BY <1>1, <1>2, Zenon DEF Plain
<1>4. /\ e.mode = "line" => Moves(e, e1, IF c = "\n" THEN "code" ELSE "line", 1)
      /\ e.mode = "block" => Moves(e, e1, IF c = "/" /\ t[e.at - 1] = "*" THEN "code" ELSE "block", 1)
      /\ e.mode = "quote" /\ c # "'" => Moves(e, e1, "quote", 1)
      /\ e.mode = "quote" /\ c = "'" /\ n = "'" => Moves(e, e1, "quote", 2)
      /\ e.mode = "quote" /\ c = "'" /\ n # "'" => Moves(e, e1, "code", 1)
      /\ e.mode = "code" /\ c = "-" /\ n = "-" => Moves(e, e1, "line", 1)
      /\ e.mode = "code" /\ c = "/" /\ n = "*" => Moves(e, e1, "block", 1)
      /\ e.mode = "code" /\ c = "'" => Moves(e, e1, "quote", 1)
      /\ e.mode = "code" /\ c = "$" => Tagged(Completer, t, e, e1)
      /\ e.mode = "code" /\ c = ";" => CutsAt(t, e, e1)
      /\ e.mode = "code" /\ Plain(Completer, c, n) => Moves(e, e1, "code", 1)
  BY <1>2, Zenon DEF StepTakes
<1>5. /\ e.mode = "line" => Moves(s, s1, IF c = "\n" THEN "code" ELSE "line", 1)
      /\ e.mode = "block" => Moves(s, s1, IF c = "/" /\ t[e.at - 1] = "*" THEN "code" ELSE "block", 1)
      /\ e.mode = "quote" /\ c # "'" => Moves(s, s1, "quote", 1)
      /\ e.mode = "quote" /\ c = "'" /\ n = "'" => Moves(s, s1, "quote", 2)
      /\ e.mode = "quote" /\ c = "'" /\ n # "'" => Moves(s, s1, "code", 1)
      /\ e.mode = "code" /\ c = "-" /\ n = "-" => Moves(s, s1, "line", 1)
      /\ e.mode = "code" /\ c = "/" /\ n = "*" => Moves(s, s1, "block", 1)
      /\ e.mode = "code" /\ c = "'" => Moves(s, s1, "quote", 1)
      /\ e.mode = "code" /\ c = "$" => Tagged(Splitter, t, s, s1)
      /\ e.mode = "code" /\ c = ";" => CutsAt(t, s, s1)
      /\ e.mode = "code" /\ Plain(Splitter, c, n) => Moves(s, s1, "code", 1)
  BY <1>2, Zenon DEF StepTakes
<1>6. \/ c = "-" /\ n = "-"
      \/ c = "/" /\ n = "*"
      \/ c = "'"
      \/ c = "$"
      \/ c = ";"
      \/ Plain(Splitter, c, n) /\ Plain(Completer, c, n)
  BY <1>1, <1>3, Zenon DEF Plain
<1>7. e.mode = "code" =>
             \/ \E m \in {"code", "quote", "line", "block"} : Moves(e, e1, m, 1) /\ Moves(s, s1, m, 1)
             \/ CutsAt(t, e, e1) /\ CutsAt(t, s, s1)
             \/ c = "$" /\ Tagged(Completer, t, e, e1) /\ Tagged(Splitter, t, s, s1)
  BY <1>4, <1>5, <1>6, Zenon
<1>8. e.mode = "quote" =>
             \E m \in {"code", "quote"}, k \in {1, 2} : Moves(e, e1, m, k) /\ Moves(s, s1, m, k)
  BY <1>4, <1>5, Zenon
<1> HIDE DEF c, n
<1>9. QED
  BY <1>4, <1>5, <1>7, <1>8, Zenon DEF BothStep, c, n

LEMMA StepSame ==
    ASSUME NEW t \in Chars, NoQuotedName(t), ~SharesDollar(t),
           NEW e \in States(t), NEW s \in States(t), e.at <= Len(t), SameToken(t, e, s)
    PROVE  SameToken(t, Step(Completer, t, e), Step(Splitter, t, s))
<1> DEFINE e1 == Step(Completer, t, e)
           s1 == Step(Splitter, t, s)
<1>1. /\ e.at = s.at /\ e.mode = s.mode /\ e.mode # "ident" /\ e.start = s.start
      /\ e.done = s.done /\ e.mode \in Modes
      /\ e.at \in Nat /\ e.start \in Nat /\ e.start >= 1 /\ e.start <= e.at
      /\ e.tag \in Chars /\ e.at \in 1..Len(t) /\ Len(t) \in Nat
  BY StateIs, TextIs DEF SameToken
<1>2. StepTakes(Completer, t, e, e1) /\ StepTakes(Splitter, t, s, s1)
  BY <1>1, CompleterKnown, SplitterKnown, StepMoves
<1>3. e1 \in States(t)
  BY CompleterKnown, StepMoves
<1> SUFFICES SameToken(t, e1, s1)
  OBVIOUS
<1> HIDE DEF e1, s1
<1>4. BothStep(t, e, s, e1, s1)
  BY <1>1, <1>2, BothTake
<1>5. ASSUME NEW m \in {"code", "line", "block", "quote"}, NEW k \in {1, 2},
             Moves(e, e1, m, k), Moves(s, s1, m, k)
      PROVE  SameToken(t, e1, s1)
  BY <1>1, <1>5 DEF Moves, SameToken
<1>6. CASE e.mode = "dollar"
  <2>1. PICK i \in 1..Len(t) : e.start <= i /\ OpenedAt(t, i, e.body, e.tag)
    BY <1>6 DEF SameToken
  <2>2. e.tag = s.tag /\ s.body = e.start
    BY <1>1, <1>6 DEF SameToken
  <2>3. e.body \in Nat /\ e.body <= e.at
    BY StateIs
  <2>4. Closes(t, e.tag, e.start, e.at) <=> Closes(t, e.tag, e.body, e.at)
    <3>1. e.start \in 1..i /\ e.at \in e.body..Len(t)
      BY <1>1, <2>1, <2>3
    <3>2. QED
      BY <1>1, <2>1, <2>3, <3>1, SameClosing
  <2>5. Moves(e, e1, IF Closes(t, e.tag, e.body, e.at) THEN "code" ELSE "dollar", 1)
    BY <1>2, <1>6, Zenon DEF StepTakes, Closes, Closing
  <2>6. Moves(s, s1, IF Closes(t, s.tag, s.body, s.at) THEN "code" ELSE "dollar", 1)
    BY <1>1, <1>2, <1>6, Zenon DEF StepTakes, Closes, Closing
  <2>7. CASE Closes(t, e.tag, e.body, e.at)
    <3>1. Moves(e, e1, "code", 1) /\ Moves(s, s1, "code", 1)
      BY <1>1, <2>2, <2>4, <2>5, <2>6, <2>7
    <3>2. "code" \in {"code", "line", "block", "quote"} /\ 1 \in {1, 2}
      OBVIOUS
    <3>3. QED
      BY <1>5, <3>1, <3>2, Zenon
  <2>8. CASE ~Closes(t, e.tag, e.body, e.at)
    <3>1. Moves(e, e1, "dollar", 1) /\ Moves(s, s1, "dollar", 1)
      BY <1>1, <2>2, <2>4, <2>5, <2>6, <2>8
    <3>2. /\ e1.at = s1.at /\ e1.mode = "dollar" /\ s1.mode = "dollar"
          /\ e1.start = e.start /\ s1.start = e1.start /\ e1.done = s1.done
          /\ e1.tag = e.tag /\ e1.tag = s1.tag /\ s1.body = s1.start /\ e1.body = e.body
      BY <1>1, <2>2, <3>1 DEF Moves
    <3>3. e1.start <= i /\ OpenedAt(t, i, e1.body, e1.tag)
      BY <2>1, <3>2
    <3>4. QED
      BY <3>2, <3>3, SameInDollar
  <2>9. QED
    BY <2>7, <2>8
<1>7. CASE e.mode = "line" \/ e.mode = "block" \/ e.mode = "quote"
  <2>1. \E m \in {"code", "line", "block", "quote"}, k \in {1, 2} :
            Moves(e, e1, m, k) /\ Moves(s, s1, m, k)
    BY <1>4, <1>7, Zenon DEF BothStep
  <2>2. PICK m \in {"code", "line", "block", "quote"}, k \in {1, 2} :
            Moves(e, e1, m, k) /\ Moves(s, s1, m, k)
    BY <2>1
  <2>3. QED
    BY <1>5, <2>2, Zenon
<1>8. CASE e.mode = "code"
  <2>1. \/ \E m \in {"code", "quote", "line", "block"} : Moves(e, e1, m, 1) /\ Moves(s, s1, m, 1)
        \/ CutsAt(t, e, e1) /\ CutsAt(t, s, s1)
        \/ t[e.at] = "$" /\ Tagged(Completer, t, e, e1) /\ Tagged(Splitter, t, s, s1)
    BY <1>4, <1>8, Zenon DEF BothStep
  <2>2. CASE \E m \in {"code", "quote", "line", "block"} : Moves(e, e1, m, 1) /\ Moves(s, s1, m, 1)
    <3>1. PICK m \in {"code", "quote", "line", "block"} : Moves(e, e1, m, 1) /\ Moves(s, s1, m, 1)
      BY <2>2
    <3>2. 1 \in {1, 2}
      OBVIOUS
    <3>3. QED
      BY <1>5, <3>1, <3>2, Zenon
  <2>3. CASE CutsAt(t, e, e1) /\ CutsAt(t, s, s1)
    <3>1. /\ e1.at = s1.at /\ e1.mode = "code" /\ s1.mode = "code" /\ e1.start = s1.start
          /\ e1.done = s1.done
      BY <1>1, <2>3 DEF CutsAt
    <3>2. QED
      BY <3>1, SameInCode
  <2>4. CASE t[e.at] = "$" /\ Tagged(Completer, t, e, e1) /\ Tagged(Splitter, t, s, s1)
    <3> DEFINE i == e.at
               j == TagEnd(t, i)
    <3>1. j \in i + 1..Len(t) + 1
      BY <1>1, TagEndIs
    <3>2. Completer.whole = FALSE /\ Splitter.whole = TRUE
      BY DEF Completer, Splitter
    <3>3. /\ e1.start = e.start /\ e1.done = e.done /\ s1.start = e.start /\ s1.done = e.done
          /\ At(t, j) = "$" =>
               /\ e1.mode = "dollar" /\ e1.at = j + 1 /\ s1.mode = "dollar" /\ s1.at = j + 1
               /\ e1.tag = SubSeq(t, i + 1, j - 1) /\ s1.tag = SubSeq(t, i + 1, j - 1)
               /\ e1.body = j + 1 /\ s1.body = e.start
          /\ At(t, j) # "$" => e1.mode = "code" /\ e1.at = j /\ s1.mode = "code" /\ s1.at = j
      BY <1>1, <2>4, <3>2 DEF Tagged
    <3> HIDE DEF j
    <3>4. CASE At(t, j) # "$"
      BY <3>3, <3>4, SameInCode
    <3>5. CASE At(t, j) = "$"
      <4>1. j \in 1..Len(t) /\ t[j] = "$"
        <5>1. j \notin 1..Len(t) => At(t, j) = "end"
          BY TextIs
        <5>2. j \in 1..Len(t)
          BY <3>5, <5>1
        <5>3. QED
          BY <3>5, <5>2, TextIs
      <4>2. e1.body - 1 = j /\ e1.body - 2 = j - 1
        BY <1>1, <3>1, <3>3, <3>5
      <4>3. OpenedAt(t, i, e1.body, e1.tag)
        <5>1. j \in i + 1..Len(t)
          BY <1>1, <3>1, <4>1
        <5>2. QED
          BY <1>1, <2>4, <3>3, <3>5, <4>1, <4>2, <5>1 DEF OpenedAt, j
      <4>4. e1.start <= i /\ e1.at = s1.at /\ e1.tag = s1.tag /\ s1.body = s1.start
            /\ e1.mode = "dollar" /\ s1.mode = "dollar" /\ e1.start = s1.start /\ e1.done = s1.done
        BY <1>1, <3>3, <3>5
      <4>5. QED
        BY <1>1, <4>3, <4>4, SameInDollar
    <3>6. QED
      BY <3>4, <3>5
  <2>5. QED
    BY <2>1, <2>2, <2>3, <2>4
<1>9. QED
  BY <1>1, <1>6, <1>7, <1>8 DEF Modes

\* Completer and splitter end alike.
LEMMA SameEnd ==
    ASSUME NEW t \in Chars, NoQuotedName(t), ~SharesDollar(t)
    PROVE  SameToken(t, Scan(Completer, t), Scan(Splitter, t))
<1> DEFINE n == Len(t)
<1>1. PICK h : IsRun(Completer, t, h) /\ Scan(Completer, t) = h[n]
  BY CompleterKnown, ScanRuns
<1>2. PICK g : IsRun(Splitter, t, g) /\ Scan(Splitter, t) = g[n]
  BY SplitterKnown, ScanRuns
<1>3. n \in Nat /\ \A k \in 0..n : h[k] \in States(t) /\ g[k] \in States(t)
  BY <1>1, <1>2, TextIs DEF IsRun
<1> DEFINE T == {k \in Nat : k <= n => SameToken(t, h[k], g[k])}
<1>4. 0 \in T
  <2>1. h[0] = Scanner /\ g[0] = Scanner /\ Scanner.mode = "code"
    BY <1>1, <1>2, ScannerIs DEF IsRun
  <2>2. SameToken(t, h[0], g[0])
    BY <2>1 DEF SameToken
  <2>3. QED
    BY <2>2
<1>5. ASSUME NEW k \in Nat, k \in T PROVE k + 1 \in T
  <2> SUFFICES ASSUME k + 1 <= n PROVE SameToken(t, h[k + 1], g[k + 1])
    OBVIOUS
  <2>1. k + 1 \in 1..n /\ (k + 1) - 1 = k /\ k \in 0..n
    BY <1>3
  <2>2. h[k + 1] = Onward(Completer, t, h[k]) /\ g[k + 1] = Onward(Splitter, t, g[k])
    BY <1>1, <1>2, <2>1 DEF IsRun
  <2>3. SameToken(t, h[k], g[k])
    BY <1>5, <2>1
  <2>4. h[k].at \in Nat /\ h[k].at = g[k].at
    BY <1>3, <2>1, <2>3, StateIs DEF SameToken
  <2>5. CASE h[k].at > n
    BY <2>2, <2>3, <2>4, <2>5 DEF Onward
  <2>6. CASE h[k].at <= n
    <3>1. h[k + 1] = Step(Completer, t, h[k]) /\ g[k + 1] = Step(Splitter, t, g[k])
      BY <1>3, <2>2, <2>4, <2>6 DEF Onward
    <3>2. QED
      BY <1>3, <2>1, <2>3, <2>6, <3>1, StepSame
  <2>7. QED
    BY <1>3, <2>4, <2>5, <2>6
<1> HIDE DEF T
<1>6. Nat \subseteq T
  BY <1>4, <1>5, Induction
<1>7. QED
  BY <1>1, <1>2, <1>3, <1>6 DEF T

LEMMA HasNone ==
    ASSUME NEW t \in Chars, NEW c \in Marks, ~Has(t, <<c>>)
    PROVE  \A i \in 1..Len(t) : t[i] # c
<1> DEFINE p == <<c>>
<1> SUFFICES ASSUME NEW i \in 1..Len(t), t[i] = c PROVE Has(t, p)
  OBVIOUS
<1>1. p \in Chars /\ Len(p) = 1 /\ p[1] = t[i]
  BY MarkIs
<1>2. Len(t) \in Nat
  BY TextIs
<1> HIDE DEF p
<1>3. i + 1 <= Len(t) + 1 /\ \A k \in 1..1 : k = 1 /\ i + k - 1 = i
  BY <1>2
<1>4. i + Len(p) <= Len(t) + 1 /\ \A k \in 1..Len(p) : t[i + k - 1] = p[k]
  BY <1>1, <1>3
<1>5. QED
  BY <1>1, <1>4, HasIs

ScannersOf(t) ==
    \/ Has(t, <<"\"">>)
    \/ SharesDollar(t)
    \/ LET e == Scan(Completer, t)
           s == Scan(Splitter, t)
       IN  /\ e.mode = s.mode
           /\ e.done = s.done
           /\ ~IsIncomplete(t) => s.mode \in {"code", "line"}

LEMMA ReadAlike == ASSUME NEW t \in Chars PROVE ScannersOf(t)
<1> DEFINE e == Scan(Completer, t)
           s == Scan(Splitter, t)
<1>1. ~Has(t, <<"\"">>) => NoQuotedName(t)
  <2>1. "\"" \in Marks
    BY Zenon DEF Marks
  <2>2. QED
    BY <2>1, HasNone, Zenon DEF NoQuotedName
<1>2. NoQuotedName(t) /\ ~SharesDollar(t) => e.mode = s.mode /\ e.done = s.done /\ e.mode \in Modes
  <2>1. e \in States(t)
    BY CompleterKnown, ScanEnds
  <2> HIDE DEF e, s
  <2>2. e.mode \in Modes
    BY <2>1, StateIs
  <2>3. QED
    BY <2>2, SameEnd DEF SameToken, e, s
<1>3. ~IsIncomplete(t) => e.mode \notin {"quote", "ident", "block", "dollar"}
  BY Zenon DEF IsIncomplete
<1>4. e.mode \in Modes /\ e.mode \notin {"quote", "ident", "block", "dollar"}
        => e.mode \in {"code", "line"}
  <2> HIDE DEF e
  <2>1. QED
    BY DEF Modes
<1> HIDE DEF e, s
<1>5. Has(t, <<"\"">>) \/ SharesDollar(t)
      \/ (e.mode = s.mode /\ e.done = s.done /\ (~IsIncomplete(t) => s.mode \in {"code", "line"}))
  BY <1>1, <1>2, <1>3, <1>4, Zenon
<1>6. QED
  BY <1>5, Zenon DEF ScannersOf, e, s

-----------------------------------------------------------------------------
(* The highlighter and the scanner of the editor. *)

NameMark == "\""
NoDollar(t) == \A i \in 1..Len(t) : t[i] # "$"

\* The editor's scanner comes to place q in this mode.
AtIn(t, q, mode) == \E s \in Visited(Completer, t) : s.at = q /\ s.mode = mode

\* Where it goes from there.
ReadsAt(t, q) ==
    LET c == t[q]
        n == At(t, q + 1)
    IN  /\ AtIn(t, q, "line") /\ c = Break => AtIn(t, q + 1, "code")
        /\ AtIn(t, q, "line") /\ c # Break => AtIn(t, q + 1, "line")
        /\ AtIn(t, q, "block") /\ (c = "/" /\ t[q - 1] = "*") => AtIn(t, q + 1, "code")
        /\ AtIn(t, q, "block") /\ ~(c = "/" /\ t[q - 1] = "*") => AtIn(t, q + 1, "block")
        /\ AtIn(t, q, "ident") /\ c = NameMark => AtIn(t, q + 1, "code")
        /\ AtIn(t, q, "ident") /\ c # NameMark => AtIn(t, q + 1, "ident")
        /\ AtIn(t, q, "quote") /\ c # Quote => AtIn(t, q + 1, "quote")
        /\ AtIn(t, q, "quote") /\ c = Quote /\ n = Quote => AtIn(t, q + 2, "quote")
        /\ AtIn(t, q, "quote") /\ c = Quote /\ n # Quote => AtIn(t, q + 1, "code")
        /\ AtIn(t, q, "code") /\ (c = "-" /\ n = "-") => AtIn(t, q + 1, "line")
        /\ AtIn(t, q, "code") /\ (c = "/" /\ n = "*") => AtIn(t, q + 1, "block")
        /\ AtIn(t, q, "code") /\ c = Quote => AtIn(t, q + 1, "quote")
        /\ AtIn(t, q, "code") /\ c = NameMark => AtIn(t, q + 1, "ident")
        /\ AtIn(t, q, "code") /\ ~(c = "-" /\ n = "-") /\ ~(c = "/" /\ n = "*")
             /\ c # Quote /\ c # NameMark => AtIn(t, q + 1, "code")

LEMMA ReadsOn ==
    ASSUME NEW t \in Chars, NoDollar(t), NEW q \in 1..Len(t) PROVE ReadsAt(t, q)
<1> DEFINE c == t[q]
           n == At(t, q + 1)
<1>1. c # "$" /\ Len(t) \in Nat
  BY TextIs DEF NoDollar
<1>2. ASSUME NEW s \in Visited(Completer, t), s.at = q
      PROVE  \E r \in Visited(Completer, t) : StepTakes(Completer, t, s, r)
  <2>1. s \in States(t) /\ s.at <= Len(t)
    BY <1>1, <1>2, CompleterKnown, VisitedIs
  <2>2. Step(Completer, t, s) \in Visited(Completer, t)
    BY <1>2, <2>1, CompleterKnown, VisitedIs
  <2>3. StepTakes(Completer, t, s, Step(Completer, t, s))
    BY <2>1, CompleterKnown, StepMoves
  <2>4. QED
    BY <2>2, <2>3
<1>3. ASSUME NEW s, s.at = q, NEW r \in Visited(Completer, t), NEW m, NEW k, Moves(s, r, m, k)
      PROVE  AtIn(t, q + k, m)
  BY <1>3 DEF Moves, AtIn
<1>4. ASSUME NEW s, s.at = q, NEW r \in Visited(Completer, t), CutsAt(t, s, r)
      PROVE  AtIn(t, q + 1, "code")
  BY <1>4 DEF CutsAt, AtIn
<1>5. ASSUME AtIn(t, q, "line")
      PROVE  (c = Break => AtIn(t, q + 1, "code")) /\ (c # Break => AtIn(t, q + 1, "line"))
  <2>1. PICK s \in Visited(Completer, t) : s.at = q /\ s.mode = "line"
    BY <1>5 DEF AtIn
  <2>2. PICK r \in Visited(Completer, t) : StepTakes(Completer, t, s, r)
    BY <1>2, <2>1
  <2>3. (c = Break => Moves(s, r, "code", 1)) /\ (c # Break => Moves(s, r, "line", 1))
    BY <2>1, <2>2, Zenon DEF StepTakes, Break
  <2>4. QED
    BY <1>3, <2>1, <2>3, Zenon
<1>6. ASSUME AtIn(t, q, "block")
      PROVE  /\ (c = "/" /\ t[q - 1] = "*") => AtIn(t, q + 1, "code")
             /\ ~(c = "/" /\ t[q - 1] = "*") => AtIn(t, q + 1, "block")
  <2>1. PICK s \in Visited(Completer, t) : s.at = q /\ s.mode = "block"
    BY <1>6 DEF AtIn
  <2>2. PICK r \in Visited(Completer, t) : StepTakes(Completer, t, s, r)
    BY <1>2, <2>1
  <2>3. /\ (c = "/" /\ t[q - 1] = "*") => Moves(s, r, "code", 1)
        /\ ~(c = "/" /\ t[q - 1] = "*") => Moves(s, r, "block", 1)
    BY <2>1, <2>2, Zenon DEF StepTakes
  <2>4. QED
    BY <1>3, <2>1, <2>3, Zenon
<1>7. ASSUME AtIn(t, q, "ident")
      PROVE  (c = NameMark => AtIn(t, q + 1, "code")) /\ (c # NameMark => AtIn(t, q + 1, "ident"))
  <2>1. PICK s \in Visited(Completer, t) : s.at = q /\ s.mode = "ident"
    BY <1>7 DEF AtIn
  <2>2. PICK r \in Visited(Completer, t) : StepTakes(Completer, t, s, r)
    BY <1>2, <2>1
  <2>3. (c = NameMark => Moves(s, r, "code", 1)) /\ (c # NameMark => Moves(s, r, "ident", 1))
    BY <2>1, <2>2, Zenon DEF StepTakes, NameMark
  <2>4. QED
    BY <1>3, <2>1, <2>3, Zenon
<1>8. ASSUME AtIn(t, q, "quote")
      PROVE  /\ c # Quote => AtIn(t, q + 1, "quote")
             /\ c = Quote /\ n = Quote => AtIn(t, q + 2, "quote")
             /\ c = Quote /\ n # Quote => AtIn(t, q + 1, "code")
  <2>1. PICK s \in Visited(Completer, t) : s.at = q /\ s.mode = "quote"
    BY <1>8 DEF AtIn
  <2>2. PICK r \in Visited(Completer, t) : StepTakes(Completer, t, s, r)
    BY <1>2, <2>1
  <2>3. /\ c # Quote => Moves(s, r, "quote", 1)
        /\ c = Quote /\ n = Quote => Moves(s, r, "quote", 2)
        /\ c = Quote /\ n # Quote => Moves(s, r, "code", 1)
    BY <2>1, <2>2, Zenon DEF StepTakes, Quote
  <2>4. QED
    BY <1>3, <2>1, <2>3, Zenon
<1>9. ASSUME AtIn(t, q, "code")
      PROVE  /\ (c = "-" /\ n = "-") => AtIn(t, q + 1, "line")
             /\ (c = "/" /\ n = "*") => AtIn(t, q + 1, "block")
             /\ c = Quote => AtIn(t, q + 1, "quote")
             /\ c = NameMark => AtIn(t, q + 1, "ident")
             /\ ~(c = "-" /\ n = "-") /\ ~(c = "/" /\ n = "*")
                  /\ c # Quote /\ c # NameMark => AtIn(t, q + 1, "code")
  <2>1. PICK s \in Visited(Completer, t) : s.at = q /\ s.mode = "code"
    BY <1>9 DEF AtIn
  <2>2. PICK r \in Visited(Completer, t) : StepTakes(Completer, t, s, r)
    BY <1>2, <2>1
  <2>3. Completer.idents = TRUE /\ Completer.dollars = TRUE
    BY DEF Completer
  <2>4. /\ (c = "-" /\ n = "-") => Moves(s, r, "line", 1)
        /\ (c = "/" /\ n = "*") => Moves(s, r, "block", 1)
        /\ c = Quote => Moves(s, r, "quote", 1)
        /\ c = NameMark => Moves(s, r, "ident", 1)
    BY <2>1, <2>2, <2>3, Zenon DEF StepTakes, Quote, NameMark
  <2>5. ~(c = "-" /\ n = "-") /\ ~(c = "/" /\ n = "*") /\ c # Quote /\ c # NameMark =>
          Plain(Completer, c, n) \/ c = ";"
    BY <1>1, Zenon DEF Plain, Quote, NameMark
  <2>6. ~(c = "-" /\ n = "-") /\ ~(c = "/" /\ n = "*") /\ c # Quote /\ c # NameMark =>
          Moves(s, r, "code", 1) \/ CutsAt(t, s, r)
    BY <2>1, <2>2, <2>5, Zenon DEF StepTakes
  <2>7. QED
    BY <1>3, <1>4, <2>1, <2>4, <2>6, Zenon
<1> HIDE DEF c, n
<1>10. QED
  BY <1>5, <1>6, <1>7, <1>8, <1>9, Zenon DEF ReadsAt, c, n

\* A mode that no place in a range ends lasts through the range.
LEMMA Through ==
    ASSUME NEW t, NEW m, NEW i \in Nat, NEW j \in Nat, i <= j, AtIn(t, i, m),
           \A q \in i..j - 1 : AtIn(t, q, m) => AtIn(t, q + 1, m)
    PROVE  \A q \in i..j : AtIn(t, q, m)
<1> DEFINE S == {k \in 0..j - i : AtIn(t, i + k, m)}
<1>1. j - i \in Nat /\ i + 0 = i
  OBVIOUS
<1>2. 0 \in S
  BY <1>1
<1>3. ASSUME NEW k \in 0..(j - i) - 1, k \in S PROVE k + 1 \in S
  <2>1. i + k \in i..j - 1 /\ (i + k) + 1 = i + (k + 1) /\ k + 1 \in 0..j - i
    BY <1>1
  <2>2. AtIn(t, i + k, m)
    BY <1>3
  <2>3. AtIn(t, i + (k + 1), m)
    BY <2>1, <2>2
  <2>4. QED
    BY <2>1, <2>3
<1> HIDE DEF S
<1>4. 0..j - i \subseteq S
  BY <1>1, <1>2, <1>3, InductionUpTo
<1>5. ASSUME NEW q \in i..j PROVE AtIn(t, q, m)
  <2>1. q - i \in S /\ i + (q - i) = q
    BY <1>1, <1>4
  <2>2. AtIn(t, i + (q - i), m)
    BY <2>1 DEF S
  <2>3. QED
    BY <2>1, <2>2
<1>6. QED
  BY <1>5

\* The mode at the end of the text is the one the scan ends in.
LEMMA EndIs ==
    ASSUME NEW t \in Chars, NEW m, AtIn(t, Len(t) + 1, m)
    PROVE  Scan(Completer, t).mode = m
<1>1. PICK s \in Visited(Completer, t) : s.at = Len(t) + 1 /\ s.mode = m
  BY DEF AtIn
<1>2. Len(t) \in Nat
  BY TextIs
<1>3. s.at > Len(t)
  BY <1>1, <1>2
<1>4. Scan(Completer, t) = s
  BY <1>3, CompleterKnown, VisitEnds
<1>5. QED
  BY <1>1, <1>4

LEMMA BeginsInCode == ASSUME NEW t \in Chars PROVE AtIn(t, 1, "code")
<1>1. Scanner \in Visited(Completer, t) /\ Scanner.at = 1 /\ Scanner.mode = "code"
  BY CompleterKnown, VisitedIs, ScannerIs
<1>2. QED
  BY <1>1 DEF AtIn


\* Where a search for a character of S from i on stops.
FirstIn(t, i, S, j) ==
    /\ j \in i..Len(t) + 1
    /\ \A q \in i..j - 1 : t[q] \notin S
    /\ j <= Len(t) => t[j] \in S

LEMMA StopBeforeIs ==
    ASSUME NEW t \in Chars, NEW S, NEW i \in 1..Len(t) + 1
    PROVE  FirstIn(t, i, S, StopBefore(t, i, S))
<1> DEFINE A == {k \in i .. Len(t) : t[k] \in S} \cup {Len(t) + 1}
           j == LeastOf(A)
<1>1. Len(t) \in Nat
  BY TextIs
<1>2. A \subseteq Nat /\ A # {} /\ A \subseteq i..Len(t) + 1
  BY <1>1
<1>3. j \in A /\ \A m \in A : j <= m
  <2> HIDE DEF A
  <2>1. QED
    BY <1>2, LeastOfIs
<1>4. StopBefore(t, i, S) = j
  BY DEF StopBefore
<1> HIDE DEF j
<1>5. j \in i..Len(t) + 1 /\ j \in Nat
  BY <1>1, <1>2, <1>3
<1>6. ASSUME NEW q \in i..j - 1 PROVE t[q] \notin S
  <2>1. q \in i..Len(t) /\ ~(j <= q)
    BY <1>1, <1>5
  <2>2. q \notin A
    <3> HIDE DEF A
    <3>1. QED
      BY <1>3, <2>1
  <2>3. QED
    BY <2>1, <2>2
<1>7. ASSUME j <= Len(t) PROVE t[j] \in S
  <2>1. j # Len(t) + 1
    BY <1>1, <1>5, <1>7
  <2>2. QED
    BY <1>3, <2>1
<1>8. QED
  BY <1>4, <1>5, <1>6, <1>7 DEF FirstIn

\* StopAfter is behind that place, unless the text ends there.
LEMMA StopAfterIs ==
    ASSUME NEW t \in Chars, NEW S, NEW i \in 1..Len(t) + 1
    PROVE  \E e : /\ FirstIn(t, i, S, e)
                  /\ StopAfter(t, i, S) = IF e <= Len(t) THEN e + 1 ELSE e
<1> DEFINE A == {k \in i .. Len(t) : t[k] \in S}
           j == LeastOf(A)
<1>1. Len(t) \in Nat
  BY TextIs
<1>2. CASE A = {}
  <2>1. StopAfter(t, i, S) = Len(t) + 1
    BY <1>2 DEF StopAfter
  <2>2. FirstIn(t, i, S, Len(t) + 1)
    BY <1>1, <1>2 DEF FirstIn
  <2>3. QED
    BY <1>1, <2>1, <2>2
<1>3. CASE A # {}
  <2>1. A \subseteq Nat /\ A \subseteq i..Len(t)
    BY <1>1
  <2>2. j \in A /\ \A m \in A : j <= m
    <3> HIDE DEF A
    <3>1. QED
      BY <1>3, <2>1, LeastOfIs
  <2>3. StopAfter(t, i, S) = j + 1
    BY <1>3 DEF StopAfter
  <2> HIDE DEF j
  <2>4. j \in i..Len(t) /\ t[j] \in S
    BY <2>2
  <2>5. ASSUME NEW q \in i..j - 1 PROVE t[q] \notin S
    <3>1. q \in i..Len(t) /\ ~(j <= q)
      BY <1>1, <2>4
    <3>2. QED
      BY <2>2, <3>1
  <2>6. j \in i..Len(t) + 1 /\ j <= Len(t)
    BY <1>1, <2>4
  <2>7. FirstIn(t, i, S, j)
    BY <2>4, <2>5, <2>6 DEF FirstIn
  <2>8. QED
    BY <2>3, <2>6, <2>7
<1>4. QED
  BY <1>2, <1>3

\* The place of the closing mark of a block comment, or where the search for it
\* gives up.
FirstClosing(t, i, k) ==
    /\ k \in i + 2..Len(t) + 1
    /\ k < Len(t) => t[k] = "*" /\ t[k + 1] = "/"
    /\ \A q \in i + 2..k - 1 : q < Len(t) /\ ~(t[q] = "*" /\ t[q + 1] = "/")

LEMMA BlockStopIs ==
    ASSUME NEW t \in Chars, NEW i \in 1..Len(t), i < Len(t)
    PROVE  \E k : FirstClosing(t, i, k) /\ BlockStop(t, i) = k + 2
<1> DEFINE A == {k \in i + 2 .. Len(t) + 1 :
                   k >= Len(t) \/ (t[k] = "*" /\ t[k + 1] = "/")}
           k == LeastOf(A)
<1>1. Len(t) \in Nat
  BY TextIs
<1>2. A \subseteq Nat /\ Len(t) + 1 \in A
  BY <1>1
<1>3. k \in A /\ \A m \in A : k <= m
  <2> HIDE DEF A
  <2>1. QED
    BY <1>2, LeastOfIs
<1>4. BlockStop(t, i) = k + 2
  BY DEF BlockStop
<1> HIDE DEF k
<1>5. k \in i + 2..Len(t) + 1 /\ (k >= Len(t) \/ (t[k] = "*" /\ t[k + 1] = "/"))
  BY <1>3
<1>6. k < Len(t) => t[k] = "*" /\ t[k + 1] = "/"
  BY <1>1, <1>5
<1>7. ASSUME NEW q \in i + 2..k - 1
      PROVE  q < Len(t) /\ ~(t[q] = "*" /\ t[q + 1] = "/")
  <2>1. q \in i + 2..Len(t) + 1 /\ ~(k <= q)
    BY <1>1, <1>5
  <2>2. q \notin A
    <3> HIDE DEF A
    <3>1. QED
      BY <1>3, <2>1
  <2>3. ~(q >= Len(t)) /\ ~(t[q] = "*" /\ t[q + 1] = "/")
    BY <2>1, <2>2
  <2>4. QED
    BY <1>1, <2>1, <2>3
<1>8. FirstClosing(t, i, k)
  BY <1>5, <1>6, <1>7 DEF FirstClosing
<1>9. QED
  BY <1>4, <1>8

\* The search for the end of a literal, from each place in it.
QuoteEnds(t, i, f) ==
    /\ f \in [i + 1..Len(t) + 1 -> i + 1..Len(t) + 1]
    /\ \A k \in i + 1..Len(t) + 1 :
          /\ k > Len(t) => f[k] = k
          /\ k <= Len(t) /\ t[k] # Quote => f[k] = f[k + 1]
          /\ k <= Len(t) /\ t[k] = Quote /\ At(t, k + 1) = Quote => f[k] = f[k + 2]
          /\ k <= Len(t) /\ t[k] = Quote /\ At(t, k + 1) # Quote => f[k] = k + 1

LEMMA QuoteStopIs ==
    ASSUME NEW t \in Chars, NEW i \in 1..Len(t)
    PROVE  \E f : QuoteEnds(t, i, f) /\ QuoteStop(t, i) = f[i + 1]
<1> DEFINE n == Len(t)
           D == i + 1 .. n + 1
           Other(k) == t[k] # "'"
           Twice(k) == At(t, k + 1) = "'"
           body(f, k) == IF k > n THEN k
                         ELSE IF Other(k) THEN f[k + 1]
                         ELSE IF Twice(k) THEN f[k + 2]
                         ELSE k + 1
           Body == [k \in D |-> [f \in [D -> D] |-> body(f, k)]]
           rank == [k \in D |-> n + 1 - k]
           Is(f) == f = [k \in D |-> body(f, k)]
<1>1. QuoteStop(t, i) = (CHOOSE f : Is(f))[i + 1]
  BY DEF QuoteStop
<1>2. n \in Nat /\ i \in 1..n
  BY TextIs
<1>3. ASSUME NEW k \in D, ~(k > n)
      PROVE  k + 1 \in D /\ (Twice(k) => k + 2 \in D)
  <2>1. k \in i + 1..n /\ k + 1 \in D
    BY <1>2, <1>3
  <2>2. Twice(k) => k + 1 \in 1..n
    <3>1. k + 1 \notin 1..n => At(t, k + 1) = "end"
      BY TextIs
    <3>2. QED
      BY <3>1
  <2>3. k + 1 \in 1..n => k + 2 \in D
    BY <1>2, <2>1
  <2>4. QED
    BY <2>1, <2>2, <2>3
<1> HIDE DEF n, Other, Twice
<1>4. rank \in [D -> 0..n]
  BY <1>2
<1>5. ASSUME NEW k \in D, ~(k > n)
      PROVE  rank[k + 1] < rank[k] /\ (Twice(k) => rank[k + 2] < rank[k])
  <2>1. k \in Nat /\ rank[k] = n + 1 - k
    BY <1>2
  <2>2. k + 1 \in D /\ (Twice(k) => k + 2 \in D)
    BY <1>3, <1>5
  <2>3. rank[k + 1] = n + 1 - (k + 1) /\ (Twice(k) => rank[k + 2] = n + 1 - (k + 2))
    BY <2>2
  <2> HIDE DEF rank, D
  <2>4. QED
    BY <1>2, <2>1, <2>3
<1>6. ASSUME NEW k \in D, NEW f \in [D -> D] PROVE body(f, k) \in D
  <2>1. ~(k > n) => k + 1 \in D /\ (Twice(k) => k + 2 \in D)
    BY <1>3
  <2> HIDE DEF D
  <2>2. QED
    BY <1>6, <2>1
<1> HIDE DEF D
<1>7. ASSUME NEW k \in D, NEW f, NEW g, \A j \in D : rank[j] < rank[k] => f[j] = g[j]
      PROVE  body(f, k) = body(g, k)
  <2>1. ~(k > n) => f[k + 1] = g[k + 1] /\ (Twice(k) => f[k + 2] = g[k + 2])
    BY <1>3, <1>5, <1>7
  <2>2. QED
    BY <2>1
<1>8. \A f : Is(f) => \A k \in D : f[k] = body(f, k)
  <2> HIDE DEF body
  <2>1. QED
    OBVIOUS
<1> HIDE DEF body, rank
<1>9. \A k \in D : \A f \in [D -> D] : Body[k][f] = body(f, k)
  OBVIOUS
<1>10. IsRecursion(D, D, rank, Body)
  <2>1. D # {} /\ Body \in [D -> [[D -> D] -> D]]
    <3>1. i + 1 \in D
      BY <1>2 DEF D
    <3>2. QED
      BY <1>6, <3>1
  <2> HIDE DEF Body
  <2>2. ASSUME NEW k \in D, NEW f \in [D -> D], NEW g \in [D -> D],
               \A j \in D : rank[j] < rank[k] => f[j] = g[j]
        PROVE  Body[k][f] = Body[k][g]
    <3>1. body(f, k) = body(g, k)
      BY <1>7, <2>2
    <3>2. QED
      BY <1>9, <3>1
  <2>3. QED
    BY <1>2, <1>4, <2>1, <2>2 DEF IsRecursion
<1> HIDE DEF Body
<1>11. \E f : Is(f)
  <2>1. PICK f \in [D -> D] : \A k \in D : f[k] = Body[k][f]
    BY <1>10, RecursiveFunction
  <2>2. QED
    BY <1>9, <2>1
<1> DEFINE h == CHOOSE f : Is(f)
<1>12. Is(h)
  <2> HIDE DEF Is
  <2>1. QED
    BY <1>11
<1>13. h = [k \in D |-> h[k]] /\ \A k \in D : h[k] = body(h, k)
  <2> HIDE DEF h
  <2>1. QED
    BY <1>12
<1>14. QuoteStop(t, i) = h[i + 1]
  BY <1>1
<1> HIDE DEF h, Is
<1>15. Follows(h, D, D, rank, Body)
  <2>1. ASSUME NEW k \in D, NEW f \in [D -> D],
               \A j \in D : rank[j] < rank[k] => h[j] = f[j]
        PROVE  h[k] = Body[k][f]
    <3>1. body(h, k) = body(f, k)
      BY <1>7, <2>1
    <3>2. QED
      BY <1>9, <1>13, <3>1
  <2>2. QED
    BY <2>1 DEF Follows
<1>16. h \in [D -> D]
  BY <1>10, <1>13, <1>15, RecursiveValues
<1>17. ASSUME NEW k \in D
       PROVE  /\ k > n => h[k] = k
              /\ ~(k > n) /\ Other(k) => h[k] = h[k + 1]
              /\ ~(k > n) /\ ~Other(k) /\ Twice(k) => h[k] = h[k + 2]
              /\ ~(k > n) /\ ~Other(k) /\ ~Twice(k) => h[k] = k + 1
  BY <1>13 DEF body
<1>18. \A k \in D : ~(k > n) <=> k <= n
  BY <1>2 DEF D
<1>19. QuoteEnds(t, i, h)
  BY <1>16, <1>17, <1>18 DEF QuoteEnds, Quote, D, n, Other, Twice
<1>20. QED
  BY <1>14, <1>19


TokenKinds == {"line", "block", "quote", "dollar", "ident", "word", "plain"}
Painted(kind, stop) == [kind |-> kind, stop |-> stop]

\* The token that begins at i, by its first characters.
TokenIs(t, i, token) ==
    LET c == t[i]
        n == At(t, i + 1)
    IN  /\ c = "-" /\ n = "-" => token = Painted("line", StopBefore(t, i, {Break}))
        /\ c = "/" /\ n = "*" => token = Painted("block", BlockStop(t, i))
        /\ c = Quote => token = Painted("quote", QuoteStop(t, i))
        /\ c = NameMark => token = Painted("ident", StopAfter(t, i + 1, {NameMark}))
        /\ c \in Letters => token = Painted("word", TagEnd(t, i))
        /\ ~(c = "-" /\ n = "-") /\ ~(c = "/" /\ n = "*") /\ c # Quote /\ c # "$"
             /\ c # NameMark /\ c \notin Letters => token = Painted("plain", i + 1)

LEMMA TokenBy == ASSUME NEW t, NEW i PROVE TokenIs(t, i, Token(t, i))
<1> DEFINE c == t[i]
           n == At(t, i + 1)
           token == Token(t, i)
<1>1. c \in Letters => c # "-" /\ c # "/" /\ c # Quote /\ c # "$" /\ c # NameMark
  <2>1. "-" \in Marks /\ "/" \in Marks /\ Quote \in Marks /\ "$" \in Marks /\ NameMark \in Marks
    BY Zenon DEF Marks, Quote, NameMark
  <2>2. QED
    BY <2>1, LettersAreNotMarks
<1>2. c = "-" /\ n = "-" => token = Painted("line", StopBefore(t, i, {Break}))
  BY <1>1, Zenon DEF Token, Painted, Break
<1>3. c = "/" /\ n = "*" => token = Painted("block", BlockStop(t, i))
  BY <1>1, Zenon DEF Token, Painted
<1>4. c = Quote => token = Painted("quote", QuoteStop(t, i))
  BY <1>1, Zenon DEF Token, Painted, Quote
<1>5. c = NameMark => token = Painted("ident", StopAfter(t, i + 1, {NameMark}))
  BY <1>1, Zenon DEF Token, Painted, NameMark
<1>6. c \in Letters => token = Painted("word", TagEnd(t, i))
  BY <1>1, Zenon DEF Token, Painted, Quote, NameMark
<1>7. ~(c = "-" /\ n = "-") /\ ~(c = "/" /\ n = "*") /\ c # Quote /\ c # "$"
        /\ c # NameMark /\ c \notin Letters => token = Painted("plain", i + 1)
  BY Zenon DEF Token, Painted, Quote, NameMark
<1> HIDE DEF c, n, token
<1>8. QED
  BY <1>2, <1>3, <1>4, <1>5, <1>6, <1>7, Zenon DEF TokenIs, c, n, token

\* Between two tokens the editor's scanner reads code, or is still in the token
\* just painted: at the line break behind a comment, or at the end of the text.
Fitting(t, q, kind) ==
    \/ AtIn(t, q, "code")
    \/ /\ kind \in {"line", "quote", "ident"} /\ AtIn(t, q, kind)
       /\ q <= Len(t) => kind = "line" /\ t[q] = Break

\* What the scanner makes of a token.
Fits(t, i, token) ==
    /\ token.kind \in TokenKinds /\ token.stop \in Nat /\ token.stop > i
    /\ token.stop > Len(t) + 1 => AtIn(t, Len(t) + 1, "block")
    /\ token.stop <= Len(t) + 1 => Fitting(t, token.stop, token.kind)

LEMMA PaintedFits ==
    ASSUME NEW t \in Chars, NEW i \in 1..Len(t), NEW kind \in TokenKinds, NEW stop \in Nat, stop > i,
           stop <= Len(t) + 1, Fitting(t, stop, kind)
    PROVE  Fits(t, i, Painted(kind, stop))
<1> DEFINE p == Painted(kind, stop)
<1>1. p.kind = kind /\ p.stop = stop /\ Len(t) \in Nat
  BY TextIs DEF Painted
<1> HIDE DEF p
<1>2. Fits(t, i, p)
  BY <1>1 DEF Fits
<1>3. QED
  BY <1>2 DEF p

NoSlash(t) ==
    \A i \in 1..Len(t) : i + 2 <= Len(t) =>
        ~(t[i] = "/" /\ t[i + 1] = "*" /\ t[i + 2] = "/")

LEMMA HasNoSlash ==
    ASSUME NEW t \in Chars, ~Has(t, <<"/", "*", "/">>) PROVE NoSlash(t)
<1> DEFINE p == <<"/", "*", "/">>
<1> SUFFICES ASSUME NEW i \in 1..Len(t), i + 2 <= Len(t),
                    t[i] = "/", t[i + 1] = "*", t[i + 2] = "/"
             PROVE  Has(t, p)
  BY DEF NoSlash
<1>1. p \in Chars /\ Len(p) = 3 /\ p[1] = "/" /\ p[2] = "*" /\ p[3] = "/"
  <2>1. "/" \in Alphabet /\ "*" \in Alphabet
    BY Zenon DEF Alphabet, Marks
  <2>2. p \in Seq(Alphabet)
    BY <2>1
  <2>3. QED
    BY <2>2 DEF Chars
<1>2. Len(t) \in Nat
  BY TextIs
<1> HIDE DEF p
<1>3. i + Len(p) <= Len(t) + 1
  BY <1>1, <1>2
<1>4. i + 1 - 1 = i /\ i + 2 - 1 = i + 1 /\ i + 3 - 1 = i + 2 /\ 1..3 = {1, 2, 3}
  OBVIOUS
<1>5. \A k \in {1, 2, 3} : t[i + k - 1] = p[k]
  BY <1>1, <1>4
<1>6. \A k \in 1..Len(p) : t[i + k - 1] = p[k]
  BY <1>1, <1>4, <1>5
<1>7. QED
  BY <1>1, <1>3, <1>6, HasIs

\* A line comment.
LEMMA LineFits ==
    ASSUME NEW t \in Chars, NoDollar(t), NEW i \in 1..Len(t), AtIn(t, i, "code"),
           t[i] = "-", At(t, i + 1) = "-"
    PROVE  Fits(t, i, Painted("line", StopBefore(t, i, {Break})))
<1> DEFINE j == StopBefore(t, i, {Break})
<1>1. Len(t) \in Nat /\ i \in 1..Len(t) + 1
  BY TextIs
<1>2. FirstIn(t, i, {Break}, j)
  BY <1>1, StopBeforeIs
<1> HIDE DEF j
<1>3. j \in i..Len(t) + 1 /\ (\A q \in i..j - 1 : t[q] # Break) /\ (j <= Len(t) => t[j] = Break)
  BY <1>2 DEF FirstIn
<1>4. t[i] # Break
  BY Zenon DEF Break
<1>5. j \in Nat /\ i + 1 <= j /\ j # i
  BY <1>1, <1>3, <1>4
<1>6. AtIn(t, i + 1, "line")
  BY ReadsOn DEF ReadsAt
<1>7. ASSUME NEW q \in i + 1..j - 1, AtIn(t, q, "line") PROVE AtIn(t, q + 1, "line")
  <2>1. q \in 1..Len(t) /\ q \in i..j - 1
    BY <1>1, <1>3, <1>5
  <2>2. QED
    BY <1>3, <1>7, <2>1, ReadsOn DEF ReadsAt
<1>8. \A q \in i + 1..j : AtIn(t, q, "line")
  BY <1>5, <1>6, <1>7, Through
<1>9. AtIn(t, j, "line")
  BY <1>5, <1>8
<1>10. Fitting(t, j, "line")
  BY <1>3, <1>9 DEF Fitting
<1>11. j > i /\ j <= Len(t) + 1 /\ "line" \in TokenKinds
  BY <1>1, <1>3, <1>5 DEF TokenKinds
<1>12. Fits(t, i, Painted("line", j))
  BY <1>5, <1>10, <1>11, PaintedFits
<1>13. QED
  BY <1>12 DEF j

\* A block comment, where the highlighter panics if and only if it is left open.
LEMMA BlockFits ==
    ASSUME NEW t \in Chars, NoDollar(t), NoSlash(t), NEW i \in 1..Len(t), AtIn(t, i, "code"),
           t[i] = "/", At(t, i + 1) = "*"
    PROVE  Fits(t, i, Painted("block", BlockStop(t, i)))
<1>1. Len(t) \in Nat
  BY TextIs
<1>2. i < Len(t) /\ t[i + 1] = "*"
  <2>1. i + 1 \notin 1..Len(t) => At(t, i + 1) = "end"
    BY TextIs
  <2>2. i + 1 \in 1..Len(t)
    BY <2>1
  <2>3. At(t, i + 1) = t[i + 1]
    BY <2>2, TextIs
  <2>4. QED
    BY <1>1, <2>2, <2>3
<1>3. PICK k : FirstClosing(t, i, k) /\ BlockStop(t, i) = k + 2
  BY <1>2, BlockStopIs
<1>4. /\ k \in i + 2..Len(t) + 1
      /\ k < Len(t) => t[k] = "*" /\ t[k + 1] = "/"
      /\ \A q \in i + 2..k - 1 : q < Len(t) /\ ~(t[q] = "*" /\ t[q + 1] = "/")
  BY <1>3 DEF FirstClosing
<1>5. AtIn(t, i + 1, "block")
  BY ReadsOn DEF ReadsAt
<1>6. ASSUME NEW q \in i + 1..Len(t), q <= k, AtIn(t, q, "block") PROVE AtIn(t, q + 1, "block")
  <2>1. q \in 1..Len(t)
    BY <1>1, <1>6
  <2>2. ~(t[q] = "/" /\ t[q - 1] = "*")
    <3>1. CASE q = i + 1
      BY <1>2, <3>1
    <3>2. CASE q = i + 2
      <4>1. q - 1 = i + 1 /\ i + 2 <= Len(t)
        BY <1>1, <1>6, <3>2
      <4>2. QED
        BY <3>2, <4>1 DEF NoSlash
    <3>3. CASE q > i + 2
      <4>1. q - 1 \in i + 2..k - 1 /\ (q - 1) + 1 = q
        BY <1>1, <1>4, <1>6, <3>3
      <4>2. QED
        BY <1>4, <4>1
    <3>4. QED
      BY <1>1, <3>1, <3>2, <3>3
  <2>3. QED
    BY <1>6, <2>1, <2>2, ReadsOn DEF ReadsAt
<1>7. CASE k < Len(t)
  <2>1. i + 1 \in Nat /\ k + 1 \in Nat /\ i + 1 <= k + 1 /\ k + 1 \in 1..Len(t)
        /\ (k + 1) - 1 = k /\ (k + 1) + 1 = k + 2
    BY <1>1, <1>4, <1>7
  <2>2. ASSUME NEW q \in i + 1..(k + 1) - 1, AtIn(t, q, "block") PROVE AtIn(t, q + 1, "block")
    <3>1. q \in i + 1..Len(t) /\ q <= k
      BY <1>1, <1>4, <1>7
    <3>2. QED
      BY <1>6, <2>2, <3>1
  <2>3. \A q \in i + 1..k + 1 : AtIn(t, q, "block")
    BY <1>5, <2>1, <2>2, Through
  <2>4. AtIn(t, k + 1, "block")
    BY <2>1, <2>3
  <2>5. AtIn(t, (k + 1) + 1, "code")
    BY <1>4, <1>7, <2>1, <2>4, ReadsOn DEF ReadsAt
  <2>6. Fitting(t, k + 2, "block")
    BY <2>1, <2>5 DEF Fitting
  <2>7. k + 2 \in Nat /\ k + 2 > i /\ k + 2 <= Len(t) + 1 /\ "block" \in TokenKinds
    BY <1>1, <1>4, <1>7 DEF TokenKinds
  <2>8. QED
    BY <1>3, <2>6, <2>7, PaintedFits
<1>8. CASE ~(k < Len(t))
  <2>1. i + 1 \in Nat /\ Len(t) + 1 \in Nat /\ i + 1 <= Len(t) + 1
    BY <1>1, <1>2
  <2>2. ASSUME NEW q \in i + 1..(Len(t) + 1) - 1, AtIn(t, q, "block") PROVE AtIn(t, q + 1, "block")
    <3>1. q \in i + 1..Len(t) /\ q <= k
      BY <1>1, <1>4, <1>8
    <3>2. QED
      BY <1>6, <2>2, <3>1
  <2>3. \A q \in i + 1..Len(t) + 1 : AtIn(t, q, "block")
    BY <1>5, <2>1, <2>2, Through
  <2>4. AtIn(t, Len(t) + 1, "block")
    BY <2>1, <2>3
  <2> DEFINE p == Painted("block", k + 2)
  <2>5. p.kind \in TokenKinds /\ p.stop = k + 2
    BY DEF Painted, TokenKinds
  <2> HIDE DEF p
  <2>6. k + 2 \in Nat /\ k + 2 > i /\ k + 2 > Len(t) + 1 /\ ~(k + 2 <= Len(t) + 1)
    BY <1>1, <1>4, <1>8
  <2>7. Fits(t, i, p)
    BY <2>4, <2>5, <2>6 DEF Fits
  <2>8. QED
    BY <1>3, <2>7 DEF p
<1>9. QED
  BY <1>7, <1>8


\* A literal.
LEMMA QuoteFits ==
    ASSUME NEW t \in Chars, NoDollar(t), NEW i \in 1..Len(t), AtIn(t, i, "code"), t[i] = Quote
    PROVE  Fits(t, i, Painted("quote", QuoteStop(t, i)))
<1>1. Len(t) \in Nat
  BY TextIs
<1>2. PICK f : QuoteEnds(t, i, f) /\ QuoteStop(t, i) = f[i + 1]
  BY QuoteStopIs
<1> DEFINE D == i + 1..Len(t) + 1
           rank == [k \in D |-> Len(t) + 1 - k]
           T == {k \in D : AtIn(t, k, "quote") => Fitting(t, f[k], "quote")}
<1>3. rank \in [D -> Nat]
  BY <1>1
<1>4. ASSUME NEW k \in D, \A y \in D : rank[y] < rank[k] => y \in T
      PROVE  k \in T
  <2> SUFFICES ASSUME AtIn(t, k, "quote") PROVE Fitting(t, f[k], "quote")
    OBVIOUS
  <2>1. \A y \in D : y > k => y \in T
    <3> SUFFICES ASSUME NEW y \in D, y > k PROVE y \in T
      OBVIOUS
    <3>1. rank[y] = Len(t) + 1 - y /\ rank[k] = Len(t) + 1 - k
      OBVIOUS
    <3>2. rank[y] < rank[k]
      <4> HIDE DEF rank
      <4>1. QED
        BY <1>1, <3>1
    <3>3. QED
      BY <1>4, <3>2
  <2>2. CASE k > Len(t)
    <3>1. f[k] = k /\ ~(k <= Len(t))
      BY <1>1, <1>2, <2>2 DEF QuoteEnds
    <3>2. QED
      BY <3>1 DEF Fitting
  <2>3. CASE k <= Len(t) /\ t[k] # Quote
    <3>1. k \in 1..Len(t) /\ k + 1 \in D /\ k + 1 > k
      BY <1>1, <2>3
    <3>2. AtIn(t, k + 1, "quote")
      BY <2>3, <3>1, ReadsOn DEF ReadsAt
    <3>3. f[k] = f[k + 1]
      BY <1>2, <2>3 DEF QuoteEnds
    <3>4. QED
      BY <2>1, <3>1, <3>2, <3>3
  <2>4. CASE k <= Len(t) /\ t[k] = Quote /\ At(t, k + 1) = Quote
    <3>1. k + 1 \in 1..Len(t)
      <4>1. k + 1 \notin 1..Len(t) => At(t, k + 1) = "end"
        BY TextIs
      <4>2. "end" # Quote
        BY DEF Quote
      <4>3. QED
        BY <2>4, <4>1, <4>2
    <3>2. k \in 1..Len(t) /\ k + 2 \in D /\ k + 2 > k
      BY <1>1, <2>4, <3>1
    <3>3. AtIn(t, k + 2, "quote")
      BY <2>4, <3>2, ReadsOn DEF ReadsAt
    <3>4. f[k] = f[k + 2]
      BY <1>2, <2>4 DEF QuoteEnds
    <3>5. QED
      BY <2>1, <3>2, <3>3, <3>4
  <2>5. CASE k <= Len(t) /\ t[k] = Quote /\ At(t, k + 1) # Quote
    <3>1. k \in 1..Len(t)
      BY <1>1, <2>5
    <3>2. AtIn(t, k + 1, "code")
      BY <2>5, <3>1, ReadsOn DEF ReadsAt
    <3>3. f[k] = k + 1
      BY <1>2, <2>5 DEF QuoteEnds
    <3>4. QED
      BY <3>2, <3>3 DEF Fitting
  <2>6. k > Len(t) \/ k <= Len(t)
    BY <1>1
  <2>7. QED
    BY <2>2, <2>3, <2>4, <2>5, <2>6
<1>5. D \subseteq T
  <2> HIDE DEF T, rank, D
  <2>1. QED
    BY <1>3, <1>4, RankInduction
<1> HIDE DEF T, rank
<1>6. i + 1 \in D
  BY <1>1
<1>7. AtIn(t, i + 1, "quote")
  BY ReadsOn DEF ReadsAt
<1>8. Fitting(t, f[i + 1], "quote")
  BY <1>5, <1>6, <1>7 DEF T
<1>9. f[i + 1] \in D
  BY <1>2, <1>6 DEF QuoteEnds
<1>10. f[i + 1] \in Nat /\ f[i + 1] > i /\ f[i + 1] <= Len(t) + 1 /\ "quote" \in TokenKinds
  BY <1>1, <1>9 DEF TokenKinds
<1> HIDE DEF D
<1>11. QED
  BY <1>2, <1>8, <1>10, PaintedFits

\* A quoted name.
LEMMA NameFits ==
    ASSUME NEW t \in Chars, NoDollar(t), NEW i \in 1..Len(t), AtIn(t, i, "code"),
           t[i] = NameMark
    PROVE  Fits(t, i, Painted("ident", StopAfter(t, i + 1, {NameMark})))
<1>1. Len(t) \in Nat /\ i + 1 \in 1..Len(t) + 1
  BY TextIs
<1> DEFINE j == StopAfter(t, i + 1, {NameMark})
<1>2. PICK e : FirstIn(t, i + 1, {NameMark}, e) /\ j = IF e <= Len(t) THEN e + 1 ELSE e
  BY <1>1, StopAfterIs
<1> HIDE DEF j
<1>3. /\ e \in i + 1..Len(t) + 1
      /\ \A q \in i + 1..e - 1 : t[q] # NameMark
      /\ e <= Len(t) => t[e] = NameMark
  BY <1>2 DEF FirstIn
<1>4. AtIn(t, i + 1, "ident")
  BY ReadsOn DEF ReadsAt
<1>5. ASSUME NEW q \in i + 1..e - 1, AtIn(t, q, "ident") PROVE AtIn(t, q + 1, "ident")
  <2>1. q \in 1..Len(t)
    BY <1>1, <1>3
  <2>2. QED
    BY <1>3, <1>5, <2>1, ReadsOn DEF ReadsAt
<1>6. e \in Nat /\ i + 1 \in Nat /\ i + 1 <= e
  BY <1>1, <1>3
<1>7. \A q \in i + 1..e : AtIn(t, q, "ident")
  BY <1>4, <1>5, <1>6, Through
<1>8. AtIn(t, e, "ident")
  BY <1>6, <1>7
<1>9. Fitting(t, j, "ident")
  <2>1. CASE e <= Len(t)
    <3>1. e \in 1..Len(t) /\ j = e + 1
      BY <1>1, <1>2, <1>6, <2>1
    <3>2. AtIn(t, e + 1, "code")
      BY <1>3, <1>8, <2>1, <3>1, ReadsOn DEF ReadsAt
    <3>3. QED
      BY <3>1, <3>2 DEF Fitting
  <2>2. CASE ~(e <= Len(t))
    <3>1. j = e
      BY <1>2, <2>2
    <3>2. QED
      BY <1>8, <2>2, <3>1 DEF Fitting
  <2>3. QED
    BY <2>1, <2>2
<1>10. j \in Nat /\ j > i /\ j <= Len(t) + 1
  BY <1>1, <1>2, <1>3, <1>6
<1>11. "ident" \in TokenKinds
  BY DEF TokenKinds
<1>12. Fits(t, i, Painted("ident", j))
  BY <1>9, <1>10, <1>11, PaintedFits
<1>13. QED
  BY <1>12 DEF j

LEMMA LetterIs == \A c \in Letters : c # "-" /\ c # "/" /\ c # Quote /\ c # NameMark /\ c # Break
<1>1. "-" \in Marks /\ "/" \in Marks /\ Quote \in Marks /\ NameMark \in Marks /\ Break \in Marks
  BY Zenon DEF Marks, Quote, NameMark, Break
<1>2. QED
  BY <1>1, LettersAreNotMarks

\* A word.
LEMMA WordFits ==
    ASSUME NEW t \in Chars, NoDollar(t), NEW i \in 1..Len(t), AtIn(t, i, "code"), t[i] \in Letters
    PROVE  Fits(t, i, Painted("word", TagEnd(t, i)))
<1> DEFINE j == TagEnd(t, i)
<1>1. Len(t) \in Nat
  BY TextIs
<1>2. j \in i + 1..Len(t) + 1 /\ \A q \in i + 1..j - 1 : q \in 1..Len(t) /\ t[q] \in Letters
  BY TagEndIs
<1> HIDE DEF j
<1>3. ASSUME NEW q \in i..j - 1, AtIn(t, q, "code") PROVE AtIn(t, q + 1, "code")
  <2>1. q \in 1..Len(t) /\ (q = i \/ q \in i + 1..j - 1)
    BY <1>1, <1>2
  <2>2. t[q] \in Letters
    BY <1>2, <2>1
  <2>3. t[q] # "-" /\ t[q] # "/" /\ t[q] # Quote /\ t[q] # NameMark
    BY <2>2, LetterIs
  <2>4. QED
    BY <1>3, <2>1, <2>3, ReadsOn DEF ReadsAt
<1>4. i \in Nat /\ j \in Nat /\ i <= j
  BY <1>1, <1>2
<1>5. \A q \in i..j : AtIn(t, q, "code")
  BY <1>3, <1>4, Through
<1>6. AtIn(t, j, "code")
  BY <1>4, <1>5
<1>7. Fitting(t, j, "word")
  BY <1>6 DEF Fitting
<1>8. j > i /\ j <= Len(t) + 1 /\ "word" \in TokenKinds
  BY <1>1, <1>2 DEF TokenKinds
<1>9. Fits(t, i, Painted("word", j))
  BY <1>4, <1>7, <1>8, PaintedFits
<1>10. QED
  BY <1>9 DEF j

\* A character that begins no token, and the line break behind a comment.
LEMMA PlainFits ==
    ASSUME NEW t \in Chars, NoDollar(t), NEW i \in 1..Len(t), AtIn(t, i + 1, "code")
    PROVE  Fits(t, i, Painted("plain", i + 1))
<1>1. i + 1 \in Nat /\ i + 1 > i /\ i + 1 <= Len(t) + 1 /\ "plain" \in TokenKinds
  BY TextIs DEF TokenKinds
<1>2. Fitting(t, i + 1, "plain")
  BY DEF Fitting
<1>3. QED
  BY <1>1, <1>2, PaintedFits

LEMMA TokenFits ==
    ASSUME NEW t \in Chars, NoDollar(t), NoSlash(t), NEW i \in 1..Len(t), NEW kind,
           Fitting(t, i, kind)
    PROVE  Fits(t, i, Token(t, i))
<1> DEFINE c == t[i]
           n == At(t, i + 1)
           token == Token(t, i)
<1>1. TokenIs(t, i, token)
  BY TokenBy
<1>2. i <= Len(t) /\ c # "$"
  BY TextIs DEF NoDollar
<1> HIDE DEF token
<1> SUFFICES Fits(t, i, token)
  BY DEF token
<1>3. CASE ~AtIn(t, i, "code")
  <2>1. AtIn(t, i, "line") /\ t[i] = Break
    BY <1>2, <1>3 DEF Fitting
  <2>2. c # "-" /\ c # "/" /\ c # Quote /\ c # NameMark
    BY <2>1, Zenon DEF Break, Quote, NameMark
  <2>3. c \notin Letters
    BY <2>1, LetterIs
  <2>4. token = Painted("plain", i + 1)
    BY <1>1, <1>2, <2>2, <2>3, Zenon DEF TokenIs
  <2>5. AtIn(t, i + 1, "code")
    BY <2>1, ReadsOn DEF ReadsAt
  <2>6. QED
    BY <2>4, <2>5, PlainFits
<1>4. CASE AtIn(t, i, "code")
  <2>1. CASE c = "-" /\ n = "-"
    BY <1>1, <1>4, <2>1, LineFits DEF TokenIs
  <2>2. CASE c = "/" /\ n = "*"
    BY <1>1, <1>4, <2>2, BlockFits DEF TokenIs
  <2>3. CASE c = Quote
    BY <1>1, <1>4, <2>3, QuoteFits DEF TokenIs
  <2>4. CASE c = NameMark
    BY <1>1, <1>4, <2>4, NameFits DEF TokenIs
  <2>5. CASE c \in Letters
    BY <1>1, <1>4, <2>5, WordFits DEF TokenIs
  <2>6. CASE ~(c = "-" /\ n = "-") /\ ~(c = "/" /\ n = "*") /\ c # Quote /\ c # NameMark
             /\ c \notin Letters
    <3>1. token = Painted("plain", i + 1)
      BY <1>1, <1>2, <2>6, Zenon DEF TokenIs
    <3>2. AtIn(t, i + 1, "code")
      BY <1>4, <2>6, ReadsOn DEF ReadsAt
    <3>3. QED
      BY <3>1, <3>2, PlainFits
  <2>7. QED
    BY <2>1, <2>2, <2>3, <2>4, <2>5, <2>6
<1>5. QED
  BY <1>3, <1>4


\* Painting the next token.
Paint(t, p) ==
    IF p.panicked \/ p.at > Len(t) THEN p
    ELSE IF Token(t, p.at).stop > Len(t) + 1 THEN [p EXCEPT !.panicked = TRUE]
    ELSE [p EXCEPT !.at = Token(t, p.at).stop, !.last = Token(t, p.at).kind]

\* What is painted so far fits what the editor's scanner has read.
Paintings(t) ==
    {p \in [at : 1..Len(t) + 1, last : TokenKinds, panicked : BOOLEAN] :
       /\ p.panicked => AtIn(t, Len(t) + 1, "block")
       /\ ~p.panicked => Fitting(t, p.at, p.last)}

Unpainted == [at |-> 1, last |-> "plain", panicked |-> FALSE]

LEMMA UnpaintedIs == ASSUME NEW t \in Chars PROVE Unpainted \in Paintings(t)
<1> DEFINE p == Unpainted
<1>1. p \in [at : 1..Len(t) + 1, last : TokenKinds, panicked : BOOLEAN]
  BY TextIs DEF Unpainted, TokenKinds
<1>2. p.panicked = FALSE /\ p.at = 1
  BY DEF Unpainted
<1>3. AtIn(t, 1, "code")
  BY BeginsInCode
<1> HIDE DEF p
<1>4. QED
  BY <1>1, <1>2, <1>3 DEF Paintings, Fitting, p

\* Each token brings the painting on by at least one character.
LEMMA PaintKeeps ==
    ASSUME NEW t \in Chars, NoDollar(t), NoSlash(t), NEW p \in Paintings(t)
    PROVE  /\ Paint(t, p) \in Paintings(t)
           /\ p.panicked \/ p.at > Len(t) => Paint(t, p) = p
           /\ ~p.panicked /\ ~(p.at > Len(t)) =>
                Paint(t, p).panicked \/ Paint(t, p).at > p.at
<1>1. /\ p \in [at : 1..Len(t) + 1, last : TokenKinds, panicked : BOOLEAN]
      /\ ~p.panicked => Fitting(t, p.at, p.last)
      /\ Len(t) \in Nat
  BY TextIs DEF Paintings
<1>2. CASE p.panicked \/ p.at > Len(t)
  <2>1. Paint(t, p) = p
    BY <1>2 DEF Paint
  <2>2. QED
    BY <1>2, <2>1
<1>3. CASE ~p.panicked /\ ~(p.at > Len(t))
  <2> DEFINE token == Token(t, p.at)
             r == Paint(t, p)
  <2>1. p.at \in 1..Len(t)
    BY <1>1, <1>3
  <2>2. Fits(t, p.at, token)
    BY <1>1, <1>3, <2>1, TokenFits
  <2>3. r = IF token.stop > Len(t) + 1 THEN [p EXCEPT !.panicked = TRUE]
            ELSE [p EXCEPT !.at = token.stop, !.last = token.kind]
    BY <1>3 DEF Paint
  <2> HIDE DEF token, r
  <2>4. token.kind \in TokenKinds /\ token.stop \in Nat /\ token.stop > p.at
    BY <2>2 DEF Fits
  <2>5. CASE token.stop > Len(t) + 1
    <3>1. r \in [at : 1..Len(t) + 1, last : TokenKinds, panicked : BOOLEAN] /\ r.panicked = TRUE
      BY <1>1, <2>3, <2>5
    <3>2. AtIn(t, Len(t) + 1, "block")
      BY <2>2, <2>5 DEF Fits
    <3>3. r \in Paintings(t)
      BY <3>1, <3>2 DEF Paintings
    <3>4. QED
      BY <1>3, <3>1, <3>3 DEF r
  <2>6. CASE ~(token.stop > Len(t) + 1)
    <3>1. token.stop \in 1..Len(t) + 1 /\ token.stop <= Len(t) + 1
      BY <1>1, <2>1, <2>4, <2>6
    <3>2. Fitting(t, token.stop, token.kind)
      BY <2>2, <3>1 DEF Fits
    <3>3. /\ r \in [at : 1..Len(t) + 1, last : TokenKinds, panicked : BOOLEAN]
          /\ r.panicked = FALSE /\ r.at = token.stop /\ r.last = token.kind
      BY <1>1, <1>3, <2>3, <2>4, <2>6, <3>1
    <3>4. r \in Paintings(t)
      BY <3>2, <3>3 DEF Paintings
    <3>5. QED
      BY <1>3, <2>4, <3>3, <3>4 DEF r
  <2>7. QED
    BY <2>5, <2>6
<1>4. QED
  BY <1>2, <1>3

\* The painting after k of the steps the fold takes.
PaintedFor(t, p, k) ==
    p \in Paintings(t) /\ (p.panicked \/ p.at > k \/ p.at > Len(t))

LEMMA HighlightIs ==
    ASSUME NEW t \in Chars, NoDollar(t), NoSlash(t)
    PROVE  PaintedFor(t, Highlight(t), Len(t))
<1> DEFINE n == Len(t)
           D == SUBSET (1..n)
           V == Paintings(t)
           Is(f) == f = [A \in D |-> IF A = {} THEN Unpainted ELSE Paint(t, f[A \ {Max(A)}])]
           N == [p \in V |-> Paint(t, p)]
           total == Highlight(t)
<1>1. n \in Nat /\ DOMAIN t = 1..n
  BY TextIs
<1>2. total = (CHOOSE f : Is(f))[1..n]
  BY <1>1, Zenon DEF Highlight, FoldLeft, MapThenFoldSet, Paint, Unpainted
<1> HIDE DEF total
<1>3. Unpainted \in V /\ \A p \in V : Paint(t, p) \in V
  BY UnpaintedIs, PaintKeeps
<1> HIDE DEF V
<1>4. N \in [V -> V] /\ \A p \in V : N[p] = Paint(t, p)
  BY <1>3
<1> HIDE DEF N, n
<1>5. PICK f \in [D -> V] : StepsAlong(f, n, Unpainted, N)
  BY <1>1, <1>3, <1>4, StepsExist
<1>6. \A A \in D : A # {} => A \ {Max(A)} \in D
  BY <1>1, GreatestPlace
<1>7. \A A \in D : f[A] = IF A = {} THEN Unpainted ELSE N[f[A \ {Max(A)}]]
  BY <1>5 DEF StepsAlong
<1> HIDE DEF D
<1>8. \A A \in D : f[A] = IF A = {} THEN Unpainted ELSE Paint(t, f[A \ {Max(A)}])
  <2>1. \A A \in D : A # {} => f[A \ {Max(A)}] \in V
    BY <1>5, <1>6
  <2>2. QED
    BY <1>4, <1>7, <2>1
<1>9. Is(f)
  <2>1. f = [A \in D |-> f[A]]
    BY <1>5
  <2>2. QED
    BY <1>8, <2>1
<1> DEFINE g == CHOOSE e : Is(e)
<1>10. Is(g)
  <2> HIDE DEF Is
  <2>1. QED
    BY <1>9
<1> HIDE DEF g
<1>11. \A A \in D : g[A] = IF A = {} THEN Unpainted ELSE Paint(t, g[A \ {Max(A)}])
  BY <1>10
<1>12. total = g[1..n]
  BY <1>2 DEF g
<1> HIDE DEF Is
<1> DEFINE T == {k \in Nat : k <= n => PaintedFor(t, g[1..k], k)}
<1>13. 0 \in T
  <2>1. 1..0 = {} /\ {} \in D
    BY <1>1 DEF D
  <2>2. g[1..0] = Unpainted
    BY <1>11, <2>1
  <2>3. Unpainted \in Paintings(t)
    BY UnpaintedIs
  <2>4. Unpainted.at > 0
    BY DEF Unpainted
  <2>5. PaintedFor(t, Unpainted, 0)
    BY <2>3, <2>4 DEF PaintedFor
  <2>6. PaintedFor(t, g[1..0], 0)
    BY <2>2, <2>5
  <2>7. QED
    BY <2>6
<1>14. ASSUME NEW k \in Nat, k \in T PROVE k + 1 \in T
  <2> SUFFICES ASSUME k + 1 <= n PROVE PaintedFor(t, g[1..k + 1], k + 1)
    OBVIOUS
  <2>1. k + 1 \in 1..n /\ (k + 1) - 1 = k /\ k <= n
    BY <1>1
  <2>2. 1..k + 1 \in D /\ 1..k + 1 # {} /\ 1..k + 1 \ {Max(1..k + 1)} = 1..(k + 1) - 1
    BY <1>1, <2>1, PlacesBefore DEF D
  <2> DEFINE p == g[1..k]
             r == g[1..k + 1]
  <2>3. r = Paint(t, p)
    BY <1>11, <2>1, <2>2
  <2>4. PaintedFor(t, p, k)
    BY <1>14, <2>1
  <2> SUFFICES PaintedFor(t, r, k + 1)
    OBVIOUS
  <2> HIDE DEF p, r
  <2>5. p \in Paintings(t) /\ (p.panicked \/ p.at > k \/ p.at > n)
    BY <2>4 DEF PaintedFor, n
  <2>6. /\ r \in Paintings(t)
        /\ p.panicked \/ p.at > n => r = p
        /\ ~p.panicked /\ ~(p.at > n) => r.panicked \/ r.at > p.at
    BY <2>3, <2>5, PaintKeeps DEF n
  <2>7. p.at \in Nat /\ r.at \in Nat
    BY <1>1, <2>5, <2>6 DEF Paintings, n
  <2>8. r.panicked \/ r.at > k + 1 \/ r.at > n
    BY <2>5, <2>6, <2>7
  <2>9. QED
    BY <2>6, <2>8 DEF PaintedFor, n
<1> HIDE DEF T
<1>15. Nat \subseteq T
  BY <1>13, <1>14, Induction
<1>16. PaintedFor(t, g[1..n], n)
  BY <1>1, <1>15 DEF T
<1>17. QED
  BY <1>12, <1>16 DEF n, total

ColoursOf(t) ==
    LET s == Scan(Completer, t)
        p == Highlight(t)
    IN  /\ p.panicked <=> s.mode = "block"
        /\ s.mode \in {"quote", "ident", "line"} => p.last = s.mode

LEMMA ColoursAre ==
    ASSUME NEW t \in Chars, ~Has(t, <<"$">>), ~Has(t, <<"/", "*", "/">>) PROVE ColoursOf(t)
<1> DEFINE s == Scan(Completer, t)
           p == Highlight(t)
<1>1. NoDollar(t)
  <2>1. "$" \in Marks
    BY Zenon DEF Marks
  <2>2. QED
    BY <2>1, HasNone DEF NoDollar
<1>2. NoSlash(t)
  BY HasNoSlash
<1>3. PaintedFor(t, p, Len(t))
  BY <1>1, <1>2, HighlightIs
<1>4. \A m : AtIn(t, Len(t) + 1, m) => s.mode = m
  BY EndIs
<1> HIDE DEF s, p
<1>5. /\ p \in [at : 1..Len(t) + 1, last : TokenKinds, panicked : BOOLEAN]
      /\ p.panicked => AtIn(t, Len(t) + 1, "block")
      /\ ~p.panicked => Fitting(t, p.at, p.last)
      /\ p.panicked \/ p.at > Len(t)
      /\ Len(t) \in Nat
  BY <1>3, TextIs DEF PaintedFor, Paintings
<1>6. CASE p.panicked
  <2>1. s.mode = "block"
    BY <1>4, <1>5, <1>6
  <2>2. QED
    BY <1>6, <2>1, Zenon DEF ColoursOf, s, p
<1>7. CASE ~p.panicked
  <2>1. p.at = Len(t) + 1
    BY <1>5, <1>7
  <2>2. Fitting(t, Len(t) + 1, p.last)
    BY <1>5, <1>7, <2>1
  <2>3. s.mode = "code" \/ (p.last \in {"line", "quote", "ident"} /\ s.mode = p.last)
    BY <1>4, <2>2 DEF Fitting
  <2>4. s.mode # "block" /\ (s.mode \in {"quote", "ident", "line"} => p.last = s.mode)
    BY <2>3
  <2>5. QED
    BY <1>7, <2>4 DEF ColoursOf, s, p
<1>8. QED
  BY <1>6, <1>7


LEMMA ReadersHold == EditorInv => ReadersAgree
<1> SUFFICES ASSUME EditorInv PROVE ReadersAgree
  OBVIOUS
<1>1. line \in Chars /\ painted = Highlight(line)
  BY DEF EditorInv
<1>2. TypeOK
  <2>1. ASSUME NEW k \in DOMAIN sent PROVE sent[k] # <<>> /\ Trim(sent[k]) = sent[k]
    <3>1. sent[k] \in Statements
      BY DEF EditorInv
    <3>2. QED
      BY <3>1 DEF Statements
  <2>2. QED
    BY <2>1, Zenon DEF EditorInv, TypeOK
<1>3. ScannersAgree
  <2>1. Input \in Chars
    BY InputIs DEF EditorInv, Input
  <2>2. QED
    BY <2>1, ReadAlike, Zenon DEF ScannersAgree, ScannersOf
<1>4. ColoursFollowScanner
  <2>1. Has(line, <<"$">>) \/ Has(line, <<"/", "*", "/">>) \/ ColoursOf(line)
    BY <1>1, ColoursAre, Zenon
  <2>2. ASSUME ColoursOf(line) PROVE ColoursFollowScanner
    <3>1. painted.panicked <=> Scan(Completer, line).mode = "block"
      BY <1>1, <2>2, Zenon DEF ColoursOf
    <3>2. Scan(Completer, line).mode \in {"quote", "ident", "line"} =>
              painted.last = Scan(Completer, line).mode
      BY <1>1, <2>2, Zenon DEF ColoursOf
    <3>3. QED
      BY <3>1, <3>2 DEF ColoursFollowScanner
  <2>3. QED
    BY <2>1, <2>2, Zenon DEF ColoursFollowScanner
<1>5. QED
  BY <1>2, <1>3, <1>4 DEF ReadersAgree

----------------------------------------------------------------------------
(* The three parts of MCTexts: only one of them moves. *)

THEOREM TextsAreSeparate == TextsSpec => Spec /\ Printer!Spec /\ Figures!Spec
<1>1. TextsInit => Init /\ Printer!Init /\ Figures!Init
  BY DEF TextsInit
<1>2. ASSUME [EditorStep \/ PrinterStep \/ FiguresStep]_<<part, editorVars, printerVars,
                                                                figuresVars>>
      PROVE  [Next]_vars /\ [Printer!Next]_Printer!vars /\ [Figures!Next]_Figures!vars
  <2>1. vars = editorVars /\ Printer!vars = printerVars /\ Figures!vars = figuresVars
    BY DEF editorVars, printerVars, figuresVars, Printer!vars, Figures!vars
  <2>2. CASE EditorStep
    BY <2>2 DEF EditorStep, editorVars, printerVars, figuresVars, Printer!vars, Figures!vars
  <2>3. CASE PrinterStep
    BY <2>3 DEF PrinterStep, editorVars, printerVars, figuresVars, Printer!vars, Figures!vars
  <2>4. CASE FiguresStep
    BY <2>4 DEF FiguresStep, editorVars, printerVars, figuresVars, Printer!vars, Figures!vars
  <2>5. CASE UNCHANGED <<part, editorVars, printerVars, figuresVars>>
    BY <2>5 DEF editorVars, printerVars, figuresVars, Printer!vars, Figures!vars
  <2>6. QED
    BY <1>2, <2>2, <2>3, <2>4, <2>5
<1>3. QED
  BY <1>1, <1>2, PTL DEF TextsSpec, Spec, Printer!Spec, Figures!Spec

\* The buffer, the line and the statements sent are texts, the statements
\* neither empty nor with white space around them.
THEOREM EditorInvariance == TextsSpec => []EditorInv
  BY EditorAlways, TextsAreSeparate, PTL

\* split_statements and format_db_error: whatever is typed, the statements put
\* together again with their semicolons are the text and what follows a cut is
\* split as if it stood alone; quotes cut by parity; and the caret of an error
\* stands in the statement sent where the server meant.
THEOREM StatementsSent == TextsSpec => []StatementsAreTheText
  BY CutsHold, EditorInvariance, PTL

\* is_incomplete, split_statements and highlight_tokens: whatever is typed, the
\* editor and the splitter end in the same kind of token and cut the same
\* statements, and the highlighter paints the token the editor is in, unless it
\* panics in an open block comment (outside the texts ReadersAgree sets apart).
THEOREM ReadersReadAlike == TextsSpec => []ReadersAgree
  BY ReadersHold, EditorInvariance, PTL

THEOREM FiguresInvariance == TextsSpec => []FiguresInv
<1>1. Figures!Init => FiguresInv
  BY InitFigures, FiguresAssumption
<1>2. FiguresInv /\ [Figures!Next]_Figures!vars => FiguresInv'
  BY NextFigures, FiguresAssumption
<1>3. QED
  BY <1>1, <1>2, TextsAreSeparate, PTL DEF Figures!Spec

\* decode_pg_numeric, decode_pg_interval, format_duration, percentile and
\* build_histogram: numerics, intervals and durations are shown as the value
\* they are, with any number of digits and groups; the percentiles and the
\* histogram are those of any number of samples.
THEOREM FiguresReadBack == TextsSpec => []FiguresAreRight
<1>1. FiguresInv => FiguresAreRight
  BY FiguresFollow, FiguresAssumption DEF FiguresAreRight
<1>2. QED
  BY <1>1, FiguresInvariance, PTL
=============================================================================
