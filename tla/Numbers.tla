------------------------------ MODULE Numbers ------------------------------
(***************************************************************************)
(* The arithmetic of the client: the binary NUMERIC and INTERVAL values    *)
(* the server sends and the text made of them, the time a query took as it *)
(* is printed, and the statistics of \bench. Each decoder is checked       *)
(* against what the value means, with the server's encoder (external) on   *)
(* the other side of the wire.                                             *)
(*                                                                         *)
(* A decimal number is a sign and two sequences of digits; 4 digits make a *)
(* group of the wire format.                                               *)
(***************************************************************************)
EXTENDS Integers, Sequences, FiniteSets, SequencesExt

CONSTANTS DigitsUsed,       \* the digits numbers are written with, 0 among them
          MaxInt, MaxFrac,  \* bounds: digits before and after the point
          MicrosPerSecond,  \* 1,000,000 in the code
          Micros, Days, Months,     \* the fields of the intervals received
          Durations,        \* times in milliseconds a query takes
          Buckets,          \* bars of the histogram, 10 in the code
          Samples,          \* times a run of \bench may take
          MaxRuns           \* bound: runs of one benchmark

VARIABLES received,  \* the value that arrived last: [kind, value]
          shown,     \* what was made of it
          samples    \* the times \bench has collected

vars == <<received, shown, samples>>

NumbersAssumption ==
    /\ 0 \in DigitsUsed /\ DigitsUsed \subseteq 0 .. 9
    /\ MicrosPerSecond \in Nat \ {0} /\ Buckets \in Nat \ {0}
    /\ MaxInt \in Nat /\ MaxFrac \in Nat /\ MaxRuns \in Nat
    /\ Samples \subseteq Nat /\ Durations \subseteq Nat
    /\ Micros \subseteq Int /\ Months \subseteq Int

Smaller(a, b) == IF a < b THEN a ELSE b
Larger(a, b) == IF a > b THEN a ELSE b
Magnitude(n) == IF n < 0 THEN -n ELSE n

\* The division and the remainder of the language: towards zero.
Quotient(a, b) == IF a < 0 THEN -((0 - a) \div b) ELSE a \div b
Remainder(a, b) == a - b * Quotient(a, b)

Zeros(n) == [i \in 1 .. n |-> 0]

\* Digits without the zeros in front of them.
Stripped(digits) ==
    LET solid == {i \in DOMAIN digits : digits[i] # 0}
    IN  IF solid = {} THEN <<>>
        ELSE SubSeq(digits, CHOOSE i \in solid : \A j \in solid : i <= j, Len(digits))

-----------------------------------------------------------------------------
(***************************************************************************)
(* The server's side: the digits are cut into groups of four, counted from *)
(* the point, and groups of zeros at either end are not sent.              *)
(***************************************************************************)
Encode(negative, int, frac) ==
    LET whole  == Zeros((4 - (Len(int) % 4)) % 4) \o int
        rest   == frac \o Zeros((4 - (Len(frac) % 4)) % 4)
        digits == whole \o rest
        all    == [k \in 1 .. Len(digits) \div 4 |-> SubSeq(digits, 4 * k - 3, 4 * k)]
        solid  == {k \in DOMAIN all : all[k] # Zeros(4)}
        first  == CHOOSE k \in solid : \A j \in solid : k <= j
        last   == CHOOSE k \in solid : \A j \in solid : k >= j
    IN  [groups |-> IF solid = {} THEN <<>> ELSE SubSeq(all, first, last),
         weight |-> IF solid = {} THEN 0 ELSE Len(whole) \div 4 - first,
         sign   |-> IF negative /\ solid # {} THEN "-" ELSE "+",
         dscale |-> Len(frac)]

\* Mutant: groups of zeros at the end of the whole part are not put back.
WholePartShort(w) ==
    IF w.weight < 0 THEN <<0>>
    ELSE LET stored == Smaller(w.weight + 1, Len(w.groups))
             text   == FlattenSeq([k \in 1 .. stored |->
                           IF k = 1 THEN IF Stripped(w.groups[1]) = <<>> THEN <<0>>
                                         ELSE Stripped(w.groups[1])
                           ELSE w.groups[k]])
         IN  IF text = <<>> THEN <<0>> ELSE text

\* decode_pg_numeric, the part before the point: the first group as a number,
\* the others with their four digits, and four zeros for each group not sent.
WholePart(w) ==
    IF w.weight < 0 THEN <<0>>
    ELSE LET stored == Smaller(w.weight + 1, Len(w.groups))
             text   == FlattenSeq([k \in 1 .. stored |->
                           IF k = 1 THEN IF Stripped(w.groups[1]) = <<>> THEN <<0>>
                                         ELSE Stripped(w.groups[1])
                           ELSE w.groups[k]])
             absent == w.weight + 1 - Len(w.groups)
         IN  IF absent <= 0 THEN IF text = <<>> THEN <<0>> ELSE text
             ELSE IF text = <<>> THEN <<0>> \o Zeros(4 * (absent - 1))
             ELSE text \o Zeros(4 * absent)

\* The part after the point: zeros for the groups between the point and the
\* first one sent, the groups, then zeros up to the scale, or a cut.
Fraction(w) ==
    LET leading == IF w.weight < -1 THEN Zeros(4 * (-w.weight - 1)) ELSE <<>>
        start   == IF w.weight >= 0 THEN Smaller(w.weight + 1, Len(w.groups)) ELSE 0
        digits  == leading \o FlattenSeq(SubSeq(w.groups, start + 1, Len(w.groups)))
    IN  IF Len(digits) < w.dscale THEN digits \o Zeros(w.dscale - Len(digits))
        ELSE SubSeq(digits, 1, w.dscale)

DecodeNumeric(w) == [sign |-> w.sign, int |-> WholePart(w),
                     frac |-> IF w.dscale > 0 THEN Fraction(w) ELSE <<>>]

-----------------------------------------------------------------------------
\* Mutant: the months of the years are shown as months, too.
DecodeIntervalMonths(i) ==
    LET secs == Quotient(i.micros, MicrosPerSecond)
    IN  [years |-> Quotient(i.months, 12), months |-> i.months,
         days |-> i.days, hours |-> Quotient(secs, 3600),
         minutes |-> Quotient(Remainder(secs, 3600), 60), seconds |-> Remainder(secs, 60),
         micros |-> Remainder(Magnitude(i.micros), MicrosPerSecond)]

\* decode_pg_interval: every field is divided by itself and printed with its
\* own sign, except the fraction of a second, which is printed without one.
DecodeInterval(i) ==
    LET secs == Quotient(i.micros, MicrosPerSecond)
    IN  [years |-> Quotient(i.months, 12), months |-> Remainder(i.months, 12),
         days |-> i.days, hours |-> Quotient(secs, 3600),
         minutes |-> Quotient(Remainder(secs, 3600), 60), seconds |-> Remainder(secs, 60),
         micros |-> Remainder(Magnitude(i.micros), MicrosPerSecond)]

\* Mutant: exactly one minute is printed in seconds.
FormatDurationMinute(ms) ==
    IF ms = 0 THEN [unit |-> "none", minutes |-> 0, secs |-> 0, ms |-> 0]
    ELSE IF ms < 1000 THEN [unit |-> "ms", minutes |-> 0, secs |-> 0, ms |-> ms]
    ELSE IF ms <= 60000 THEN [unit |-> "s", minutes |-> 0, secs |-> ms \div 1000, ms |-> ms % 1000]
    ELSE [unit |-> "m", minutes |-> ms \div 60000, secs |-> (ms % 60000) \div 1000,
          ms |-> ms % 1000]

\* format_duration: the numbers printed, and the unit after them ("none" is
\* printed as less than 1 ms).
FormatDuration(ms) ==
    IF ms = 0 THEN [unit |-> "none", minutes |-> 0, secs |-> 0, ms |-> 0]
    ELSE IF ms < 1000 THEN [unit |-> "ms", minutes |-> 0, secs |-> 0, ms |-> ms]
    ELSE IF ms < 60000 THEN [unit |-> "s", minutes |-> 0, secs |-> ms \div 1000, ms |-> ms % 1000]
    ELSE [unit |-> "m", minutes |-> ms \div 60000, secs |-> (ms % 60000) \div 1000,
          ms |-> ms % 1000]

-----------------------------------------------------------------------------
\* sort_unstable: the samples in one of the orders in which they rise.
Sorted(s) ==
    LET n      == Len(s)
        orders == {p \in [1 .. n -> 1 .. n] : IsInjective(p)}
        rising == CHOOSE p \in orders : \A i, j \in 1 .. n : i < j => s[p[i]] <= s[p[j]]
    IN  [i \in 1 .. n |-> s[rising[i]]]

\* Mutant: the rank is rounded down.
PercentileFloor(sorted, p) ==
    sorted[Larger(Smaller((p * Len(sorted)) \div 100, Len(sorted)), 1)]

\* percentile: the nearest rank, rounded up.
Percentile(sorted, p) ==
    sorted[Smaller((p * Len(sorted) + 99) \div 100, Len(sorted))]

\* Mutant: the width of a bar is not rounded up.
WidthDown(s) == Larger((s[Len(s)] - s[1]) \div Buckets, 1)

\* build_histogram: the range of a bar, and how many samples fall into each.
Width(s) == (s[Len(s)] - s[1]) \div Buckets + 1

Bar(s, n) == Smaller((n - s[1]) \div Width(s), Buckets - 1)

Histogram(s) ==
    IF s[1] = s[Len(s)] THEN <<>>
    ELSE [b \in 1 .. Buckets |-> Cardinality({k \in DOMAIN s : Bar(s, s[k]) = b - 1})]

Report(s) == [p50 |-> Percentile(s, 50), p95 |-> Percentile(s, 95), p99 |-> Percentile(s, 99),
              histogram |-> IF Len(s) >= 2 THEN Histogram(s) ELSE <<>>]

-----------------------------------------------------------------------------
Nothing == [kind |-> "none", value |-> 0]

Init == received = Nothing /\ shown = Nothing /\ samples = <<>>

\* Whole parts have no zeros in front.
Wholes == {s \in BoundedSeq(DigitsUsed, MaxInt) : s = <<>> \/ s[1] # 0}
Fractions == BoundedSeq(DigitsUsed, MaxFrac)

ReceiveNumeric ==
    \E int \in Wholes, frac \in Fractions, negative \in BOOLEAN :
      /\ received' = [kind |-> "numeric",
                      value |-> [negative |-> negative, int |-> int, frac |-> frac]]
      /\ shown' = [kind |-> "numeric", value |-> DecodeNumeric(Encode(negative, int, frac))]
      /\ UNCHANGED samples

ReceiveInterval ==
    \E micros \in Micros, days \in Days, months \in Months :
      /\ received' = [kind |-> "interval",
                      value |-> [micros |-> micros, days |-> days, months |-> months]]
      /\ shown' = [kind |-> "interval", value |-> DecodeInterval(received'.value)]
      /\ UNCHANGED samples

\* A statement ends: the time it took is printed.
QueryEnds ==
    \E ms \in Durations :
      /\ received' = [kind |-> "duration", value |-> ms]
      /\ shown' = [kind |-> "duration", value |-> FormatDuration(ms)]
      /\ UNCHANGED samples

\* \bench: one more run, then the report.
Record ==
    /\ received.kind \in {"none", "run"}
    /\ Len(samples) < MaxRuns
    /\ \E ns \in Samples : /\ samples' = Append(samples, ns)
                           /\ received' = [kind |-> "run", value |-> 0]
    /\ shown' = Nothing

\* Mutant: a copy of the samples is sorted.
FinishOnCopy ==
    /\ received.kind = "run"
    /\ received' = [kind |-> "bench", value |-> 0]
    /\ UNCHANGED samples
    /\ shown' = [kind |-> "bench", value |-> Report(Sorted(samples))]

Finish ==
    /\ received.kind = "run"
    /\ received' = [kind |-> "bench", value |-> 0]
    /\ samples' = Sorted(samples)
    /\ shown' = [kind |-> "bench", value |-> Report(samples')]

Next == \/ received.kind = "none" /\ (ReceiveNumeric \/ ReceiveInterval \/ QueryEnds)
        \/ Record
        \/ Finish

Spec == Init /\ [][Next]_vars

-----------------------------------------------------------------------------
TypeOK ==
    /\ received.kind \in {"none", "numeric", "interval", "duration", "run", "bench"}
    /\ received.kind # "run" => shown.kind = received.kind
    /\ Len(samples) <= MaxRuns
    /\ ToSet(samples) \subseteq Samples
    /\ received.kind = "bench" => \A i, j \in DOMAIN samples : i < j => samples[i] <= samples[j]

(***************************************************************************)
(* A NUMERIC is shown with all its digits and only its digits, the zeros   *)
(* that are not sent included: in front of the point, behind it, and       *)
(* between the two. (types.rs:346-433)                                     *)
(***************************************************************************)
NumericReadsBack ==
    received.kind = "numeric" =>
      LET v == received.value
      IN  /\ shown.value.int = IF v.int = <<>> THEN <<0>> ELSE v.int
          /\ shown.value.frac = v.frac
          /\ shown.value.sign = "-" => v.negative
          /\ v.negative /\ Stripped(v.int \o v.frac) # <<>> => shown.value.sign = "-"

(***************************************************************************)
(* The fields of an INTERVAL add up to the interval. The only thing lost   *)
(* is the sign of the fraction of a second, so a negative time with a      *)
(* fraction is shown wrong, and every other one right; no field runs over  *)
(* into the next. (types.rs:266-318)                                       *)
(***************************************************************************)
IntervalAddsUp ==
    received.kind = "interval" =>
      LET v == received.value
          s == shown.value
          seconds == (s.hours * 60 + s.minutes) * 60 + s.seconds
          sum == seconds * MicrosPerSecond + s.micros
      IN  /\ s.years * 12 + s.months = v.months
          /\ s.days = v.days
          /\ sum = v.micros <=> v.micros >= 0 \/ s.micros = 0
          /\ Magnitude(s.months) < 12 /\ Magnitude(s.minutes) < 60 /\ Magnitude(s.seconds) < 60
          /\ s.micros \in 0 .. MicrosPerSecond - 1

(***************************************************************************)
(* The time printed is the time measured, in the largest unit that fits:   *)
(* 1000 ms, 60 s and 1 min are not shown in the smaller one.               *)
(* (formats.rs:141-155)                                                    *)
(***************************************************************************)
DurationReadsBack ==
    received.kind = "duration" =>
      LET s == shown.value
      IN  /\ (s.minutes * 60 + s.secs) * 1000 + s.ms = received.value
          /\ s.secs < 60 /\ s.ms < 1000
          /\ s.unit = "m" <=> received.value >= 60000

(***************************************************************************)
(* A percentile is a sample, at least p of 100 samples are not above it,   *)
(* and no smaller sample has that property; so it grows with p.            *)
(* (stats.rs:132-139)                                                      *)
(***************************************************************************)
PercentileIsNearestRank ==
    received.kind = "bench" =>
      LET n == Len(samples)
          below(x) == Cardinality({k \in DOMAIN samples : samples[k] <= x})
          nearest(x, p) == /\ x \in ToSet(samples)
                           /\ below(x) * 100 >= p * n
                           /\ \A y \in ToSet(samples) : y < x => below(y) * 100 < p * n
      IN  /\ nearest(shown.value.p50, 50)
          /\ nearest(shown.value.p95, 95)
          /\ nearest(shown.value.p99, 99)

(***************************************************************************)
(* The histogram counts every sample once, in the bar whose range holds    *)
(* it: the bars cover the whole range, and the last one is not a heap for  *)
(* what the others left over. (stats.rs:102-129)                           *)
(***************************************************************************)
HistogramIsComplete ==
    received.kind = "bench" /\ shown.value.histogram # <<>> =>
      /\ FoldLeft(LAMBDA a, b : a + b, 0, shown.value.histogram) = Len(samples)
      /\ \A k \in DOMAIN samples :
           LET b  == Bar(samples, samples[k])
               lo == samples[1] + b * Width(samples)
           IN  samples[k] \in lo .. lo + Width(samples) - 1
=============================================================================
