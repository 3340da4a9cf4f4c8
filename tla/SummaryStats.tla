---------------------------- MODULE SummaryStats ----------------------------
(***************************************************************************)
(* summarize._stats_ms: median, quartiles, extremes and MAD of the times   *)
(* of one group's ok records.  The values are given as a function from the *)
(* records' places in raw.jsonl, whose order the sorting undoes.           *)
(* statistics.median and statistics.quantiles are the Python library's,    *)
(* modelled by what they compute.  Results are fractions with a small      *)
(* denominator, so they are given multiplied by Scale.                     *)
(***************************************************************************)
EXTENDS Integers, Sequences, FiniteSets

Scale == 8

\* sorted: the n-th value is the one that fewer than n are below and no fewer
\* than n are at or below
Ordered(values) ==
    [n \in 1..Cardinality(DOMAIN values) |->
        CHOOSE v \in {values[k] : k \in DOMAIN values} :
            /\ Cardinality({k \in DOMAIN values : values[k] < v}) < n
            /\ Cardinality({k \in DOMAIN values : values[k] <= v}) >= n]

\* statistics.median of ordered values: the middle one, or the mean of two
Median(ordered) ==
    LET n == Len(ordered)
    IN  IF n % 2 = 1 THEN Scale * ordered[n \div 2 + 1]
        ELSE (Scale \div 2) * (ordered[n \div 2] + ordered[n \div 2 + 1])

Distance(a, b) == IF a < b THEN b - a ELSE a - b

\* Fault: positions are computed from n instead of n + 1.
QuantileShort(ordered, i) ==
    LET n == Len(ordered)
        j == LET at == (i * n) \div 4
             IN  IF at < 1 THEN 1 ELSE IF at > n - 1 THEN n - 1 ELSE at
        delta == i * n - 4 * j
    IN  (Scale \div 4) * (ordered[j] * (4 - delta) + ordered[j + 1] * delta)

\* statistics.quantiles(ordered, n = 4), method "exclusive": the i-th of three
Quantile(ordered, i) ==
    LET n == Len(ordered)
        j == LET at == (i * (n + 1)) \div 4
             IN  IF at < 1 THEN 1 ELSE IF at > n - 1 THEN n - 1 ELSE at
        delta == i * (n + 1) - 4 * j
    IN  (Scale \div 4) * (ordered[j] * (4 - delta) + ordered[j + 1] * delta)

\* the median absolute deviation: the values are scaled already
Deviation(values, median) ==
    Median(Ordered([k \in DOMAIN values |-> Distance(Scale * values[k], median)])) \div Scale

\* with fewer than four values the quartiles are the extremes
StatsMs(values) ==
    LET ordered == Ordered(values)
        n == Len(ordered)
    IN  [median |-> Median(ordered),
         p25 |-> IF n >= 4 THEN Quantile(ordered, 1) ELSE Scale * ordered[1],
         p75 |-> IF n >= 4 THEN Quantile(ordered, 3) ELSE Scale * ordered[n],
         min |-> Scale * ordered[1],
         max |-> Scale * ordered[n],
         mad |-> Deviation(values, Median(ordered))]
=============================================================================
