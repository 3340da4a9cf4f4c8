----------------------------- MODULE RunSummary -----------------------------
(***************************************************************************)
(* `roml-bench summarize` of a run directory at any moment of the run that *)
(* fills it, and what is drawn of the summary: modules Summarize and       *)
(* Charts over the raw.jsonl of module RunProfile.                         *)
(***************************************************************************)
EXTENDS RunProfile

CONSTANTS Panels,        \* a sequence of [panel, numerators, denominator]: who is compared with whom
          CsvBaselines,  \* the arms to which summary.csv gives the speedup 1
          PopulateTime,  \* the populate_ns of each replicate, as far as they differ
          NnzSizes       \* the sizes of the standard and quick ladders, per workload

\* every replicate has a time, and no build takes none
ASSUME SummaryAssumption == PopulateTime \in Seq(Nat \ {0}) /\ Replicates <= Len(PopulateTime)

Summary == INSTANCE Charts

\* the files the command reads: with run.json torn it fails
Readable == ~ torn

Ratios == IF Readable THEN Summary!Speedups(raw) ELSE {}

RanAt(i, w, s) == {n \in 1..Len(raw) : /\ raw[n].impl = i /\ raw[n].workload = w
                                       /\ raw[n].size = s /\ raw[n].asked = "canonical"}

-----------------------------------------------------------------------------
\* The records of a point are all its replicates, and each of them succeeded.
Complete(all) ==
    /\ \A n \in all : ~ Failed(raw[n])
    /\ {raw[n].replicate : n \in all} = 0..(Replicates - 1)

\* Nothing of an arm and workload, its variants included, comes after some records.
LastOfArm(i, w, all) ==
    ~ \E m \in 1..Len(raw) : raw[m].impl = i /\ raw[m].workload = w /\ \A n \in all : n < m

\* "Speedups are emitted only for paired points completed by both
\* implementations; never extrapolated" (summarize.py).  The code does not ask
\* for "completed": one successful replicate is enough, whatever became of the
\* others, so a partly failed point has a speedup, of its survivors.  What does
\* hold: both sides of a ratio are medians of successful canonical runs of that
\* very point, none of them left out; and where a side is not completed, its arm
\* had come to its end there, so that no ratio of a larger size, nor any variant,
\* follows one that rests on survivors.
RatiosAreNeverExtrapolated ==
    \A s \in Ratios :
        \A side \in {<<s.numerator, s.above>>, <<s.denominator, s.below>>} :
            LET all == RanAt(side[1], s.workload, s.size)
                ran == {n \in all : ~ Failed(raw[n])}
                time(n) == Summary!Scale * Summary!Time(raw[n])
            IN  /\ ran # {}
                /\ 2 * Cardinality({n \in ran : time(n) < side[2]}) <= Cardinality(ran)
                /\ 2 * Cardinality({n \in ran : time(n) > side[2]}) <= Cardinality(ran)
                /\ Complete(all) \/ LastOfArm(side[1], s.workload, all)

Count(n, Test(_)) == Cardinality({k \in n : Test(k)})

\* What a published group claims: the five numbers are in order, at most half
\* of its ok runs lie on either side of the median and at most a quarter beyond
\* each quartile; half of them lie within one MAD of the median and half at
\* that distance or further.  However few succeeded and whatever their order.
StatisticsBracket ==
    Readable =>
        \A g \in Summary!Groups(raw) :
            LET oks     == {n \in 1..Len(raw) : Summary!GroupKey(raw[n]) = g /\ Summary!Ok(raw[n])}
                all     == Cardinality(oks)
                s       == Summary!GroupStats(raw, g)
                time(n) == Summary!Scale * Summary!Time(raw[n])
                away(n) == Summary!Distance(time(n), s.median)
            IN  oks # {} =>
                    /\ s.min <= s.p25 /\ s.p25 <= s.median /\ s.median <= s.p75 /\ s.p75 <= s.max
                    /\ 2 * Count(oks, LAMBDA n : time(n) < s.median) <= all
                    /\ 2 * Count(oks, LAMBDA n : time(n) > s.median) <= all
                    /\ 4 * Count(oks, LAMBDA n : time(n) < s.p25) <= all
                    /\ 4 * Count(oks, LAMBDA n : time(n) > s.p75) <= all
                    /\ 2 * Count(oks, LAMBDA n : away(n) <= s.mad) >= all
                    /\ 2 * Count(oks, LAMBDA n : away(n) >= s.mad) >= all

\* Every chart, finding and plot picks its groups anew, eight times over.  They
\* tell one story: of every point, either all of them show the statistics of
\* its successful canonical runs or none shows anything, and a variant's bar is
\* that of the variant.
ChartsAgree ==
    Readable =>
        \A g \in Summary!Groups(raw) :
            LET w == g[1]  s == g[2]  i == g[3]
                oks    == {n \in 1..Len(raw) : /\ raw[n].workload = w /\ raw[n].size = s
                                               /\ raw[n].impl = i /\ raw[n].asked = g[4]
                                               /\ ~ Failed(raw[n])}
                stats  == {Summary!StatsMs(Summary!Times(raw, oks))}
                curve  == Summary!TimeVsSize(raw, w, {i})
                bars   == Summary!HeadlineBars(raw, w, s, {i})
                tick   == Summary!VariantChart(raw, w, s, {i})[g[4]]
                readme == Summary!ReadmeGroups(raw, w, s)
                line   == Summary!ReadmeSeries(raw, w, i)
                found  == Summary!LargestPairedSubset(raw, w, {i}, 1)
                canonical == g[4] = "canonical"
                shown     == canonical /\ oks # {}
            IN  /\ oks # {} => tick = [j \in {i} |-> CHOOSE x \in stats : TRUE] /\ Summary!HasPoints(raw, i)
                /\ oks = {} => DOMAIN tick = {}
                /\ canonical =>
                      /\ shown <=> i \in DOMAIN curve /\ s \in DOMAIN curve[i]
                      /\ shown <=> i \in DOMAIN bars
                      /\ shown <=> i \in DOMAIN readme
                      /\ shown <=> s \in DOMAIN line
                      /\ shown => \E f \in found : f.size >= s
                /\ shown =>
                      /\ {curve[i][s], bars[i], readme[i]} = stats
                      /\ \A x \in stats : line[s] = x.median
                      /\ \A f \in found, x \in stats : f.size = s => f.medians[i] = x.median

\* "Do not calculate or display a speedup for a censored or missing point"
\* (contract, section 10): a row of summary.csv with a speedup has a median.
CsvSpeedupsAreOfTheirPoint ==
    Readable =>
        \A g \in Summary!Groups(raw) :
            Summary!CsvSpeedups(raw)[g] # Summary!Blank => Summary!GroupStatus(raw, g) = "ok"
=============================================================================
