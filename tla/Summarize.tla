----------------------------- MODULE Summarize -----------------------------
(***************************************************************************)
(* summarize.summarize_run and the rows of write_summary's summary.csv:    *)
(* the groups and the paired speedups derived from the records of          *)
(* raw.jsonl.  A record is one of module RunProfile's; its status "slow"   *)
(* is an "ok" one, "failed" and "censored" stand for every other status.   *)
(* Time(r) is its populate_ns.  The statistics of a group are those of     *)
(* module SummaryStats.                                                    *)
(***************************************************************************)
EXTENDS SummaryStats, SequencesExt

CONSTANTS Panels,        \* a sequence of [panel, numerators, denominator]: who is compared with whom
          CsvBaselines,  \* the arms to which summary.csv gives the speedup 1
          PopulateTime   \* the populate_ns of each replicate, as far as they differ

Ok(r) == r.status \in {"ok", "slow"}
Time(r) == PopulateTime[r.replicate + 1]

GroupKey(r) == <<r.workload, r.size, r.impl, r.variant>>
Groups(records) == {GroupKey(r) : r \in ToSet(records)}

\* a group's ok records, by their places among all
OkRecords(records, g) == {n \in 1..Len(records) : GroupKey(records[n]) = g /\ Ok(records[n])}

\* a group with an ok record is ok, whatever else it holds
GroupStatus(records, g) ==
    IF \E r \in ToSet(records) : GroupKey(r) = g /\ Ok(r) THEN "ok" ELSE "not ok"

Times(records, ns)   == [n \in ns |-> Time(records[n])]
GroupStats(records, g) == StatsMs(Times(records, OkRecords(records, g)))

\* the points with a median: the canonical groups that have an ok record
Measured(records) == {g \in Groups(records) : g[4] = "canonical" /\ GroupStatus(records, g) = "ok"}

MedianAt(records, w, s, i) == GroupStats(records, <<w, s, i, "canonical">>).median

\* one speedup per panel whose numerator and baseline both have a median
Speedups(records) ==
    LET base(n, g) == <<g[1], g[2], Panels[n].denominator, "canonical">>
        measured == Measured(records)
        paired == {c \in (DOMAIN Panels) \X measured :
                      /\ c[2][3] \in Panels[c[1]].numerators
                      /\ base(c[1], c[2]) \in measured}
    IN  {[panel |-> c[1], workload |-> c[2][1], size |-> c[2][2], numerator |-> c[2][3],
          denominator |-> Panels[c[1]].denominator,
          above |-> MedianAt(records, c[2][1], c[2][2], c[2][3]),
          below |-> MedianAt(records, c[2][1], c[2][2], Panels[c[1]].denominator)] : c \in paired}

Blank == [above |-> 0, below |-> 0]   \* an empty field

\* speedup_lookup: by workload, size and numerator; of several panels the last
SpeedupLookup(records, w, s, i) ==
    LET found == {x \in Speedups(records) : x.workload = w /\ x.size = s /\ x.numerator = i}
        last  == CHOOSE x \in found : \A y \in found : y.panel <= x.panel
    IN  IF found = {} THEN Blank ELSE [above |-> last.above, below |-> last.below]

\* the speedup_vs_baseline of each group's row
CsvSpeedups(records) ==
    [g \in Groups(records) |->
        IF g[3] \in CsvBaselines
          THEN IF GroupStatus(records, g) = "ok" THEN [above |-> 1, below |-> 1] ELSE Blank
          ELSE SpeedupLookup(records, g[1], g[2], g[3])]
=============================================================================
