------------------------------- MODULE Charts -------------------------------
(***************************************************************************)
(* What the site (site/charts.py, site/generate.py) and the README plots   *)
(* (scripts/make_readme_plots.py) draw of a summary: which groups each     *)
(* chart, finding and plot selects.  A summary is given by the records it  *)
(* was made from.  A curve is a function from sizes, a bar chart one from  *)
(* arms; both to the statistics of the group drawn.                        *)
(*                                                                         *)
(* Axes, styles and text are left out.  Memory and phase medians are drawn *)
(* from the same groups.  They are taken to be present exactly where a     *)
(* median is: phase medians need phases in every ok record of a group,     *)
(* which all measurement programs of the repository emit.                  *)
(***************************************************************************)
EXTENDS Summarize

CONSTANTS NnzSizes   \* _nnz_map: the sizes of the standard and quick ladders, per workload

\* Fault: the variants of a point are not filtered out.
CanonicalLookupAnyVariant(records, w, s, i) ==
    {g \in Groups(records) : g[1] = w /\ g[2] = s /\ g[3] = i}

\* _canonical_lookup: the group of a point, if there is one
CanonicalLookup(records, w, s, i) == {<<w, s, i, "canonical">>} \cap Groups(records)

\* Stats of the group a chart selects; none when it has no median
Drawn(records, selected) ==
    {GroupStats(records, g) : g \in {g \in selected : GroupStatus(records, g) = "ok"}}
PointOf(records, w, s, i) == Drawn(records, CanonicalLookup(records, w, s, i))

\* every size of a workload, of its variants too
SizesOf(records, w) == {g[2] : g \in {g \in Groups(records) : g[1] = w}}

\* time_vs_size: per arm, the sizes that have a median; arms without one are left out
TimeVsSize(records, w, impls) ==
    LET sizes(i) == {s \in SizesOf(records, w) : PointOf(records, w, s, i) # {}}
    IN  [i \in {i \in impls : sizes(i) # {}} |->
            [s \in sizes(i) |-> CHOOSE p \in PointOf(records, w, s, i) : TRUE]]

\* time_vs_nnz raises KeyError at a size that _nnz_map does not know
NnzKnown(records, w, impls) ==
    \A i \in DOMAIN TimeVsSize(records, w, impls) :
        DOMAIN TimeVsSize(records, w, impls)[i] \subseteq NnzSizes[w]

\* headline_bars and, with other columns, phase_breakdown_chart
HeadlineBars(records, w, s, impls) ==
    [i \in {i \in impls : PointOf(records, w, s, i) # {}} |->
        CHOOSE p \in PointOf(records, w, s, i) : TRUE]

\* variant_chart: per variant, the arms that have a median
VariantChart(records, w, s, impls) ==
    [v \in {"canonical", "shuffled", "duplicated"} |->
        [i \in {i \in impls : Drawn(records, {<<w, s, i, v>>} \cap Groups(records)) # {}} |->
            CHOOSE p \in Drawn(records, {<<w, s, i, v>>} \cap Groups(records)) : TRUE]]

\* _has_points, which counts the variants in
HasPoints(records, i) == \E g \in Groups(records) : g[3] = i /\ GroupStatus(records, g) = "ok"

\* _largest_paired_subset: the largest size at which at least `minimum` of the
\* arms have a median, with their medians; nothing if there is no such size
LargestPairedSubset(records, w, impls, minimum) ==
    LET at(s) == {i \in impls : <<w, s, i, "canonical">> \in Measured(records)}
        sizes == {s \in SizesOf(records, w) : Cardinality(at(s)) >= minimum}
    IN  {[size |-> s, medians |-> [i \in at(s) |-> MedianAt(records, w, s, i)]] :
            s \in {s \in sizes : \A r \in sizes : r <= s}}

\* _largest_paired: of all the arms
LargestPaired(records, w, impls) == LargestPairedSubset(records, w, impls, Cardinality(impls))

\* make_readme_plots.groups: the arms of a point whose group is ok
ReadmeGroups(records, w, s) ==
    [i \in {g[3] : g \in {g \in Groups(records) : /\ g[1] = w /\ g[2] = s /\ g[4] = "canonical"
                                                  /\ GroupStatus(records, g) = "ok"}} |->
        GroupStats(records, <<w, s, i, "canonical">>)]

\* line_chart's series: a value per size on the axis, and a polyline through
\* those that are there
ReadmeSeries(records, w, i) ==
    [s \in {s \in SizesOf(records, w) : i \in DOMAIN ReadmeGroups(records, w, s)} |->
        ReadmeGroups(records, w, s)[i].median]
=============================================================================
