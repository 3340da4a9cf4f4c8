---------------------------- MODULE MCRunSummary ----------------------------
(***************************************************************************)
(* Instances of RunSummary: the baseline and one arm compared with it, one *)
(* workload in five replicates, of which every number may succeed, and the *)
(* variants of the arm.  The times come unsorted, with a tie and an        *)
(* outlier.  MCRunSummaryCsv.cfg: one replicate, and children that fail    *)
(* print their record.                                                     *)
(***************************************************************************)
EXTENDS RunSummary

TwoArms      == {"roml", "poi"}
BothVary     == {"poi"}
Kinds        == <<"shuffled", "duplicated">>
TwoOutcomes  == {"ok", "censored"}
Printed      == {"ok", "failed"}
SparseOnly   == [i \in TwoArms |-> {"sparse_rows"}]
SparsePoint  == <<[workload |-> "sparse_rows", size |-> 1]>>
OnePanel     == <<[panel |-> "formulation", numerators |-> {"poi"}, denominator |-> "roml"]>>
RomlAlone    == {"roml"}
SparseSizes  == [w \in {"sparse_rows"} |-> {1, 2}]
UnevenTimes  == <<40, 12, 11, 12, 15>>
=============================================================================
