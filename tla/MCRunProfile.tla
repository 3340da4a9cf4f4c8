---------------------------- MODULE MCRunProfile ----------------------------
(***************************************************************************)
(* Instances of RunProfile.  MCRunProfile.cfg: a pilot-capped profile with *)
(* two sizes of one workload, another workload in between that both arms   *)
(* measure, and the variants of one arm.  MCRunProfileScoped.cfg: one arm  *)
(* with its variants at two sizes.                                         *)
(***************************************************************************)
EXTENDS RunProfile

TwoArms      == {"roml", "poi"}
RomlOnly     == {"roml"}
Kinds        == <<"shuffled", "duplicated">>
AllOutcomes  == {"ok", "slow", "failed", "censored"}
FastOutcomes == {"ok", "failed", "censored"}

BothOnBess == [i \in TwoArms |-> IF i = "roml" THEN {"sparse_rows", "bess_96"} ELSE {"bess_96"}]
RomlSparse == [i \in RomlOnly |-> {"sparse_rows"}]

Point(w, s)  == [workload |-> w, size |-> s]
ThreePoints  == <<Point("sparse_rows", 1), Point("bess_96", 1), Point("sparse_rows", 2)>>
SparsePoint  == <<Point("sparse_rows", 1)>>
SparsePoints == <<Point("sparse_rows", 1), Point("sparse_rows", 2)>>
=============================================================================
