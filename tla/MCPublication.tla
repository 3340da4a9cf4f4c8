---------------------------- MODULE MCPublication ----------------------------
(***************************************************************************)
(* An instance of Publication: two arms that climb two sizes of one        *)
(* workload in two replicates, so that a point may have one replicate that *)
(* succeeds and one that does not.  The second size is in no standard or   *)
(* quick ladder, as sizes of the scale profile are, and one of the arms is *)
(* on the charts that need one.                                            *)
(***************************************************************************)
EXTENDS Publication

TwoArms     == {"roml", "poi"}
Nobody      == {}
Kinds       == <<"shuffled", "duplicated">>
TwoOutcomes == {"ok", "censored"}
BothOnBess  == [i \in TwoArms |-> {"bess_96"}]
Point(w, s) == [workload |-> w, size |-> s]
ScaleLadder == <<Point("bess_96", 300), Point("bess_96", 1000)>>
NoPoints    == <<>>
OnePanel    == <<[panel |-> "formulation", numerators |-> {"poi"}, denominator |-> "roml"]>>
RomlAlone   == {"roml"}
Standard    == [w \in {"bess_96"} |-> {100, 300}]
TwoTimes    == <<3, 2>>
=============================================================================
