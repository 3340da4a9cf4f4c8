--------------------------- MODULE MCRunValidation ---------------------------
(***************************************************************************)
(* An instance of RunValidation and Provenance: an original workload and   *)
(* one of the later panels, the reference adapter of each, one external    *)
(* runner, and the bulk core with one whose status only the last loop of   *)
(* the code reads.                                                         *)
(***************************************************************************)
EXTENDS Provenance

TwoAdapters == {"vectorized", "param"}
OneExternal == {"cpp"}
TwoCores    == {"bulk", "bulk_param"}
TwoCases    == {"bess_96", "param_bess"}
BessOnly    == {"bess_96"}
SupportsMap == [i \in {"vectorized", "param", "cpp", "bulk", "bulk_param"} |->
                  IF i \in {"param", "bulk_param"} THEN {"param_bess"} ELSE {"bess_96"}]
References  == [c \in TwoCases |-> IF c = "bess_96" THEN "vectorized" ELSE "param"]
=============================================================================
