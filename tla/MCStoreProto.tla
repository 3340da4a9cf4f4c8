---------------------------- MODULE MCStoreProto ----------------------------
(***************************************************************************)
(* An instance of StoreProto.  The drivers: three variables, of which one  *)
(* is removed and two are updated, and three lookups, in every choice.     *)
(* Free kernels: two interchangeable targets over two variables; for A one *)
(* parameter, values a sum can reach in two ways and as many slots as      *)
(* cells, so that a block meets cells that exist and a cell comes back     *)
(* after its removal; for B a constant and a parametric expression (an     *)
(* update shows in the value and in the parameter lists, and can be        *)
(* undone) and identities enough for a block, an overlay cell and a cell   *)
(* added again; for C one target over the three variables.                 *)
(***************************************************************************)
EXTENDS StoreProto, TLC

SameTargets == Permutations(Targets)
TwoExprs    == {[value |-> 1, deps |-> {}], [value |-> 2, deps |-> {"p"}]}
=============================================================================
