----------------------------- MODULE MCRunChild -----------------------------
(***************************************************************************)
(* An instance of RunChild: three polling rounds before the deadline, a    *)
(* drain of two ticks, and a child that can write more than the pipe holds.*)
(***************************************************************************)
EXTENDS RunChild
=============================================================================
