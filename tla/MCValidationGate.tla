-------------------------- MODULE MCValidationGate --------------------------
(***************************************************************************)
(* An instance of ValidationGate: the commit of the benchmark and the ROML *)
(* artifacts, which the fingerprint identifies, and what it does not, such *)
(* as the C++ and Julia measurement programs, in two versions each, the    *)
(* second of which fails validation.                                       *)
(***************************************************************************)
EXTENDS ValidationGate

Two       == {1, 2}
Pinned    == {"commit", "roml"}
AllParts  == {"commit", "roml", "unpinned"}
SecondBad == {<<p, 2>> : p \in Parts}
=============================================================================
