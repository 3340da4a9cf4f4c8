----------------------------- MODULE MCRunBatch -----------------------------
(***************************************************************************)
(* An instance of RunBatch: two CPUs, up to three jobs and four tasks, so  *)
(* that tasks outnumber workers, jobs outnumber CPUs (and are refused),    *)
(* one worker too many would empty the pool, and a second call meets the   *)
(* pool the first one left.                                                *)
(***************************************************************************)
EXTENDS RunBatch

NoCpuValue == -1
TwoCpus    == {0, 5}
=============================================================================
