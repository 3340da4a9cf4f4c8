--------------------------- MODULE ReplicateBatch ---------------------------
(***************************************************************************)
(* What run_batch promises its callers (its docstring and the replicate    *)
(* loops of run_profile and _run_variants), with no threads, queue, lock   *)
(* or futures: tasks run at most `jobs` at a time, each holding a CPU no   *)
(* other running task holds; the call returns when every task has a        *)
(* record, and raises only when every task has ended.  In which order      *)
(* workers that took their tasks get their CPUs is left open here; the     *)
(* order in which tasks are taken is RunBatch's BeginInScheduledOrder.     *)
(***************************************************************************)
EXTENDS Integers, FiniteSets

CONSTANTS Cpus, NoCpu, MaxJobs, MaxTasks

VARIABLES stage,    \* "idle", "open", "returned", "raised" or "refused"
          limit,    \* the jobs argument of the open call
          size,     \* the number of tasks of the open call
          running,  \* the tasks running, each with its lease
          ended     \* the tasks that ended, each with "record" or "error"

vars == <<stage, limit, size, running, ended>>

Empty == [p \in {} |-> NoCpu]
Closed == stage # "open"
Leased == {running[p] : p \in DOMAIN running}
Started == DOMAIN running \union DOMAIN ended

Init == /\ stage = "idle"
        /\ limit = 0
        /\ size = 0
        /\ running = Empty
        /\ ended = Empty

Open(j, n) ==
    /\ Closed
    /\ j >= 1
    /\ Cpus # {} => j <= Cardinality(Cpus)
    /\ stage' = "open"
    /\ limit' = j
    /\ size' = n
    /\ running' = Empty
    /\ ended' = Empty

Refuse(j, n) ==
    /\ Closed
    /\ j < 1 \/ (Cpus # {} /\ j > Cardinality(Cpus))
    /\ stage' = "refused"
    /\ limit' = j
    /\ size' = n
    /\ running' = Empty
    /\ ended' = Empty

Start(p, c) ==
    /\ stage = "open"
    /\ p <= size
    /\ p \notin Started
    /\ Cardinality(DOMAIN running) < limit
    /\ IF Cpus = {} THEN c = NoCpu ELSE c \in Cpus \ Leased
    /\ running' = [q \in DOMAIN running \union {p} |-> IF q = p THEN c ELSE running[q]]
    /\ UNCHANGED <<stage, limit, size, ended>>

End(p, v) ==
    /\ stage = "open"
    /\ p \in DOMAIN running
    /\ running' = [q \in DOMAIN running \ {p} |-> running[q]]
    /\ ended' = [q \in DOMAIN ended \union {p} |-> IF q = p THEN v ELSE ended[q]]
    /\ UNCHANGED <<stage, limit, size>>

Close ==
    /\ stage = "open"
    /\ DOMAIN ended = 1..size
    /\ stage' = IF \E p \in 1..size : ended[p] = "error" THEN "raised" ELSE "returned"
    /\ UNCHANGED <<limit, size, running, ended>>

Next ==
    \/ \E j \in 0..MaxJobs, n \in 0..MaxTasks : Open(j, n) \/ Refuse(j, n)
    \/ \E p \in 1..MaxTasks :
          \/ \E c \in Cpus \union {NoCpu} : Start(p, c)
          \/ \E v \in {"record", "error"} : End(p, v)
    \/ Close

Spec == Init /\ [][Next]_vars
=============================================================================
