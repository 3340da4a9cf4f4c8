------------------------------ MODULE RunBatch ------------------------------
(***************************************************************************)
(* One call after another of orchestrator.run_batch over a shared CpuPool: *)
(* the pool of exclusive single-CPU leases, the executor's worker threads  *)
(* and the caller's thread, which submits the batch, collects the futures  *)
(* in completion order and returns (or raises) once every task has ended.  *)
(*                                                                         *)
(* A batch is the set of positions 1..size in scheduled order; run_one is  *)
(* external and either returns that position's record or raises.  The      *)
(* free list is kept sorted and free of duplicates by the code             *)
(* (allowed_cpus sorts it, release appends and re-sorts, refuses a second  *)
(* release), so the model keeps it as a set and pops its least element.    *)
(***************************************************************************)
EXTENDS Integers, FiniteSets, Sequences

CONSTANTS Cpus,        \* the allowed affinity set; {} when it cannot be queried
          NoCpu,       \* Python's None: the lease of a pool with unknown affinity
          MaxJobs,     \* bound on the jobs argument
          MaxTasks,    \* bound on the length of a batch
          MaxBatches   \* bound on the calls of run_batch on this pool

ASSUME CpusAssumption    == /\ Cpus \subseteq Nat
                            /\ IsFiniteSet(Cpus)
                            /\ NoCpu \notin Nat
ASSUME BoundsAssumption  == /\ MaxJobs \in Nat
                            /\ MaxTasks \in Nat
                            /\ MaxBatches \in Nat

Threads   == 1..MaxJobs
Positions == 1..MaxTasks
NoTask    == 0

VARIABLES
    free,      \* CpuPool._free
    batches,   \* calls made so far
    jobs,      \* the jobs argument of the current call
    size,      \* len(tasks) of the current call
    caller,    \* where the caller's thread is
    submitted, \* positions handed to the executor so far
    queue,     \* the executor's FIFO work queue
    phase,     \* where each worker thread is in supervise
    task,      \* the position a worker is supervising
    lease,     \* the value acquire() returned to it
    verdict,   \* how the task it supervises ended
    future,    \* the state of each position's future
    results,   \* the results dict: positions collected with a record
    errors,    \* the errors list, in collection order
    answer     \* what the call returned, or the position whose error it raised

vars == <<free, batches, jobs, size, caller, submitted, queue, phase, task,
          lease, verdict, future, results, errors, answer>>

-----------------------------------------------------------------------------
(***************************************************************************)
(* The pool.                                                               *)
(***************************************************************************)

\* CpuPool.capacity() is None iff the affinity set is unknown
Known       == Cpus # {}
HasCapacityFor(j) == Known => j <= Cardinality(Cpus)

\* what acquire() may hand out: the head of the sorted free list, or None
Grantable == IF Known THEN {c \in free : \A d \in free : c <= d} ELSE {NoCpu}

-----------------------------------------------------------------------------
Init ==
    /\ free = Cpus
    /\ batches = 0
    /\ jobs = 0
    /\ size = 0
    /\ caller = "idle"
    /\ submitted = 0
    /\ queue = <<>>
    /\ phase   = [t \in Threads |-> "idle"]
    /\ task    = [t \in Threads |-> NoTask]
    /\ lease   = [t \in Threads |-> NoCpu]
    /\ verdict = [t \in Threads |-> "none"]
    /\ future  = [p \in Positions |-> "none"]
    /\ results = {}
    /\ errors  = <<>>
    /\ answer  = <<>>

BetweenCalls == caller \in {"idle", "returned", "raised", "refused"}

\* Fault: the executor gets a worker per task, whatever jobs says.
PoolWidthUnlimited(j, n) == IF n = 0 THEN 1 ELSE n

\* ThreadPoolExecutor(max_workers = max(1, min(jobs, len(tasks) or 1)))
PoolWidth(j, n) == IF n = 0 THEN 1 ELSE IF j < n THEN j ELSE n

\* Fault: the argument check forgets the pool's capacity.
AcceptableAnyJobs(j) == j >= 1

\* run_batch's argument checks: jobs < 1, or more jobs than the pool has CPUs
Acceptable(j) == j >= 1 /\ HasCapacityFor(j)

\* A call whose jobs argument is refused with a ValueError; nothing ran.
Refuse(j, n) ==
    /\ BetweenCalls
    /\ batches < MaxBatches
    /\ ~ Acceptable(j)
    /\ batches' = batches + 1
    /\ jobs' = j
    /\ size' = n
    /\ caller' = "refused"
    /\ submitted' = 0
    /\ future' = [p \in Positions |-> "none"]
    /\ results' = {}
    /\ errors' = <<>>
    /\ answer' = <<>>
    /\ UNCHANGED <<free, queue, phase, task, lease, verdict>>

\* A call that passes the checks: the executor is created, nothing submitted.
Call(j, n) ==
    /\ BetweenCalls
    /\ batches < MaxBatches
    /\ Acceptable(j)
    /\ batches' = batches + 1
    /\ jobs' = j
    /\ size' = n
    /\ caller' = "submitting"
    /\ submitted' = 0
    /\ future' = [p \in Positions |-> "none"]
    /\ results' = {}
    /\ errors' = <<>>
    /\ answer' = <<>>
    /\ UNCHANGED <<free, queue, phase, task, lease, verdict>>

\* Fault: the positions handed to the executor start from zero.
SubmitFromZero ==
    /\ caller = "submitting"
    /\ submitted < size
    /\ submitted' = submitted + 1
    /\ queue' = Append(queue, submitted)
    /\ future' = [future EXCEPT ![submitted + 1] = "pending"]
    /\ UNCHANGED <<free, batches, jobs, size, caller, phase, task, lease,
                   verdict, results, errors, answer>>

\* executor.submit for the next task, in scheduled order
Submit ==
    /\ caller = "submitting"
    /\ submitted < size
    /\ submitted' = submitted + 1
    /\ queue' = Append(queue, submitted + 1)
    /\ future' = [future EXCEPT ![submitted + 1] = "pending"]
    /\ UNCHANGED <<free, batches, jobs, size, caller, phase, task, lease,
                   verdict, results, errors, answer>>

\* the dict of futures is complete: the caller enters as_completed
AllSubmitted ==
    /\ caller = "submitting"
    /\ submitted = size
    /\ caller' = "collecting"
    /\ UNCHANGED <<free, batches, jobs, size, submitted, queue, phase, task,
                   lease, verdict, future, results, errors, answer>>

\* Fault: the work queue is a stack.
TakeNewest(t) ==
    /\ t <= PoolWidth(jobs, size)
    /\ phase[t] = "idle"
    /\ queue # <<>>
    /\ task' = [task EXCEPT ![t] = queue[Len(queue)]]
    /\ queue' = SubSeq(queue, 1, Len(queue) - 1)
    /\ phase' = [phase EXCEPT ![t] = "acquiring"]
    /\ UNCHANGED <<free, batches, jobs, size, caller, submitted, lease,
                   verdict, future, results, errors, answer>>

\* A worker of the executor takes the oldest queued task and enters supervise.
Take(t) ==
    /\ t <= PoolWidth(jobs, size)
    /\ phase[t] = "idle"
    /\ queue # <<>>
    /\ task' = [task EXCEPT ![t] = Head(queue)]
    /\ queue' = Tail(queue)
    /\ phase' = [phase EXCEPT ![t] = "acquiring"]
    /\ UNCHANGED <<free, batches, jobs, size, caller, submitted, lease,
                   verdict, future, results, errors, answer>>

\* Fault: acquire() returns the head of the free list without removing it, as
\* if two threads were inside it at once.
AcquireShared(t) ==
    /\ phase[t] = "acquiring"
    /\ \E c \in Grantable : lease' = [lease EXCEPT ![t] = c]
    /\ phase' = [phase EXCEPT ![t] = "running"]
    /\ UNCHANGED <<free, batches, jobs, size, caller, submitted, queue, task,
                   verdict, future, results, errors, answer>>

\* pool.acquire() inside the lock.  An empty free list raises RuntimeError
\* before the try block: nothing is released and the future gets the error.
Acquire(t) ==
    /\ phase[t] = "acquiring"
    /\ IF Known /\ free = {}
         THEN /\ verdict' = [verdict EXCEPT ![t] = "exhausted"]
              /\ phase' = [phase EXCEPT ![t] = "resolving"]
              /\ UNCHANGED <<free, lease>>
         ELSE /\ \E c \in Grantable :
                    /\ lease' = [lease EXCEPT ![t] = c]
                    /\ free' = free \ {c}
              /\ phase' = [phase EXCEPT ![t] = "running"]
              /\ UNCHANGED verdict
    /\ UNCHANGED <<batches, jobs, size, caller, submitted, queue, task,
                   future, results, errors, answer>>

\* run_one(payload, cpu) returns a record or raises
RunOne(t) ==
    /\ phase[t] = "running"
    /\ \E v \in {"record", "error"} : verdict' = [verdict EXCEPT ![t] = v]
    /\ phase' = [phase EXCEPT ![t] = "releasing"]
    /\ UNCHANGED <<free, batches, jobs, size, caller, submitted, queue, task,
                   lease, future, results, errors, answer>>

\* Fault: the release is not in a finally block, so an error skips it.
ReleaseOnSuccess(t) ==
    /\ phase[t] = "releasing"
    /\ free' = IF verdict[t] = "record" /\ lease[t] # NoCpu
                 THEN free \union {lease[t]} ELSE free
    /\ lease' = [lease EXCEPT ![t] = NoCpu]
    /\ phase' = [phase EXCEPT ![t] = "resolving"]
    /\ UNCHANGED <<batches, jobs, size, caller, submitted, queue, task, verdict,
                   future, results, errors, answer>>

\* The finally block: pool.release(cpu).  A CPU that is free already raises,
\* and that error replaces the task's outcome; None is a no-op.
Release(t) ==
    /\ phase[t] = "releasing"
    /\ IF lease[t] \in free
         THEN /\ verdict' = [verdict EXCEPT ![t] = "double-release"]
              /\ UNCHANGED free
         ELSE /\ free' = IF lease[t] = NoCpu THEN free ELSE free \union {lease[t]}
              /\ UNCHANGED verdict
    /\ lease' = [lease EXCEPT ![t] = NoCpu]
    /\ phase' = [phase EXCEPT ![t] = "resolving"]
    /\ UNCHANGED <<batches, jobs, size, caller, submitted, queue, task, future,
                   results, errors, answer>>

\* The executor stores supervise's outcome in the future; the worker is idle.
Resolve(t) ==
    /\ phase[t] = "resolving"
    /\ future' = [future EXCEPT ![task[t]] = verdict[t]]
    /\ phase' = [phase EXCEPT ![t] = "idle"]
    /\ task' = [task EXCEPT ![t] = NoTask]
    /\ verdict' = [verdict EXCEPT ![t] = "none"]
    /\ UNCHANGED <<free, batches, jobs, size, caller, submitted, queue, lease,
                   results, errors, answer>>

Collected == results \union {errors[i] : i \in 1..Len(errors)}
Finished(p) == p <= size /\ future[p] \notin {"none", "pending"}

\* Fault: the loop swallows a task's exception.
CollectRecordsOnly(p) ==
    /\ caller = "collecting"
    /\ Finished(p)
    /\ p \notin Collected
    /\ results' = IF future[p] = "record" THEN results \union {p} ELSE results
    /\ UNCHANGED <<free, batches, jobs, size, caller, submitted, queue, phase,
                   task, lease, verdict, future, errors, answer>>

\* One turn of the as_completed loop: a future that is done and not yet seen,
\* in whatever order they complete.
Collect(p) ==
    /\ caller = "collecting"
    /\ Finished(p)
    /\ p \notin Collected
    /\ IF future[p] = "record"
         THEN results' = results \union {p} /\ UNCHANGED errors
         ELSE errors' = Append(errors, p) /\ UNCHANGED results
    /\ UNCHANGED <<free, batches, jobs, size, caller, submitted, queue, phase,
                   task, lease, verdict, future, answer>>

\* Fault: the first error cancels what is queued and is raised at once.
ConcludeAtFirstError ==
    /\ caller = "collecting"
    /\ Collected = 1..size \/ errors # <<>>
    /\ \A t \in Threads : phase[t] = "idle"
    /\ queue' = <<>>
    /\ IF errors # <<>>
         THEN /\ caller' = "raised"
              /\ answer' = <<errors[1]>>
         ELSE /\ caller' = "returned"
              /\ answer' = [i \in 1..size |-> i]
    /\ UNCHANGED <<free, batches, jobs, size, submitted, phase, task, lease,
                   verdict, future, results, errors>>

\* as_completed is exhausted and the executor has joined its threads: re-raise
\* the first error collected, or return the pairs in scheduled order.
Conclude ==
    /\ caller = "collecting"
    /\ Collected = 1..size
    /\ \A t \in Threads : phase[t] = "idle"
    /\ IF errors # <<>>
         THEN /\ caller' = "raised"
              /\ answer' = <<errors[1]>>
         ELSE /\ caller' = "returned"
              /\ answer' = [i \in 1..size |-> i]
    /\ UNCHANGED <<free, batches, jobs, size, submitted, queue, phase, task,
                   lease, verdict, future, results, errors>>

\* every allowed call has been made
Done == BetweenCalls /\ batches = MaxBatches /\ UNCHANGED vars

Worker(t) == Take(t) \/ Acquire(t) \/ RunOne(t) \/ Release(t) \/ Resolve(t)
Caller    == Submit \/ AllSubmitted \/ Conclude \/ \E p \in Positions : Collect(p)

Next ==
    \/ \E j \in 0..MaxJobs, n \in 0..MaxTasks : Refuse(j, n) \/ Call(j, n)
    \/ Caller
    \/ \E t \in Threads : Worker(t)
    \/ Done

Spec == Init /\ [][Next]_vars

(***************************************************************************)
(* Every thread keeps running: the caller's and the executor's threads are *)
(* OS threads.  That run_one ends is an assumption here: run_child does    *)
(* return, unless a descendant of its child holds the pipe for ever        *)
(* (HangsOnlyOnADescendant of RunChild), and then the batch hangs too.     *)
(***************************************************************************)
FairSpec ==
    /\ Spec
    /\ WF_vars(Caller)
    /\ \A t \in Threads : WF_vars(Worker(t))
-----------------------------------------------------------------------------
(***************************************************************************)
(* Safety.                                                                 *)
(***************************************************************************)
Phases   == {"idle", "acquiring", "running", "releasing", "resolving"}
Verdicts == {"none", "record", "error", "exhausted", "double-release"}

\* Every variable has its type: leases are CPUs of the pool or None, workers
\* supervise positions of the batch.
TypeOK ==
    /\ free \subseteq Cpus
    /\ batches \in 0..MaxBatches
    /\ jobs \in 0..MaxJobs
    /\ size \in 0..MaxTasks
    /\ caller \in {"idle", "submitting", "collecting", "returned", "raised", "refused"}
    /\ submitted \in 0..MaxTasks
    /\ queue \in Seq(Positions)
    /\ phase \in [Threads -> Phases]
    /\ task \in [Threads -> Positions \union {NoTask}]
    /\ lease \in [Threads -> Cpus \union {NoCpu}]
    /\ verdict \in [Threads -> Verdicts]
    /\ future \in [Positions -> Verdicts \union {"pending"}]
    /\ results \subseteq Positions
    /\ errors \in Seq(Positions)
    /\ answer \in Seq(Positions)

Holders == {t \in Threads : lease[t] # NoCpu}

\* "every concurrently active child holds a distinct CPU" (CpuPool): two
\* workers never hold the same lease, and no leased CPU is in the free list.
ExclusiveLeases ==
    /\ \A s, t \in Holders : s # t => lease[s] # lease[t]
    /\ \A t \in Holders : lease[t] \notin free

\* acquire's docstring: "a free CPU always exists; a missing one is a
\* programming error", and release never sees a CPU that is already free.
\* Neither RuntimeError of the pool is ever raised, in no interleaving.
PoolNeverMisused ==
    /\ \A t \in Threads : verdict[t] \notin {"exhausted", "double-release"}
    /\ \A p \in Positions : future[p] \notin {"exhausted", "double-release"}

\* A call leaves the pool as it found it, however its tasks ended: the next
\* replicate's batch on the same pool has every CPU again.
PoolRestored == BetweenCalls => free = Cpus

\* "Unexpected task exceptions are collected without cancelling siblings,
\* then the first is reraised": a call that raises has run every task, a call
\* that returns has a record for every position, and never both.
SiblingsSurvive ==
    /\ caller \in {"raised", "returned"} =>
         \A p \in 1..size : future[p] \in {"record", "error"}
    /\ caller = "raised" => future[answer[1]] = "error"
    /\ caller = "returned" => \A p \in 1..size : p \in results /\ answer[p] = p

Begun(p) == future[p] \notin {"none", "pending"} \/ \E t \in Threads : task[t] = p

\* The order of shuffled_order is the order in which tasks are taken up; run
\* serially it is also the order of the children: none starts before every
\* earlier one has ended.
BeginInScheduledOrder ==
    \A p, q \in Positions : p < q /\ q <= size /\ Begun(q) =>
        /\ Begun(p)
        /\ jobs = 1 => future[p] \notin {"none", "pending"}

(***************************************************************************)
(* The inductive invariant behind the safety properties above (proved in   *)
(* RunBatchProofs).                                                        *)
(***************************************************************************)
Open == caller \in {"submitting", "collecting"}

\* Leases are held exactly between acquire and release, no CPU is lost, and a
\* task's outcome is known from run_one's end until its future has it.
LeaseInv ==
    /\ \A t \in Threads : lease[t] # NoCpu => phase[t] \in {"running", "releasing"}
    /\ Known => \A t \in Threads : phase[t] \in {"running", "releasing"} => lease[t] # NoCpu
    /\ \A c \in Cpus : c \in free \/ \E t \in Threads : lease[t] = c
    /\ \A t \in Threads : phase[t] \in {"releasing", "resolving"} <=> verdict[t] # "none"

\* Only the executor's own workers are busy, and only inside a call whose
\* jobs argument passed the checks.
WidthInv ==
    /\ \A t \in Threads : phase[t] # "idle" => Open /\ t <= PoolWidth(jobs, size)
    /\ Open => Acceptable(jobs)

\* The queue holds the last submitted positions in order; no worker and no
\* finished future is among them, and only finished futures are collected.
QueueInv ==
    /\ Len(queue) <= submitted
    /\ submitted <= size
    /\ \A i \in 1..Len(queue) : queue[i] = submitted - Len(queue) + i
    /\ \A t \in Threads : task[t] <= submitted - Len(queue)
    /\ \A t \in Threads : phase[t] = "idle" <=> task[t] = NoTask
    /\ \A p \in Positions : p > submitted - Len(queue) => future[p] \in {"none", "pending"}
    /\ \A p \in Collected : future[p] \notin {"none", "pending"}
    /\ queue # <<>> => Open

IInv ==
    /\ TypeOK
    /\ LeaseInv
    /\ ExclusiveLeases
    /\ WidthInv
    /\ QueueInv
    /\ PoolNeverMisused

\* Tasks are taken up in order, each by one worker, and serially one at a time.
OrderInv ==
    /\ \A s, t \in Threads : task[s] = task[t] /\ task[t] # NoTask => s = t
    /\ \A t \in Threads : task[t] # NoTask => future[task[t]] \in {"none", "pending"}
    /\ \A p \in Positions : p <= submitted - Len(queue) => Begun(p)
    /\ jobs = 1 => \A t \in Threads : task[t] # NoTask => task[t] = submitted - Len(queue)

\* The caller's books say of every position it has collected what its future
\* says, and when it concludes they cover the whole batch.
BooksInv ==
    /\ \A p \in results : future[p] = "record"
    /\ \A i \in 1..Len(errors) : future[errors[i]] # "record"
    /\ caller \in {"raised", "returned"} => Collected = 1..size
    /\ caller = "raised" => errors # <<>> /\ answer[1] = errors[1]
    /\ caller = "returned" => errors = <<>> /\ answer = [i \in 1..size |-> i]

(***************************************************************************)
(* Liveness and refinement.                                                *)
(***************************************************************************)

\* Every call ends: no interleaving of workers and caller leaves run_batch
\* waiting for a future that never completes.
EveryCallEnds == (caller = "submitting") ~> BetweenCalls

Stage == IF caller \in {"submitting", "collecting"} THEN "open" ELSE caller
Active == {t \in Threads : phase[t] \in {"running", "releasing"}}
RunningLeases ==
    [p \in {task[t] : t \in Active} |->
        lease[CHOOSE t \in Active : task[t] = p]]
EndedTasks ==
    LET resolving == {t \in Threads : phase[t] = "resolving"}
        over == {p \in Positions : future[p] \notin {"none", "pending"}}
    IN  [p \in over \union {task[t] : t \in resolving} |->
            IF p \in over THEN future[p]
            ELSE verdict[CHOOSE t \in resolving : task[t] = p]]

Contract == INSTANCE ReplicateBatch
    WITH stage <- Stage, limit <- jobs, running <- RunningLeases, ended <- EndedTasks

\* run_batch over the pool implements the contract its callers rely on.
ImplementsContract == Contract!Spec
=============================================================================
