--------------------------- MODULE RunBatchProofs ---------------------------
(***************************************************************************)
(* Proofs about RunBatch for every affinity set and every bound on jobs,   *)
(* tasks and calls: type correctness, exclusive leases, a pool that is     *)
(* never exhausted nor released twice, and is whole again between calls.   *)
(* These follow from the inductive invariant IInv; the one step that needs *)
(* counting is that acquire() finds a free CPU (FreeCpuExists).  With      *)
(* BooksInv, what each future says of its task, they give the order in     *)
(* which tasks begin and that a failing task takes no sibling along.  The  *)
(* last part shows that run_batch implements ReplicateBatch.               *)
(***************************************************************************)
EXTENDS RunBatch, FiniteSetTheorems, SequenceTheorems, TLAPS

-----------------------------------------------------------------------------
\* The executor never has more workers than the jobs argument allows.
LEMMA WidthBound ==
    ASSUME NEW j \in Nat, NEW n \in Nat, j >= 1
    PROVE  PoolWidth(j, n) \in Nat /\ PoolWidth(j, n) <= j
  BY DEF PoolWidth

\* A worker that reaches acquire() on a known pool finds a free CPU: every CPU
\* that is not free is held by another of at most `jobs` workers, and there
\* are at least `jobs` CPUs.
LEMMA FreeCpuExists ==
    ASSUME IInv, Known, NEW t \in Threads, phase[t] = "acquiring"
    PROVE  free # {}
  <1> SUFFICES ASSUME free = {} PROVE FALSE
    OBVIOUS
  <1> DEFINE w == PoolWidth(jobs, size)
             S == (1..w) \ {t}
             holder == [c \in Cpus |-> CHOOSE s \in S : lease[s] = c]
  <1>1. jobs \in Nat /\ size \in Nat /\ jobs >= 1 /\ jobs <= Cardinality(Cpus) /\ t \in 1..w
    BY CpusAssumption, BoundsAssumption DEF IInv, TypeOK, WidthInv, Acceptable, HasCapacityFor, Threads
  <1>2. w \in Nat /\ w <= jobs
    BY <1>1, WidthBound
  <1>3. \A c \in Cpus : \E s \in S : lease[s] = c
    <2> TAKE c \in Cpus
    <2>1. PICK s \in Threads : lease[s] = c
      BY DEF IInv, LeaseInv
    <2>2. c # NoCpu
      BY CpusAssumption
    <2>3. phase[s] \in {"running", "releasing"}
      BY <2>1, <2>2 DEF IInv, LeaseInv
    <2>4. s # t /\ s \in 1..w
      BY <2>3, <1>2 DEF IInv, WidthInv, Threads
    <2> QED
      BY <2>1, <2>4
  <1>4. holder \in [Cpus -> S] /\ \A c \in Cpus : lease[holder[c]] = c
    BY <1>3
  <1>5. holder \in Injection(Cpus, S)
    BY <1>4 DEF Injection, IsInjective
  <1>6. IsFiniteSet(1..w) /\ Cardinality(1..w) = w
    BY <1>2, FS_Interval, SMT
  <1>7. IsFiniteSet(S) /\ Cardinality(S) = w - 1
    BY <1>1, <1>6, FS_RemoveElement
  <1>8. Cardinality(Cpus) <= w - 1
    BY <1>5, <1>7, FS_Injection
  <1>9. Cardinality(Cpus) \in Nat
    BY CpusAssumption, FS_CardinalityType
  <1> QED
    BY <1>1, <1>2, <1>8, <1>9

-----------------------------------------------------------------------------
\* The identity on 1..n, the scheduled order, is a sequence.
LEMMA IdentitySeq ==
    ASSUME NEW n \in Nat, NEW S, 1..n \subseteq S
    PROVE  [i \in 1..n |-> i] \in Seq(S)
  <1>1. [i \in 1..n |-> i] \in [1..n -> S]
    OBVIOUS
  <1> QED
    BY <1>1, SeqDef

\* The initial state satisfies the inductive invariant.
LEMMA InitIInv == Init => IInv
  <1> SUFFICES ASSUME Init PROVE IInv
    OBVIOUS
  <1> USE CpusAssumption, BoundsAssumption DEF Init
  <1>1. TypeOK
    BY DEF TypeOK, Threads, Positions, NoTask, Phases, Verdicts
  <1>2. LeaseInv /\ ExclusiveLeases
    BY DEF LeaseInv, ExclusiveLeases, Holders
  <1>3. WidthInv /\ PoolNeverMisused
    BY DEF WidthInv, Open, PoolNeverMisused
  <1>4. QueueInv
    <2>1. Len(queue) = 0 /\ Collected = {}
      BY DEF Collected
    <2> QED
      BY <2>1 DEF QueueInv, Open, NoTask
  <1> QED
    BY <1>1, <1>2, <1>3, <1>4 DEF IInv

\* Opening or refusing a call happens between calls, when every worker is
\* idle and the queue is empty, so it cannot disturb a lease.
LEMMA CallStep ==
    ASSUME IInv, NEW j \in 0..MaxJobs, NEW n \in 0..MaxTasks, Refuse(j, n) \/ Call(j, n)
    PROVE  IInv'
  <1> USE CpusAssumption, BoundsAssumption DEF IInv
  <1>1. ~ Open
    BY DEF Refuse, Call, BetweenCalls, Open
  <1>2. /\ \A t \in Threads : phase[t] = "idle"
        /\ queue = <<>>
        /\ UNCHANGED <<free, queue, phase, task, lease, verdict>>
        /\ jobs' = j /\ size' = n /\ submitted' = 0
        /\ future' = [p \in Positions |-> "none"]
        /\ results' = {} /\ errors' = <<>> /\ answer' = <<>>
        /\ batches' = batches + 1 /\ batches < MaxBatches
        /\ \/ caller' = "refused"
           \/ caller' = "submitting" /\ Acceptable(j)
    BY <1>1 DEF WidthInv, QueueInv, Refuse, Call
  <1>3. TypeOK'
    BY <1>2 DEF TypeOK, Threads, Positions, Verdicts
  <1>4. LeaseInv' /\ ExclusiveLeases'
    BY <1>2 DEF LeaseInv, ExclusiveLeases, Holders, Known
  <1>5. WidthInv' /\ PoolNeverMisused'
    BY <1>2 DEF WidthInv, Open, PoolNeverMisused, Acceptable, HasCapacityFor, Known
  <1>6. QueueInv'
    <2>1. Collected' = {} /\ Len(queue') = 0 /\ queue' = <<>>
      BY <1>2 DEF Collected
    <2>2. \A t \in Threads : task'[t] <= 0
      BY <1>2 DEF QueueInv, NoTask
    <2>3. \A t \in Threads : phase'[t] = "idle" <=> task'[t] = NoTask
      BY <1>2 DEF QueueInv
    <2> QED
      BY <1>2, <2>1, <2>2, <2>3 DEF QueueInv
  <1> QED
    BY <1>3, <1>4, <1>5, <1>6

-----------------------------------------------------------------------------
\* Submitting extends the queue by the next position; nothing else changes.
LEMMA SubmitStep ==
    ASSUME IInv, Submit
    PROVE  IInv'
  <1> USE CpusAssumption, BoundsAssumption DEF IInv
  <1>1. submitted + 1 \in Positions
    BY DEF Submit, TypeOK, Positions
  <1>2. TypeOK'
    BY <1>1 DEF Submit, TypeOK, Verdicts
  <1>3. LeaseInv' /\ ExclusiveLeases'
    BY DEF Submit, LeaseInv, ExclusiveLeases, Holders, Known
  <1>4. WidthInv' /\ PoolNeverMisused'
    BY <1>1 DEF Submit, TypeOK, WidthInv, Open, PoolNeverMisused, Acceptable, HasCapacityFor, Known
  <1>5. QueueInv'
    <2>1. /\ queue \in Seq(Positions) /\ Len(queue) \in Nat /\ submitted \in Nat /\ size \in Nat
          /\ queue' = Append(queue, submitted + 1) /\ Len(queue') = Len(queue) + 1
          /\ submitted' = submitted + 1 /\ size' = size /\ submitted < size
          /\ UNCHANGED <<phase, task, results, errors>>
          /\ future' = [future EXCEPT ![submitted + 1] = "pending"]
      BY <1>1 DEF Submit, TypeOK
    <2>2. \A i \in 1..Len(queue') : queue'[i] = submitted' - Len(queue') + i
      <3> SUFFICES ASSUME NEW i \in 1..(Len(queue) + 1)
                   PROVE  Append(queue, submitted + 1)[i] = submitted - Len(queue) + i
        BY <2>1
      <3>1. CASE i = Len(queue) + 1
        BY <2>1, <3>1, AppendProperties
      <3>2. CASE i \in 1..Len(queue)
        <4>1. Append(queue, submitted + 1)[i] = queue[i]
          BY <2>1, <3>2, AppendProperties
        <4> QED
          BY <3>2, <4>1 DEF QueueInv
      <3> QED
        BY <2>1, <3>1, <3>2
    <2>3. \A p \in Positions : p > submitted' - Len(queue') => future'[p] \in {"none", "pending"}
      BY <2>1, <1>1 DEF QueueInv, TypeOK, Positions
    <2>4. \A p \in Collected' : future'[p] \notin {"none", "pending"}
      <3>1. Collected' = Collected
        BY <2>1 DEF Collected
      <3>2. future[submitted + 1] \in {"none", "pending"}
        BY <2>1, <1>1 DEF QueueInv
      <3>3. Collected \subseteq Positions
        BY DEF Collected, TypeOK
      <3> QED
        BY <2>1, <3>1, <3>2, <3>3 DEF QueueInv, TypeOK
    <2>5. Open'
      BY DEF Submit, Open
    <2> QED
      BY <2>1, <2>2, <2>3, <2>4, <2>5 DEF QueueInv, TypeOK, Threads
  <1> QED
    BY <1>2, <1>3, <1>4, <1>5

\* The end of the submission loop moves the caller only.
LEMMA AllSubmittedStep ==
    ASSUME IInv, AllSubmitted
    PROVE  IInv'
  BY CpusAssumption, BoundsAssumption
     DEF IInv, AllSubmitted, TypeOK, LeaseInv, ExclusiveLeases, Holders, Known, WidthInv,
         Open, PoolNeverMisused, Acceptable, HasCapacityFor, QueueInv, Collected

\* Collecting adds a finished position to the results or to the errors.
LEMMA CollectStep ==
    ASSUME IInv, NEW p \in Positions, Collect(p)
    PROVE  IInv'
  <1> USE CpusAssumption, BoundsAssumption DEF IInv
  <1>1. TypeOK'
    <2>1. results' \subseteq Positions /\ errors' \in Seq(Positions)
      <3>1. CASE future[p] = "record"
        BY <3>1 DEF Collect, TypeOK
      <3>2. CASE future[p] # "record"
        <4>1. errors \in Seq(Positions) /\ results \subseteq Positions
          BY DEF TypeOK
        <4>2. errors' = Append(errors, p) /\ results' = results
          BY <3>2 DEF Collect
        <4> QED
          BY <4>1, <4>2, AppendProperties
      <3> QED
        BY <3>1, <3>2
    <2> QED
      BY <2>1 DEF Collect, TypeOK
  <1>2. LeaseInv' /\ ExclusiveLeases'
    BY DEF Collect, LeaseInv, ExclusiveLeases, Holders, Known
  <1>3. WidthInv' /\ PoolNeverMisused'
    BY DEF Collect, WidthInv, Open, PoolNeverMisused, Acceptable, HasCapacityFor, Known
  <1>4. QueueInv'
    <2>1. Collected' \subseteq Collected \union {p}
      <3>1. CASE future[p] = "record"
        BY <3>1 DEF Collect, Collected
      <3>2. CASE future[p] # "record"
        <4>1. errors' = Append(errors, p) /\ results' = results /\ errors \in Seq(Positions)
          BY <3>2 DEF Collect, TypeOK
        <4> QED
          BY <4>1 DEF Collected
      <3> QED
        BY <3>1, <3>2
    <2>2. future[p] \notin {"none", "pending"}
      BY DEF Collect, Finished
    <2> QED
      BY <2>1, <2>2 DEF Collect, QueueInv, Open
  <1> QED
    BY <1>1, <1>2, <1>3, <1>4

\* The call ends with an empty queue: a queued position would be pending, and
\* every position of the batch has been collected.
LEMMA ConcludeStep ==
    ASSUME IInv, Conclude
    PROVE  IInv'
  <1> USE CpusAssumption, BoundsAssumption DEF IInv
  <1>1. TypeOK'
    <2>1. answer' \in Seq(Positions)
      <3>1. CASE errors # <<>>
        <4>1. errors[1] \in Positions
          BY <3>1 DEF TypeOK
        <4>2. <<errors[1]>> \in Seq(Positions)
          BY <4>1
        <4> QED
          BY <3>1, <4>2, Zenon DEF Conclude
      <3>2. CASE errors = <<>>
        <4>1. size \in Nat /\ 1..size \subseteq Positions
          BY DEF TypeOK, Positions
        <4>2. answer' = [i \in 1..size |-> i]
          BY <3>2 DEF Conclude
        <4>3. [i \in 1..size |-> i] \in Seq(Positions)
          BY <4>1, IdentitySeq, Zenon
        <4> QED
          BY <4>2, <4>3, Zenon
      <3> QED
        BY <3>1, <3>2
    <2> QED
      BY <2>1 DEF Conclude, TypeOK
  <1>2. LeaseInv' /\ ExclusiveLeases'
    BY DEF Conclude, LeaseInv, ExclusiveLeases, Holders, Known
  <1>3. WidthInv' /\ PoolNeverMisused'
    BY DEF Conclude, WidthInv, Open, PoolNeverMisused, Acceptable, HasCapacityFor, Known
  <1>4. queue = <<>>
    <2> SUFFICES ASSUME queue # <<>> PROVE FALSE
      OBVIOUS
    <2> DEFINE p == submitted - Len(queue) + 1
    <2>1. Len(queue) \in Nat /\ Len(queue) >= 1 /\ submitted \in Nat /\ size \in 0..MaxTasks
      BY DEF TypeOK
    <2>2. p \in 1..size /\ p \in Positions
      BY <2>1 DEF QueueInv, Positions
    <2>3. future[p] \notin {"none", "pending"}
      BY <2>2 DEF QueueInv, Conclude
    <2> QED
      BY <2>1, <2>2, <2>3 DEF QueueInv
  <1>5. QueueInv'
    <2>1. Collected' = Collected /\ queue' = <<>>
      BY <1>4 DEF Conclude, Collected
    <2> QED
      BY <1>4, <2>1 DEF Conclude, QueueInv
  <1> QED
    BY <1>1, <1>2, <1>3, <1>5

-----------------------------------------------------------------------------
\* Taking the head of the queue makes it the position of an idle worker.
LEMMA TakeStep ==
    ASSUME IInv, NEW t \in Threads, Take(t)
    PROVE  IInv'
  <1> USE CpusAssumption, BoundsAssumption DEF IInv
  <1>1. /\ queue \in Seq(Positions) /\ queue # <<>> /\ Len(queue) \in Nat /\ Len(queue) >= 1
        /\ Head(queue) = queue[1] /\ Head(queue) \in Positions
        /\ queue' = Tail(queue) /\ queue' \in Seq(Positions) /\ Len(queue') = Len(queue) - 1
        /\ \A i \in 1..Len(queue') : queue'[i] = queue[i + 1]
        /\ submitted \in Nat /\ submitted' = submitted
    BY HeadTailProperties DEF Take, TypeOK
  <1>2. TypeOK'
    BY <1>1 DEF Take, TypeOK, Phases
  <1>3. LeaseInv' /\ ExclusiveLeases'
    BY DEF Take, TypeOK, LeaseInv, ExclusiveLeases, Holders, Known
  <1>4. WidthInv' /\ PoolNeverMisused'
    BY <1>1 DEF Take, TypeOK, WidthInv, QueueInv, Open, PoolNeverMisused, Acceptable,
                HasCapacityFor, Known
  <1>5. QueueInv'
    <2>1. \A i \in 1..Len(queue') : queue'[i] = submitted' - Len(queue') + i
      <3> TAKE i \in 1..Len(queue')
      <3>1. i \in Nat /\ i + 1 \in 1..Len(queue) /\ queue'[i] = queue[i + 1]
        BY <1>1
      <3>2. queue[i + 1] = submitted - Len(queue) + (i + 1)
        BY <3>1 DEF QueueInv
      <3> QED
        BY <1>1, <3>1, <3>2
    <2>2. \A s \in Threads : /\ task'[s] <= submitted' - Len(queue')
                             /\ phase'[s] = "idle" <=> task'[s] = NoTask
      <3>1. Head(queue) = submitted - Len(queue) + 1 /\ Head(queue) # NoTask
        BY <1>1 DEF QueueInv, Positions, NoTask
      <3>2. task' = [task EXCEPT ![t] = Head(queue)] /\ phase' = [phase EXCEPT ![t] = "acquiring"]
        BY DEF Take
      <3>3. \A s \in Threads : task[s] \in Int
        BY DEF TypeOK, Positions, NoTask
      <3> QED
        BY <1>1, <3>1, <3>2, <3>3 DEF QueueInv, TypeOK
    <2>3. \A p \in Positions : p > submitted' - Len(queue') => future'[p] \in {"none", "pending"}
      BY <1>1 DEF Take, QueueInv, Positions
    <2>4. Collected' = Collected
      BY DEF Take, Collected
    <2> QED
      BY <1>1, <2>1, <2>2, <2>3, <2>4 DEF Take, QueueInv, Open
  <1> QED
    BY <1>2, <1>3, <1>4, <1>5

\* The frame of the steps inside supervise: the queue, the positions and the
\* caller's books are untouched, and a busy worker stays busy.
LEMMA SuperviseFrame ==
    ASSUME IInv, NEW t \in Threads, phase[t] # "idle", NEW ph \in Phases, ph # "idle",
           phase' = [phase EXCEPT ![t] = ph],
           UNCHANGED <<batches, jobs, size, caller, submitted, queue, task,
                       future, results, errors, answer>>
    PROVE  WidthInv' /\ QueueInv'
  <1> USE CpusAssumption, BoundsAssumption DEF IInv
  <1>1. WidthInv'
    BY DEF TypeOK, WidthInv, Open, Acceptable, HasCapacityFor, Known
  <1>2. Collected' = Collected
    BY DEF Collected
  <1>3. QueueInv'
    BY <1>2 DEF TypeOK, QueueInv, Open
  <1> QED
    BY <1>1, <1>3

\* acquire() on a pool that is not empty moves one CPU from the free list to
\* the worker; FreeCpuExists excludes the RuntimeError.
LEMMA AcquireStep ==
    ASSUME IInv, NEW t \in Threads, Acquire(t)
    PROVE  IInv'
  <1> USE CpusAssumption, BoundsAssumption
  <1>1. ~ (Known /\ free = {}) /\ phase[t] = "acquiring"
    BY FreeCpuExists DEF Acquire
  <1>2. PICK c \in Grantable : lease' = [lease EXCEPT ![t] = c] /\ free' = free \ {c}
    BY <1>1 DEF Acquire
  <1>3. phase' = [phase EXCEPT ![t] = "running"] /\ verdict' = verdict
    BY <1>1 DEF Acquire
  <1>4. /\ free \subseteq Cpus
        /\ c \in IF Known THEN free ELSE {NoCpu}
        /\ lease[t] = NoCpu
    BY <1>1, <1>2 DEF IInv, TypeOK, Grantable, LeaseInv
  <1>5. TypeOK'
    BY <1>2, <1>3, <1>4 DEF Acquire, IInv, TypeOK, Phases
  <1>6. LeaseInv'
    BY <1>1, <1>2, <1>3, <1>4 DEF IInv, TypeOK, LeaseInv, Known
  <1>7. ExclusiveLeases'
    BY <1>2, <1>3, <1>4 DEF IInv, TypeOK, ExclusiveLeases, Holders, Known
  <1>8. PoolNeverMisused'
    BY <1>3 DEF Acquire, IInv, PoolNeverMisused
  <1>9. WidthInv' /\ QueueInv'
    BY <1>1, <1>3, SuperviseFrame DEF Acquire, Phases
  <1> QED
    BY <1>5, <1>6, <1>7, <1>8, <1>9 DEF IInv

\* run_one's outcome is a record or an exception of its own.
LEMMA RunOneStep ==
    ASSUME IInv, NEW t \in Threads, RunOne(t)
    PROVE  IInv'
  <1> USE CpusAssumption, BoundsAssumption
  <1>1. PICK v \in {"record", "error"} : verdict' = [verdict EXCEPT ![t] = v]
    BY DEF RunOne
  <1>2. TypeOK'
    BY <1>1 DEF RunOne, IInv, TypeOK, Phases, Verdicts
  <1>3. LeaseInv' /\ ExclusiveLeases'
    BY <1>1 DEF RunOne, IInv, TypeOK, LeaseInv, ExclusiveLeases, Holders, Known
  <1>4. PoolNeverMisused'
    BY <1>1 DEF RunOne, IInv, TypeOK, PoolNeverMisused
  <1>5. WidthInv' /\ QueueInv'
    BY SuperviseFrame DEF RunOne, Phases
  <1> QED
    BY <1>2, <1>3, <1>4, <1>5 DEF IInv

\* release() returns the worker's CPU, which is not in the free list.
LEMMA ReleaseStep ==
    ASSUME IInv, NEW t \in Threads, Release(t)
    PROVE  IInv'
  <1> USE CpusAssumption, BoundsAssumption
  <1>1. lease[t] \notin free
    BY DEF IInv, TypeOK, ExclusiveLeases, Holders
  <1>2. /\ free' = IF lease[t] = NoCpu THEN free ELSE free \union {lease[t]}
        /\ verdict' = verdict
        /\ lease' = [lease EXCEPT ![t] = NoCpu]
        /\ phase' = [phase EXCEPT ![t] = "resolving"]
        /\ phase[t] = "releasing"
    BY <1>1 DEF Release
  <1>3. TypeOK'
    BY <1>2 DEF Release, IInv, TypeOK, Phases
  <1>4. LeaseInv'
    BY <1>2 DEF IInv, TypeOK, LeaseInv, Known
  <1>5. ExclusiveLeases'
    BY <1>2 DEF IInv, TypeOK, ExclusiveLeases, Holders
  <1>6. PoolNeverMisused'
    BY <1>2 DEF Release, IInv, PoolNeverMisused
  <1>7. WidthInv' /\ QueueInv'
    BY <1>2, SuperviseFrame DEF Release, Phases
  <1> QED
    BY <1>3, <1>4, <1>5, <1>6, <1>7 DEF IInv

\* Storing the outcome in the future makes the worker idle; its position was
\* taken off the queue before.
LEMMA ResolveStep ==
    ASSUME IInv, NEW t \in Threads, Resolve(t)
    PROVE  IInv'
  <1> USE CpusAssumption, BoundsAssumption DEF IInv
  <1>1. /\ task[t] \in Positions
        /\ verdict[t] \in Verdicts
        /\ lease[t] = NoCpu
        /\ phase' = [phase EXCEPT ![t] = "idle"]
        /\ task' = [task EXCEPT ![t] = NoTask]
        /\ future' = [future EXCEPT ![task[t]] = verdict[t]]
        /\ phase[t] = "resolving"
    <2>1. /\ phase[t] = "resolving"
          /\ phase' = [phase EXCEPT ![t] = "idle"]
          /\ task' = [task EXCEPT ![t] = NoTask]
          /\ future' = [future EXCEPT ![task[t]] = verdict[t]]
      BY DEF Resolve
    <2>2. task[t] \in Positions
      BY <2>1 DEF TypeOK, QueueInv
    <2>3. verdict[t] \in Verdicts
      BY DEF TypeOK
    <2>4. lease[t] = NoCpu
      BY <2>1 DEF LeaseInv
    <2> QED
      BY <2>1, <2>2, <2>3, <2>4
  <1>2. TypeOK'
    BY <1>1 DEF Resolve, TypeOK, Phases, Verdicts
  <1>3. LeaseInv' /\ ExclusiveLeases'
    BY <1>1 DEF Resolve, TypeOK, LeaseInv, ExclusiveLeases, Holders, Known
  <1>4. WidthInv' /\ PoolNeverMisused'
    BY <1>1 DEF Resolve, TypeOK, WidthInv, Open, PoolNeverMisused, Acceptable, HasCapacityFor, Known
  <1>5. QueueInv'
    <2>1. task[t] <= submitted - Len(queue) /\ submitted - Len(queue) >= 0
      BY DEF QueueInv, TypeOK
    <2>2. Collected' = Collected
      BY DEF Resolve, Collected
    <2>3. verdict[t] # "none"
      BY <1>1 DEF LeaseInv
    <2>4. \A s \in Threads : /\ task'[s] <= submitted - Len(queue)
                             /\ phase'[s] = "idle" <=> task'[s] = NoTask
      BY <1>1, <2>1 DEF TypeOK, QueueInv, NoTask
    <2>5. \A p \in Positions : p > submitted - Len(queue) => future'[p] \in {"none", "pending"}
      BY <1>1, <2>1 DEF TypeOK, QueueInv, Positions
    <2>6. \A p \in Collected' : future'[p] \notin {"none", "pending"}
      BY <1>1, <2>2, <2>3 DEF TypeOK, QueueInv, Verdicts
    <2> QED
      BY <2>2, <2>4, <2>5, <2>6 DEF Resolve, QueueInv, Open
  <1> QED
    BY <1>2, <1>3, <1>4, <1>5

-----------------------------------------------------------------------------
\* Every step of the specification, and stuttering, preserves IInv.
LEMMA NextIInv == IInv /\ [Next]_vars => IInv'
  <1> SUFFICES ASSUME IInv, [Next]_vars PROVE IInv'
    OBVIOUS
  <1>1. CASE \E j \in 0..MaxJobs, n \in 0..MaxTasks : Refuse(j, n) \/ Call(j, n)
    BY <1>1, CallStep
  <1>2. CASE Caller
    BY <1>2, SubmitStep, AllSubmittedStep, ConcludeStep, CollectStep DEF Caller
  <1>3. CASE \E t \in Threads : Worker(t)
    BY <1>3, TakeStep, AcquireStep, RunOneStep, ReleaseStep, ResolveStep DEF Worker
  <1>4. CASE UNCHANGED vars
    BY <1>4 DEF vars, IInv, TypeOK, LeaseInv, ExclusiveLeases, Holders, Known, WidthInv, Open,
                Acceptable, HasCapacityFor, QueueInv, Collected, PoolNeverMisused
  <1> QED
    BY <1>1, <1>2, <1>3, <1>4 DEF Next, Done

\* Between two calls every worker is idle, so every CPU is back in the pool.
LEMMA RestoredLemma == IInv => PoolRestored
  <1> SUFFICES ASSUME IInv, BetweenCalls PROVE free = Cpus
    BY DEF PoolRestored
  <1>1. \A t \in Threads : phase[t] = "idle"
    BY DEF IInv, WidthInv, Open, BetweenCalls
  <1>2. \A t \in Threads : lease[t] = NoCpu
    BY <1>1 DEF IInv, LeaseInv
  <1>3. NoCpu \notin Cpus
    BY CpusAssumption
  <1>4. \A c \in Cpus : c \in free
    BY <1>2, <1>3 DEF IInv, LeaseInv
  <1>5. free \subseteq Cpus
    BY DEF IInv, TypeOK
  <1> QED
    BY <1>4, <1>5

\* The inductive invariant holds in every reachable state.
THEOREM Invariance == Spec => []IInv
  BY InitIInv, NextIInv, PTL DEF Spec

\* Type correctness of run_batch and its pool.
THEOREM TypeCorrect == Spec => []TypeOK
  <1>1. IInv => TypeOK
    BY DEF IInv
  <1> QED
    BY <1>1, Invariance, PTL

\* For every affinity set, jobs argument and batch: concurrently active
\* children hold distinct CPUs, and no leased CPU is on offer.
THEOREM LeasesAreExclusive == Spec => []ExclusiveLeases
  <1>1. IInv => ExclusiveLeases
    BY DEF IInv
  <1> QED
    BY <1>1, Invariance, PTL

\* Neither of CpuPool's RuntimeErrors can be raised through run_batch.
THEOREM PoolErrorsUnreachable == Spec => []PoolNeverMisused
  <1>1. IInv => PoolNeverMisused
    BY DEF IInv
  <1> QED
    BY <1>1, Invariance, PTL

\* However the tasks of a batch end, no CPU is lost to the next batch.
THEOREM NoLeaseLost == Spec => []PoolRestored
  BY RestoredLemma, Invariance, PTL
-----------------------------------------------------------------------------
(***************************************************************************)
(* The order of the tasks and the caller's books.  They rest on IInv, in   *)
(* particular on QueueInv, which says that the positions not yet taken are *)
(* the last submitted ones.                                                *)
(***************************************************************************)
Books == OrderInv /\ BooksInv

\* Nothing is taken up or collected before the first call.
LEMMA InitBooks == Init => Books
  <1> SUFFICES ASSUME Init PROVE Books
    OBVIOUS
  <1>1. \A t \in Threads : task[t] = NoTask
    BY DEF Init
  <1>2. submitted - Len(queue) = 0 /\ Len(errors) = 0 /\ results = {}
    <2>1. Len(queue) = 0
      BY DEF Init
    <2>2. Len(errors) = 0
      BY DEF Init
    <2>3. submitted = 0 /\ results = {}
      BY DEF Init
    <2> QED
      BY <2>1, <2>2, <2>3
  <1> QED
    BY <1>1, <1>2 DEF Init, Books, OrderInv, BooksInv, Positions

\* What the steps inside supervise, and the end of the submission, have in
\* common: neither the futures, the positions nor the books move.
LEMMA BooksFrame ==
    ASSUME Books, caller' = caller \/ caller' = "collecting",
           UNCHANGED <<jobs, size, submitted, queue, task, future, results, errors, answer>>
    PROVE  Books'
  BY DEF Books, OrderInv, BooksInv, Begun, Collected

\* A call starts with empty books and no task.
LEMMA CallBooks ==
    ASSUME IInv, NEW j \in 0..MaxJobs, NEW n \in 0..MaxTasks, Refuse(j, n) \/ Call(j, n)
    PROVE  Books'
  <1>1. /\ caller' \in {"refused", "submitting"} /\ task' = task /\ queue' = queue
        /\ submitted' = 0 /\ results' = {} /\ errors' = <<>>
    BY DEF Refuse, Call
  <1>2. ~ Open
    BY DEF Refuse, Call, BetweenCalls, Open
  <1>3. queue = <<>> /\ \A t \in Threads : task[t] = NoTask
    BY <1>2 DEF IInv, WidthInv, QueueInv
  <1>4. submitted' - Len(queue') = 0 /\ Len(errors') = 0
    <2>1. Len(queue') = 0
      BY <1>1, <1>3
    <2>2. Len(errors') = 0
      BY <1>1
    <2> QED
      BY <1>1, <2>1, <2>2
  <1> QED
    BY <1>1, <1>3, <1>4 DEF Books, OrderInv, BooksInv, Positions

\* The position submitted last is behind all positions that were taken.
LEMMA SubmitBooks ==
    ASSUME IInv, Books, Submit
    PROVE  Books'
  <1> DEFINE q == submitted + 1
  <1>1. /\ submitted \in Nat /\ Len(queue) \in Nat /\ q \in Positions
        /\ submitted' = q /\ Len(queue') = Len(queue) + 1
        /\ caller' = "submitting"
        /\ future' = [future EXCEPT ![q] = "pending"]
        /\ UNCHANGED <<jobs, size, task, results, errors, answer>>
    BY BoundsAssumption DEF Submit, IInv, TypeOK, Positions
  <1>2. /\ submitted' - Len(queue') = submitted - Len(queue)
        /\ \A p \in Positions : p <= submitted - Len(queue) => p # q
    BY <1>1 DEF Positions
  <1>3. \A p \in Positions : p # q => future'[p] = future[p]
    BY <1>1 DEF IInv, TypeOK
  <1>4. future[q] \in {"none", "pending"} /\ future'[q] = "pending"
    BY <1>1 DEF IInv, TypeOK, QueueInv
  <1>5. OrderInv'
    <2>1. \A t \in Threads : task[t] # NoTask => task[t] \in Positions
      BY DEF IInv, TypeOK
    <2>2. \A t \in Threads : task'[t] # NoTask => future'[task'[t]] \in {"none", "pending"}
      BY <1>1, <1>3, <1>4, <2>1 DEF Books, OrderInv
    <2>3. \A p \in Positions : p <= submitted' - Len(queue') => Begun(p)'
      BY <1>1, <1>2, <1>3 DEF Books, OrderInv, Begun
    <2> QED
      BY <1>1, <1>2, <2>2, <2>3 DEF Books, OrderInv
  <1>6. BooksInv'
    <2>1. results \subseteq Positions /\ \A i \in 1..Len(errors) : errors[i] \in Positions
      BY DEF IInv, TypeOK
    <2> QED
      BY <1>1, <1>3, <1>4, <2>1 DEF Books, BooksInv
  <1> QED
    BY <1>5, <1>6 DEF Books

\* A collected position enters the books under what its future says.
LEMMA CollectBooks ==
    ASSUME IInv, Books, NEW p \in Positions, Collect(p)
    PROVE  Books'
  <1>1. /\ caller' = "collecting"
        /\ UNCHANGED <<jobs, size, submitted, queue, task, future>>
    BY DEF Collect
  <1>2. OrderInv'
    BY <1>1 DEF Books, OrderInv, Begun
  <1>3. errors \in Seq(Positions)
    BY DEF IInv, TypeOK
  <1>4. CASE future[p] = "record"
    BY <1>1, <1>2, <1>4 DEF Collect, Books, BooksInv
  <1>5. CASE future[p] # "record"
    <2>1. errors' = Append(errors, p) /\ results' = results
      BY <1>5 DEF Collect
    <2>2. \A i \in 1..Len(errors') : errors'[i] = p \/ (i \in 1..Len(errors) /\ errors'[i] = errors[i])
      BY <1>3, <2>1
    <2> QED
      BY <1>1, <1>2, <1>5, <2>1, <2>2 DEF Books, BooksInv
  <1> QED
    BY <1>4, <1>5

\* The call ends when its books cover the batch and every worker is idle.
LEMMA ConcludeBooks ==
    ASSUME IInv, Books, Conclude
    PROVE  Books'
  <1>1. /\ UNCHANGED <<jobs, size, submitted, queue, task, future, results, errors>>
        /\ Collected = 1..size
    BY DEF Conclude
  <1>2. OrderInv' /\ Collected' = Collected
    BY <1>1 DEF Books, OrderInv, Begun, Collected
  <1>3. \/ caller' = "raised" /\ errors # <<>> /\ answer' = <<errors[1]>>
        \/ caller' = "returned" /\ errors = <<>> /\ answer' = [i \in 1..size |-> i]
    BY DEF Conclude
  <1> QED
    BY <1>1, <1>2, <1>3 DEF Books, BooksInv

-----------------------------------------------------------------------------
\* Without a second worker, the one that takes a task is the only one busy.
LEMMA SerialWorker ==
    ASSUME IInv, NEW t \in Threads, t <= PoolWidth(jobs, size), jobs = 1
    PROVE  \A s \in Threads : s # t => task[s] = NoTask
  <1>1. PoolWidth(jobs, size) <= 1
    BY BoundsAssumption DEF IInv, TypeOK, PoolWidth
  <1>2. PoolWidth(jobs, size) \in Int
    BY BoundsAssumption DEF IInv, TypeOK, PoolWidth
  <1>3. \A s \in Threads : s # t => ~ (s <= PoolWidth(jobs, size))
    BY <1>1, <1>2, BoundsAssumption DEF Threads
  <1> QED
    BY <1>3 DEF IInv, WidthInv, QueueInv

\* The head of the queue is the position after all those taken before.
LEMMA TakeBooks ==
    ASSUME IInv, Books, NEW t \in Threads, Take(t)
    PROVE  Books'
  <1> DEFINE h == submitted - Len(queue) + 1
  <1>1. /\ submitted \in Nat /\ Len(queue) \in Nat /\ Len(queue') = Len(queue) - 1
        /\ Head(queue) = h /\ h \in Positions
    <2>1. queue \in Seq(Positions) /\ queue # <<>> /\ queue' = Tail(queue)
      BY DEF Take, IInv, TypeOK
    <2>2. Len(queue) \in Nat /\ Len(queue) >= 1 /\ Head(queue) = queue[1] /\ Head(queue) \in Positions
      BY <2>1
    <2>3. queue[1] = h
      BY <2>2 DEF IInv, QueueInv
    <2> QED
      BY <2>1, <2>2, <2>3 DEF IInv, TypeOK
  <1>2. /\ task' = [task EXCEPT ![t] = h] /\ task[t] = NoTask
        /\ UNCHANGED <<jobs, size, submitted, caller, future, results, errors, answer>>
    BY <1>1 DEF Take, IInv, QueueInv
  <1>3. \A s \in Threads : task[s] \in Int /\ task[s] < h
    BY <1>1 DEF IInv, TypeOK, QueueInv, Positions, NoTask
  <1>4. /\ task'[t] = h
        /\ \A s \in Threads : s # t => task'[s] = task[s]
    BY <1>2 DEF IInv, TypeOK
  <1>5. \A r, s \in Threads : task'[r] = task'[s] /\ task'[s] # NoTask => r = s
    BY <1>3, <1>4 DEF Books, OrderInv
  <1>6. \A s \in Threads : task'[s] # NoTask => future'[task'[s]] \in {"none", "pending"}
    <2>1. future[h] \in {"none", "pending"}
      BY <1>1 DEF IInv, QueueInv
    <2> QED
      BY <1>2, <1>4, <2>1 DEF Books, OrderInv
  <1>7. \A p \in Positions : p <= submitted' - Len(queue') => Begun(p)'
    <2> TAKE p \in Positions
    <2>1. CASE p = h
      BY <1>4, <2>1 DEF Begun
    <2>2. CASE p <= submitted - Len(queue)
      <3>1. Begun(p)
        BY <2>2 DEF Books, OrderInv
      <3>2. p # NoTask
        BY DEF Positions, NoTask
      <3> QED
        BY <1>2, <1>4, <3>1, <3>2 DEF Begun
    <2> QED
      BY <1>1, <1>2, <2>1, <2>2 DEF Positions
  <1>8. jobs' = 1 => \A s \in Threads : task'[s] # NoTask => task'[s] = submitted' - Len(queue')
    <2> SUFFICES ASSUME jobs = 1, NEW s \in Threads, task'[s] # NoTask PROVE task'[s] = h
      BY <1>1, <1>2
    <2>1. \A r \in Threads : r # t => task[r] = NoTask
      BY SerialWorker DEF Take
    <2> QED
      BY <1>4, <2>1
  <1>9. BooksInv'
    BY <1>2 DEF Books, BooksInv, Collected
  <1> QED
    BY <1>5, <1>6, <1>7, <1>8, <1>9 DEF Books, OrderInv

\* A future is resolved once: the worker's position was not collected yet.
LEMMA ResolveBooks ==
    ASSUME IInv, Books, NEW t \in Threads, Resolve(t)
    PROVE  Books'
  <1> DEFINE p == task[t]
  <1>1. /\ phase[t] = "resolving"
        /\ future' = [future EXCEPT ![p] = verdict[t]]
        /\ task' = [task EXCEPT ![t] = NoTask]
        /\ UNCHANGED <<jobs, size, submitted, queue, caller, results, errors, answer>>
    BY DEF Resolve
  <1>2. p # NoTask /\ p \in Positions
    BY <1>1 DEF IInv, TypeOK, QueueInv
  <1>3. future[p] \in {"none", "pending"}
    BY <1>2 DEF Books, OrderInv
  <1>4. verdict[t] \notin {"none", "pending"}
    BY <1>1 DEF IInv, TypeOK, LeaseInv, Verdicts
  <1>5. /\ future'[p] = verdict[t]
        /\ \A q \in Positions : q # p => future'[q] = future[q]
        /\ task'[t] = NoTask
        /\ \A s \in Threads : s # t => task'[s] = task[s]
    BY <1>1, <1>2 DEF IInv, TypeOK
  <1>6. OrderInv'
    <2>1. \A r, s \in Threads : task'[r] = task'[s] /\ task'[s] # NoTask => r = s
      BY <1>5 DEF Books, OrderInv
    <2>2. \A s \in Threads : task'[s] # NoTask => future'[task'[s]] \in {"none", "pending"}
      <3> SUFFICES ASSUME NEW s \in Threads, s # t, task[s] # NoTask
                   PROVE  future'[task[s]] \in {"none", "pending"}
        BY <1>5
      <3>1. task[s] # p /\ task[s] \in Positions
        BY <1>2 DEF Books, OrderInv, IInv, TypeOK
      <3> QED
        BY <1>5, <3>1 DEF Books, OrderInv
    <2>3. \A q \in Positions : q <= submitted' - Len(queue') => Begun(q)'
      <3> SUFFICES ASSUME NEW q \in Positions, Begun(q) PROVE Begun(q)'
        BY <1>1 DEF Books, OrderInv
      <3> QED
        BY <1>4, <1>5 DEF Begun
    <2>4. jobs' = 1 => \A s \in Threads : task'[s] # NoTask => task'[s] = submitted' - Len(queue')
      BY <1>1, <1>5 DEF Books, OrderInv
    <2> QED
      BY <2>1, <2>2, <2>3, <2>4 DEF OrderInv
  <1>7. BooksInv'
    <2>1. caller \notin {"raised", "returned"}
      BY <1>1 DEF IInv, WidthInv, Open
    <2>2. \A q \in Collected : q # p
      BY <1>3 DEF IInv, QueueInv
    <2>3. /\ \A q \in results : q # p /\ q \in Positions
          /\ \A i \in 1..Len(errors) : errors[i] # p /\ errors[i] \in Positions
      BY <2>2 DEF Collected, IInv, TypeOK
    <2> QED
      BY <1>1, <1>5, <2>1, <2>3 DEF Books, BooksInv
  <1> QED
    BY <1>6, <1>7 DEF Books

-----------------------------------------------------------------------------
\* Every step of the specification, and stuttering, preserves the books.
LEMMA NextBooks == IInv /\ Books /\ [Next]_vars => Books'
  <1> SUFFICES ASSUME IInv, Books, [Next]_vars PROVE Books'
    OBVIOUS
  <1>1. CASE \E j \in 0..MaxJobs, n \in 0..MaxTasks : Refuse(j, n) \/ Call(j, n)
    BY <1>1, CallBooks
  <1>2. CASE Caller
    <2>1. CASE AllSubmitted
      BY <2>1, BooksFrame DEF AllSubmitted
    <2> QED
      BY <1>2, <2>1, SubmitBooks, ConcludeBooks, CollectBooks DEF Caller
  <1>3. ASSUME NEW t \in Threads, Worker(t) PROVE Books'
    <2>1. CASE Acquire(t) \/ RunOne(t) \/ Release(t)
      BY <2>1, BooksFrame DEF Acquire, RunOne, Release
    <2> QED
      BY <1>3, <2>1, TakeBooks, ResolveBooks DEF Worker
  <1>4. CASE UNCHANGED vars
    BY <1>4, BooksFrame DEF vars
  <1> QED
    BY <1>1, <1>2, <1>3, <1>4 DEF Next, Done

\* The order of the tasks and the books hold in every reachable state.
THEOREM BooksInvariance == Spec => []Books
  BY InitBooks, NextBooks, Invariance, PTL DEF Spec

\* A call that raises has run every task of the batch and raises the error of
\* one that failed; a call that returns has a record for every position.
THEOREM SiblingsAlwaysSurvive == Spec => []SiblingsSurvive
  <1>1. IInv /\ Books => SiblingsSurvive
    <2> SUFFICES ASSUME IInv, Books, caller \in {"raised", "returned"} PROVE SiblingsSurvive
      BY DEF SiblingsSurvive
    <2>1. 1..size \subseteq Positions
      BY BoundsAssumption DEF IInv, TypeOK, Positions
    <2>2. Collected = 1..size
      BY DEF Books, BooksInv
    <2>3. \A p \in 1..size : future[p] \in {"record", "error"}
      BY <2>1, <2>2 DEF IInv, TypeOK, QueueInv, PoolNeverMisused, Verdicts
    <2>4. caller = "raised" => future[answer[1]] = "error"
      <3> SUFFICES ASSUME caller = "raised" PROVE future[answer[1]] = "error"
        OBVIOUS
      <3>1. answer[1] = errors[1] /\ 1 \in 1..Len(errors)
        BY DEF Books, BooksInv, IInv, TypeOK
      <3>2. errors[1] \in Collected /\ future[errors[1]] # "record"
        BY <3>1 DEF Collected, Books, BooksInv
      <3> QED
        BY <2>2, <2>3, <3>1, <3>2
    <2>5. caller = "returned" => \A p \in 1..size : p \in results /\ answer[p] = p
      <3> SUFFICES ASSUME caller = "returned" PROVE \A p \in 1..size : p \in results /\ answer[p] = p
        OBVIOUS
      <3>1. errors = <<>> /\ answer = [i \in 1..size |-> i]
        BY DEF Books, BooksInv
      <3>2. Collected = results
        BY <3>1 DEF Collected
      <3> QED
        BY <2>2, <3>1, <3>2
    <2> QED
      BY <2>3, <2>4, <2>5 DEF SiblingsSurvive
  <1> QED
    BY <1>1, Invariance, BooksInvariance, PTL

\* Tasks begin in scheduled order; with one job, each after all earlier ones
\* have ended.
THEOREM TasksBeginInOrder == Spec => []BeginInScheduledOrder
  <1>1. IInv /\ Books => BeginInScheduledOrder
    <2> SUFFICES ASSUME IInv, Books, NEW p \in Positions, NEW q \in Positions, p < q, q <= size,
                        Begun(q)
                 PROVE  /\ Begun(p)
                        /\ jobs = 1 => future[p] \notin {"none", "pending"}
      BY DEF BeginInScheduledOrder
    <2>1. submitted \in Int /\ Len(queue) \in Int /\ p \in Int /\ q \in Int
      BY DEF IInv, TypeOK, Positions
    <2>2. q <= submitted - Len(queue)
      BY <2>1 DEF Begun, IInv, QueueInv
    <2>3. Begun(p)
      BY <2>1, <2>2 DEF Books, OrderInv
    <2>4. ASSUME jobs = 1 PROVE \A t \in Threads : task[t] # p
      BY <2>1, <2>2, <2>4 DEF Books, OrderInv, Positions, NoTask
    <2> QED
      BY <2>3, <2>4 DEF Begun
  <1> QED
    BY <1>1, Invariance, BooksInvariance, PTL

-----------------------------------------------------------------------------
(***************************************************************************)
(* run_batch over the pool implements its contract, ReplicateBatch, for    *)
(* every affinity set and every bound: the initial state maps to the       *)
(* contract's, and every step of a caller or a worker maps to one of its   *)
(* steps or changes nothing it speaks of.                                  *)
(*                                                                         *)
(*    Refuse, Call, Conclude         Refuse, Open, Close                   *)
(*    Acquire                        Start, of the task and its lease      *)
(*    Release                        End, of the task and its outcome      *)
(*    every other step               stutters                              *)
(*                                                                         *)
(* The argument rests on IInv and Books: a worker's task has no other      *)
(* worker (so that RunningLeases is the lease of THE worker), a free CPU   *)
(* is nobody's, and the workers are no more than the jobs argument allows. *)
(***************************************************************************)

\* The refinement mapping as functions of the workers' state.
ActiveIn(ph)    == {t \in Threads : ph[t] \in {"running", "releasing"}}
ResolvingIn(ph) == {t \in Threads : ph[t] = "resolving"}
OverIn(fu)      == {p \in Positions : fu[p] \notin {"none", "pending"}}

LeasesOf(ph, tk, ls) ==
    [p \in {tk[t] : t \in ActiveIn(ph)} |-> ls[CHOOSE t \in ActiveIn(ph) : tk[t] = p]]

OutcomesOf(ph, tk, vd, fu) ==
    [p \in OverIn(fu) \union {tk[t] : t \in ResolvingIn(ph)} |->
        IF p \in OverIn(fu) THEN fu[p] ELSE vd[CHOOSE t \in ResolvingIn(ph) : tk[t] = p]]

LEMMA Mapping ==
    /\ RunningLeases = LeasesOf(phase, task, lease)
    /\ EndedTasks = OutcomesOf(phase, task, verdict, future)
  BY DEF RunningLeases, Active, LeasesOf, ActiveIn, EndedTasks, OutcomesOf, ResolvingIn, OverIn

LEMMA MappingAfter ==
    /\ RunningLeases' = LeasesOf(phase', task', lease')
    /\ EndedTasks' = OutcomesOf(phase', task', verdict', future')
  BY DEF RunningLeases, Active, LeasesOf, ActiveIn, EndedTasks, OutcomesOf, ResolvingIn, OverIn

\* No two busy workers supervise the same task.
OneWorkerEach(ph, tk) ==
    \A s, t \in Threads : ph[s] # "idle" /\ ph[t] # "idle" /\ tk[s] = tk[t] => s = t

\* The lease recorded for a running task is its worker's.
RecordsLeases(f, ph, tk, ls) ==
    /\ DOMAIN f = {tk[t] : t \in ActiveIn(ph)}
    /\ \A t \in ActiveIn(ph) : f[tk[t]] = ls[t]
    /\ f = [p \in DOMAIN f |-> f[p]]

LEMMA LeasesValue ==
    ASSUME NEW ph, NEW tk, NEW ls, OneWorkerEach(ph, tk)
    PROVE  RecordsLeases(LeasesOf(ph, tk, ls), ph, tk, ls)
  <1>1. \A t \in ActiveIn(ph) : (CHOOSE s \in ActiveIn(ph) : tk[s] = tk[t]) = t
    <2> TAKE t \in ActiveIn(ph)
    <2> DEFINE s == CHOOSE s \in ActiveIn(ph) : tk[s] = tk[t]
    <2>1. s \in ActiveIn(ph) /\ tk[s] = tk[t]
      OBVIOUS
    <2> HIDE DEF s
    <2>2. s = t
      BY <2>1 DEF OneWorkerEach, ActiveIn
    <2> QED
      BY <2>2 DEF s
  <1> QED
    BY <1>1 DEF LeasesOf, RecordsLeases

\* The outcome recorded for a task that ended is its future's, or its worker's
\* until the future has it.
RecordsOutcomes(f, ph, tk, vd, fu) ==
    /\ DOMAIN f = OverIn(fu) \union {tk[t] : t \in ResolvingIn(ph)}
    /\ \A p \in OverIn(fu) : f[p] = fu[p]
    /\ \A t \in ResolvingIn(ph) : f[tk[t]] = vd[t]
    /\ f = [p \in DOMAIN f |-> f[p]]

LEMMA OutcomesValue ==
    ASSUME NEW ph, NEW tk, NEW vd, NEW fu, OneWorkerEach(ph, tk),
           \A t \in ResolvingIn(ph) : tk[t] \notin OverIn(fu)
    PROVE  RecordsOutcomes(OutcomesOf(ph, tk, vd, fu), ph, tk, vd, fu)
  <1>1. \A t \in ResolvingIn(ph) : (CHOOSE s \in ResolvingIn(ph) : tk[s] = tk[t]) = t
    <2> TAKE t \in ResolvingIn(ph)
    <2> DEFINE s == CHOOSE s \in ResolvingIn(ph) : tk[s] = tk[t]
    <2>1. s \in ResolvingIn(ph) /\ tk[s] = tk[t]
      OBVIOUS
    <2> HIDE DEF s
    <2>2. s = t
      BY <2>1 DEF OneWorkerEach, ResolvingIn
    <2> QED
      BY <2>2 DEF s
  <1>2. \A t \in ResolvingIn(ph) :
           OutcomesOf(ph, tk, vd, fu)[tk[t]] = vd[CHOOSE s \in ResolvingIn(ph) : tk[s] = tk[t]]
    BY DEF OutcomesOf
  <1>3. \A t \in ResolvingIn(ph) : OutcomesOf(ph, tk, vd, fu)[tk[t]] = vd[t]
    BY <1>1, <1>2, Zenon
  <1>4. /\ DOMAIN OutcomesOf(ph, tk, vd, fu) = OverIn(fu) \union {tk[t] : t \in ResolvingIn(ph)}
        /\ \A p \in OverIn(fu) : OutcomesOf(ph, tk, vd, fu)[p] = fu[p]
    BY DEF OutcomesOf
  <1>5. OutcomesOf(ph, tk, vd, fu) =
          [p \in DOMAIN OutcomesOf(ph, tk, vd, fu) |-> OutcomesOf(ph, tk, vd, fu)[p]]
    BY DEF OutcomesOf
  <1> QED
    BY <1>3, <1>4, <1>5 DEF RecordsOutcomes

\* A worker comes under way, or is done, or has an outcome to hand over.
LEMMA OneMoreLease ==
    ASSUME NEW f, NEW g, NEW ph, NEW hp, NEW tk, NEW ls, NEW sl,
           RecordsLeases(f, ph, tk, ls), RecordsLeases(g, hp, tk, sl),
           NEW t, ActiveIn(hp) = ActiveIn(ph) \union {t}, tk[t] \notin DOMAIN f,
           \A s \in ActiveIn(ph) : sl[s] = ls[s]
    PROVE  g = [q \in DOMAIN f \union {tk[t]} |-> IF q = tk[t] THEN sl[t] ELSE f[q]]
  <1>1. DOMAIN g = DOMAIN f \union {tk[t]}
    BY DEF RecordsLeases
  <1>2. g[tk[t]] = sl[t]
    BY DEF RecordsLeases
  <1>3. ASSUME NEW q \in DOMAIN f PROVE g[q] = f[q]
    <2>1. PICK s \in ActiveIn(ph) : q = tk[s] /\ f[q] = ls[s]
      BY DEF RecordsLeases
    <2> QED
      BY <2>1 DEF RecordsLeases
  <1>4. g = [q \in DOMAIN g |-> g[q]]
    BY DEF RecordsLeases
  <1> QED
    BY <1>1, <1>2, <1>3, <1>4

LEMMA OneLeaseLess ==
    ASSUME NEW f, NEW g, NEW ph, NEW hp, NEW tk, NEW ls, NEW sl,
           RecordsLeases(f, ph, tk, ls), RecordsLeases(g, hp, tk, sl),
           NEW t \in ActiveIn(ph), ActiveIn(hp) = ActiveIn(ph) \ {t},
           \A s \in ActiveIn(hp) : tk[s] # tk[t] /\ sl[s] = ls[s]
    PROVE  g = [q \in DOMAIN f \ {tk[t]} |-> f[q]]
  <1>1. DOMAIN g = DOMAIN f \ {tk[t]}
    BY DEF RecordsLeases
  <1>2. ASSUME NEW q \in DOMAIN g PROVE g[q] = f[q]
    <2>1. PICK s \in ActiveIn(hp) : q = tk[s] /\ g[q] = sl[s]
      BY DEF RecordsLeases
    <2> QED
      BY <2>1 DEF RecordsLeases
  <1>3. g = [q \in DOMAIN g |-> g[q]]
    BY DEF RecordsLeases
  <1> QED
    BY <1>1, <1>2, <1>3

LEMMA OneMoreOutcome ==
    ASSUME NEW f, NEW g, NEW ph, NEW hp, NEW tk, NEW vd, NEW fu,
           RecordsOutcomes(f, ph, tk, vd, fu), RecordsOutcomes(g, hp, tk, vd, fu),
           NEW t, ResolvingIn(hp) = ResolvingIn(ph) \union {t}, tk[t] \notin DOMAIN f
    PROVE  g = [q \in DOMAIN f \union {tk[t]} |-> IF q = tk[t] THEN vd[t] ELSE f[q]]
  <1>1. DOMAIN g = DOMAIN f \union {tk[t]}
    BY DEF RecordsOutcomes
  <1>2. g[tk[t]] = vd[t]
    BY DEF RecordsOutcomes
  <1>3. \A q \in DOMAIN f : g[q] = f[q]
    BY DEF RecordsOutcomes
  <1>4. g = [q \in DOMAIN g |-> g[q]]
    BY DEF RecordsOutcomes
  <1> QED
    BY <1>1, <1>2, <1>3, <1>4

\* Both hold of the program's state, before and after a step.
LEMMA WorkersAreDistinct ==
    ASSUME IInv, Books
    PROVE  /\ OneWorkerEach(phase, task)
           /\ \A t \in ResolvingIn(phase) : task[t] \notin OverIn(future)
  BY DEF IInv, TypeOK, QueueInv, Books, OrderInv, OneWorkerEach, ResolvingIn, OverIn

LEMMA WorkersAreDistinctAfter ==
    ASSUME IInv', Books'
    PROVE  /\ OneWorkerEach(phase', task')
           /\ \A t \in ResolvingIn(phase') : task'[t] \notin OverIn(future')
  BY DEF IInv, TypeOK, QueueInv, Books, OrderInv, OneWorkerEach, ResolvingIn, OverIn

\* What the contract's maps are, then, before and after a step.
LEMMA LeasesNow ==
    ASSUME IInv, Books
    PROVE  RecordsLeases(RunningLeases, phase, task, lease)
  BY WorkersAreDistinct, LeasesValue, Mapping

LEMMA LeasesAfter ==
    ASSUME IInv', Books'
    PROVE  RecordsLeases(RunningLeases', phase', task', lease')
  BY WorkersAreDistinctAfter, LeasesValue, MappingAfter

LEMMA OutcomesNow ==
    ASSUME IInv, Books
    PROVE  RecordsOutcomes(EndedTasks, phase, task, verdict, future)
  BY WorkersAreDistinct, OutcomesValue, Mapping

LEMMA OutcomesAfter ==
    ASSUME IInv', Books'
    PROVE  RecordsOutcomes(EndedTasks', phase', task', verdict', future')
  BY WorkersAreDistinctAfter, OutcomesValue, MappingAfter

-----------------------------------------------------------------------------
(***************************************************************************)
(* Steps the contract does not see.                                        *)
(***************************************************************************)

\* When the workers under way, their tasks and their leases stay, so does the
\* contract's map of running tasks.
LEMMA SameLeases ==
    ASSUME IInv, Books, IInv', Books',
           ActiveIn(phase') = ActiveIn(phase),
           \A t \in ActiveIn(phase) : task'[t] = task[t] /\ lease'[t] = lease[t]
    PROVE  RunningLeases' = RunningLeases
  <1>1. DOMAIN RunningLeases' = DOMAIN RunningLeases
    BY LeasesNow, LeasesAfter DEF RecordsLeases
  <1>2. \A p \in DOMAIN RunningLeases : RunningLeases'[p] = RunningLeases[p]
    BY LeasesNow, LeasesAfter DEF RecordsLeases
  <1> QED
    BY <1>1, <1>2, LeasesNow, LeasesAfter DEF RecordsLeases

\* When the tasks that ended and their outcomes stay, so does the map of them.
LEMMA SameOutcomes ==
    ASSUME IInv, Books, IInv', Books',
           ResolvingIn(phase') = ResolvingIn(phase),
           \A t \in ResolvingIn(phase) : task'[t] = task[t] /\ verdict'[t] = verdict[t],
           OverIn(future') = OverIn(future),
           \A p \in OverIn(future) : future'[p] = future[p]
    PROVE  EndedTasks' = EndedTasks
  <1>1. DOMAIN EndedTasks' = DOMAIN EndedTasks
    BY OutcomesNow, OutcomesAfter DEF RecordsOutcomes
  <1>2. \A p \in DOMAIN EndedTasks : EndedTasks'[p] = EndedTasks[p]
    BY OutcomesNow, OutcomesAfter DEF RecordsOutcomes
  <1> QED
    BY <1>1, <1>2, OutcomesNow, OutcomesAfter DEF RecordsOutcomes

\* Submitting, taking, running, resolving and collecting are such steps.
LEMMA Stutters ==
    ASSUME IInv, Books, IInv', Books', Stage' = Stage, UNCHANGED <<jobs, size>>,
           RunningLeases' = RunningLeases, EndedTasks' = EndedTasks
    PROVE  UNCHANGED Contract!vars
  BY DEF Contract!vars

LEMMA SubmitStutters ==
    ASSUME IInv, Books, IInv', Books', Submit \/ AllSubmitted
    PROVE  UNCHANGED Contract!vars
  <1>1. Stage' = Stage /\ UNCHANGED <<jobs, size, phase, task, lease, verdict>>
    BY DEF Submit, AllSubmitted, Stage
  <1>2. RunningLeases' = RunningLeases
    BY <1>1, SameLeases
  <1>3. \A p \in Positions : \/ future'[p] = future[p]
                             \/ future[p] \in {"none", "pending"} /\ future'[p] \in {"none", "pending"}
    <2>1. CASE Submit
      <3>1. future' = [future EXCEPT ![submitted + 1] = "pending"]
        BY <2>1 DEF Submit
      <3>2. submitted + 1 > submitted - Len(queue) /\ DOMAIN future = Positions
        BY LenProperties DEF IInv, TypeOK
      <3>3. (submitted + 1) \in Positions => future[submitted + 1] \in {"none", "pending"}
        BY <3>2 DEF IInv, QueueInv
      <3> QED
        BY <3>1, <3>2, <3>3
    <2>2. CASE AllSubmitted
      BY <2>2 DEF AllSubmitted
    <2> QED
      BY <2>1, <2>2
  <1>4. OverIn(future') = OverIn(future) /\ \A p \in OverIn(future) : future'[p] = future[p]
    BY <1>3 DEF OverIn
  <1>5. EndedTasks' = EndedTasks
    BY <1>1, <1>4, SameOutcomes
  <1> QED
    BY <1>1, <1>2, <1>5, Stutters

LEMMA CollectStutters ==
    ASSUME IInv, Books, IInv', Books', NEW p \in Positions, Collect(p)
    PROVE  UNCHANGED Contract!vars
  <1>1. Stage' = Stage /\ UNCHANGED <<jobs, size, phase, task, lease, verdict, future>>
    BY DEF Collect, Stage
  <1> QED
    BY <1>1, SameLeases, SameOutcomes, Stutters

LEMMA TakeStutters ==
    ASSUME IInv, Books, IInv', Books', NEW t \in Threads, Take(t)
    PROVE  UNCHANGED Contract!vars
  <1>1. /\ Stage' = Stage /\ UNCHANGED <<jobs, size, lease, verdict, future>>
        /\ phase' = [phase EXCEPT ![t] = "acquiring"]
        /\ task' = [task EXCEPT ![t] = Head(queue)]
        /\ phase[t] = "idle"
    BY DEF Take, Stage
  <1>2. phase \in [Threads -> Phases] /\ task \in [Threads -> Positions \union {NoTask}]
    BY DEF IInv, TypeOK
  <1>3. /\ ActiveIn(phase') = ActiveIn(phase) /\ t \notin ActiveIn(phase)
        /\ ResolvingIn(phase') = ResolvingIn(phase) /\ t \notin ResolvingIn(phase)
    BY <1>1, <1>2 DEF ActiveIn, ResolvingIn
  <1>4. \A s \in Threads : s # t => task'[s] = task[s]
    BY <1>1, <1>2
  <1>5. /\ \A s \in ActiveIn(phase) : task'[s] = task[s]
        /\ \A s \in ResolvingIn(phase) : task'[s] = task[s]
    BY <1>3, <1>4 DEF ActiveIn, ResolvingIn
  <1> QED
    BY <1>1, <1>3, <1>5, SameLeases, SameOutcomes, Stutters

LEMMA RunOneStutters ==
    ASSUME IInv, Books, IInv', Books', NEW t \in Threads, RunOne(t)
    PROVE  UNCHANGED Contract!vars
  <1>1. /\ Stage' = Stage /\ UNCHANGED <<jobs, size, lease, task, future>>
        /\ phase' = [phase EXCEPT ![t] = "releasing"]
        /\ \E v : verdict' = [verdict EXCEPT ![t] = v]
        /\ phase[t] = "running"
    BY DEF RunOne, Stage
  <1>2. phase \in [Threads -> Phases] /\ verdict \in [Threads -> Verdicts]
    BY DEF IInv, TypeOK
  <1>3. /\ ActiveIn(phase') = ActiveIn(phase)
        /\ ResolvingIn(phase') = ResolvingIn(phase) /\ t \notin ResolvingIn(phase)
    BY <1>1, <1>2 DEF ActiveIn, ResolvingIn
  <1>4. \A s \in ResolvingIn(phase) : verdict'[s] = verdict[s]
    BY <1>1, <1>2, <1>3 DEF ResolvingIn
  <1> QED
    BY <1>1, <1>3, <1>4, SameLeases, SameOutcomes, Stutters

\* The future gets the outcome its worker held: the map stays what it was.
LEMMA ResolveStutters ==
    ASSUME IInv, Books, IInv', Books', NEW t \in Threads, Resolve(t)
    PROVE  UNCHANGED Contract!vars
  <1>1. /\ Stage' = Stage /\ UNCHANGED <<jobs, size, lease>>
        /\ phase' = [phase EXCEPT ![t] = "idle"]
        /\ task' = [task EXCEPT ![t] = NoTask]
        /\ verdict' = [verdict EXCEPT ![t] = "none"]
        /\ future' = [future EXCEPT ![task[t]] = verdict[t]]
        /\ phase[t] = "resolving"
    BY DEF Resolve, Stage
  <1>2. /\ phase \in [Threads -> Phases] /\ verdict \in [Threads -> Verdicts]
        /\ task \in [Threads -> Positions \union {NoTask}] /\ DOMAIN future = Positions
    BY DEF IInv, TypeOK
  <1>3. /\ ActiveIn(phase') = ActiveIn(phase) /\ t \notin ActiveIn(phase)
        /\ ResolvingIn(phase') = ResolvingIn(phase) \ {t} /\ t \in ResolvingIn(phase)
    BY <1>1, <1>2 DEF ActiveIn, ResolvingIn
  <1>4. \A s \in Threads : s # t => task'[s] = task[s] /\ verdict'[s] = verdict[s]
    BY <1>1, <1>2
  <1>5. RunningLeases' = RunningLeases
    <2>1. \A s \in ActiveIn(phase) : task'[s] = task[s]
      BY <1>3, <1>4 DEF ActiveIn
    <2> QED
      BY <1>1, <1>3, <2>1, SameLeases
  <1>6. task[t] \in Positions /\ task[t] \notin OverIn(future) /\ verdict[t] \notin {"none", "pending"}
    <2>1. task[t] \in Positions
      BY <1>1, <1>2 DEF IInv, QueueInv
    <2>2. verdict[t] # "none" /\ verdict[t] \in Verdicts
      BY <1>1, <1>2 DEF IInv, LeaseInv
    <2>3. verdict[t] # "pending"
      BY <2>2 DEF Verdicts
    <2> QED
      BY <1>3, <2>1, <2>2, <2>3, WorkersAreDistinct
  <1>7. /\ OverIn(future') = OverIn(future) \union {task[t]} /\ future'[task[t]] = verdict[t]
        /\ \A p \in OverIn(future) : future'[p] = future[p]
    BY <1>1, <1>2, <1>6 DEF OverIn
  <1>8. EndedTasks' = EndedTasks
    <2>1. \A s \in ResolvingIn(phase) : s # t => task'[s] = task[s] /\ verdict'[s] = verdict[s]
      BY <1>4 DEF ResolvingIn
    <2>2. DOMAIN EndedTasks' = DOMAIN EndedTasks
      BY <1>3, <1>7, <2>1, OutcomesNow, OutcomesAfter DEF RecordsOutcomes
    <2>3. \A p \in DOMAIN EndedTasks : EndedTasks'[p] = EndedTasks[p]
      BY <1>3, <1>7, <2>1, OutcomesNow, OutcomesAfter DEF RecordsOutcomes
    <2> QED
      BY <2>2, <2>3, OutcomesNow, OutcomesAfter DEF RecordsOutcomes
  <1> QED
    BY <1>1, <1>5, <1>8, Stutters

-----------------------------------------------------------------------------
(***************************************************************************)
(* Steps the contract sees.                                                *)
(***************************************************************************)

\* The contract counts with its own instance of the standard module.
LEMMA SameCardinality == \A S : Contract!Cardinality(S) = Cardinality(S)
  BY DEF Contract!Cardinality, Cardinality

\* Between two calls no worker is busy.
LEMMA NobodyBetweenCalls ==
    ASSUME IInv, BetweenCalls
    PROVE  \A t \in Threads : phase[t] = "idle"
  BY DEF IInv, WidthInv, BetweenCalls, Open

\* A new call starts from empty maps.
LEMMA FreshMaps ==
    ASSUME IInv, Books, IInv', Books', BetweenCalls,
           UNCHANGED phase, future' = [p \in Positions |-> "none"]
    PROVE  RunningLeases' = Contract!Empty /\ EndedTasks' = Contract!Empty
  <1>1. ActiveIn(phase') = {} /\ ResolvingIn(phase') = {} /\ OverIn(future') = {}
    BY NobodyBetweenCalls DEF ActiveIn, ResolvingIn, OverIn
  <1>2. DOMAIN RunningLeases' = {} /\ RunningLeases' = [p \in DOMAIN RunningLeases' |-> RunningLeases'[p]]
    BY <1>1, LeasesAfter DEF RecordsLeases
  <1>3. DOMAIN EndedTasks' = {} /\ EndedTasks' = [p \in DOMAIN EndedTasks' |-> EndedTasks'[p]]
    BY <1>1, OutcomesAfter DEF RecordsOutcomes
  <1> QED
    BY <1>2, <1>3 DEF Contract!Empty

LEMMA CallIsOpen ==
    ASSUME IInv, Books, IInv', Books', NEW j \in 0..MaxJobs, NEW n \in 0..MaxTasks, Call(j, n)
    PROVE  Contract!Open(j, n)
  <1>1. RunningLeases' = Contract!Empty /\ EndedTasks' = Contract!Empty
    BY FreshMaps DEF Call
  <1>2. Stage # "open" /\ Stage' = "open" /\ jobs' = j /\ size' = n
    BY DEF Call, BetweenCalls, Stage
  <1>3. j >= 1 /\ (Cpus # {} => j <= Cardinality(Cpus))
    BY DEF Call, Acceptable, HasCapacityFor, Known
  <1> QED
    BY <1>1, <1>2, <1>3, SameCardinality DEF Contract!Open, Contract!Closed

LEMMA RefuseIsRefuse ==
    ASSUME IInv, Books, IInv', Books', NEW j \in 0..MaxJobs, NEW n \in 0..MaxTasks, Refuse(j, n)
    PROVE  Contract!Refuse(j, n)
  <1>1. RunningLeases' = Contract!Empty /\ EndedTasks' = Contract!Empty
    BY FreshMaps DEF Refuse
  <1>2. Stage # "open" /\ Stage' = "refused" /\ jobs' = j /\ size' = n
    BY DEF Refuse, BetweenCalls, Stage
  <1>3. j \in Int /\ Cardinality(Cpus) \in Int
    BY CpusAssumption, FS_CardinalityType
  <1>4. j < 1 \/ (Cpus # {} /\ j > Cardinality(Cpus))
    BY <1>3 DEF Refuse, Acceptable, HasCapacityFor, Known
  <1> QED
    BY <1>1, <1>2, <1>4, SameCardinality DEF Contract!Refuse, Contract!Closed

\* While a worker is about to acquire, fewer than `jobs` tasks are running.
LEMMA RoomForOne ==
    ASSUME IInv, Books, NEW t \in Threads, phase[t] = "acquiring"
    PROVE  Cardinality(DOMAIN RunningLeases) < jobs
  <1> DEFINE w == PoolWidth(jobs, size)
             S == (1..w) \ {t}
  <1>1. jobs \in Nat /\ size \in Nat /\ jobs >= 1 /\ t \in 1..w
    BY BoundsAssumption DEF IInv, TypeOK, WidthInv, Acceptable, Threads
  <1>2. w \in Nat /\ w <= jobs
    BY <1>1, WidthBound
  <1>3. IsFiniteSet(1..w) /\ Cardinality(1..w) = w
    BY <1>2, FS_Interval, SMT
  <1>4. IsFiniteSet(S) /\ Cardinality(S) = w - 1
    BY <1>1, <1>3, FS_RemoveElement
  <1>5. ActiveIn(phase) \subseteq S
    <2> SUFFICES ASSUME NEW s \in ActiveIn(phase) PROVE s \in S
      OBVIOUS
    <2>1. s \in Threads /\ phase[s] # "idle" /\ s # t
      BY DEF ActiveIn
    <2> QED
      BY <1>2, <2>1 DEF IInv, WidthInv, Threads
  <1>6. \A p \in DOMAIN RunningLeases : \E s \in S : task[s] = p
    BY <1>5, LeasesNow DEF RecordsLeases
  <1> DEFINE worker == [p \in DOMAIN RunningLeases |-> CHOOSE s \in S : task[s] = p]
  <1>7. worker \in [DOMAIN RunningLeases -> S] /\ \A p \in DOMAIN RunningLeases : task[worker[p]] = p
    BY <1>6
  <1> HIDE DEF worker
  <1>8. worker \in Injection(DOMAIN RunningLeases, S)
    BY <1>7 DEF Injection, IsInjective
  <1>9. IsFiniteSet(DOMAIN RunningLeases) /\ Cardinality(DOMAIN RunningLeases) <= w - 1
    BY <1>4, <1>8, FS_Injection
  <1>10. Cardinality(DOMAIN RunningLeases) \in Nat
    BY <1>9, FS_CardinalityType
  <1> QED
    BY <1>1, <1>2, <1>9, <1>10

LEMMA AcquireIsStart ==
    ASSUME IInv, Books, IInv', Books', NEW t \in Threads, Acquire(t)
    PROVE  \E p \in 1..MaxTasks, c \in Cpus \union {NoCpu} : Contract!Start(p, c)
  <1> USE CpusAssumption
  <1>1. ~ (Known /\ free = {}) /\ phase[t] = "acquiring"
    BY FreeCpuExists DEF Acquire
  <1>2. PICK c \in Grantable : lease' = [lease EXCEPT ![t] = c] /\ free' = free \ {c}
    BY <1>1 DEF Acquire
  <1>3. phase' = [phase EXCEPT ![t] = "running"] /\ UNCHANGED <<caller, jobs, size, task, verdict, future>>
    BY <1>1 DEF Acquire
  <1>4. /\ phase \in [Threads -> Phases] /\ lease \in [Threads -> Cpus \union {NoCpu}]
        /\ task \in [Threads -> Positions \union {NoTask}] /\ free \subseteq Cpus
    BY DEF IInv, TypeOK
  <1>5. c \in IF Known THEN free ELSE {NoCpu}
    BY <1>2 DEF Grantable
  <1>6. PICK p \in Positions : p = task[t]
    BY <1>1, <1>4 DEF IInv, QueueInv
  <1>7. p <= size
    <2>1. p <= submitted - Len(queue) /\ submitted <= size /\ p \in Nat
      BY <1>6, BoundsAssumption DEF IInv, QueueInv, Positions
    <2>2. submitted \in Nat /\ size \in Nat /\ Len(queue) \in Nat
      BY BoundsAssumption, LenProperties DEF IInv, TypeOK
    <2> QED
      BY <2>1, <2>2
  <1>8. p \notin DOMAIN RunningLeases /\ p \notin DOMAIN EndedTasks
    <2>1. \A s \in ActiveIn(phase) \union ResolvingIn(phase) : task[s] # p
      BY <1>1, <1>6, WorkersAreDistinct DEF OneWorkerEach, ActiveIn, ResolvingIn
    <2>2. p \notin OverIn(future)
      BY <1>6 DEF Books, OrderInv, OverIn, Positions, NoTask
    <2> QED
      BY <2>1, <2>2, LeasesNow, OutcomesNow DEF RecordsLeases, RecordsOutcomes
  <1>9. Stage = "open" /\ Stage' = "open"
    BY <1>1, <1>3 DEF IInv, WidthInv, Open, Stage
  <1>10. IF Cpus = {} THEN c = NoCpu ELSE c \in Cpus \ Contract!Leased
    <2>1. CASE Cpus = {}
      BY <1>5, <2>1 DEF Known
    <2>2. CASE Cpus # {}
      <3>1. c \in free /\ c \in Cpus /\ c # NoCpu
        BY <1>4, <1>5, <2>2 DEF Known
      <3>2. \A s \in Threads : lease[s] # c
        BY <3>1 DEF IInv, ExclusiveLeases, Holders
      <3>3. \A q \in DOMAIN RunningLeases : \E s \in Threads : RunningLeases[q] = lease[s]
        BY LeasesNow DEF RecordsLeases, ActiveIn
      <3>4. c \notin Contract!Leased
        BY <3>2, <3>3 DEF Contract!Leased
      <3> QED
        BY <2>2, <3>1, <3>4
    <2> QED
      BY <2>1, <2>2
  <1>11. /\ ActiveIn(phase') = ActiveIn(phase) \union {t} /\ t \notin ActiveIn(phase)
         /\ ResolvingIn(phase') = ResolvingIn(phase)
    BY <1>1, <1>3, <1>4 DEF ActiveIn, ResolvingIn
  <1>12. RunningLeases' = [q \in DOMAIN RunningLeases \union {p} |-> IF q = p THEN c ELSE RunningLeases[q]]
    <2>1. lease'[t] = c /\ \A s \in ActiveIn(phase) : lease'[s] = lease[s]
      BY <1>2, <1>4, <1>11 DEF ActiveIn
    <2>2. /\ RecordsLeases(RunningLeases, phase, task, lease)
          /\ RecordsLeases(RunningLeases', phase', task, lease')
      BY <1>3, LeasesNow, LeasesAfter
    <2> QED
      BY <1>6, <1>8, <1>11, <2>1, <2>2, OneMoreLease
  <1>13. EndedTasks' = EndedTasks
    BY <1>3, <1>11, SameOutcomes
  <1>14. Contract!Start(p, c)
    BY <1>1, <1>3, <1>7, <1>8, <1>9, <1>10, <1>12, <1>13, RoomForOne, SameCardinality DEF Contract!Start, Contract!Started
  <1> QED
    BY <1>4, <1>5, <1>14 DEF Positions

LEMMA ReleaseIsEnd ==
    ASSUME IInv, Books, IInv', Books', NEW t \in Threads, Release(t)
    PROVE  \E p \in 1..MaxTasks, v \in {"record", "error"} : Contract!End(p, v)
  <1> USE CpusAssumption
  <1>1. /\ phase[t] = "releasing" /\ phase' = [phase EXCEPT ![t] = "resolving"]
        /\ lease' = [lease EXCEPT ![t] = NoCpu]
        /\ UNCHANGED <<caller, jobs, size, task, future>>
    BY DEF Release
  <1>2. /\ phase \in [Threads -> Phases] /\ lease \in [Threads -> Cpus \union {NoCpu}]
        /\ task \in [Threads -> Positions \union {NoTask}] /\ free \subseteq Cpus
        /\ verdict \in [Threads -> Verdicts]
    BY DEF IInv, TypeOK
  <1>3. lease[t] \notin free
    BY <1>2 DEF IInv, ExclusiveLeases, Holders
  <1>4. UNCHANGED verdict
    BY <1>3 DEF Release
  <1>5. PICK p \in Positions : p = task[t]
    BY <1>1, <1>2 DEF IInv, QueueInv
  <1>6. PICK v \in {"record", "error"} : v = verdict[t]
    BY <1>1, <1>2 DEF IInv, LeaseInv, PoolNeverMisused, Verdicts
  <1>7. Stage = "open" /\ Stage' = "open"
    BY <1>1 DEF IInv, WidthInv, Open, Stage
  <1>8. /\ t \in ActiveIn(phase) /\ t \notin ResolvingIn(phase)
        /\ ActiveIn(phase') = ActiveIn(phase) \ {t} /\ ResolvingIn(phase') = ResolvingIn(phase) \union {t}
    BY <1>1, <1>2 DEF ActiveIn, ResolvingIn
  <1>9. /\ \A s \in ActiveIn(phase) : s # t => task[s] # p /\ lease'[s] = lease[s]
        /\ \A s \in ResolvingIn(phase) : task[s] # p
        /\ p \notin OverIn(future)
    <2>1. \A s \in ActiveIn(phase) \union ResolvingIn(phase) : s # t => task[s] # p
      BY <1>1, <1>5, WorkersAreDistinct DEF OneWorkerEach, ActiveIn, ResolvingIn
    <2>2. p \notin OverIn(future)
      BY <1>5 DEF Books, OrderInv, OverIn, Positions, NoTask
    <2>3. \A s \in Threads : s # t => lease'[s] = lease[s]
      BY <1>1, <1>2
    <2> QED
      BY <1>8, <2>1, <2>2, <2>3 DEF ActiveIn
  <1>10. p \in DOMAIN RunningLeases
    BY <1>5, <1>8, LeasesNow DEF RecordsLeases
  <1>11. RunningLeases' = [q \in DOMAIN RunningLeases \ {p} |-> RunningLeases[q]]
    <2>1. /\ RecordsLeases(RunningLeases, phase, task, lease)
          /\ RecordsLeases(RunningLeases', phase', task, lease')
      BY <1>1, LeasesNow, LeasesAfter
    <2>2. \A s \in ActiveIn(phase') : task[s] # task[t] /\ lease'[s] = lease[s]
      BY <1>5, <1>8, <1>9
    <2>3. t \in ActiveIn(phase) /\ ActiveIn(phase') = ActiveIn(phase) \ {t}
      BY <1>8
    <2>4. RunningLeases' = [q \in DOMAIN RunningLeases \ {task[t]} |-> RunningLeases[q]]
      BY <2>1, <2>2, <2>3, OneLeaseLess, SMT
    <2> QED
      BY <1>5, <2>4
  <1>12. EndedTasks' = [q \in DOMAIN EndedTasks \union {p} |-> IF q = p THEN v ELSE EndedTasks[q]]
    <2>1. /\ RecordsOutcomes(EndedTasks, phase, task, verdict, future)
          /\ RecordsOutcomes(EndedTasks', phase', task, verdict, future)
      BY <1>1, <1>4, OutcomesNow, OutcomesAfter
    <2>2. p \notin DOMAIN EndedTasks
      BY <1>9, <2>1 DEF RecordsOutcomes
    <2>3. ResolvingIn(phase') = ResolvingIn(phase) \union {t} /\ task[t] \notin DOMAIN EndedTasks
      BY <1>5, <1>8, <2>2
    <2>4. EndedTasks' = [q \in DOMAIN EndedTasks \union {task[t]} |->
                            IF q = task[t] THEN verdict[t] ELSE EndedTasks[q]]
      BY <2>1, <2>3, OneMoreOutcome, SMT
    <2> QED
      BY <1>5, <1>6, <2>4
  <1>13. Contract!End(p, v)
    BY <1>1, <1>7, <1>10, <1>11, <1>12 DEF Contract!End
  <1> QED
    BY <1>13 DEF Positions

\* The call ends when every task has, and says "raised" when one of them
\* failed: what the caller's books say of the futures.
LEMMA ConcludeIsClose ==
    ASSUME IInv, Books, IInv', Books', Conclude
    PROVE  Contract!Close
  <1>1. /\ caller = "collecting" /\ Collected = 1..size /\ \A t \in Threads : phase[t] = "idle"
        /\ UNCHANGED <<jobs, size, phase, task, lease, verdict, future>>
        /\ caller' = IF errors # <<>> THEN "raised" ELSE "returned"
    BY DEF Conclude
  <1>2. size \in Nat /\ size <= MaxTasks /\ errors \in Seq(Positions) /\ future \in [Positions -> Verdicts \union {"pending"}]
    BY BoundsAssumption DEF IInv, TypeOK
  <1>3. RunningLeases' = RunningLeases /\ EndedTasks' = EndedTasks
    BY <1>1, SameLeases, SameOutcomes
  <1>4. \A p \in Positions : p > size => future[p] \in {"none", "pending"}
    <2>1. submitted - Len(queue) <= size
      <3>1. submitted <= size /\ submitted \in Nat /\ Len(queue) \in Nat
        BY BoundsAssumption, LenProperties DEF IInv, TypeOK, QueueInv
      <3> QED
        BY <1>2, <3>1
    <2>2. submitted - Len(queue) \in Int
      BY BoundsAssumption, LenProperties DEF IInv, TypeOK
    <2>3. \A p \in Positions : p > size => p > submitted - Len(queue)
      BY <1>2, <2>1, <2>2 DEF Positions
    <2> QED
      BY <2>3 DEF IInv, QueueInv
  <1>5. OverIn(future) = 1..size
    <2>1. \A p \in 1..size : p \in Positions /\ future[p] \notin {"none", "pending"}
      BY <1>1, <1>2, BoundsAssumption DEF IInv, QueueInv, Positions
    <2>2. \A p \in Positions : p \in 1..size \/ p > size
      BY <1>2 DEF Positions
    <2> QED
      BY <1>4, <2>1, <2>2 DEF OverIn
  <1>6. DOMAIN EndedTasks = 1..size /\ \A p \in 1..size : EndedTasks[p] = future[p]
    <2>1. ResolvingIn(phase) = {}
      BY <1>1 DEF ResolvingIn
    <2> QED
      BY <1>5, <2>1, OutcomesNow DEF RecordsOutcomes
  <1>7. Stage = "open" /\ Stage' = IF errors # <<>> THEN "raised" ELSE "returned"
    BY <1>1 DEF Stage
  <1>8. errors # <<>> <=> \E p \in 1..size : EndedTasks[p] = "error"
    <2>1. ASSUME errors # <<>> PROVE \E p \in 1..size : EndedTasks[p] = "error"
      <3>1. 1 \in 1..Len(errors)
        BY <1>2, <2>1, EmptySeq, LenProperties
      <3>2. errors[1] \in 1..size /\ future[errors[1]] # "record"
        BY <1>1, <3>1 DEF Collected, Books, BooksInv
      <3>3. future[errors[1]] = "error"
        BY <1>2, <1>5, <3>2 DEF OverIn, Verdicts, IInv, PoolNeverMisused
      <3> QED
        BY <1>6, <3>2, <3>3
    <2>2. ASSUME errors = <<>> PROVE \A p \in 1..size : EndedTasks[p] # "error"
      <3>1. Len(errors) = 0
        BY <2>2
      <3>2. \A p \in 1..size : p \in results
        BY <1>1, <3>1 DEF Collected
      <3>3. \A p \in results : future[p] = "record"
        BY DEF Books, BooksInv
      <3> QED
        BY <1>6, <3>2, <3>3
    <2> QED
      BY <2>1, <2>2
  <1>9. Stage' = IF \E p \in 1..size : EndedTasks[p] = "error" THEN "raised" ELSE "returned"
    BY <1>7, <1>8
  <1> QED
    BY <1>1, <1>3, <1>6, <1>7, <1>9 DEF Contract!Close

-----------------------------------------------------------------------------
(***************************************************************************)
(* The refinement.                                                         *)
(***************************************************************************)

LEMMA InitIsInit == Init => Contract!Init
  <1> SUFFICES ASSUME Init PROVE Contract!Init
    OBVIOUS
  <1>1. Stage = "idle" /\ jobs = 0 /\ size = 0
    BY DEF Init, Stage
  <1>2. Active = {} /\ \A t \in Threads : phase[t] # "resolving"
    BY DEF Init, Active
  <1>3. RunningLeases = Contract!Empty
    BY <1>2 DEF RunningLeases, Contract!Empty
  <1>4. EndedTasks = Contract!Empty
    <2>1. \A p \in Positions : future[p] \in {"none", "pending"}
      BY DEF Init
    <2>2. ResolvingIn(phase) = {} /\ OverIn(future) = {}
      BY <1>2, <2>1 DEF ResolvingIn, OverIn
    <2>3. OutcomesOf(phase, task, verdict, future) = Contract!Empty
      BY <2>2 DEF OutcomesOf, Contract!Empty
    <2> QED
      BY <2>3, Mapping
  <1> QED
    BY <1>1, <1>3, <1>4 DEF Contract!Init

LEMMA StepIsStep ==
    ASSUME IInv, Books, IInv', Books', [Next]_vars
    PROVE  [Contract!Next]_(Contract!vars)
  <1>1. ASSUME NEW j \in 0..MaxJobs, NEW n \in 0..MaxTasks, Refuse(j, n) \/ Call(j, n)
        PROVE  Contract!Next
    BY <1>1, RefuseIsRefuse, CallIsOpen DEF Contract!Next
  <1>2. ASSUME Caller
        PROVE  Contract!Next \/ UNCHANGED Contract!vars
    <2>1. CASE Submit \/ AllSubmitted
      BY <2>1, SubmitStutters
    <2>2. CASE Conclude
      BY <2>2, ConcludeIsClose DEF Contract!Next
    <2>3. CASE \E p \in Positions : Collect(p)
      BY <2>3, CollectStutters
    <2> QED
      BY <1>2, <2>1, <2>2, <2>3 DEF Caller
  <1>3. ASSUME NEW t \in Threads, Worker(t)
        PROVE  Contract!Next \/ UNCHANGED Contract!vars
    <2>1. CASE Acquire(t)
      BY <2>1, AcquireIsStart DEF Contract!Next
    <2>2. CASE Release(t)
      BY <2>2, ReleaseIsEnd DEF Contract!Next
    <2> QED
      BY <1>3, <2>1, <2>2, TakeStutters, RunOneStutters, ResolveStutters DEF Worker
  <1>4. ASSUME UNCHANGED vars
        PROVE  UNCHANGED Contract!vars
    <2>1. UNCHANGED <<phase, task, lease, verdict, future, jobs, size>> /\ Stage' = Stage
      BY <1>4 DEF vars, Stage
    <2> QED
      BY <2>1, SameLeases, SameOutcomes, Stutters
  <1> QED
    BY <1>1, <1>2, <1>3, <1>4 DEF Next, Done

\* Every behaviour of the executor, its workers and the pool is one the
\* contract allows: whatever the interleaving, a caller of run_batch sees at
\* most `jobs` tasks at a time, each with a CPU of its own, every task ended
\* before the call does, and an error exactly when a task failed.
THEOREM RunBatchImplementsContract == Spec => ImplementsContract
  <1>1. IInv /\ IInv' /\ Books /\ Books' /\ [Next]_vars => [Contract!Next]_(Contract!vars)
    BY StepIsStep
  <1> QED
    BY <1>1, InitIsInit, Invariance, BooksInvariance, PTL DEF Spec, ImplementsContract, Contract!Spec
=============================================================================
