--------------------------- MODULE RunChildProofs ---------------------------
(***************************************************************************)
(* Proofs about RunChild for every deadline, drain limit, pipe capacity    *)
(* and amount of output: what run_child answers is earned, and nothing is  *)
(* left running when it answers.  The supervisor's and the child's steps   *)
(* interleave, so the inductive invariant IInv says what a kill, a drain   *)
(* and a memory verdict leave true whatever the child does afterwards.     *)
(***************************************************************************)
EXTENDS RunChild, TLAPS

-----------------------------------------------------------------------------
\* A status the supervisor or a printed record gives is one of the schema's.
LEMMA StatusTypes ==
    ASSUME TypeOK
    PROVE  /\ \A s \in Statuses : Censored(s) \in [status : Statuses, variant : Variants]
           /\ outcome \in Statuses /\ "error" \in Statuses
           /\ printed # "nothing" => PrintedStatus \in Statuses
  BY DEF TypeOK, Censored, Statuses, Variants, PrintedStatus

\* The initial state satisfies the inductive invariant.
LEMMA InitIInv == Init => IInv
  <1> SUFFICES ASSUME Init PROVE IInv
    OBVIOUS
  <1>1. TypeOK
    <2>1. reported \in BOOLEAN /\ descendant \in BOOLEAN
      BY DEF Init
    <2>2. clock \in 0..(Deadline + 1) /\ waited \in 0..DrainLimit /\ piped \in 0..PipeCapacity
      BY BoundsAssumption DEF Init
    <2> QED
      BY <2>1, <2>2 DEF Init, TypeOK
  <1>2. ReapedInv /\ AnswerInv
    BY DEF Init, ReapedInv, AnswerInv, Returned, Dead
  <1>3. ClockInv /\ MemoryInv
    BY DEF Init, ClockInv, MemoryInv
  <1> QED
    BY <1>1, <1>2, <1>3 DEF IInv

\* The record line keeps its status when it and its reported peak are unchanged.
LEMMA StatusKept ==
    ASSUME UNCHANGED <<printed, reported>>
    PROVE  PrintedStatus' = PrintedStatus
  BY DEF PrintedStatus

-----------------------------------------------------------------------------
\* A call that spawns nothing answers at once.
LEMMA StartStep ==
    ASSUME IInv, NotSpawned \/ Spawn
    PROVE  IInv'
  <1> USE DEF IInv
  <1>1. CASE NotSpawned
    <2>1. /\ answer' = Censored("error") /\ supervisor' = "returned" /\ supervisor = "start"
          /\ UNCHANGED <<wanted, clock, waited, outcome, childVars>>
      BY <1>1 DEF NotSpawned, Return
    <2>2. child = "none" /\ ~ descendant
      BY <2>1 DEF ReapedInv
    <2>3. TypeOK'
      BY <2>1, StatusTypes DEF TypeOK, childVars
    <2> QED
      BY <2>1, <2>2, <2>3
         DEF ClockInv, ReapedInv, MemoryInv, AnswerInv, Returned, Dead, childVars, Censored
  <1>2. CASE Spawn
    BY <1>2 DEF Spawn, TypeOK, ClockInv, ReapedInv, MemoryInv, AnswerInv, Returned, Dead
  <1> QED
    BY <1>1, <1>2

\* The polling loop: a kill is always accompanied by an outcome, and a memory
\* verdict by an RSS above the ceiling.
LEMMA PollingStep ==
    ASSUME IInv, Poll \/ Sample \/ CheckDeadline \/ Sleep
    PROVE  IInv'
  <1> USE BoundsAssumption DEF IInv, Dead, Returned
  <1>1. CASE Poll
    BY <1>1 DEF Poll, TypeOK, ClockInv, ReapedInv, MemoryInv, AnswerInv, childVars
  <1>2. CASE Sample
    BY <1>2 DEF Sample, Kill, TypeOK, ClockInv, ReapedInv, MemoryInv, AnswerInv
  <1>3. CASE CheckDeadline
    BY <1>3 DEF CheckDeadline, Kill, TypeOK, ClockInv, ReapedInv, MemoryInv, AnswerInv
  <1>4. CASE Sleep
    BY <1>4 DEF Sleep, TypeOK, ClockInv, ReapedInv, MemoryInv, AnswerInv, childVars
  <1> QED
    BY <1>1, <1>2, <1>3, <1>4

\* communicate() ends at end of file, with the child reaped; its timeout kills.
LEMMA DrainStep ==
    ASSUME IInv, Drained \/ DrainWait \/ DrainTimeout
    PROVE  IInv'
  <1> USE BoundsAssumption DEF IInv, Dead, Returned, AtEof, Draining
  <1>1. CASE Drained
    BY <1>1 DEF Drained, TypeOK, ClockInv, ReapedInv, MemoryInv, AnswerInv
  <1>2. CASE DrainWait
    BY <1>2 DEF DrainWait, TypeOK, ClockInv, ReapedInv, MemoryInv, AnswerInv, childVars
  <1>3. CASE DrainTimeout
    BY <1>3 DEF DrainTimeout, Kill, TypeOK, ClockInv, ReapedInv, MemoryInv, AnswerInv
  <1> QED
    BY <1>1, <1>2, <1>3

\* The answer is computed from an outcome and a record line that are final:
\* the child is dead and its pipe closed.
LEMMA ClassifyStep ==
    ASSUME IInv, Classify
    PROVE  IInv'
  <1> USE DEF IInv
  <1>1. /\ supervisor = "classifying" /\ supervisor' = "returned"
        /\ answer' = IF outcome # "ok" THEN Censored(outcome)
                     ELSE IF printed = "nothing" THEN Censored("error")
                     ELSE [status |-> PrintedStatus, variant |-> wanted]
        /\ UNCHANGED <<wanted, clock, waited, outcome, childVars>>
    BY DEF Classify, Return
  <1>2. child # "none"
    BY <1>1 DEF ReapedInv, Returned
  <1>3. answer' \in [status : Statuses, variant : Variants]
    BY <1>1, StatusTypes DEF TypeOK
  <1>4. TypeOK'
    BY <1>1, <1>3 DEF TypeOK, childVars
  <1>5. AnswerInv'
    <2>1. PrintedStatus' = PrintedStatus
      BY <1>1, StatusKept DEF childVars
    <2>2. UNCHANGED <<wanted, outcome, child, printed>>
      BY <1>1 DEF childVars
    <2> QED
      BY <1>1, <1>2, <2>1, <2>2 DEF AnswerInv
  <1> QED
    BY <1>1, <1>2, <1>4, <1>5 DEF ClockInv, ReapedInv, MemoryInv, Returned, Dead, childVars

-----------------------------------------------------------------------------
\* A child writes only while it runs, so never after its record was classified.
LEMMA ChildStep ==
    ASSUME IInv, Child
    PROVE  IInv'
  <1> USE BoundsAssumption DEF IInv, Running, Dead, Returned, supVars
  <1>1. child = "running"
    BY DEF Child, Chatter, ResizeRss, LeaveDescendant, Exit, PrintRecord
  <1>2. supervisor \notin {"start", "classifying", "returned"}
    BY <1>1 DEF ReapedInv
  <1>3. CASE Chatter
    BY <1>2, <1>3 DEF Chatter, CanWrite, Draining, TypeOK, ClockInv, ReapedInv, MemoryInv, AnswerInv
  <1>4. CASE ResizeRss
    BY <1>2, <1>4 DEF ResizeRss, TypeOK, ClockInv, ReapedInv, MemoryInv, AnswerInv
  <1>5. CASE LeaveDescendant
    BY <1>1, <1>2, <1>5 DEF LeaveDescendant, TypeOK, ClockInv, ReapedInv, MemoryInv, AnswerInv
  <1>6. CASE Exit
    BY <1>2, <1>6 DEF Exit, TypeOK, ClockInv, ReapedInv, MemoryInv, AnswerInv
  <1>7. ASSUME NEW line \in {"ok", "error", "malformed"}, PrintRecord(line)
        PROVE  IInv'
    <2>1. reported' \in BOOLEAN /\ (reported' => rss # "low")
      BY <1>7 DEF PrintRecord
    <2>2. TypeOK'
      BY <1>7, <2>1 DEF PrintRecord, CanWrite, Draining, TypeOK
    <2> QED
      BY <1>2, <1>7, <2>1, <2>2 DEF PrintRecord, ClockInv, ReapedInv, MemoryInv, AnswerInv
  <1> QED
    BY <1>3, <1>4, <1>5, <1>6, <1>7 DEF Child

\* What the system does: a SIGKILL takes effect, a descendant exits.
LEMMA SystemStep ==
    ASSUME IInv, Die \/ DescendantExits
    PROVE  IInv'
  <1> USE DEF IInv, Dead, Returned, supVars
  <1>1. CASE Die
    BY <1>1 DEF Die, TypeOK, ClockInv, ReapedInv, MemoryInv, AnswerInv
  <1>2. CASE DescendantExits
    <2>1. TypeOK' /\ ClockInv' /\ ReapedInv' /\ MemoryInv'
      <3>1. descendant' \in BOOLEAN /\ ~ descendant'
        BY <1>2 DEF DescendantExits
      <3> QED
        BY <1>2, <3>1 DEF DescendantExits, TypeOK, ClockInv, ReapedInv, MemoryInv
    <2>2. PrintedStatus' = PrintedStatus
      BY <1>2, StatusKept DEF DescendantExits
    <2>3. AnswerInv'
      BY <1>2, <2>2 DEF DescendantExits, AnswerInv, Censored
    <2> QED
      BY <2>1, <2>3
  <1> QED
    BY <1>1, <1>2

\* Every step of the specification, and stuttering, preserves IInv.
LEMMA NextIInv == IInv /\ [Next]_vars => IInv'
  <1> SUFFICES ASSUME IInv, [Next]_vars PROVE IInv'
    OBVIOUS
  <1>1. CASE Supervise
    BY <1>1, StartStep, PollingStep, DrainStep, ClassifyStep DEF Supervise
  <1>2. CASE Child
    BY <1>2, ChildStep
  <1>3. CASE Die \/ DescendantExits
    BY <1>3, SystemStep
  <1>4. CASE UNCHANGED vars
    <2>1. PrintedStatus' = PrintedStatus
      BY <1>4, StatusKept DEF vars
    <2> QED
      BY <1>4, <2>1 DEF vars, IInv, TypeOK, ClockInv, ReapedInv, MemoryInv, AnswerInv, Returned,
                        Dead, Censored
  <1> QED
    BY <1>1, <1>2, <1>3, <1>4 DEF Next, Done

-----------------------------------------------------------------------------
\* The inductive invariant holds in every reachable state.
THEOREM Invariance == Spec => []IInv
  BY InitIInv, NextIInv, PTL DEF Spec

\* Every variable of run_child and of its child keeps its type; in particular
\* a write never overfills the pipe and the clock never passes the deadline by
\* more than one tick.
THEOREM TypeCorrect == Spec => []TypeOK
  <1>1. IInv => TypeOK
    BY DEF IInv
  <1> QED
    BY <1>1, Invariance, PTL

\* An "ok" answer is that of a child that ended by itself, printed a valid
\* record and stayed under the ceiling; a killed child never gets one, not
\* even when it printed its record between the last poll and the kill.
THEOREM OkAnswersAreEarned == Spec => []OkIsEarned
  <1>1. IInv => OkIsEarned
    <2> SUFFICES ASSUME IInv, Returned PROVE OkIsEarned
      BY DEF OkIsEarned
    <2> USE DEF IInv
    <2>1. child \in {"none", "exited", "killed"}
      BY DEF ReapedInv, Dead, Returned
    <2>2. CASE child = "none" \/ (outcome = "ok" /\ printed = "nothing")
      BY <2>1, <2>2 DEF AnswerInv, ReapedInv, OkIsEarned, Censored
    <2>3. CASE child # "none" /\ outcome # "ok"
      BY <2>1, <2>3 DEF AnswerInv, TypeOK, OkIsEarned, Censored
    <2>4. CASE child # "none" /\ outcome = "ok" /\ printed # "nothing"
      <3>1. child = "exited" /\ answer.status = PrintedStatus
        BY <2>1, <2>4 DEF AnswerInv, ReapedInv
      <3>2. PrintedStatus = "ok" => printed = "ok" /\ ~ reported
        BY DEF PrintedStatus, TypeOK
      <3> QED
        BY <3>1, <3>2 DEF OkIsEarned
    <2> QED
      BY <2>2, <2>3, <2>4
  <1> QED
    BY <1>1, Invariance, PTL

\* When run_child returns, its child is reaped and no descendant holds its pipe.
THEOREM NothingOutlivesTheCall == Spec => []NothingLeftRunning
  <1>1. IInv => NothingLeftRunning
    BY DEF IInv, ReapedInv, NothingLeftRunning, Returned
  <1> QED
    BY <1>1, Invariance, PTL

\* No child is censored for memory whose RSS was never above the ceiling.
THEOREM MemoryVerdictsAreReal == Spec => []MemoryVerdictIsReal
  <1>1. IInv => MemoryVerdictIsReal
    <2> SUFFICES ASSUME IInv, Returned, answer.status = "memory_exceeded" PROVE rss # "low"
      BY DEF MemoryVerdictIsReal
    <2> USE DEF IInv
    <2>1. CASE child = "none" \/ (outcome = "ok" /\ printed = "nothing")
      BY <2>1 DEF AnswerInv, Censored
    <2>2. CASE child # "none" /\ outcome # "ok"
      BY <2>2 DEF AnswerInv, MemoryInv, Censored
    <2>3. CASE child # "none" /\ outcome = "ok" /\ printed # "nothing"
      <3>1. PrintedStatus = "memory_exceeded"
        BY <2>3 DEF AnswerInv
      <3>2. reported
        BY <3>1 DEF PrintedStatus, TypeOK
      <3> QED
        BY <3>2 DEF MemoryInv
    <2> QED
      BY <2>1, <2>2, <2>3
  <1> QED
    BY <1>1, Invariance, PTL
=============================================================================
