------------------------------ MODULE RunChild ------------------------------
(***************************************************************************)
(* One call of orchestrator.run_child: the supervisor spawns a measurement *)
(* child, polls it every 50 ms against an RSS ceiling and a wall-clock     *)
(* deadline, kills it when it exceeds one, drains its pipes, and turns     *)
(* what it finds into one record.  The child runs at its own pace: it      *)
(* writes to a pipe of bounded capacity, may print its record, exit, crash *)
(* or hang, may leave a descendant holding the pipe open (a launcher's     *)
(* background process), and dies some time after it is killed.             *)
(*                                                                         *)
(* Time passes only while the supervisor waits: one tick of `clock` is one *)
(* sleep of the polling loop, one tick of `waited` a part of the ten       *)
(* seconds communicate() is given.                                         *)
(***************************************************************************)
EXTENDS Integers

CONSTANTS Deadline,      \* wall_timeout_s, in polling ticks
          DrainLimit,    \* the timeout of the first communicate(), in ticks
          PipeCapacity,  \* what a pipe holds before its writer blocks
          MaxChatter     \* bound on what a child writes besides its record

ASSUME BoundsAssumption == /\ Deadline \in Nat
                           /\ DrainLimit \in Nat
                           /\ PipeCapacity \in Nat \ {0}
                           /\ MaxChatter \in Nat

Variants == {"canonical", "shuffled", "duplicated"}
Statuses == {"ok", "timeout", "memory_exceeded", "error"}
NoRecord == [status |-> "none", variant |-> "none"]

VARIABLES
    supervisor,  \* where run_child is
    wanted,      \* its csr_variant argument
    clock,       \* ticks since the child was spawned
    waited,      \* ticks spent in the first communicate()
    outcome,     \* the local variable `outcome`
    answer,      \* the record returned
    child,       \* "none", "running", "dying" (SIGKILL sent), "killed" or "exited"
    chatter,     \* what the child has still to write before its record
    piped,       \* what sits unread in the pipe
    printed,     \* the record line: "nothing", "ok", "error" or "malformed"
    rss,         \* its RSS: "low", "high" (above the ceiling) or "spiked" (it was)
    reported,    \* the record it printed reports a peak above the ceiling
    descendant   \* a process other than the child holds the pipe open

supVars   == <<supervisor, clock, waited, outcome, answer>>
childVars == <<child, chatter, piped, printed, rss, reported, descendant>>
vars == <<supervisor, wanted, clock, waited, outcome, answer, child, chatter,
          piped, printed, rss, reported, descendant>>

Init ==
    /\ supervisor = "start"
    /\ wanted \in Variants
    /\ clock = 0
    /\ waited = 0
    /\ outcome = "ok"
    /\ answer = NoRecord
    /\ child = "none"
    /\ chatter \in 0..MaxChatter
    /\ piped = 0
    /\ printed = "nothing"
    /\ rss = "low"
    /\ reported = FALSE
    /\ descendant = FALSE

Dead == child \in {"exited", "killed"}

-----------------------------------------------------------------------------
(***************************************************************************)
(* The supervisor.                                                         *)
(***************************************************************************)

\* censored_record: its csr_variant parameter defaults to "canonical", and no
\* call in run_child passes one.
Censored(status) == [status |-> status, variant |-> "canonical"]

Return(record) ==
    /\ answer' = record
    /\ supervisor' = "returned"

\* The launcher or binary is missing, or Popen raises OSError.
NotSpawned ==
    /\ supervisor = "start"
    /\ Return(Censored("error"))
    /\ UNCHANGED <<wanted, clock, waited, outcome, childVars>>

Spawn ==
    /\ supervisor = "start"
    /\ child' = "running"
    /\ supervisor' = "polling"
    /\ UNCHANGED <<wanted, clock, waited, outcome, answer, chatter, piped, printed,
                   rss, reported, descendant>>

\* proc.poll(): a child that has exited ends the loop
Poll ==
    /\ supervisor = "polling"
    /\ supervisor' = IF Dead THEN "draining" ELSE "sampling"
    /\ UNCHANGED <<wanted, clock, waited, outcome, answer, childVars>>

\* Fault: the child is asked to terminate (SIGTERM), and ignores it.
Terminate == child' = child

\* proc.kill() does nothing to a process that is already dead
Kill == child' = IF child = "running" THEN "dying" ELSE child

\* Fault: the comparison with the ceiling is dropped.
SampleAny ==
    /\ supervisor = "sampling"
    /\ outcome' = "memory_exceeded"
    /\ Kill
    /\ supervisor' = "draining"
    /\ UNCHANGED <<wanted, clock, waited, answer, chatter, piped, printed, rss,
                   reported, descendant>>

\* The RSS check; psutil may be missing or may raise, and then it is skipped.
Sample ==
    /\ supervisor = "sampling"
    /\ \/ /\ rss = "high" /\ ~ Dead
          /\ outcome' = "memory_exceeded"
          /\ Kill
          /\ supervisor' = "draining"
       \/ /\ supervisor' = "checking"
          /\ UNCHANGED <<outcome, child>>
    /\ UNCHANGED <<wanted, clock, waited, answer, chatter, piped, printed, rss,
                   reported, descendant>>

CheckDeadline ==
    /\ supervisor = "checking"
    /\ IF clock > Deadline
         THEN /\ outcome' = "timeout"
              /\ Kill
              /\ supervisor' = "draining"
         ELSE /\ supervisor' = "sleeping"
              /\ UNCHANGED <<outcome, child>>
    /\ UNCHANGED <<wanted, clock, waited, answer, chatter, piped, printed, rss,
                   reported, descendant>>

Sleep ==
    /\ supervisor = "sleeping"
    /\ clock' = clock + 1
    /\ supervisor' = "polling"
    /\ UNCHANGED <<wanted, waited, outcome, answer, childVars>>

Draining == supervisor \in {"draining", "redraining"}

\* communicate() returns at end of file with the child reaped
AtEof == Dead /\ ~ descendant

Drained ==
    /\ Draining
    /\ AtEof
    /\ supervisor' = "classifying"
    /\ piped' = 0
    /\ UNCHANGED <<wanted, clock, waited, outcome, answer, child, chatter, printed,
                   rss, reported, descendant>>

\* communicate(timeout=10) is still waiting
DrainWait ==
    /\ supervisor = "draining"
    /\ ~ AtEof
    /\ waited < DrainLimit
    /\ waited' = waited + 1
    /\ UNCHANGED <<supervisor, wanted, clock, outcome, answer, childVars>>

\* Fault: the second communicate() after the kill is missing.
DrainAbandoned ==
    /\ supervisor = "draining"
    /\ ~ AtEof
    /\ waited = DrainLimit
    /\ outcome' = "timeout"
    /\ Kill
    /\ supervisor' = "classifying"
    /\ UNCHANGED <<wanted, clock, waited, answer, chatter, piped, printed, rss,
                   reported, descendant>>

\* TimeoutExpired: kill again, overwrite the outcome, and wait without a limit
DrainTimeout ==
    /\ supervisor = "draining"
    /\ ~ AtEof
    /\ waited = DrainLimit
    /\ outcome' = "timeout"
    /\ Kill
    /\ supervisor' = "redraining"
    /\ UNCHANGED <<wanted, clock, waited, answer, chatter, piped, printed, rss,
                   reported, descendant>>

\* The status of a record the child printed, after schema validation and the
\* check of its reported peak against the ceiling.
PrintedStatus ==
    CASE printed = "malformed"                -> "error"
      [] printed = "ok" /\ reported           -> "memory_exceeded"
      [] OTHER                                -> printed

\* Fault: a record that was printed is used even if the child was killed.
ClassifyByRecord ==
    /\ supervisor = "classifying"
    /\ Return(IF printed # "nothing" THEN [status |-> PrintedStatus, variant |-> wanted]
              ELSE Censored(IF outcome # "ok" THEN outcome ELSE "error"))
    /\ UNCHANGED <<wanted, clock, waited, outcome, childVars>>

\* The exit code is not looked at; the record line decides.
Classify ==
    /\ supervisor = "classifying"
    /\ Return(IF outcome # "ok" THEN Censored(outcome)
              ELSE IF printed = "nothing" THEN Censored("error")
              ELSE [status |-> PrintedStatus, variant |-> wanted])
    /\ UNCHANGED <<wanted, clock, waited, outcome, childVars>>

-----------------------------------------------------------------------------
(***************************************************************************)
(* The child and what it leaves behind (roml_bench.worker and the other    *)
(* measurement programs, which print one record line at their end).        *)
(***************************************************************************)
Running == child = "running"

\* A write blocks while the pipe is full, and nobody reads before the drain.
CanWrite == Draining \/ piped < PipeCapacity

Chatter ==
    /\ Running
    /\ chatter > 0
    /\ CanWrite
    /\ chatter' = chatter - 1
    /\ piped' = IF Draining THEN 0 ELSE piped + 1
    /\ UNCHANGED <<supVars, wanted, child, printed, rss, reported, descendant>>

\* building a model moves the child's RSS above the ceiling and back
ResizeRss ==
    /\ Running
    /\ printed = "nothing"
    /\ rss' = IF rss = "high" THEN "spiked" ELSE "high"
    /\ UNCHANGED <<supVars, wanted, child, chatter, piped, printed, reported, descendant>>

\* main's last lines: one JSON record, flushed
PrintRecord(line) ==
    /\ Running
    /\ chatter = 0
    /\ printed = "nothing"
    /\ CanWrite
    /\ printed' = line
    /\ piped' = IF Draining THEN 0 ELSE piped + 1
    /\ reported' \in {rss # "low", FALSE}
    /\ UNCHANGED <<supVars, wanted, child, chatter, rss, descendant>>

LeaveDescendant ==
    /\ Running
    /\ printed = "nothing"
    /\ descendant' = TRUE
    /\ UNCHANGED <<supVars, wanted, child, chatter, piped, printed, rss, reported>>

\* it exits, crashes or is killed by the system, with or without a record
Exit ==
    /\ Running
    /\ child' = "exited"
    /\ UNCHANGED <<supVars, wanted, chatter, piped, printed, rss, reported, descendant>>

\* SIGKILL takes effect; a process in the kernel may take its time
Die ==
    /\ child = "dying"
    /\ child' = "killed"
    /\ UNCHANGED <<supVars, wanted, chatter, piped, printed, rss, reported, descendant>>

DescendantExits ==
    /\ descendant
    /\ descendant' = FALSE
    /\ UNCHANGED <<supVars, wanted, child, chatter, piped, printed, rss, reported>>

\* run_child has returned and nothing is left of its child
Done == supervisor = "returned" /\ UNCHANGED vars

Supervise == \/ NotSpawned \/ Spawn \/ Poll \/ Sample \/ CheckDeadline \/ Sleep
             \/ Drained \/ DrainWait \/ DrainTimeout \/ Classify
Child     == \/ Chatter \/ ResizeRss \/ LeaveDescendant \/ Exit
             \/ \E line \in {"ok", "error", "malformed"} : PrintRecord(line)

Next == Supervise \/ Child \/ Die \/ DescendantExits \/ Done

Spec == Init /\ [][Next]_vars

(***************************************************************************)
(* The supervisor is a running thread and SIGKILL takes effect.  Nothing   *)
(* is assumed of the child, which may hang, nor of what it leaves behind:  *)
(* kill() reaches the direct child only, so a descendant ends when it      *)
(* likes, or never.                                                        *)
(***************************************************************************)
FairSpec == Spec /\ WF_vars(Supervise) /\ WF_vars(Die)

-----------------------------------------------------------------------------
(***************************************************************************)
(* Properties.                                                             *)
(***************************************************************************)

Returned == supervisor = "returned"

\* A published measurement is one whose child ended by itself: an "ok" record
\* is never that of a child that was killed, even when the child printed it
\* between the supervisor's last poll and the kill, and never one that fails
\* the schema or reports a peak above the ceiling.
OkIsEarned ==
    /\ Returned /\ answer.status = "ok" => child = "exited" /\ printed = "ok" /\ ~ reported
    /\ Returned /\ child = "killed" => answer.status \in {"timeout", "memory_exceeded"}

\* When run_child returns, its child is reaped and no descendant holds its pipe,
\* so neither runs on the CPU its caller releases next.  (Nothing waits for a
\* descendant that has closed the pipe, and none is modelled.)
NothingLeftRunning == Returned => (child = "none" \/ Dead) /\ ~ descendant

\* A child is censored for memory only if its RSS really was above the ceiling,
\* whether the supervisor saw it or the child reported it.
MemoryVerdictIsReal == Returned /\ answer.status = "memory_exceeded" => rss # "low"

(***************************************************************************)
(* The inductive invariant behind the safety properties above (proved in   *)
(* RunChildProofs).                                                        *)
(***************************************************************************)
TypeOK ==
    /\ supervisor \in {"start", "polling", "sampling", "checking", "sleeping", "draining",
                      "redraining", "classifying", "returned"}
    /\ wanted \in Variants
    /\ clock \in 0..(Deadline + 1)
    /\ waited \in 0..DrainLimit
    /\ outcome \in {"ok", "timeout", "memory_exceeded"}
    /\ answer \in [status : Statuses, variant : Variants] \union {NoRecord}
    /\ child \in {"none", "running", "dying", "killed", "exited"}
    /\ chatter \in 0..MaxChatter
    /\ piped \in 0..PipeCapacity
    /\ printed \in {"nothing", "ok", "error", "malformed"}
    /\ rss \in {"low", "high", "spiked"}
    /\ reported \in BOOLEAN
    /\ descendant \in BOOLEAN

\* The clock passes the deadline by one tick at most: CheckDeadline is between
\* any two sleeps.
ClockInv == supervisor = "sleeping" => clock <= Deadline

\* A kill always comes with an outcome, and a child is reaped and its pipe
\* closed when its record is classified.
ReapedInv ==
    /\ child \in {"dying", "killed"} => outcome # "ok"
    /\ supervisor = "start" <=> child = "none" /\ ~ Returned
    /\ supervisor \in {"classifying", "returned"} => (child = "none" \/ Dead) /\ ~ descendant
    /\ child = "none" => ~ descendant

\* What speaks of memory was seen or reported above the ceiling.
MemoryInv ==
    /\ outcome = "memory_exceeded" => rss # "low"
    /\ reported => rss # "low"

\* The answer is what the outcome and the record line say.
AnswerInv ==
    Returned =>
        /\ child = "none" => answer = Censored("error")
        /\ child # "none" /\ outcome # "ok" => answer = Censored(outcome)
        /\ child # "none" /\ outcome = "ok" /\ printed = "nothing" => answer = Censored("error")
        /\ child # "none" /\ outcome = "ok" /\ printed # "nothing" =>
              answer = [status |-> PrintedStatus, variant |-> wanted]

IInv == TypeOK /\ ClockInv /\ ReapedInv /\ MemoryInv /\ AnswerInv

\* The wait the code does not bound: the child is dead, and a process it left
\* behind holds its pipe open under the second communicate(), which has no
\* timeout.
HeldOpen == supervisor = "redraining" /\ Dead /\ descendant

\* run_child's docstring promises more than the code does, "always return a
\* record": a descendant that never lets go of the pipe holds the supervisor for
\* ever.  What the code does give is that nothing else can.  A child that hangs,
\* one blocked on a full pipe nobody reads, one slow to die: each of them ends in
\* a record, and whoever waits for ever has killed what it can reach and waits
\* for such a descendant.
HangsOnlyOnADescendant == <>Returned \/ <>[]HeldOpen
=============================================================================
