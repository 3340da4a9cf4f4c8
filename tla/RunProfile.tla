----------------------------- MODULE RunProfile -----------------------------
(***************************************************************************)
(* orchestrator.run_profile with _handle_record and _run_variants: the     *)
(* replicate batches of a profile in plan order, the stop bookkeeping that *)
(* decides who takes part in the next batch, raw.jsonl (appended record by *)
(* record) and run.json (rewritten as a whole), a batch that raises, a     *)
(* record that cannot be filed, and a crash between any two steps.         *)
(*                                                                         *)
(* A batch is what module ReplicateBatch promises: it yields one record    *)
(* per task or raises.  A record's status is "ok", "slow" (ok, but built   *)
(* in more than the pilot budget), "failed" (printed by the child with a   *)
(* status other than ok) or "censored" (built by run_child for a child     *)
(* that was killed or printed nothing; module RunChild).                   *)
(***************************************************************************)
EXTENDS Integers, Sequences, FiniteSets

CONSTANTS Impls,         \* impl_pool: the arms argument, or all implementations
          Support,       \* supported_workloads, per implementation
          Plan,          \* the plan: a sequence of [workload, size]
          Replicates,    \* config["replicates"]
          PilotCapped,   \* config["pilot_cap_s"] is not None
          VariantArms,   \* VARIANT_ARMS, whatever impl_pool is
          VariantPlan,   \* VARIANT_SIZES flattened; empty unless config["variants"]
          VariantKinds,  \* VARIANT_KINDS
          Outcomes       \* the statuses a record may have in this instance

Everyone  == Impls \union VariantArms
PlanPoint == [workload : UNION {Support[i] : i \in Everyone}, size : Nat]

ASSUME PlanAssumption ==
    /\ IsFiniteSet(Everyone)
    /\ Replicates \in Nat \ {0}
    /\ PilotCapped \in BOOLEAN
    /\ Plan \in Seq(PlanPoint) /\ Plan # <<>>
    /\ VariantPlan \in Seq(PlanPoint)
    /\ VariantKinds = <<"shuffled", "duplicated">>
    /\ Outcomes \subseteq {"ok", "slow", "failed", "censored"}

VARIABLES
    pc,       \* where run_profile is
    at,       \* its loop variables
    pending,  \* the implementations whose record of this batch is still to be handled
    stopped,  \* the set `stopped`, and with it run_meta["stopped"]
    raw,      \* raw.jsonl
    filed,    \* how many of raw's records run.json's "points" hold
    torn      \* run.json is truncated

vars == <<pc, at, pending, stopped, raw, filed, torn>>

CanonicalBatch(p, n)  == [stage |-> "canonical", point |-> p, kind |-> 0, replicate |-> n]
VariantBatch(p, k, n) == [stage |-> "variants", point |-> p, kind |-> k, replicate |-> n]
AfterLoops            == [stage |-> "final", point |-> 1, kind |-> 0, replicate |-> 0]

Init ==
    /\ pc = "scheduling"
    /\ at = CanonicalBatch(1, 0)
    /\ pending = {}
    /\ stopped = {}
    /\ raw = <<>>
    /\ filed = 0
    /\ torn = FALSE

-----------------------------------------------------------------------------
InVariants  == at.stage = "variants"
Here        == IF InVariants THEN VariantPlan[at.point] ELSE Plan[at.point]
Asked       == IF InVariants THEN VariantKinds[at.kind] ELSE "canonical"
Supported(w) == {i \in Impls : w \in Support[i]}

\* Fault: the variant loops forget the stops of the canonical run.
BatchOwnStops ==
    IF InVariants
      THEN {i \in VariantArms : <<i, Here.workload, Asked>> \notin stopped}
      ELSE {i \in Supported(Here.workload) : <<i, Here.workload>> \notin stopped}

\* the batch: shuffled_order's implementations without the stopped ones
Batch ==
    IF InVariants
      THEN {i \in VariantArms : /\ <<i, Here.workload>> \notin stopped
                                /\ <<i, Here.workload, Asked>> \notin stopped}
      ELSE {i \in Supported(Here.workload) : <<i, Here.workload>> \notin stopped}

\* Fault: an empty batch is waited for.
RunBatchNonempty ==
    /\ pc = "scheduling"
    /\ at.stage # "final"
    /\ IF Batch = {}
         THEN UNCHANGED <<pc, pending>>
         ELSE pending' = Batch /\ pc' = "handling"
    /\ UNCHANGED <<at, stopped, raw, filed, torn>>

\* run_batch returns: its records are to be handled
RunBatch ==
    /\ pc = "scheduling"
    /\ at.stage # "final"
    /\ pending' = Batch
    /\ pc' = "handling"
    /\ UNCHANGED <<at, stopped, raw, filed, torn>>

\* run_batch raises: the records of the batch are lost, run_profile propagates
BatchRaises ==
    /\ pc = "scheduling"
    /\ at.stage # "final"
    /\ Batch # {}
    /\ pc' = "aborted"
    /\ UNCHANGED <<at, pending, stopped, raw, filed, torn>>

\* run_child's record: a censored one always carries the canonical variant
Record(i, status) ==
    [impl |-> i, workload |-> Here.workload, size |-> Here.size,
     replicate |-> at.replicate, asked |-> Asked,
     variant |-> IF status = "censored" THEN "canonical" ELSE Asked,
     status |-> status]

\* Fault: only records of children that printed one stop an implementation.
StopKeysPrintedOnly(r) ==
    {k \in {<<r.impl, r.workload>>} :
        \/ r.status = "failed" /\ r.variant = "canonical"
        \/ r.status = "slow" /\ PilotCapped /\ r.asked = "canonical" /\ r.replicate = 0}
    \union
    {k \in {<<r.impl, r.workload, r.variant>>} : r.status = "failed" /\ r.variant # "canonical"}

\* the keys _handle_record, and after it the pilot check, add to `stopped`
StopKeys(r) ==
    {k \in {<<r.impl, r.workload>>} :
        \/ r.status \in {"failed", "censored"} /\ r.variant = "canonical"
        \/ r.status = "slow" /\ PilotCapped /\ r.asked = "canonical" /\ r.replicate = 0}
    \union
    {k \in {<<r.impl, r.workload, r.variant>>} :
        r.status \in {"failed", "censored"} /\ r.variant # "canonical"}

Handle(i, status) ==
    /\ pc = "handling"
    /\ i \in pending
    /\ raw' = Append(raw, Record(i, status))
    /\ stopped' = stopped \union StopKeys(Record(i, status))
    /\ pending' = pending \ {i}
    /\ UNCHANGED <<pc, at, filed, torn>>

\* A record whose schema violations include a field the key is made of: it is
\* written, then _handle_record raises KeyError and run_profile propagates.
Unkeyed(i) ==
    /\ pc = "handling"
    /\ i \in pending
    /\ raw' = Append(raw, Record(i, "failed"))
    /\ pc' = "aborted"
    /\ UNCHANGED <<at, pending, stopped, filed, torn>>

\* Every canonical batch is followed by a write of run.json; in the variant
\* loops only the last batch of a size is.
LastOfSize == at.kind = Len(VariantKinds) /\ at.replicate = Replicates - 1

\* Fault: run.json is written after the last replicate of a point only.
BatchHandledPerPoint ==
    /\ pc = "handling"
    /\ pending = {}
    /\ pc' = IF IF InVariants THEN LastOfSize ELSE at.replicate = Replicates - 1
               THEN "writing" ELSE "advancing"
    /\ UNCHANGED <<at, pending, stopped, raw, filed, torn>>

\* Fault: run.json is written when the run is over only.
BatchHandledAtEnd ==
    /\ pc = "handling"
    /\ pending = {}
    /\ pc' = "advancing"
    /\ UNCHANGED <<at, pending, stopped, raw, filed, torn>>

BatchHandled ==
    /\ pc = "handling"
    /\ pending = {}
    /\ pc' = IF InVariants /\ ~ LastOfSize THEN "advancing" ELSE "writing"
    /\ UNCHANGED <<at, pending, stopped, raw, filed, torn>>

\* Path.write_text opens the file for writing, which truncates it, ...
Truncate ==
    /\ pc = "writing"
    /\ torn' = TRUE
    /\ pc' = "filling"
    /\ UNCHANGED <<at, pending, stopped, raw, filed>>

\* ... and then writes run_meta, whose points are those of all records so far.
Fill ==
    /\ pc = "filling"
    /\ torn' = FALSE
    /\ filed' = Len(raw)
    /\ pc' = IF at.stage = "final" THEN "done" ELSE "advancing"
    /\ UNCHANGED <<at, pending, stopped, raw>>

AllStopped ==
    \A i \in Supported(Here.workload) : <<i, Here.workload>> \in stopped

\* the loop variables of the next canonical point, of the variants, or the end
NextPoint ==
    IF at.point < Len(Plan) THEN CanonicalBatch(at.point + 1, 0)
    ELSE IF VariantPlan # <<>> THEN VariantBatch(1, 1, 0)
    ELSE AfterLoops

NextVariant ==
    IF at.replicate < Replicates - 1 THEN VariantBatch(at.point, at.kind, at.replicate + 1)
    ELSE IF at.kind < Len(VariantKinds) THEN VariantBatch(at.point, at.kind + 1, 0)
    ELSE IF at.point < Len(VariantPlan) THEN VariantBatch(at.point + 1, 1, 0)
    ELSE AfterLoops

Advance ==
    /\ pc = "advancing"
    /\ at' = IF InVariants THEN NextVariant
             ELSE IF AllStopped \/ at.replicate = Replicates - 1 THEN NextPoint
             ELSE CanonicalBatch(at.point, at.replicate + 1)
    /\ pc' = "scheduling"
    /\ UNCHANGED <<pending, stopped, raw, filed, torn>>

\* the loops are over: run.json is written once more
Finish ==
    /\ pc = "scheduling"
    /\ at.stage = "final"
    /\ pc' = "writing"
    /\ UNCHANGED <<at, pending, stopped, raw, filed, torn>>

Ended == pc \in {"done", "aborted", "crashed"}

\* the orchestrator process is killed; only its files survive
Crash ==
    /\ ~ Ended
    /\ pc' = "crashed"
    /\ UNCHANGED <<at, pending, stopped, raw, filed, torn>>

Stutter == Ended /\ UNCHANGED vars

Progress ==
    \/ RunBatch \/ BatchHandled \/ Truncate \/ Fill \/ Advance \/ Finish
    \/ \E i \in Everyone, status \in Outcomes : Handle(i, status)

Next == Progress \/ BatchRaises \/ (\E i \in Everyone : Unkeyed(i)) \/ Crash \/ Stutter

Spec == Init /\ [][Next]_vars

\* run_batch returns (RunBatch's EveryCallEnds) and the loops are sequential
\* code, so a step that can be taken is taken.
FairSpec == Spec /\ WF_vars(Progress)

-----------------------------------------------------------------------------
(***************************************************************************)
(* Properties.                                                             *)
(***************************************************************************)
\* the records of one implementation and workload under one variant, as
\* positions in raw.jsonl, and how many of those are before a position
Measured(i, w, v) ==
    {n \in 1..Len(raw) : raw[n].impl = i /\ raw[n].workload = w /\ raw[n].asked = v}
Earlier(m, n) == Cardinality({k \in m : k < n})

\* how many points of a workload are before the p-th of a plan, and how many
\* replicates a plan has of a workload in all
Before(plan, w, p) == Cardinality({q \in 1..(p - 1) : plan[q].workload = w})
Planned(plan, w)   == Before(plan, w, Len(plan) + 1) * Replicates

\* m runs through the replicates of each of the points in turn, none left out
\* and none repeated, as far as it goes
FollowsPlan(m, plan, w) ==
    \A n \in m : \E p \in 1..Len(plan) :
        /\ plan[p].workload = w /\ plan[p].size = raw[n].size
        /\ raw[n].replicate \in 0..(Replicates - 1)
        /\ Earlier(m, n) = Before(plan, w, p) * Replicates + raw[n].replicate

Failed(r) == r.status \in {"failed", "censored"}
Capped(r) == r.status = "slow" /\ PilotCapped /\ r.asked = "canonical" /\ r.replicate = 0
Stops(r)  == Failed(r) \/ Capped(r)

\* none of the records but the last is one that stops its implementation
StopsAtLast(m) == \A a, b \in m : a < b => ~ Stops(raw[a])

\* the replicates of workload w whose batch is over
BatchesBefore(w) ==
    IF at.stage # "canonical"
      THEN Planned(Plan, w)
      ELSE Before(Plan, w, at.point) * Replicates
           + IF Here.workload = w THEN at.replicate ELSE 0

\* "stop larger sizes for that implementation/workload, continue other
\* implementations, never extrapolate missing measurements": at every moment,
\* also after an abort or a crash, the canonical records of an implementation
\* and workload are the planned replicates in order, without a hole, up to the
\* current batch or to its own first failure or capped pilot, and none follow.
CanonicalRecordsHaveNoHoles ==
    \A i \in Impls : \A w \in Support[i] :
        LET m == Measured(i, w, "canonical")
        IN  /\ FollowsPlan(m, Plan, w)
            /\ StopsAtLast(m)
            /\ Cardinality(m) >= BatchesBefore(w) \/ \E n \in m : Stops(raw[n])

\* Canonical points always run first, and a variant is measured only for an
\* implementation whose canonical run of the workload, if it took part in it,
\* was not stopped; in plan order, up to its own first failure.
VariantsFollowCanonical ==
    \A i \in VariantArms : \A w \in Support[i] : \A v \in {VariantKinds[k] : k \in 1..2} :
        LET m == Measured(i, w, v)
            c == Measured(i, w, "canonical")
        IN  /\ FollowsPlan(m, VariantPlan, w)
            /\ StopsAtLast(m)
            /\ m # {} /\ i \in Impls =>
                  /\ Cardinality(c) = Planned(Plan, w)
                  /\ \A n \in c : ~ Stops(raw[n])

\* What a reader of a run directory can rely on: run.json, unless it is torn,
\* lacks at most the records of one canonical batch, or of the variants of one
\* size; a run that ends by itself leaves it whole, and complete if it is done.
RunJsonLagsOneBatch ==
    /\ \A a, b \in (filed + 1)..Len(raw) :
          /\ raw[a].workload = raw[b].workload /\ raw[a].size = raw[b].size
          /\ raw[a].asked = "canonical" =>
                raw[b].asked = "canonical" /\ raw[b].replicate = raw[a].replicate
    /\ torn => pc \in {"filling", "crashed"}
    /\ pc = "done" => filed = Len(raw)

(***************************************************************************)
(* The inductive invariant behind it (proved in RunProfileProofs).         *)
(***************************************************************************)

Loops   == [stage : {"canonical", "variants", "final"}, point : Nat, kind : Nat, replicate : Nat]
Asks    == {"canonical", "shuffled", "duplicated"}
Records == [impl : Everyone, workload : UNION {Support[i] : i \in Everyone}, size : Nat,
            replicate : Nat, asked : Asks, variant : Asks,
            status : {"ok", "slow", "failed", "censored"}]

TypeOK ==
    /\ pc \in {"scheduling", "handling", "writing", "filling", "advancing",
               "done", "aborted", "crashed"}
    /\ at \in Loops
    /\ pending \subseteq Everyone
    /\ raw \in Seq(Records)
    /\ filed \in 0..Len(raw)
    /\ torn \in BOOLEAN

\* The loop variables are those of a batch of the plan, or the loops are over.
AtInv ==
    /\ at.stage = "canonical" => at.point \in 1..Len(Plan)
    /\ InVariants => /\ at.point \in 1..Len(VariantPlan)
                     /\ at.kind \in 1..Len(VariantKinds)
                     /\ at.replicate \in 0..(Replicates - 1)
    /\ at.stage = "final" => pc \notin {"handling", "advancing"}

\* Every record run.json lacks is of the batch the loops are at or, in the
\* variant loops, of an earlier one of the same size.
LagInv ==
    \A n \in (filed + 1)..Len(raw) :
        /\ at.stage # "final"
        /\ raw[n].workload = Here.workload /\ raw[n].size = Here.size
        /\ IF InVariants THEN raw[n].asked # "canonical"
           ELSE raw[n].asked = "canonical" /\ raw[n].replicate = at.replicate

\* Nothing is lacking where the loops move on to another point.
FiledInv ==
    /\ pc = "scheduling" /\ ~ InVariants => filed = Len(raw)
    /\ pc = "advancing" /\ (~ InVariants \/ LastOfSize) => filed = Len(raw)
    /\ pc = "done" => filed = Len(raw)
    /\ torn => pc \in {"filling", "crashed"}

IInv == TypeOK /\ AtInv /\ LagInv /\ FiledInv

(***************************************************************************)
(* The inductive invariant behind CanonicalRecordsHaveNoHoles and          *)
(* VariantsFollowCanonical: how many records there are of each class, the  *)
(* records of an implementation and workload under one variant.            *)
(***************************************************************************)
Workloads    == UNION {Support[i] : i \in Everyone}
Arms(w, v)   == IF v = "canonical" THEN Supported(w) ELSE VariantArms
PlanOf(v)    == IF v = "canonical" THEN Plan ELSE VariantPlan
Live         == pc \notin {"aborted", "crashed"}
Halted(i, w, v) == <<i, w>> \in stopped \/ (v # "canonical" /\ <<i, w, v>> \in stopped)

\* the replicates of a class whose batch is over
Due(w, v) ==
    IF v = "canonical" THEN BatchesBefore(w)
    ELSE IF at.stage = "canonical" THEN 0
    ELSE IF at.stage = "final" THEN Planned(VariantPlan, w)
    ELSE Before(VariantPlan, w, at.point) * Replicates
         + IF Here.workload # w THEN 0
           ELSE IF v = Asked THEN at.replicate
           ELSE IF v = VariantKinds[1] THEN Replicates ELSE 0

\* the batch the loops are at is of this class, and i's record is handled
Handled(i, w, v) ==
    /\ at.stage # "final"
    /\ w = Here.workload /\ v = Asked
    /\ pc \in {"writing", "filling", "advancing"} \/ (pc = "handling" /\ i \notin pending)

\* The records of a class follow its plan; there are as many as batches, until
\* one of them stops the class.
ClassInv(i, w, v) ==
    LET m == Measured(i, w, v)
    IN  /\ FollowsPlan(m, PlanOf(v), w) /\ StopsAtLast(m)
        /\ Live => /\ (\E n \in m : Stops(raw[n])) => Halted(i, w, v)
                   /\ Halted(i, w, v) \/ Cardinality(m) = Due(w, v) + IF Handled(i, w, v) THEN 1 ELSE 0

CountInv == \A v \in Asks : \A w \in Workloads : \A i \in Arms(w, v) : ClassInv(i, w, v)

\* Whoever takes part in a batch is not stopped until its record is handled.
PendingInv ==
    pc = "handling" =>
        \A i \in pending : i \in Arms(Here.workload, Asked) /\ ~ Halted(i, Here.workload, Asked)

\* Before the variants there are canonical records only, and it is one of
\* them that stops an implementation.
CanonicalInv ==
    at.stage = "canonical" =>
        /\ at.replicate \in 0..(Replicates - 1)
        /\ \A n \in 1..Len(raw) : raw[n].asked = "canonical"
        /\ Live => \A w \in Workloads : \A i \in Supported(w) :
              <<i, w>> \in stopped => \E n \in Measured(i, w, "canonical") : Stops(raw[n])

\* An implementation that is not stopped has all the canonical records due.
ReachInv(i, w) ==
    LET c == Measured(i, w, "canonical")
    IN  Cardinality(c) >= BatchesBefore(w) \/ \E n \in c : Stops(raw[n])

\* Who has a variant's record has the whole canonical run without a stop.
CompleteInv(i, w) ==
    LET c == Measured(i, w, "canonical")
    IN  (\E v \in Asks \ {"canonical"} : Measured(i, w, v) # {}) =>
            Cardinality(c) = Planned(Plan, w) /\ \A n \in c : ~ Stops(raw[n])

ScheduleInv ==
    /\ CountInv /\ PendingInv /\ CanonicalInv
    /\ \A w \in Workloads : \A i \in Supported(w) : ReachInv(i, w) /\ CompleteInv(i, w)

\* The run ends, also when batches are empty because everything is stopped.
RunEnds == <>Ended

\* "Variant-diagnostic stops key (implementation, workload, variant)"
\* (_handle_record): in a run that is done, the replicates of a variant are
\* complete unless that variant failed, or the canonical run was stopped.
VariantStopsAreScoped ==
    pc = "done" =>
        \A i \in VariantArms : \A w \in Support[i] : \A v \in {VariantKinds[k] : k \in 1..2} :
            LET m == Measured(i, w, v)
            IN  \/ Cardinality(m) = Planned(VariantPlan, w)
                \/ \E n \in m : Failed(raw[n])
                \/ \E n \in Measured(i, w, "canonical") : Stops(raw[n])
=============================================================================
