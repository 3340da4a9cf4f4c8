-------------------------- MODULE RunProfileProofs --------------------------
(***************************************************************************)
(* Proofs about RunProfile, and the commands of Publication beside it, for *)
(* every plan, variant plan, set of implementations and number of          *)
(* replicates.                                                             *)
(*                                                                         *)
(* 1. run.json lacks at most the records of one canonical batch or of the  *)
(*    variants of one size, in whatever step the run is killed.  What it   *)
(*    lacks is always of the point the loops are at (LagInv), and before   *)
(*    they move to another point nothing is lacking (FiledInv).            *)
(* 2. The records of an implementation, workload and variant are those its *)
(*    plan asks for, in order, up to the one that stops it: they are       *)
(*    counted against the batches that are over (ScheduleInv).             *)
(* 3. What the site publishes was read while it was so, because raw.jsonl  *)
(*    only grows (SiteIInv).                                               *)
(* 4. The curves of the pages: 2 and 3 together, over ladders that ascend. *)
(* 5. The statistics, speedups and charts of a summary, at every moment:   *)
(*    counting, over what a sorted value says of how many are below it.    *)
(***************************************************************************)
EXTENDS Publication, SequenceTheorems, FiniteSetTheorems, WellFoundedInduction, TLAPS

-----------------------------------------------------------------------------
\* The point a batch is at is one of its plan.
LEMMA HereIsPlanned ==
    ASSUME TypeOK, AtInv, at.stage # "final"
    PROVE  Here \in PlanPoint /\ Asked \in Asks /\ (InVariants <=> Asked # "canonical")
  <1> USE PlanAssumption DEF TypeOK, AtInv, Loops
  <1>1. CASE InVariants
    <2>1. at.kind \in {1, 2} /\ at.point \in 1..Len(VariantPlan)
      <3>1. Len(VariantKinds) = 2
        OBVIOUS
      <3> QED
        BY <1>1, <3>1
    <2>2. VariantKinds[at.kind] \in {"shuffled", "duplicated"}
      BY <2>1
    <2>3. VariantPlan[at.point] \in PlanPoint
      BY <2>1, ElementOfSeq
    <2> QED
      BY <1>1, <2>2, <2>3 DEF Here, Asked, Asks
  <1>2. CASE ~ InVariants
    <2>1. at.stage = "canonical"
      BY <1>2 DEF InVariants
    <2>2. Plan[at.point] \in PlanPoint
      BY <2>1, ElementOfSeq
    <2> QED
      BY <1>2, <2>2 DEF Here, Asked, Asks
  <1> QED
    BY <1>1, <1>2

\* What a batch's records say of the point it is at.
LEMMA RecordIsOfHere ==
    ASSUME TypeOK, AtInv, at.stage # "final", NEW i \in Everyone,
           NEW status \in {"ok", "slow", "failed", "censored"}
    PROVE  /\ Record(i, status) \in Records
           /\ Record(i, status).workload = Here.workload /\ Record(i, status).size = Here.size
           /\ Record(i, status).asked = Asked /\ Record(i, status).replicate = at.replicate
  <1>1. Here \in PlanPoint /\ Asked \in Asks
    BY HereIsPlanned
  <1>2. Here.workload \in UNION {Support[a] : a \in Everyone} /\ Here.size \in Nat
    BY <1>1 DEF PlanPoint
  <1>3. at.replicate \in Nat
    BY DEF TypeOK, Loops
  <1>4. (IF status = "censored" THEN "canonical" ELSE Asked) \in Asks
    BY <1>1 DEF Asks
  <1> QED
    BY <1>1, <1>2, <1>3, <1>4 DEF Record, Records

\* The run starts at the first point, with nothing measured.
LEMMA InitIInv == Init => IInv
  <1> SUFFICES ASSUME Init PROVE IInv
    OBVIOUS
  <1>1. Len(raw) = 0 /\ raw = <<>> /\ filed = 0
    BY DEF Init
  <1>2. 1 \in 1..Len(Plan)
    <2>1. Plan \in Seq(PlanPoint) /\ Plan # <<>>
      BY PlanAssumption
    <2> QED
      BY <2>1, EmptySeq, LenProperties
  <1>3. TypeOK
    <2>1. raw \in Seq(Records)
      BY <1>1, EmptySeq
    <2>2. at \in Loops
      BY DEF Init, CanonicalBatch, Loops
    <2>3. filed \in 0..Len(raw)
      BY <1>1
    <2>4. pc = "scheduling" /\ pending = {} /\ torn = FALSE
      BY DEF Init
    <2> QED
      BY <2>1, <2>2, <2>3, <2>4 DEF TypeOK
  <1>4. AtInv
    BY <1>2 DEF Init, AtInv, CanonicalBatch, InVariants
  <1>5. LagInv /\ FiledInv
    BY <1>1 DEF Init, LagInv, FiledInv
  <1> QED
    BY <1>3, <1>4, <1>5 DEF IInv

\* Steps that move neither the loops nor a record.
LEMMA Frame ==
    ASSUME IInv, UNCHANGED <<at, raw, filed>>, pending' \subseteq Everyone,
           torn' \in BOOLEAN,
           pc' \in {"scheduling", "handling", "writing", "filling", "advancing",
                    "done", "aborted", "crashed"},
           at.stage = "final" => pc' \notin {"handling", "advancing"},
           FiledInv'
    PROVE  IInv'
  <1>1. TypeOK'
    BY DEF IInv, TypeOK
  <1>2. AtInv' /\ LagInv'
    BY DEF IInv, AtInv, LagInv, InVariants, Here
  <1> QED
    BY <1>1, <1>2 DEF IInv

LEMMA RunBatchStep == ASSUME IInv, RunBatch PROVE IInv'
  <1>1. pending' \subseteq Everyone
    BY DEF RunBatch, Batch, Supported, Everyone
  <1>2. FiledInv' /\ torn' \in BOOLEAN
    BY DEF RunBatch, IInv, FiledInv, TypeOK
  <1> QED
    BY <1>1, <1>2, Frame DEF RunBatch

LEMMA StopsStep ==
    ASSUME IInv, BatchRaises \/ Crash \/ UNCHANGED vars
    PROVE  IInv'
  <1>1. FiledInv' /\ torn' \in BOOLEAN /\ pending' \subseteq Everyone
    BY DEF BatchRaises, Crash, vars, IInv, FiledInv, TypeOK, InVariants, LastOfSize
  <1> QED
    BY <1>1, Frame DEF BatchRaises, Crash, vars, IInv, AtInv, TypeOK

\* A record appended is one of the batch the loops are at.
LEMMA AppendStep ==
    ASSUME IInv, pc = "handling", NEW r \in Records,
           r.workload = Here.workload, r.size = Here.size, r.asked = Asked,
           r.replicate = at.replicate,
           raw' = Append(raw, r), UNCHANGED <<at, filed, torn>>,
           pending' \subseteq Everyone, pc' \in {"handling", "aborted"}
    PROVE  IInv'
  <1> USE DEF IInv
  <1>1. at.stage # "final"
    BY DEF AtInv
  <1>2. PICK n \in Nat : n = Len(raw) + 1
    BY LenProperties DEF TypeOK
  <1>3. /\ raw' \in Seq(Records) /\ Len(raw') = n
        /\ \A k \in 1..Len(raw) : raw'[k] = raw[k]
        /\ raw'[n] = r
    BY <1>2, AppendProperties DEF TypeOK
  <1>4. TypeOK'
    BY <1>2, <1>3 DEF TypeOK
  <1>5. AtInv' /\ FiledInv'
    BY <1>1 DEF AtInv, FiledInv, InVariants
  <1>6. LagInv'
    <2>1. \A k \in (filed + 1)..n : k = n \/ (k \in (filed + 1)..Len(raw) /\ k \in 1..Len(raw))
      BY <1>2 DEF TypeOK
    <2>2. InVariants <=> Asked # "canonical"
      BY <1>1, HereIsPlanned
    <2>3. Here' = Here /\ (InVariants' <=> InVariants) /\ filed' = filed
      BY DEF Here, InVariants
    <2> QED
      BY <1>1, <1>3, <2>1, <2>2, <2>3 DEF LagInv
  <1> QED
    BY <1>4, <1>5, <1>6

LEMMA HandleStep ==
    ASSUME IInv, NEW i \in Everyone, NEW status \in Outcomes, Handle(i, status)
    PROVE  IInv'
  <1>1. at.stage # "final" /\ pc = "handling"
    BY DEF Handle, IInv, AtInv
  <1>2. status \in {"ok", "slow", "failed", "censored"}
    BY PlanAssumption
  <1>3. pending' \subseteq Everyone
    BY DEF Handle, IInv, TypeOK
  <1> QED
    BY <1>1, <1>2, <1>3, RecordIsOfHere, AppendStep DEF Handle, IInv

LEMMA UnkeyedStep ==
    ASSUME IInv, NEW i \in Everyone, Unkeyed(i)
    PROVE  IInv'
  <1>1. at.stage # "final" /\ pc = "handling"
    BY DEF Unkeyed, IInv, AtInv
  <1>2. pending' \subseteq Everyone
    BY DEF Unkeyed, IInv, TypeOK
  <1> QED
    BY <1>1, <1>2, RecordIsOfHere, AppendStep DEF Unkeyed, IInv

LEMMA BatchHandledStep == ASSUME IInv, BatchHandled PROVE IInv'
  <1>1. FiledInv' /\ torn' \in BOOLEAN /\ pending' \subseteq Everyone
    BY DEF BatchHandled, IInv, FiledInv, TypeOK, InVariants, LastOfSize
  <1> QED
    BY <1>1, Frame DEF BatchHandled, IInv, AtInv

LEMMA TruncateStep == ASSUME IInv, Truncate PROVE IInv'
  <1>1. FiledInv' /\ torn' \in BOOLEAN /\ pending' \subseteq Everyone
    BY DEF Truncate, IInv, FiledInv, TypeOK
  <1> QED
    BY <1>1, Frame DEF Truncate

LEMMA FinishStep == ASSUME IInv, Finish PROVE IInv'
  <1>1. FiledInv' /\ torn' \in BOOLEAN /\ pending' \subseteq Everyone
    BY DEF Finish, IInv, FiledInv, TypeOK
  <1> QED
    BY <1>1, Frame DEF Finish

LEMMA FillStep == ASSUME IInv, Fill PROVE IInv'
  <1> USE DEF IInv
  <1>1. filed' = Len(raw) /\ UNCHANGED <<at, pending, raw>> /\ Len(raw) \in Nat
    BY LenProperties DEF Fill, TypeOK
  <1>2. TypeOK'
    <2>1. pc' \in {"done", "advancing"} /\ torn' = FALSE
      BY DEF Fill
    <2>2. raw' \in Seq(Records) /\ filed' \in 0..Len(raw') /\ at' \in Loops /\ pending' \subseteq Everyone
      BY <1>1 DEF TypeOK
    <2> QED
      BY <2>1, <2>2 DEF TypeOK
  <1>3. AtInv'
    BY <1>1 DEF Fill, AtInv, InVariants
  <1>4. LagInv' /\ FiledInv'
    BY <1>1 DEF Fill, LagInv, FiledInv
  <1> QED
    BY <1>2, <1>3, <1>4

\* The loops move to another point only when nothing is lacking.
LEMMA AdvanceStep == ASSUME IInv, Advance PROVE IInv'
  <1> USE PlanAssumption DEF IInv
  <1>1. /\ pc = "advancing" /\ pc' = "scheduling" /\ UNCHANGED <<pending, raw, filed, torn>>
        /\ at.stage # "final"
    BY DEF Advance, AtInv
  <1>2. Len(raw) \in Nat /\ Len(Plan) \in Nat /\ Len(VariantPlan) \in Nat /\ Len(VariantKinds) = 2
        /\ Replicates \in Nat \ {0}
    BY LenProperties DEF TypeOK
  <1>3. CASE InVariants
    <2>1. at' = NextVariant /\ at.stage = "variants"
      BY <1>3 DEF Advance, InVariants
    <2>2. /\ at.point \in 1..Len(VariantPlan) /\ at.kind \in 1..2 /\ at.replicate \in 0..(Replicates - 1)
          /\ at \in Loops
      BY <1>2, <1>3 DEF AtInv, TypeOK
    <2>0. /\ at' \in Loops
          /\ at'.stage = "variants" => /\ at'.point \in 1..Len(VariantPlan)
                                        /\ at'.kind \in 1..Len(VariantKinds)
                                        /\ at'.replicate \in 0..(Replicates - 1)
          /\ at'.stage # "canonical"
      <3>1. /\ at.point \in Nat /\ at.kind \in Nat /\ at.replicate \in Nat
            /\ at.point + 1 \in Nat /\ at.kind + 1 \in Nat /\ at.replicate + 1 \in Nat
        BY <2>2 DEF Loops
      <3>2. CASE at.replicate < Replicates - 1
        <4>1. at' = VariantBatch(at.point, at.kind, at.replicate + 1)
          BY <2>1, <3>2 DEF NextVariant
        <4> QED
          BY <1>2, <2>2, <3>1, <3>2, <4>1 DEF VariantBatch, Loops
      <3>3. CASE ~ (at.replicate < Replicates - 1) /\ at.kind < Len(VariantKinds)
        <4>1. at' = VariantBatch(at.point, at.kind + 1, 0)
          BY <2>1, <3>3 DEF NextVariant
        <4> QED
          BY <1>2, <2>2, <3>1, <3>3, <4>1 DEF VariantBatch, Loops
      <3>4. CASE /\ ~ (at.replicate < Replicates - 1) /\ ~ (at.kind < Len(VariantKinds))
                 /\ at.point < Len(VariantPlan)
        <4>1. at' = VariantBatch(at.point + 1, 1, 0)
          BY <2>1, <3>4 DEF NextVariant
        <4> QED
          BY <1>2, <2>2, <3>1, <3>4, <4>1 DEF VariantBatch, Loops
      <3>5. CASE /\ ~ (at.replicate < Replicates - 1) /\ ~ (at.kind < Len(VariantKinds))
                 /\ ~ (at.point < Len(VariantPlan))
        <4>1. at' = AfterLoops
          BY <2>1, <3>5 DEF NextVariant
        <4> QED
          BY <4>1 DEF AfterLoops, Loops
      <3> QED
        BY <3>2, <3>3, <3>4, <3>5
    <2>3. CASE at'.stage = "variants" /\ at'.point = at.point
      <3>1. TypeOK' /\ AtInv'
        BY <1>1, <2>0 DEF TypeOK, AtInv, InVariants
      <3>2. Here' = Here /\ InVariants'
        BY <1>3, <2>3 DEF Here, InVariants
      <3>3. LagInv'
        BY <1>1, <1>3, <2>3, <3>2 DEF LagInv, InVariants
      <3>4. FiledInv'
        BY <1>1, <3>2 DEF FiledInv
      <3> QED
        BY <3>1, <3>3, <3>4
    <2>4. CASE ~ (at'.stage = "variants" /\ at'.point = at.point)
      <3>1. LastOfSize
        BY <1>2, <2>1, <2>2, <2>4 DEF NextVariant, VariantBatch, LastOfSize, Loops
      <3>2. filed = Len(raw)
        BY <1>1, <3>1 DEF FiledInv
      <3>3. TypeOK' /\ AtInv'
        BY <1>1, <2>0 DEF TypeOK, AtInv, InVariants
      <3>4. LagInv' /\ FiledInv'
        BY <1>1, <1>2, <3>2 DEF LagInv, FiledInv
      <3> QED
        BY <3>3, <3>4
    <2> QED
      BY <2>3, <2>4
  <1>4. CASE ~ InVariants
    <2>1. filed = Len(raw)
      BY <1>1, <1>4 DEF FiledInv
    <2>2. at.stage = "canonical" /\ at.point \in 1..Len(Plan)
      BY <1>1, <1>4 DEF TypeOK, AtInv, InVariants, Loops
    <2>3. VariantPlan # <<>> => 1 \in 1..Len(VariantPlan)
      BY EmptySeq, LenProperties
    <2>4. at' = NextPoint \/ at' = CanonicalBatch(at.point, at.replicate + 1)
      BY <1>4 DEF Advance
    <2>5. /\ at' \in Loops
          /\ at'.stage = "canonical" => at'.point \in 1..Len(Plan)
          /\ at'.stage = "variants" => /\ at'.point \in 1..Len(VariantPlan)
                                        /\ at'.kind \in 1..Len(VariantKinds)
                                        /\ at'.replicate \in 0..(Replicates - 1)
      <3>1. at.point \in Nat /\ at.replicate \in Nat
        BY DEF TypeOK, Loops
      <3>2. CASE at' = CanonicalBatch(at.point + 1, 0) /\ at.point < Len(Plan)
        BY <1>2, <2>2, <3>1, <3>2 DEF CanonicalBatch, Loops
      <3>3. CASE at' = VariantBatch(1, 1, 0) /\ VariantPlan # <<>>
        BY <1>2, <2>3, <3>3 DEF VariantBatch, Loops
      <3>4. CASE at' = AfterLoops
        BY <3>4 DEF AfterLoops, Loops
      <3>5. CASE at' = CanonicalBatch(at.point, at.replicate + 1)
        BY <2>2, <3>1, <3>5 DEF CanonicalBatch, Loops
      <3> QED
        BY <2>4, <3>2, <3>3, <3>4, <3>5 DEF NextPoint
    <2>6. TypeOK' /\ AtInv'
      BY <1>1, <2>5 DEF TypeOK, AtInv, InVariants
    <2>7. LagInv' /\ FiledInv'
      BY <1>1, <1>2, <2>1 DEF LagInv, FiledInv
    <2> QED
      BY <2>6, <2>7
  <1> QED
    BY <1>3, <1>4

LEMMA NextIInv == IInv /\ [Next]_vars => IInv'
  BY RunBatchStep, StopsStep, HandleStep, UnkeyedStep, BatchHandledStep, TruncateStep, FinishStep,
     FillStep, AdvanceStep DEF Next, Progress, Stutter

-----------------------------------------------------------------------------
\* The inductive invariant holds in every reachable state.
THEOREM Invariance == Spec => []IInv
  BY InitIInv, NextIInv, PTL DEF Spec

\* Whenever the run ends or is killed, run.json lacks at most the records of
\* one canonical batch, or of the variants of one size, and it is torn only if
\* the kill came inside its own rewriting.
THEOREM RunJsonLagIsBounded == Spec => []RunJsonLagsOneBatch
  <1>1. IInv => RunJsonLagsOneBatch
    BY DEF IInv, LagInv, FiledInv, RunJsonLagsOneBatch
  <1> QED
    BY <1>1, Invariance, PTL

-----------------------------------------------------------------------------
(***************************************************************************)
(* The schedule: the records of each class are counted against the batches *)
(* of its plan (ClassInv).                                                 *)
(***************************************************************************)
\* How many points of a workload come before a place of a plan.
LEMMA BeforeCounts ==
    ASSUME NEW plan, NEW w, NEW p \in Nat \ {0}
    PROVE  /\ Before(plan, w, p) \in Nat
           /\ Before(plan, w, 1) = 0
           /\ Before(plan, w, p + 1) = Before(plan, w, p) + IF plan[p].workload = w THEN 1 ELSE 0
  <1> DEFINE S == {q \in 1..(p - 1) : plan[q].workload = w}
             T == {q \in 1..((p + 1) - 1) : plan[q].workload = w}
  <1>1. IsFiniteSet(1..(p - 1))
    BY FS_Interval
  <1>2. S \in SUBSET (1..(p - 1))
    OBVIOUS
  <1>3. IsFiniteSet(S)
    BY <1>1, <1>2, FS_Subset
  <1>4. Cardinality(S) \in Nat
    BY <1>3, FS_CardinalityType
  <1>5. {q \in 1..(1 - 1) : plan[q].workload = w} = {}
    OBVIOUS
  <1>6. p \notin S
    OBVIOUS
  <1>7. CASE plan[p].workload = w
    <2>1. T = S \union {p}
      BY <1>7
    <2>2. Cardinality(T) = Cardinality(S) + 1
      BY <1>3, <1>6, <2>1, FS_AddElement
    <2> QED
      BY <1>4, <1>5, <1>7, <2>2, FS_EmptySet DEF Before
  <1>8. CASE plan[p].workload # w
    <2>1. Cardinality(T) = Cardinality(S)
      BY <1>8
    <2> HIDE DEF S, T
    <2>2. /\ Before(plan, w, p) = Cardinality(S) /\ Before(plan, w, p + 1) = Cardinality(T)
          /\ Before(plan, w, 1) = 0
      BY <1>5, FS_EmptySet DEF Before, S, T
    <2> QED
      BY <1>4, <1>8, <2>1, <2>2
  <1> QED
    BY <1>7, <1>8

\* One more point of a workload is as many replicates more.
LEMMA OneMorePoint ==
    ASSUME NEW plan, NEW w, NEW p \in Nat \ {0}, NEW R \in Nat
    PROVE  /\ Before(plan, w, p) * R \in Nat
           /\ Before(plan, w, p + 1) * R =
                  Before(plan, w, p) * R + IF plan[p].workload = w THEN R ELSE 0
  <1>1. PICK b \in Nat : b = Before(plan, w, p)
    BY BeforeCounts
  <1>2. Before(plan, w, p + 1) = b + IF plan[p].workload = w THEN 1 ELSE 0
    BY <1>1, BeforeCounts
  <1>3. (b + 1) * R = b * R + R /\ b * R \in Nat /\ (b + 0) * R = b * R
    OBVIOUS
  <1> QED
    BY <1>1, <1>2, <1>3

LEMMA PlannedIsCount ==
    ASSUME NEW w
    PROVE  Planned(Plan, w) \in Nat /\ Planned(VariantPlan, w) \in Nat
  <1>1. /\ Len(Plan) + 1 \in Nat \ {0} /\ Len(VariantPlan) + 1 \in Nat \ {0} /\ Replicates \in Nat
    BY PlanAssumption, LenProperties
  <1> QED
    BY <1>1, OneMorePoint DEF Planned

LEMMA BatchesBeforeIsCount ==
    ASSUME TypeOK, AtInv, NEW w
    PROVE  BatchesBefore(w) \in Nat
  <1>1. CASE at.stage = "canonical"
    <2>1. at.point \in Nat \ {0} /\ at.replicate \in Nat /\ Replicates \in Nat
      BY <1>1, PlanAssumption DEF TypeOK, AtInv, Loops
    <2>2. Before(Plan, w, at.point) * Replicates \in Nat
      BY <2>1, OneMorePoint
    <2> QED
      BY <1>1, <2>1, <2>2 DEF BatchesBefore
  <1>2. CASE at.stage # "canonical"
    BY <1>2, PlannedIsCount DEF BatchesBefore
  <1> QED
    BY <1>1, <1>2

LEMMA MeasuredIsFinite ==
    ASSUME TypeOK, NEW i, NEW w, NEW v
    PROVE  /\ Measured(i, w, v) \subseteq 1..Len(raw)
           /\ IsFiniteSet(Measured(i, w, v)) /\ Cardinality(Measured(i, w, v)) \in Nat
  <1>1. Len(raw) \in Nat
    BY LenProperties DEF TypeOK
  <1>2. IsFiniteSet(1..Len(raw))
    BY <1>1, FS_Interval
  <1>3. Measured(i, w, v) \in SUBSET (1..Len(raw))
    BY DEF Measured
  <1> QED
    BY <1>2, <1>3, FS_Subset, FS_CardinalityType

\* A record appended leaves the others where they are.
LEMMA RecordsStay ==
    ASSUME TypeOK, NEW r \in Records, raw' = Append(raw, r)
    PROVE  raw'[Len(raw) + 1] = r /\ \A k \in 1..Len(raw) : raw'[k] = raw[k]
  BY AppendProperties DEF TypeOK

\* A record appended is its class's next, after all the others.
LEMMA NextOfItsClass ==
    ASSUME TypeOK, NEW r \in Records, raw' = Append(raw, r),
           NEW i, NEW w, NEW v, r.impl = i, r.workload = w, r.asked = v
    PROVE  Measured(i, w, v)' = Measured(i, w, v) \union {Len(raw) + 1}
  <1>1. PICK l \in Nat : l = Len(raw)
    BY LenProperties DEF TypeOK
  <1>2. /\ raw' \in Seq(Records) /\ Len(raw') = l + 1
        /\ \A k \in 1..l : raw'[k] = raw[k]
        /\ raw'[l + 1] = r
    BY <1>1, AppendProperties DEF TypeOK
  <1>3. \A k \in 1..(l + 1) : k = l + 1 \/ k \in 1..l
    OBVIOUS
  <1> QED
    BY <1>1, <1>2, <1>3 DEF Measured

\* One element more.
LEMMA OneMore ==
    ASSUME NEW S, IsFiniteSet(S), NEW x, x \notin S
    PROVE  IsFiniteSet(S \union {x}) /\ Cardinality(S \union {x}) = Cardinality(S) + 1
  BY FS_AddElement

\* How the records of a class are counted when it has one more.
LEMMA EarlierThanNext ==
    ASSUME TypeOK, NEW m \in SUBSET (1..Len(raw))
    PROVE  LET n == Len(raw) + 1
           IN  /\ Cardinality(m \union {n}) = Cardinality(m) + 1
               /\ Earlier(m \union {n}, n) = Cardinality(m)
               /\ \A k \in m : Earlier(m \union {n}, k) = Earlier(m, k)
  <1>1. PICK l \in Nat : l = Len(raw)
    BY LenProperties DEF TypeOK
  <1>m. m \in SUBSET (1..l)
    BY <1>1
  <1>2. IsFiniteSet(1..l)
    BY FS_Interval
  <1>3. IsFiniteSet(m)
    BY <1>m, <1>2, FS_Subset
  <1>n. PICK n : n = l + 1
    OBVIOUS
  <1>0. n \notin m
    BY <1>m, <1>n
  <1>4. Cardinality(m \union {n}) = Cardinality(m) + 1
    BY <1>0, <1>3, OneMore
  <1>5. {k \in m \union {n} : k < n} = m
    <2>1. (\A k \in m : k < n) /\ ~ (n < n)
      BY <1>m, <1>n
    <2> QED
      BY <2>1
  <1>6. ASSUME NEW k \in m
        PROVE  {j \in m \union {n} : j < k} = {j \in m : j < k}
    BY <1>m, <1>n
  <1> QED
    BY <1>1, <1>n, <1>4, <1>5, <1>6 DEF Earlier

\* The other classes get none.
LEMMA NoneOfOtherClass ==
    ASSUME TypeOK, NEW r \in Records, raw' = Append(raw, r),
           NEW i, NEW w, NEW v, ~ (r.impl = i /\ r.workload = w /\ r.asked = v)
    PROVE  Measured(i, w, v)' = Measured(i, w, v)
  <1>1. PICK l \in Nat : l = Len(raw)
    BY LenProperties DEF TypeOK
  <1>2. /\ raw' \in Seq(Records) /\ Len(raw') = l + 1
        /\ \A k \in 1..l : raw'[k] = raw[k]
        /\ raw'[l + 1] = r
    BY <1>1, AppendProperties DEF TypeOK
  <1>3. \A k \in 1..(l + 1) : k = l + 1 \/ k \in 1..l
    OBVIOUS
  <1> QED
    BY <1>1, <1>2, <1>3 DEF Measured

\* The class of the batch the loops are at: its plan, and what is due of it.
LEMMA DueHere ==
    ASSUME TypeOK, AtInv, at.stage # "final"
    PROVE  /\ at.point \in 1..Len(PlanOf(Asked)) /\ PlanOf(Asked)[at.point] = Here
           /\ Here.workload \in Workloads /\ Asked \in Asks
           /\ Due(Here.workload, Asked) =
                  Before(PlanOf(Asked), Here.workload, at.point) * Replicates + at.replicate
  <1>1. Here \in PlanPoint /\ Asked \in Asks /\ (InVariants <=> Asked # "canonical")
    BY HereIsPlanned
  <1>2. Here.workload \in Workloads
    BY <1>1 DEF PlanPoint, Workloads
  <1>3. CASE InVariants
    <2>1. /\ Asked # "canonical" /\ at.stage = "variants" /\ PlanOf(Asked) = VariantPlan
          /\ Here = VariantPlan[at.point] /\ at.point \in 1..Len(VariantPlan)
      BY <1>1, <1>3 DEF InVariants, PlanOf, Here, AtInv
    <2>2. Due(Here.workload, Asked) =
              Before(VariantPlan, Here.workload, at.point) * Replicates + at.replicate
      BY <1>3, <2>1 DEF Due
    <2> QED
      BY <1>1, <1>2, <2>1, <2>2
  <1>4. CASE ~ InVariants
    <2>1. /\ Asked = "canonical" /\ at.stage = "canonical" /\ PlanOf(Asked) = Plan
          /\ Here = Plan[at.point] /\ at.point \in 1..Len(Plan)
      BY <1>1, <1>4 DEF InVariants, PlanOf, Here, AtInv, TypeOK, Loops
    <2>2. Due(Here.workload, Asked) =
              Before(Plan, Here.workload, at.point) * Replicates + at.replicate
      BY <2>1 DEF Due, BatchesBefore
    <2> QED
      BY <1>1, <1>2, <2>1, <2>2
  <1> QED
    BY <1>3, <1>4

\* The batch is of those of its class that are not stopped.
LEMMA BatchIsUnhalted ==
    ASSUME TypeOK, AtInv, at.stage # "final"
    PROVE  Batch = {i \in Arms(Here.workload, Asked) : ~ Halted(i, Here.workload, Asked)}
  <1>1. InVariants <=> Asked # "canonical"
    BY HereIsPlanned
  <1>2. CASE InVariants
    BY <1>1, <1>2 DEF Batch, Arms, Halted
  <1>3. CASE ~ InVariants
    BY <1>1, <1>3 DEF Batch, Arms, Halted
  <1> QED
    BY <1>2, <1>3

-----------------------------------------------------------------------------
\* A step that moves neither the records, the loops nor the stops, and leaves
\* the records handled of the batch what they are.
LEMMA ClassStays ==
    ASSUME NEW i, NEW w, NEW v, ClassInv(i, w, v), UNCHANGED <<raw, at, stopped>>,
           Live' => Live,
           Live' /\ ~ Halted(i, w, v) => (Handled(i, w, v)' <=> Handled(i, w, v))
    PROVE  ClassInv(i, w, v)'
  <1>1. Measured(i, w, v)' = Measured(i, w, v) /\ Halted(i, w, v)' = Halted(i, w, v)
    BY DEF Measured, Halted
  <1>2. Due(w, v)' = Due(w, v)
    BY DEF Due, BatchesBefore, Here, InVariants, Asked
  <1>3. FollowsPlan(Measured(i, w, v), PlanOf(v), w)'
    BY <1>1 DEF ClassInv, FollowsPlan
  <1>4. StopsAtLast(Measured(i, w, v))'
    BY <1>1 DEF ClassInv, StopsAtLast
  <1>5. ASSUME Live'
        PROVE  /\ (\E n \in Measured(i, w, v)' : Stops(raw'[n])) => Halted(i, w, v)'
               /\ \/ Halted(i, w, v)'
                  \/ Cardinality(Measured(i, w, v)') = Due(w, v)' + IF Handled(i, w, v)' THEN 1 ELSE 0
    BY <1>1, <1>2, <1>5 DEF ClassInv
  <1> QED
    BY <1>3, <1>4, <1>5 DEF ClassInv

\* The rest of ScheduleInv in such a step.
LEMMA ScheduleStays ==
    ASSUME ScheduleInv, UNCHANGED <<raw, at, stopped>>, Live' => Live, PendingInv',
           \A v \in Asks : \A w \in Workloads : \A i \in Arms(w, v) :
               Live' /\ ~ Halted(i, w, v) => (Handled(i, w, v)' <=> Handled(i, w, v))
    PROVE  ScheduleInv'
  <1>1. CountInv'
    BY ClassStays DEF ScheduleInv, CountInv, Arms, Supported
  <1>2. \A i, w, v : Measured(i, w, v)' = Measured(i, w, v)
    BY DEF Measured
  <1>3. CanonicalInv'
    BY <1>2 DEF ScheduleInv, CanonicalInv
  <1>4. \A i, w : ReachInv(i, w) => ReachInv(i, w)'
    BY <1>2 DEF ReachInv, BatchesBefore, Here, InVariants
  <1>5. \A i, w : CompleteInv(i, w) => CompleteInv(i, w)'
    BY <1>2 DEF CompleteInv
  <1> QED
    BY <1>1, <1>3, <1>4, <1>5 DEF ScheduleInv, Supported

\* What stops a class once its record is handled, and nobody else.
LEMMA StopKeysOfRecord ==
    ASSUME TypeOK, AtInv, at.stage # "final", NEW i \in Everyone,
           NEW status \in {"ok", "slow", "failed", "censored"}
    PROVE  LET r == Record(i, status)
           IN  /\ Stops(r) => \/ <<i, Here.workload>> \in StopKeys(r)
                              \/ Asked # "canonical" /\ <<i, Here.workload, Asked>> \in StopKeys(r)
               /\ \A j, w : <<j, w>> \in StopKeys(r) => j = i
               /\ \A j, w, v : <<j, w, v>> \in StopKeys(r) => j = i
               /\ Asked = "canonical" => \A j, w :
                      <<j, w>> \in StopKeys(r) => w = Here.workload /\ Stops(r)
  <1> DEFINE r == Record(i, status)
  <1>1. /\ r.impl = i /\ r.workload = Here.workload /\ r.asked = Asked /\ r.status = status
        /\ r.variant = IF status = "censored" THEN "canonical" ELSE Asked
        /\ r.replicate = at.replicate
    BY DEF Record
  <1> HIDE DEF r
  <1>2. StopKeys(r) \subseteq {<<i, Here.workload>>, <<i, Here.workload, r.variant>>}
    BY <1>1 DEF StopKeys
  <1>3. \A j, w : <<j, w>> \in StopKeys(r) => j = i
    BY <1>2
  <1>4. \A j, w, v : <<j, w, v>> \in StopKeys(r) => j = i
    BY <1>2
  <1>5. ASSUME Stops(r)
        PROVE  \/ <<i, Here.workload>> \in StopKeys(r)
               \/ Asked # "canonical" /\ <<i, Here.workload, Asked>> \in StopKeys(r)
    BY <1>1, <1>5 DEF StopKeys, Stops, Failed, Capped
  <1>6. ASSUME Asked = "canonical", NEW j, NEW w, <<j, w>> \in StopKeys(r)
        PROVE  w = Here.workload /\ Stops(r)
    <2>1. r.variant = "canonical"
      BY <1>1, <1>6
    <2> QED
      BY <1>1, <1>6, <2>1 DEF StopKeys, Stops, Failed, Capped
  <1> QED
    BY <1>3, <1>4, <1>5, <1>6 DEF r

\* A record of the batch the loops are at is appended: i's, which was pending.
Appends(i, status) == Handle(i, status) \/ (status = "failed" /\ Unkeyed(i))

LEMMA AppendFacts ==
    ASSUME IInv, ScheduleInv, NEW i \in Everyone, NEW status \in {"ok", "slow", "failed", "censored"},
           Appends(i, status)
    PROVE  /\ pc = "handling" /\ at.stage # "final" /\ i \in pending
           /\ Record(i, status) \in Records /\ raw' = Append(raw, Record(i, status))
           /\ Record(i, status).impl = i /\ Record(i, status).workload = Here.workload
           /\ Record(i, status).size = Here.size /\ Record(i, status).asked = Asked
           /\ Record(i, status).replicate = at.replicate
           /\ at.replicate \in 0..(Replicates - 1)
           /\ UNCHANGED at /\ Here' = Here /\ Asked' = Asked /\ InVariants' = InVariants
           /\ stopped \subseteq stopped'
           /\ i \in Arms(Here.workload, Asked) /\ ~ Halted(i, Here.workload, Asked)
           /\ Live' => /\ stopped' = stopped \union StopKeys(Record(i, status))
                       /\ pending' = pending \ {i} /\ pc' = "handling"
  <1>1. pc = "handling" /\ i \in pending /\ raw' = Append(raw, Record(i, status)) /\ UNCHANGED at
    BY DEF Appends, Handle, Unkeyed
  <1>2. at.stage # "final"
    BY <1>1 DEF IInv, AtInv
  <1>3. /\ Record(i, status) \in Records
        /\ Record(i, status).workload = Here.workload /\ Record(i, status).size = Here.size
        /\ Record(i, status).asked = Asked /\ Record(i, status).replicate = at.replicate
    BY <1>2, RecordIsOfHere DEF IInv
  <1>4. Record(i, status).impl = i
    BY DEF Record
  <1>5. at.replicate \in 0..(Replicates - 1)
    BY <1>2 DEF IInv, TypeOK, AtInv, Loops, ScheduleInv, CanonicalInv, InVariants
  <1>6. Here' = Here /\ Asked' = Asked /\ InVariants' = InVariants
    BY <1>1 DEF Here, Asked, InVariants
  <1>7. stopped \subseteq stopped'
    BY DEF Appends, Handle, Unkeyed
  <1>8. i \in Arms(Here.workload, Asked) /\ ~ Halted(i, Here.workload, Asked)
    BY <1>1 DEF ScheduleInv, PendingInv
  <1>9. Live' => /\ stopped' = stopped \union StopKeys(Record(i, status))
                 /\ pending' = pending \ {i} /\ pc' = "handling"
    BY DEF Appends, Handle, Unkeyed, Live
  <1> QED
    BY <1>1, <1>2, <1>3, <1>4, <1>5, <1>6, <1>7, <1>8, <1>9

\* Its own class goes on in plan order, and is halted if the record stops it.
LEMMA OwnClassGrows ==
    ASSUME IInv, ScheduleInv, NEW i \in Everyone, NEW status \in {"ok", "slow", "failed", "censored"},
           Appends(i, status), NEW w, NEW v, w = Here.workload, v = Asked
    PROVE  ClassInv(i, w, v)'
  <1>r. PICK r : r = Record(i, status)
    OBVIOUS
  <1>n. PICK n : n = Len(raw) + 1
    OBVIOUS
  <1>m. PICK m : m = Measured(i, w, v)
    OBVIOUS
  <1>1. /\ pc = "handling" /\ at.stage # "final" /\ i \in pending
        /\ r \in Records /\ raw' = Append(raw, r)
        /\ r.impl = i /\ r.workload = w /\ r.asked = v /\ r.size = Here.size
        /\ r.replicate = at.replicate /\ at.replicate \in 0..(Replicates - 1)
        /\ UNCHANGED at /\ Here' = Here /\ Asked' = Asked
        /\ stopped \subseteq stopped' /\ i \in Arms(w, v) /\ ~ Halted(i, w, v)
        /\ Live' => /\ stopped' = stopped \union StopKeys(r)
                    /\ pending' = pending \ {i} /\ pc' = "handling"
    BY <1>r, AppendFacts
  <1>2. /\ Stops(r) => <<i, w>> \in StopKeys(r) \/ (v # "canonical" /\ <<i, w, v>> \in StopKeys(r))
    BY <1>r, <1>1, StopKeysOfRecord DEF IInv
  <1>3. /\ raw'[n] = r
        /\ \A k \in m : raw'[k] = raw[k] /\ k \in 1..Len(raw)
        /\ Measured(i, w, v)' = m \union {n}
        /\ Cardinality(m \union {n}) = Cardinality(m) + 1
        /\ Earlier(m \union {n}, n) = Cardinality(m)
        /\ \A k \in m : Earlier(m \union {n}, k) = Earlier(m, k)
    <2>1. TypeOK /\ r \in Records /\ raw' = Append(raw, r)
      BY <1>1 DEF IInv
    <2>2. r.impl = i /\ r.workload = w /\ r.asked = v
      BY <1>1
    <2>3. Measured(i, w, v)' = m \union {n}
      BY <1>n, <1>m, <2>1, <2>2, NextOfItsClass
    <2>4. raw'[n] = r
      BY <1>n, <2>1, RecordsStay
    <2>5. m \in SUBSET (1..Len(raw))
      BY <1>m DEF Measured
    <2>6. \A k \in m : raw'[k] = raw[k] /\ k \in 1..Len(raw)
      BY <2>1, <2>5, RecordsStay
    <2>7. /\ Cardinality(m \union {n}) = Cardinality(m) + 1
          /\ Earlier(m \union {n}, n) = Cardinality(m)
          /\ \A k \in m : Earlier(m \union {n}, k) = Earlier(m, k)
      BY <1>n, <2>1, <2>5, EarlierThanNext
    <2> QED
      BY <2>3, <2>4, <2>6, <2>7
  <1>4. ClassInv(i, w, v) /\ Live /\ ~ Handled(i, w, v)
    <2>1. w \in Workloads /\ v \in Asks
      BY <1>1, DueHere DEF IInv
    <2> QED
      BY <1>1, <2>1 DEF ScheduleInv, CountInv, Live, Handled
  <1>5. /\ \A k \in m : ~ Stops(raw[k])
        /\ Cardinality(m) = Due(w, v)
    <2>1. PICK d : d = Due(w, v)
      OBVIOUS
    <2>2. Cardinality(m) \in Nat /\ Cardinality(m) = d + 0
      BY <1>m, <1>1, <1>4, <2>1, MeasuredIsFinite DEF ClassInv, IInv
    <2>3. Due(w, v) = Before(PlanOf(v), w, at.point) * Replicates + at.replicate
      BY <1>1, DueHere DEF IInv
    <2>4. Due(w, v) \in Int
      <3>1. at.point \in Nat \ {0} /\ Replicates \in Nat /\ at.replicate \in Nat
        BY <1>1, DueHere, PlanAssumption, LenProperties DEF IInv, TypeOK, Loops
      <3>2. Before(PlanOf(v), w, at.point) * Replicates \in Nat
        BY <3>1, OneMorePoint
      <3> QED
        BY <2>3, <3>1, <3>2
    <2> QED
      BY <1>m, <1>1, <1>4, <2>1, <2>2, <2>4 DEF ClassInv
  <1>6. FollowsPlan(m \union {n}, PlanOf(v), w)'
    <2>1. ASSUME NEW k \in m
          PROVE  \E p \in 1..Len(PlanOf(v)) :
                     /\ PlanOf(v)[p].workload = w /\ PlanOf(v)[p].size = raw'[k].size
                     /\ raw'[k].replicate \in 0..(Replicates - 1)
                     /\ Earlier(m \union {n}, k) = Before(PlanOf(v), w, p) * Replicates + raw'[k].replicate
      BY <1>m, <1>3, <1>4 DEF ClassInv, FollowsPlan
    <2>2. /\ at.point \in 1..Len(PlanOf(v))
          /\ PlanOf(v)[at.point].workload = w /\ PlanOf(v)[at.point].size = raw'[n].size
          /\ raw'[n].replicate \in 0..(Replicates - 1)
          /\ Earlier(m \union {n}, n) = Before(PlanOf(v), w, at.point) * Replicates + raw'[n].replicate
      BY <1>1, <1>3, <1>5, DueHere DEF IInv
    <2> QED
      BY <2>1, <2>2 DEF FollowsPlan
  <1>7. \A a, b \in m \union {n} : a < b => ~ Stops(raw'[a])
    <2>1. Len(raw) \in Nat
      BY <1>n, LenProperties DEF IInv, TypeOK
    <2>2. \A a \in m : raw'[a] = raw[a] /\ ~ Stops(raw[a]) /\ a \in 1..Len(raw)
      BY <1>3, <1>5
    <2>3. \A a, b \in m \union {n} : a < b => a \in m
      BY <1>n, <2>1, <2>2
    <2> QED
      BY <2>2, <2>3
  <1>8. ASSUME Live'
        PROVE  /\ (\E k \in m \union {n} : Stops(raw'[k])) => Halted(i, w, v)'
               /\ Cardinality(m \union {n}) = Due(w, v)' + IF Handled(i, w, v)' THEN 1 ELSE 0
    <2>1. (\E k \in m \union {n} : Stops(raw'[k])) => Stops(r)
      BY <1>3, <1>5
    <2>2. Stops(r) => Halted(i, w, v)'
      BY <1>1, <1>2, <1>8 DEF Halted
    <2>3. Handled(i, w, v)'
      BY <1>1, <1>8 DEF Handled
    <2>4. Due(w, v)' = Due(w, v)
      BY <1>1 DEF Due, BatchesBefore, Here, InVariants, Asked
    <2> QED
      BY <1>3, <1>5, <2>1, <2>2, <2>3, <2>4
  <1> QED
    BY <1>3, <1>6, <1>7, <1>8 DEF ClassInv, StopsAtLast

\* No other class is disturbed.
LEMMA OtherClassStays ==
    ASSUME IInv, ScheduleInv, NEW i \in Everyone, NEW status \in {"ok", "slow", "failed", "censored"},
           Appends(i, status), NEW j, NEW w, NEW v, ClassInv(j, w, v),
           ~ (j = i /\ w = Here.workload /\ v = Asked)
    PROVE  ClassInv(j, w, v)' /\ Measured(j, w, v)' = Measured(j, w, v)
  <1>r. PICK r : r = Record(i, status)
    OBVIOUS
  <1>m. PICK m : m = Measured(j, w, v)
    OBVIOUS
  <1>1. /\ pc = "handling" /\ at.stage # "final"
        /\ r \in Records /\ raw' = Append(raw, r)
        /\ r.impl = i /\ r.workload = Here.workload /\ r.asked = Asked
        /\ UNCHANGED at /\ Here' = Here /\ Asked' = Asked
        /\ stopped \subseteq stopped'
        /\ Live' => pending' = pending \ {i} /\ pc' = "handling"
    BY <1>r, AppendFacts
  <1>2. /\ \A k \in m : raw'[k] = raw[k]
        /\ Measured(j, w, v)' = m
    <2>1. TypeOK /\ r \in Records /\ raw' = Append(raw, r)
      BY <1>1 DEF IInv
    <2>2. ~ (r.impl = j /\ r.workload = w /\ r.asked = v)
      BY <1>1
    <2>3. Measured(j, w, v)' = Measured(j, w, v)
      BY <2>1, <2>2, NoneOfOtherClass
    <2>4. \A k \in Measured(j, w, v) : raw'[k] = raw[k]
      BY <2>1, RecordsStay DEF Measured
    <2> QED
      BY <1>m, <2>3, <2>4
  <1>3. FollowsPlan(m, PlanOf(v), w)'
    BY <1>m, <1>2 DEF ClassInv, FollowsPlan
  <1>4. StopsAtLast(m)'
    BY <1>m, <1>2 DEF ClassInv, StopsAtLast
  <1>5. ASSUME Live'
        PROVE  /\ (\E n \in m : Stops(raw'[n])) => Halted(j, w, v)'
               /\ \/ Halted(j, w, v)'
                  \/ Cardinality(m) = Due(w, v)' + IF Handled(j, w, v)' THEN 1 ELSE 0
    <2>1. Live /\ (Halted(j, w, v) => Halted(j, w, v)')
      BY <1>1 DEF Live, Halted
    <2>2. Due(w, v)' = Due(w, v)
      BY <1>1 DEF Due, BatchesBefore, Here, InVariants, Asked
    <2>3. Handled(j, w, v)' <=> Handled(j, w, v)
      BY <1>1, <1>5 DEF Handled
    <2> QED
      BY <1>m, <1>2, <2>1, <2>2, <2>3 DEF ClassInv
  <1> QED
    BY <1>m, <1>2, <1>3, <1>4, <1>5 DEF ClassInv

LEMMA AppendSchedule ==
    ASSUME IInv, ScheduleInv, NEW i \in Everyone, NEW status \in {"ok", "slow", "failed", "censored"},
           Appends(i, status)
    PROVE  ScheduleInv'
  <1>r. PICK r : r = Record(i, status)
    OBVIOUS
  <1>1. PICK w, v : w = Here.workload /\ v = Asked
    OBVIOUS
  <1>2. /\ pc = "handling" /\ at.stage # "final" /\ i \in pending
        /\ r \in Records /\ raw' = Append(raw, r)
        /\ r.impl = i /\ r.workload = w /\ r.asked = v /\ r.size = Here.size
        /\ UNCHANGED at /\ Here' = Here /\ Asked' = Asked /\ InVariants' = InVariants
        /\ stopped \subseteq stopped' /\ i \in Arms(w, v) /\ ~ Halted(i, w, v)
        /\ Live' => /\ stopped' = stopped \union StopKeys(r)
                    /\ pending' = pending \ {i} /\ pc' = "handling"
    BY <1>r, <1>1, AppendFacts
  <1>3. w \in Workloads /\ v \in Asks
    BY <1>1, <1>2, DueHere DEF IInv
  <1>4. /\ Stops(r) => <<i, w>> \in StopKeys(r) \/ (v # "canonical" /\ <<i, w, v>> \in StopKeys(r))
        /\ \A j, x : <<j, x>> \in StopKeys(r) => j = i
        /\ \A j, x, y : <<j, x, y>> \in StopKeys(r) => j = i
        /\ v = "canonical" => \A j, x : <<j, x>> \in StopKeys(r) => x = w /\ Stops(r)
    BY <1>r, <1>1, <1>2, StopKeysOfRecord DEF IInv
  <1>5. ClassInv(i, w, v)'
    BY <1>1, OwnClassGrows
  <1>6. \A y \in Asks : \A x \in Workloads : \A j \in Arms(x, y) :
            ~ (j = i /\ x = w /\ y = v) => ClassInv(j, x, y)' /\ Measured(j, x, y)' = Measured(j, x, y)
    BY <1>1, OtherClassStays DEF ScheduleInv, CountInv
  <1>7. CountInv'
    <2>1. \A y \in Asks : \A x \in Workloads : \A j \in Arms(x, y) : ClassInv(j, x, y)'
      BY <1>5, <1>6
    <2> QED
      BY <2>1 DEF CountInv, Arms, Supported
  <1>8. PendingInv'
    <2> SUFFICES ASSUME pc' = "handling", NEW j \in pending'
                 PROVE  j \in Arms(w, v) /\ ~ Halted(j, w, v)'
      BY <1>1, <1>2 DEF PendingInv, Arms, Supported, Halted
    <2>1. Live'
      BY DEF Live
    <2>2. j \in pending /\ j # i /\ stopped' = stopped \union StopKeys(r)
      BY <1>2, <2>1
    <2>3. j \in Arms(w, v) /\ ~ Halted(j, w, v)
      BY <1>1, <1>2, <2>2 DEF ScheduleInv, PendingInv
    <2> QED
      BY <1>4, <2>2, <2>3 DEF Halted
  <1>9. Len(raw) \in Nat /\ \A k \in 1..Len(raw) : raw'[k] = raw[k]
    BY <1>2, RecordsStay, LenProperties DEF IInv, TypeOK
  <1>10. /\ Measured(i, w, v)' = Measured(i, w, v) \union {Len(raw) + 1}
         /\ raw'[Len(raw) + 1] = r
    BY <1>2, NextOfItsClass, RecordsStay DEF IInv
  <1>11. \A j, x, y : ~ (j = i /\ x = w /\ y = v) => Measured(j, x, y)' = Measured(j, x, y)
    BY <1>2, NoneOfOtherClass DEF IInv
  <1>12. ASSUME NEW j, NEW x
         PROVE  LET c == Measured(j, x, "canonical")
                IN  /\ Measured(j, x, "canonical")' \in {c, c \union {Len(raw) + 1}}
                    /\ \A k \in c : raw'[k] = raw[k] /\ k \in Measured(j, x, "canonical")'
    <2>1. \A k \in Measured(j, x, "canonical") : k \in 1..Len(raw)
      BY DEF Measured
    <2> QED
      BY <1>9, <1>10, <1>11, <2>1
  <1>13. at.stage = "canonical" <=> v = "canonical"
    BY <1>1, <1>2, HereIsPlanned DEF IInv, TypeOK, Loops, InVariants
  <1>14. at.stage = "canonical" => \A k \in 1..Len(raw') : raw'[k].asked = "canonical"
    <2>1. Len(raw') = Len(raw) + 1
      BY <1>2, AppendProperties DEF IInv, TypeOK
    <2>2. \A k \in 1..Len(raw') : k = Len(raw) + 1 \/ k \in 1..Len(raw)
      BY <1>9, <2>1
    <2> QED
      BY <1>2, <1>9, <1>10, <1>13, <2>2 DEF ScheduleInv, CanonicalInv
  <1>15. CanonicalInv'
    <2> SUFFICES ASSUME at.stage = "canonical", Live', NEW x \in Workloads, NEW j \in Supported(x),
                        <<j, x>> \in stopped'
                 PROVE  \E n \in Measured(j, x, "canonical")' : Stops(raw'[n])
      BY <1>2, <1>14 DEF CanonicalInv, ScheduleInv, Supported
    <2>1. CASE <<j, x>> \in stopped
      <3>1. Live
        BY <1>2 DEF Live
      <3>2. PICK n \in Measured(j, x, "canonical") : Stops(raw[n])
        BY <2>1, <3>1 DEF ScheduleInv, CanonicalInv
      <3> QED
        BY <1>12, <3>2
    <2>2. CASE <<j, x>> \in StopKeys(r)
      <3>1. j = i /\ x = w /\ v = "canonical" /\ Stops(r)
        BY <1>4, <1>13, <2>2
      <3> QED
        BY <1>10, <3>1
    <2> QED
      BY <1>2, <2>1, <2>2
  <1>16. ASSUME NEW x \in Workloads, NEW j \in Supported(x)
         PROVE  ReachInv(j, x)'
    <2>1. ReachInv(j, x)
      BY DEF ScheduleInv
    <2>2. BatchesBefore(x)' = BatchesBefore(x)
      BY <1>2 DEF BatchesBefore
    <2>3. PICK c : c = Measured(j, x, "canonical")
      OBVIOUS
    <2>4. PICK d : d = Measured(j, x, "canonical")'
      OBVIOUS
    <2>5. (\E n \in c : Stops(raw[n])) => (\E n \in d : Stops(raw'[n]))
      BY <1>12, <2>3, <2>4
    <2>6. c \in SUBSET (1..Len(raw)) /\ IsFiniteSet(c) /\ Cardinality(c) \in Nat
      BY <2>3, MeasuredIsFinite DEF IInv
    <2>7. Cardinality(d) \in {Cardinality(c), Cardinality(c) + 1}
      <3>1. d \in {c, c \union {Len(raw) + 1}}
        BY <1>12, <2>3, <2>4
      <3>2. Cardinality(c \union {Len(raw) + 1}) = Cardinality(c) + 1
        BY <2>6, EarlierThanNext DEF IInv
      <3> QED
        BY <3>1, <3>2
    <2>8. BatchesBefore(x) \in Int
      BY BatchesBeforeIsCount DEF IInv
    <2>9. Cardinality(c) >= BatchesBefore(x) => Cardinality(d) >= BatchesBefore(x)
      BY <2>6, <2>7, <2>8
    <2> QED
      BY <2>1, <2>2, <2>3, <2>4, <2>5, <2>9 DEF ReachInv
  <1>17. ASSUME NEW x \in Workloads, NEW j \in Supported(x)
         PROVE  CompleteInv(j, x)'
    <2>1. CASE v = "canonical"
      <3>1. \A y \in Asks \ {"canonical"} : Measured(j, x, y)' = {}
        BY <1>13, <1>14, <2>1 DEF Measured
      <3> QED
        BY <3>1 DEF CompleteInv
    <2>2. CASE v # "canonical"
      <3>1. Measured(j, x, "canonical")' = Measured(j, x, "canonical")
        BY <1>11, <2>2
      <3>2. \A n \in Measured(j, x, "canonical") : raw'[n] = raw[n]
        BY <1>12
      <3>3. CompleteInv(j, x)
        BY DEF ScheduleInv
      <3>4. CASE ~ (j = i /\ x = w)
        BY <1>11, <3>1, <3>2, <3>3, <3>4 DEF CompleteInv
      <3>5. CASE j = i /\ x = w
        <4>1. ~ Halted(i, w, "canonical")
          BY <1>2 DEF Halted
        <4>2. ClassInv(i, w, "canonical")
          BY <3>5 DEF ScheduleInv, CountInv, Arms, Asks
        <4>3. Live /\ ~ Handled(i, w, "canonical")
          BY <1>1, <1>2, <2>2 DEF Live, Handled
        <4>4. Due(w, "canonical") = Planned(Plan, w)
          BY <1>13, <2>2 DEF Due, BatchesBefore
        <4>5. Planned(Plan, w) \in Int
          BY PlannedIsCount
        <4>6. Cardinality(Measured(i, w, "canonical")) = Planned(Plan, w) + 0
          BY <4>1, <4>2, <4>3, <4>4 DEF ClassInv
        <4>7. /\ Cardinality(Measured(i, w, "canonical")) = Planned(Plan, w)
              /\ \A n \in Measured(i, w, "canonical") : ~ Stops(raw[n])
          BY <4>1, <4>2, <4>3, <4>5, <4>6 DEF ClassInv
        <4> QED
          BY <3>1, <3>2, <3>5, <4>7 DEF CompleteInv
      <3> QED
        BY <3>4, <3>5
    <2> QED
      BY <2>1, <2>2
  <1> QED
    BY <1>7, <1>8, <1>15, <1>16, <1>17 DEF ScheduleInv, Supported

\* The run starts with nothing measured and nothing due.
LEMMA InitSchedule == Init => ScheduleInv
  <1> SUFFICES ASSUME Init PROVE ScheduleInv
    OBVIOUS
  <1>0. raw = <<>> /\ Len(raw) = 0 /\ stopped = {} /\ pc = "scheduling"
        /\ at.stage = "canonical" /\ at.point = 1 /\ at.replicate = 0
    BY DEF Init, CanonicalBatch
  <1>1. IInv
    BY InitIInv
  <1>2. \A i, w, v : Measured(i, w, v) = {}
    BY <1>0 DEF Measured
  <1>3. Cardinality({}) = 0
    BY FS_EmptySet
  <1>4. Replicates \in Nat \ {0} /\ 0 * Replicates = 0
    BY PlanAssumption
  <1>5. \A w : Before(Plan, w, 1) * Replicates = 0
    BY <1>4, BeforeCounts
  <1>6. \A w : BatchesBefore(w) = 0
    BY <1>0, <1>4, <1>5 DEF BatchesBefore
  <1>7. \A w, v : Due(w, v) = 0
    BY <1>0, <1>6 DEF Due
  <1>8. ASSUME NEW i, NEW w, NEW v PROVE ~ Handled(i, w, v)
    <2>1. /\ ~ (pc = "handling" /\ i \notin pending)
          /\ ~ (pc \in {"writing", "filling", "advancing"})
      BY <1>0
    <2> QED
      BY <2>1 DEF Handled
  <1>9. \A i, w, v : ClassInv(i, w, v)
    <2>1. \A w, v : FollowsPlan({}, PlanOf(v), w) /\ StopsAtLast({})
      BY DEF FollowsPlan, StopsAtLast
    <2>2. \A i, w, v : Cardinality(Measured(i, w, v)) = Due(w, v) + IF Handled(i, w, v) THEN 1 ELSE 0
      BY <1>2, <1>3, <1>7, <1>8
    <2> QED
      BY <1>2, <2>1, <2>2 DEF ClassInv
  <1>10. CountInv /\ PendingInv
    BY <1>0, <1>9 DEF CountInv, PendingInv
  <1>11. CanonicalInv
    BY <1>0, <1>4 DEF CanonicalInv
  <1>12. \A i, w : ReachInv(i, w) /\ CompleteInv(i, w)
    BY <1>2, <1>3, <1>6 DEF ReachInv, CompleteInv
  <1> QED
    BY <1>10, <1>11, <1>12 DEF ScheduleInv

\* The steps that neither append a record nor move the loops.
LEMMA StandingSchedule ==
    ASSUME IInv, ScheduleInv,
           RunBatch \/ BatchHandled \/ Truncate \/ Fill \/ Finish \/ BatchRaises \/ Crash \/ UNCHANGED vars
    PROVE  ScheduleInv'
  <1>1. UNCHANGED <<raw, at, stopped>>
    BY DEF RunBatch, BatchHandled, Truncate, Fill, Finish, BatchRaises, Crash, vars
  <1>2. Live' => Live
    BY DEF RunBatch, BatchHandled, Truncate, Fill, Finish, BatchRaises, Crash, vars, Live
  <1>3. Here' = Here /\ Asked' = Asked
    BY <1>1 DEF Here, Asked, InVariants
  <1>4. RunBatch => pending' = {i \in Arms(Here.workload, Asked) : ~ Halted(i, Here.workload, Asked)}
    BY BatchIsUnhalted DEF RunBatch, IInv
  <1>5. PendingInv'
    <2>1. CASE RunBatch
      BY <1>1, <1>3, <1>4, <2>1 DEF PendingInv, Arms, Supported, Halted
    <2>2. CASE UNCHANGED vars
      BY <1>3, <2>2 DEF ScheduleInv, PendingInv, Arms, Supported, Halted, vars
    <2>3. CASE BatchHandled \/ Truncate \/ Fill \/ Finish \/ BatchRaises \/ Crash
      <3>1. pc' # "handling"
        BY <2>3 DEF BatchHandled, Truncate, Fill, Finish, BatchRaises, Crash
      <3> QED
        BY <3>1 DEF PendingInv
    <2> QED
      BY <2>1, <2>2, <2>3
  <1>6. ASSUME NEW v \in Asks, NEW w \in Workloads, NEW i \in Arms(w, v), Live', ~ Halted(i, w, v)
        PROVE  Handled(i, w, v)' <=> Handled(i, w, v)
    <2>1. CASE RunBatch
      <3>1. w = Here.workload /\ v = Asked => i \in pending'
        BY <1>4, <1>6, <2>1
      <3> QED
        BY <1>1, <1>3, <2>1, <3>1 DEF RunBatch, Handled
    <2>2. CASE BatchHandled
      BY <1>1, <1>3, <2>2 DEF BatchHandled, Handled
    <2>3. CASE Truncate \/ Finish
      BY <1>1, <1>3, <2>3 DEF Truncate, Finish, Handled
    <2>4. CASE Fill
      BY <1>1, <1>3, <2>4 DEF Fill, Handled
    <2>5. CASE BatchRaises \/ Crash
      BY <1>6, <2>5 DEF BatchRaises, Crash, Live
    <2>6. CASE UNCHANGED vars
      BY <1>3, <2>6 DEF vars, Handled
    <2> QED
      BY <2>1, <2>2, <2>3, <2>4, <2>5, <2>6
  <1> QED
    BY <1>1, <1>2, <1>5, <1>6, ScheduleStays

\* What is due of a class at a place of the loops.
LEMMA DueAt ==
    ASSUME TypeOK, NEW w, NEW v \in Asks
    PROVE  /\ at.stage = "canonical" =>
                  /\ v = "canonical" => Due(w, v) = Before(Plan, w, at.point) * Replicates
                                            + IF Plan[at.point].workload = w THEN at.replicate ELSE 0
                  /\ v # "canonical" => Due(w, v) = 0
           /\ at.stage = "variants" =>
                  /\ v = "canonical" => Due(w, v) = Planned(Plan, w)
                  /\ v # "canonical" => Due(w, v) = Before(VariantPlan, w, at.point) * Replicates
                         + IF VariantPlan[at.point].workload # w THEN 0
                           ELSE IF v = VariantKinds[at.kind] THEN at.replicate
                           ELSE IF v = "shuffled" THEN Replicates ELSE 0
           /\ at.stage = "final" => Due(w, v) = Planned(PlanOf(v), w)
  <1>1. CASE at.stage = "canonical"
    BY <1>1 DEF Due, BatchesBefore, Here, InVariants
  <1>2. CASE at.stage = "variants"
    BY <1>2, PlanAssumption DEF Due, BatchesBefore, Here, InVariants, Asked
  <1>3. CASE at.stage = "final"
    BY <1>3 DEF Due, BatchesBefore, PlanOf
  <1> QED
    BY <1>1, <1>2, <1>3 DEF TypeOK, Loops

\* The batch over is counted: for the class it is of, and for no other.
LEMMA DueAdvances ==
    ASSUME IInv, ScheduleInv, Advance, NEW w \in Workloads, NEW v \in Asks, NEW i \in Arms(w, v),
           ~ Halted(i, w, v)
    PROVE  Due(w, v)' = Due(w, v) + IF w = Here.workload /\ v = Asked THEN 1 ELSE 0
  <1> DEFINE b(plan, p) == Before(plan, w, p) * Replicates
             one(plan, p, n) == IF plan[p].workload = w THEN n ELSE 0
  <1>0. /\ at.stage \in {"canonical", "variants"}
        /\ at.point \in Nat \ {0} /\ at.replicate \in 0..(Replicates - 1)
        /\ Replicates \in Nat \ {0} /\ Asks = {"canonical", "shuffled", "duplicated"}
        /\ at.stage = "variants" => at.kind \in 1..2
    BY PlanAssumption DEF Advance, IInv, TypeOK, AtInv, Loops, InVariants, ScheduleInv, CanonicalInv, Asks
  <1>k. /\ Len(VariantKinds) = 2 /\ VariantKinds[1] = "shuffled" /\ VariantKinds[2] = "duplicated"
    BY PlanAssumption
  <1>b. \A plan : /\ \A p \in Nat \ {0} : /\ b(plan, p) \in Nat
                                          /\ b(plan, p + 1) = b(plan, p) + one(plan, p, Replicates)
                  /\ b(plan, 1) = 0
    <2> SUFFICES ASSUME NEW plan
                 PROVE  /\ \A p \in Nat \ {0} : /\ b(plan, p) \in Nat
                                                /\ b(plan, p + 1) = b(plan, p) + one(plan, p, Replicates)
                        /\ b(plan, 1) = 0
      OBVIOUS
    <2>1. Before(plan, w, 1) = 0 /\ 0 * Replicates = 0
      BY <1>0, BeforeCounts
    <2>2. Replicates \in Nat
      BY <1>0
    <2>3. ASSUME NEW p \in Nat \ {0}
          PROVE  /\ b(plan, p) \in Nat
                 /\ b(plan, p + 1) = b(plan, p) + one(plan, p, Replicates)
      BY <2>2, OneMorePoint
    <2> QED
      BY <2>1, <2>3
  <1>p. \A plan : Planned(plan, w) = b(plan, Len(plan) + 1)
    BY DEF Planned
  <1>now. TypeOK
    BY DEF IInv
  <1> HIDE DEF b
  <1>1. CASE at.stage = "canonical" /\ (AllStopped \/ at.replicate = Replicates - 1)
    <2>1. Here = Plan[at.point] /\ Asked = "canonical" /\ at' = NextPoint /\ at.point \in 1..Len(Plan)
      BY <1>1 DEF Advance, Here, Asked, InVariants, IInv, AtInv
    <2>2. v = "canonical" => Due(w, v) = b(Plan, at.point) + one(Plan, at.point, at.replicate)
      BY <1>now, <1>1, DueAt DEF b
    <2>3. v # "canonical" => Due(w, v) = 0
      BY <1>now, <1>1, DueAt
    <2>4. v = "canonical" /\ w = Here.workload => at.replicate = Replicates - 1
      BY <1>1 DEF AllStopped, Arms, Halted
    <2>5. Due(w, v)' = IF v = "canonical" THEN b(Plan, at.point + 1) ELSE 0
      <3>1. CASE at.point < Len(Plan)
        <4>1. at' = CanonicalBatch(at.point + 1, 0)
          BY <2>1, <3>1 DEF NextPoint
        <4>2. BatchesBefore(w)' = b(Plan, at.point + 1) + 0
          BY <4>1 DEF BatchesBefore, b, CanonicalBatch
        <4>3. b(Plan, at.point + 1) \in Nat
          BY <1>0, <1>b
        <4> QED
          BY <4>1, <4>2, <4>3 DEF Due, CanonicalBatch
      <3>2. CASE ~ (at.point < Len(Plan)) /\ VariantPlan # <<>>
        <4>1. at' = VariantBatch(1, 1, 0) /\ at.point = Len(Plan)
          BY <2>1, <3>2 DEF NextPoint
        <4>2. at'.stage = "variants" /\ at'.point = 1 /\ at'.kind = 1 /\ at'.replicate = 0
          BY <4>1 DEF VariantBatch
        <4>3. v = "canonical" => Due(w, v)' = b(Plan, at.point + 1)
          BY <1>p, <4>1, <4>2 DEF Due, BatchesBefore
        <4>4. v # "canonical" => Due(w, v)' = b(VariantPlan, 1) + 0
          BY <1>0, <1>k, <4>2 DEF Due, Here, Asked, InVariants, b
        <4> QED
          BY <1>b, <4>3, <4>4
      <3>3. CASE ~ (at.point < Len(Plan)) /\ VariantPlan = <<>>
        <4>1. at' = AfterLoops /\ at.point = Len(Plan)
          BY <2>1, <3>3 DEF NextPoint
        <4>2. at'.stage = "final"
          BY <4>1 DEF AfterLoops
        <4>3. v = "canonical" => Due(w, v)' = b(Plan, at.point + 1)
          BY <1>p, <4>1, <4>2 DEF Due, BatchesBefore
        <4>4. v # "canonical" => Due(w, v)' = b(VariantPlan, 1)
          BY <1>p, <3>3, <4>2 DEF Due
        <4> QED
          BY <1>b, <4>3, <4>4
      <3> QED
        BY <3>1, <3>2, <3>3
    <2>6. /\ b(Plan, at.point) \in Nat
          /\ b(Plan, at.point + 1) = b(Plan, at.point) + one(Plan, at.point, Replicates)
      BY <1>0, <1>b
    <2> QED
      BY <1>0, <2>1, <2>2, <2>3, <2>4, <2>5, <2>6
  <1>2. CASE at.stage = "canonical" /\ ~ (AllStopped \/ at.replicate = Replicates - 1)
    <2>1. /\ Here = Plan[at.point] /\ Asked = "canonical"
          /\ at' = CanonicalBatch(at.point, at.replicate + 1)
      BY <1>2 DEF Advance, Here, Asked, InVariants
    <2>2. v = "canonical" => Due(w, v) = b(Plan, at.point) + one(Plan, at.point, at.replicate)
      BY <1>now, <1>2, DueAt DEF b
    <2>3. v # "canonical" => Due(w, v) = 0
      BY <1>now, <1>2, DueAt
    <2>4. /\ v = "canonical" => Due(w, v)' = b(Plan, at.point) + one(Plan, at.point, at.replicate + 1)
          /\ v # "canonical" => Due(w, v)' = 0
      BY <2>1 DEF Due, BatchesBefore, Here, InVariants, CanonicalBatch, b
    <2>5. b(Plan, at.point) \in Nat
      BY <1>0, <1>b
    <2> QED
      BY <1>0, <2>1, <2>2, <2>3, <2>4, <2>5
  <1>3. CASE at.stage = "variants"
    <2> DEFINE here(kind, n) == IF VariantPlan[at.point].workload # w THEN 0
                                ELSE IF v = VariantKinds[kind] THEN n
                                ELSE IF v = "shuffled" THEN Replicates ELSE 0
    <2>1. /\ Here = VariantPlan[at.point] /\ Asked = VariantKinds[at.kind] /\ at' = NextVariant
          /\ at.point \in 1..Len(VariantPlan) /\ at.kind \in 1..2
          /\ Asked # "canonical"
      BY <1>k, <1>3 DEF Advance, Here, Asked, InVariants, IInv, AtInv
    <2>2. /\ v = "canonical" => Due(w, v) = Planned(Plan, w)
          /\ v # "canonical" => Due(w, v) = b(VariantPlan, at.point) + here(at.kind, at.replicate)
      BY <1>now, <1>3, DueAt DEF b
    <2>3. /\ b(VariantPlan, at.point) \in Nat
          /\ b(VariantPlan, at.point + 1) = b(VariantPlan, at.point) + one(VariantPlan, at.point, Replicates)
      BY <1>0, <1>b
    <2>4. v = "canonical" => Due(w, v)' = Planned(Plan, w)
      BY <2>1 DEF NextVariant, VariantBatch, AfterLoops, Due, BatchesBefore
    <2>5. Planned(Plan, w) \in Nat
      BY PlannedIsCount
    <2>6. CASE v = "canonical"
      BY <2>1, <2>2, <2>4, <2>5, <2>6
    <2>7. CASE v # "canonical"
      <3>1. CASE at.replicate < Replicates - 1
        <4>1. at' = VariantBatch(at.point, at.kind, at.replicate + 1)
          BY <2>1, <3>1 DEF NextVariant
        <4>2. Due(w, v)' = b(VariantPlan, at.point) + here(at.kind, at.replicate + 1)
          BY <1>k, <2>7, <4>1 DEF Due, Here, Asked, InVariants, VariantBatch, b
        <4> QED
          BY <1>0, <2>1, <2>2, <2>3, <2>7, <4>2
      <3>2. CASE ~ (at.replicate < Replicates - 1) /\ at.kind < 2
        <4>1. at' = VariantBatch(at.point, 2, 0) /\ at.kind = 1 /\ at.replicate = Replicates - 1
          BY <1>0, <1>k, <2>1, <3>2 DEF NextVariant
        <4>2. Due(w, v)' = b(VariantPlan, at.point) + here(2, 0)
          BY <1>k, <2>7, <4>1 DEF Due, Here, Asked, InVariants, VariantBatch, b
        <4> QED
          BY <1>0, <1>k, <2>1, <2>2, <2>3, <2>7, <4>1, <4>2
      <3>3. CASE ~ (at.replicate < Replicates - 1) /\ at.kind = 2
        <4>1. Due(w, v)' = b(VariantPlan, at.point + 1)
          <5>1. CASE at.point < Len(VariantPlan)
            <6>1. at' = VariantBatch(at.point + 1, 1, 0)
              BY <1>0, <1>k, <2>1, <3>3, <5>1 DEF NextVariant
            <6>2. Due(w, v)' = b(VariantPlan, at.point + 1) + 0
              BY <1>0, <1>k, <2>7, <6>1 DEF Due, Here, Asked, InVariants, VariantBatch, b
            <6>3. b(VariantPlan, at.point + 1) \in Nat
              BY <1>0, <1>b
            <6> QED
              BY <6>2, <6>3
          <5>2. CASE ~ (at.point < Len(VariantPlan))
            <6>1. at' = AfterLoops /\ at.point = Len(VariantPlan)
              BY <1>0, <1>k, <2>1, <3>3, <5>2 DEF NextVariant
            <6> QED
              BY <1>p, <2>7, <6>1 DEF Due, AfterLoops
          <5> QED
            BY <5>1, <5>2
        <4>2. at.replicate = Replicates - 1
          BY <1>0, <3>3
        <4> QED
          BY <1>0, <1>k, <2>1, <2>2, <2>3, <2>7, <3>3, <4>1, <4>2
      <3> QED
        BY <2>1, <3>1, <3>2, <3>3
    <2> QED
      BY <2>6, <2>7
  <1> QED
    BY <1>0, <1>1, <1>2, <1>3

\* The loops move on: a batch more is due, and the records of it are there.
LEMMA AdvanceSchedule ==
    ASSUME IInv, ScheduleInv, Advance
    PROVE  ScheduleInv'
  <1>1. /\ UNCHANGED <<raw, stopped>> /\ pc = "advancing" /\ pc' = "scheduling"
        /\ at.stage # "final" /\ Live
    BY DEF Advance, IInv, AtInv, Live
  <1>2. \A i, w, v : /\ Measured(i, w, v)' = Measured(i, w, v)
                     /\ Halted(i, w, v)' = Halted(i, w, v)
                     /\ ~ Handled(i, w, v)'
    BY <1>1 DEF Measured, Halted, Handled
  <1>3. ASSUME NEW v \in Asks, NEW w \in Workloads, NEW i \in Arms(w, v)
        PROVE  ClassInv(i, w, v)'
    <2>m. PICK m : m = Measured(i, w, v)
      OBVIOUS
    <2>0. ClassInv(i, w, v) /\ Measured(i, w, v)' = m
      BY <1>2, <2>m DEF ScheduleInv, CountInv
    <2>1. FollowsPlan(m, PlanOf(v), w)' /\ StopsAtLast(m)'
      BY <1>1, <2>m, <2>0 DEF ClassInv, FollowsPlan, StopsAtLast
    <2>2. (\E n \in m : Stops(raw'[n])) => Halted(i, w, v)'
      BY <1>1, <1>2, <2>m, <2>0 DEF ClassInv
    <2>3. ASSUME ~ Halted(i, w, v)'
          PROVE  Cardinality(m) = Due(w, v)' + 0
      <3>1. ~ Halted(i, w, v)
        BY <1>2, <2>3
      <3>2. Due(w, v)' = Due(w, v) + IF w = Here.workload /\ v = Asked THEN 1 ELSE 0
        BY <3>1, DueAdvances
      <3>3. Handled(i, w, v) <=> w = Here.workload /\ v = Asked
        BY <1>1 DEF Handled
      <3>4. Cardinality(m) = Due(w, v)'
        BY <1>1, <2>m, <2>0, <3>1, <3>2, <3>3 DEF ClassInv
      <3>5. Cardinality(m) \in Nat
        BY <2>m, MeasuredIsFinite DEF IInv
      <3> QED
        BY <3>4, <3>5
    <2> QED
      BY <1>2, <2>0, <2>1, <2>2, <2>3 DEF ClassInv
  <1>4. CountInv'
    BY <1>3 DEF CountInv, Arms, Supported
  <1>5. PendingInv'
    BY <1>1 DEF PendingInv
  <1>6. CanonicalInv'
    <2> SUFFICES ASSUME at'.stage = "canonical"
                 PROVE  /\ at'.replicate \in 0..(Replicates - 1)
                        /\ at.stage = "canonical"
      BY <1>1, <1>2 DEF ScheduleInv, CanonicalInv
    <2>1. at.stage = "canonical"
      BY <1>1 DEF Advance, NextVariant, VariantBatch, AfterLoops, InVariants, IInv, TypeOK, Loops
    <2>2. at.replicate \in 0..(Replicates - 1) /\ Replicates \in Nat \ {0}
      BY <2>1, PlanAssumption DEF ScheduleInv, CanonicalInv
    <2>3. at' = NextPoint => at'.replicate = 0
      BY DEF NextPoint, CanonicalBatch, VariantBatch, AfterLoops
    <2>4. \/ at' = NextPoint
          \/ at'.replicate = at.replicate + 1 /\ at.replicate + 1 \in 0..(Replicates - 1)
      <3>1. CASE AllStopped \/ at.replicate = Replicates - 1
        <4>1. ~ InVariants
          BY <2>1 DEF InVariants
        <4> QED
          BY <3>1, <4>1 DEF Advance
      <3>2. CASE ~ (AllStopped \/ at.replicate = Replicates - 1)
        <4>1. at' = CanonicalBatch(at.point, at.replicate + 1)
          BY <2>1, <3>2 DEF Advance, InVariants
        <4>2. at.replicate + 1 \in 0..(Replicates - 1)
          BY <2>2, <3>2
        <4> QED
          BY <4>1, <4>2 DEF CanonicalBatch
      <3> QED
        BY <3>1, <3>2
    <2> QED
      BY <2>1, <2>2, <2>3, <2>4
  <1>7. ASSUME NEW w \in Workloads, NEW i \in Supported(w)
        PROVE  ReachInv(i, w)'
    <2>m. PICK m : m = Measured(i, w, "canonical")
      OBVIOUS
    <2>0. Measured(i, w, "canonical")' = m /\ raw' = raw
      BY <1>1, <1>2, <2>m
    <2>1. ReachInv(i, w)
      BY DEF ScheduleInv
    <2>2. CASE <<i, w>> \in stopped /\ at.stage = "canonical"
      <3>1. \E n \in m : Stops(raw[n])
        BY <1>1, <2>2, <2>m DEF ScheduleInv, CanonicalInv
      <3> QED
        BY <2>0, <3>1 DEF ReachInv
    <2>3. CASE at.stage # "canonical"
      <3>1. BatchesBefore(w)' = BatchesBefore(w)
        BY <1>1, <2>3 DEF Advance, InVariants, NextVariant, VariantBatch, AfterLoops, BatchesBefore,
                          IInv, TypeOK, Loops
      <3> QED
        BY <2>m, <2>0, <2>1, <3>1 DEF ReachInv
    <2>4. CASE <<i, w>> \notin stopped
      <3>1. "canonical" \in Asks /\ i \in Arms(w, "canonical")
        BY DEF Asks, Arms
      <3>2. ~ Halted(i, w, "canonical")'
        BY <1>1, <2>4 DEF Halted
      <3>3. Cardinality(m) = Due(w, "canonical")' + 0
        BY <1>1, <1>2, <1>3, <2>0, <3>1, <3>2 DEF ClassInv, Live
      <3>4. Due(w, "canonical")' = BatchesBefore(w)'
        BY DEF Due
      <3>5. BatchesBefore(w)' \in Nat
        <4>1. ~ Halted(i, w, "canonical")
          BY <2>4 DEF Halted
        <4>2. Due(w, "canonical")' = Due(w, "canonical")
                  + IF w = Here.workload /\ "canonical" = Asked THEN 1 ELSE 0
          BY <3>1, <4>1, DueAdvances
        <4>3. Due(w, "canonical") \in Nat
          BY BatchesBeforeIsCount DEF Due, IInv
        <4> QED
          BY <3>4, <4>2, <4>3
      <3> QED
        BY <2>0, <3>3, <3>4, <3>5 DEF ReachInv
    <2> QED
      BY <2>2, <2>3, <2>4
  <1>8. ASSUME NEW w \in Workloads, NEW i \in Supported(w)
        PROVE  CompleteInv(i, w)'
    <2>1. CompleteInv(i, w)
      BY DEF ScheduleInv
    <2> QED
      BY <1>1, <1>2, <2>1 DEF CompleteInv
  <1> QED
    BY <1>4, <1>5, <1>6, <1>7, <1>8 DEF ScheduleInv, Supported

LEMMA NextSchedule == IInv /\ ScheduleInv /\ [Next]_vars => ScheduleInv'
  <1> SUFFICES ASSUME IInv, ScheduleInv, [Next]_vars PROVE ScheduleInv'
    OBVIOUS
  <1>1. ASSUME NEW i \in Everyone, NEW status \in Outcomes, Handle(i, status)
        PROVE  ScheduleInv'
    <2>1. status \in {"ok", "slow", "failed", "censored"} /\ Appends(i, status)
      BY <1>1, PlanAssumption DEF Appends
    <2> QED
      BY <2>1, AppendSchedule
  <1>2. ASSUME NEW i \in Everyone, Unkeyed(i)
        PROVE  ScheduleInv'
    <2>1. Appends(i, "failed")
      BY <1>2 DEF Appends
    <2> QED
      BY <2>1, AppendSchedule
  <1>3. CASE Advance
    BY <1>3, AdvanceSchedule
  <1>4. CASE \/ RunBatch \/ BatchHandled \/ Truncate \/ Fill \/ Finish \/ BatchRaises \/ Crash
             \/ UNCHANGED vars
    BY <1>4, StandingSchedule
  <1> QED
    BY <1>1, <1>2, <1>3, <1>4 DEF Next, Progress, Stutter

\* The schedule's invariant holds in every run, whatever the profile, its
\* variants and the outcomes of its children: also after an abort or a crash.
THEOREM ScheduleInvariance == Spec => []ScheduleInv
  <1>1. Init => IInv /\ ScheduleInv
    BY InitIInv, InitSchedule
  <1>2. IInv /\ ScheduleInv /\ [Next]_vars => (IInv /\ ScheduleInv)'
    BY NextIInv, NextSchedule
  <1> QED
    BY <1>1, <1>2, PTL DEF Spec

\* "stop larger sizes for that implementation/workload, continue other
\* implementations, never extrapolate missing measurements": run_profile's
\* canonical records of an implementation and workload are the plan's, in order
\* and without a hole, up to the one that stops it, which is their last.
THEOREM CanonicalRunsHaveNoHoles == Spec => []CanonicalRecordsHaveNoHoles
  <1>1. ScheduleInv => CanonicalRecordsHaveNoHoles
    <2> SUFFICES ASSUME ScheduleInv, NEW i \in Impls, NEW w \in Support[i]
                 PROVE  LET m == Measured(i, w, "canonical")
                        IN  /\ FollowsPlan(m, Plan, w)
                            /\ StopsAtLast(m)
                            /\ Cardinality(m) >= BatchesBefore(w) \/ \E n \in m : Stops(raw[n])
      BY DEF CanonicalRecordsHaveNoHoles
    <2>1. w \in Workloads /\ i \in Supported(w)
      BY DEF Workloads, Supported, Everyone
    <2>2. ClassInv(i, w, "canonical") /\ ReachInv(i, w)
      BY <2>1 DEF ScheduleInv, CountInv, Arms, Asks
    <2> QED
      BY <2>2 DEF ClassInv, ReachInv, PlanOf
  <1> QED
    BY <1>1, ScheduleInvariance, PTL

\* _run_variants measures in the plan's order, up to an implementation's first
\* failure of a variant, and only whom the canonical loops did not stop: who
\* took part in them has every record of the workload, and none that stops it.
THEOREM VariantsComeAfterCanonical == Spec => []VariantsFollowCanonical
  <1>1. ScheduleInv => VariantsFollowCanonical
    <2> SUFFICES ASSUME ScheduleInv, NEW i \in VariantArms, NEW w \in Support[i],
                        NEW v \in {VariantKinds[k] : k \in 1..2}
                 PROVE  LET m == Measured(i, w, v)
                            c == Measured(i, w, "canonical")
                        IN  /\ FollowsPlan(m, VariantPlan, w)
                            /\ StopsAtLast(m)
                            /\ m # {} /\ i \in Impls =>
                                  /\ Cardinality(c) = Planned(Plan, w)
                                  /\ \A n \in c : ~ Stops(raw[n])
      BY DEF VariantsFollowCanonical
    <2>1. w \in Workloads /\ v \in Asks \ {"canonical"} /\ (i \in Impls => i \in Supported(w))
      BY PlanAssumption DEF Workloads, Supported, Everyone, Asks
    <2>2. ClassInv(i, w, v) /\ (i \in Impls => CompleteInv(i, w))
      BY <2>1 DEF ScheduleInv, CountInv, Arms
    <2> QED
      BY <2>1, <2>2 DEF ClassInv, CompleteInv, PlanOf
  <1> QED
    BY <1>1, ScheduleInvariance, PTL

-----------------------------------------------------------------------------
(***************************************************************************)
(* The commands beside the run (module Publication).  raw.jsonl only grows *)
(* and its records never change, so whatever a command has read of it      *)
(* stays true of it.                                                       *)
(***************************************************************************)
\* Every step of the run keeps the records there are.
LEMMA RawGrows ==
    ASSUME IInv, IInv', [Next]_vars
    PROVE  Len(raw) <= Len(raw') /\ \A n \in 1..Len(raw) : raw'[n] = raw[n]
  <1>1. raw \in Seq(Records) /\ Len(raw) \in Nat
    BY LenProperties DEF IInv, TypeOK
  <1>2. CASE raw' = raw
    BY <1>1, <1>2
  <1>3. ASSUME NEW i \in Everyone, NEW status \in {"ok", "slow", "failed", "censored"},
               pc = "handling", raw' = Append(raw, Record(i, status))
        PROVE  Len(raw) <= Len(raw') /\ \A n \in 1..Len(raw) : raw'[n] = raw[n]
    <2>1. Record(i, status) \in Records
      BY <1>3, RecordIsOfHere DEF IInv, AtInv
    <2> QED
      BY <1>1, <1>3, <2>1, AppendProperties
  <1>4. \A i \in Everyone : Unkeyed(i) => Len(raw) <= Len(raw') /\ \A n \in 1..Len(raw) : raw'[n] = raw[n]
    BY <1>3 DEF Unkeyed
  <1>5. \A i \in Everyone, status \in Outcomes :
            Handle(i, status) => Len(raw) <= Len(raw') /\ \A n \in 1..Len(raw) : raw'[n] = raw[n]
    BY <1>3, PlanAssumption DEF Handle
  <1> QED
    BY <1>2, <1>4, <1>5
       DEF Next, Progress, RunBatch, BatchHandled, Truncate, Fill, Advance, Finish, BatchRaises, Crash,
           Stutter, vars

\* What may be shown together still may when there are more records.
LEMMA CloseStays ==
    ASSUME NEW s, NEW r, Close(s, r), Len(raw) \in Nat, Len(raw') \in Nat,
           Len(raw) <= Len(raw'), \A n \in 1..Len(raw) : raw'[n] = raw[n]
    PROVE  Close(s, r)'
  <1>1. s \in 0..Len(raw') /\ r \in 0..Len(raw')
    BY DEF Close
  <1>2. \A n \in (r + 1)..s : n \in 1..Len(raw)
    BY DEF Close
  <1>3. \A a, b \in (r + 1)..s : OfOneWrite(raw'[a], raw'[b])
    BY <1>2 DEF Close, OfOneWrite
  <1> QED
    BY <1>1, <1>3 DEF Close

\* What run.json lacks at any moment is of one write (LagInv).
LEMMA FiledIsClose ==
    ASSUME IInv, NEW s \in 0..Len(raw)
    PROVE  Close(s, filed)
  <1>1. Len(raw) \in Nat /\ filed \in 0..Len(raw)
    BY LenProperties DEF IInv, TypeOK
  <1>2. \A n \in (filed + 1)..s : n \in (filed + 1)..Len(raw)
    BY <1>1
  <1>3. \A a, b \in (filed + 1)..s : OfOneWrite(raw[a], raw[b])
    BY <1>2 DEF IInv, LagInv, OfOneWrite
  <1> QED
    BY <1>1, <1>3 DEF Close

\* At first there is no derived file, no command and no site.
LEMMA InitSite == SiteInit => SiteIInv
  <1> SUFFICES ASSUME SiteInit PROVE SiteIInv
    OBVIOUS
  <1>1. IInv
    BY InitIInv DEF SiteInit
  <1>2. FilesInv
    BY DEF SiteInit, FilesInv
  <1>3. JobInv
    BY DEF SiteInit, JobInv, Idle, Job, Jobs
  <1>4. SiteInv
    BY DEF SiteInit, SiteInv, DataBacksPages, Published, Missing
  <1> QED
    BY <1>1, <1>2, <1>3, <1>4 DEF SiteIInv

\* A step of the run, beside which no command moves.
LEMMA RunMovesSite ==
    ASSUME SiteIInv, [Next]_vars, UNCHANGED siteVars
    PROVE  SiteIInv'
  <1>1. IInv'
    BY NextIInv DEF SiteIInv
  <1>2. Len(raw) <= Len(raw') /\ \A n \in 1..Len(raw) : raw'[n] = raw[n]
    BY <1>1, RawGrows DEF SiteIInv
  <1>3. Len(raw) \in Nat /\ Len(raw') \in Nat
    BY <1>1, LenProperties DEF SiteIInv, IInv, TypeOK
  <1>4. UNCHANGED <<summaryJson, summaryCsv, halfway, job, site>>
    BY DEF siteVars, files
  <1>5. FilesInv'
    BY <1>2, <1>3, <1>4 DEF SiteIInv, FilesInv
  <1>6. JobInv'
    <2>1. Close(job.summary, job.run) => Close(job.summary, job.run)'
      BY <1>2, <1>3, <1>4, CloseStays
    <2> QED
      BY <1>2, <1>3, <1>4, <2>1 DEF SiteIInv, JobInv
  <1>7. SiteInv'
    <2>1. Close(site.summary, site.run) => Close(site.summary, site.run)'
      BY <1>2, <1>3, <1>4, CloseStays
    <2> QED
      BY <1>4, <2>1 DEF SiteIInv, SiteInv, DataBacksPages, Published
  <1> QED
    BY <1>1, <1>5, <1>6, <1>7 DEF SiteIInv

\* summarize: the files tell the same unless it is cut short.
LEMMA SummarizeStep ==
    ASSUME SiteIInv, UNCHANGED vars,
           ReadRecords \/ WriteJson \/ WriteCsv \/ KillJson \/ KillCsv
    PROVE  SiteIInv'
  <1>1. Len(raw) \in Nat /\ raw' = raw
    BY LenProperties DEF SiteIInv, IInv, TypeOK, vars
  <1>2. IInv'
    BY NextIInv DEF SiteIInv
  <1>3. site' = site
    BY DEF ReadRecords, WriteJson, WriteCsv, KillJson, KillCsv
  <1>4. SiteInv'
    BY <1>1, <1>3 DEF SiteIInv, SiteInv, DataBacksPages, Published, Close
  <1>5. FilesInv' /\ JobInv'
    <2> USE <1>1, <1>3 DEF SiteIInv, FilesInv, JobInv, Jobs, Job, Idle, files
    <2>1. CASE ReadRecords
      BY <2>1 DEF ReadRecords
    <2>2. CASE WriteJson
      <3>1. job' = [job EXCEPT !.at = "summary.csv"] /\ job \in Jobs /\ job.summary \in 0..Len(raw)
        BY <2>2 DEF WriteJson
      <3>2. job' \in Jobs /\ job'.at = "summary.csv" /\ job'.summary = job.summary
        BY <3>1
      <3> QED
        BY <2>2, <3>1, <3>2 DEF WriteJson
    <2>3. CASE WriteCsv
      <3>1. summaryJson' = job.summary /\ summaryCsv' = job.summary /\ halfway' = FALSE /\ job' = Idle
        BY <2>3 DEF WriteCsv
      <3>2. job'.at = "idle" /\ job' \in Jobs
        BY <3>1
      <3>3. FilesInv'
        BY <2>3, <3>1 DEF WriteCsv
      <3>4. JobInv'
        BY <3>2
      <3> QED
        BY <3>3, <3>4
    <2>4. CASE KillJson
      BY <2>4 DEF KillJson
    <2>5. CASE KillCsv
      BY <2>5 DEF KillCsv
    <2> QED
      BY <2>1, <2>2, <2>3, <2>4, <2>5
  <1> QED
    BY <1>2, <1>4, <1>5 DEF SiteIInv

\* site: run.json is read as it is, and no summarize runs until it is over.
LEMMA LoadRunStep ==
    ASSUME SiteIInv, UNCHANGED vars, LoadRun
    PROVE  SiteIInv'
  <1>1. Len(raw) \in Nat /\ raw' = raw /\ UNCHANGED <<summaryJson, summaryCsv, halfway, site>>
    BY LenProperties DEF SiteIInv, IInv, TypeOK, vars, LoadRun, files
  <1>2. IInv'
    BY NextIInv DEF SiteIInv
  <1>3. FilesInv' /\ SiteInv'
    BY <1>1 DEF SiteIInv, FilesInv, SiteInv, DataBacksPages, Published, Close
  <1>4. summaryJson \in 0..Len(raw)
    BY DEF LoadRun, Whole, SiteIInv, FilesInv, Absent, Torn
  <1>5. Close(summaryJson, filed)
    BY <1>4, FiledIsClose DEF SiteIInv
  <1>6. job' = [at |-> "data", summary |-> summaryJson, run |-> filed]
    BY DEF LoadRun, Job
  <1>7. JobInv'
    <2>1. Close(job.summary, job.run)'
      BY <1>1, <1>5, <1>6 DEF Close
    <2>2. job' \in Jobs
      BY <1>4, <1>6 DEF SiteIInv, IInv, TypeOK, Jobs
    <2> QED
      BY <1>1, <1>6, <2>1, <2>2 DEF JobInv
  <1> QED
    BY <1>2, <1>3, <1>7 DEF SiteIInv

LEMMA CopyDataStep ==
    ASSUME SiteIInv, UNCHANGED vars, CopyData
    PROVE  SiteIInv'
  <1>1. Len(raw) \in Nat /\ raw' = raw /\ UNCHANGED <<summaryJson, summaryCsv, halfway>>
    BY LenProperties DEF SiteIInv, IInv, TypeOK, vars, CopyData, files
  <1>2. IInv' /\ FilesInv'
    BY <1>1, NextIInv DEF SiteIInv, FilesInv
  <1>3. job \in Jobs /\ job.at = "data" /\ summaryJson = job.summary /\ Close(job.summary, job.run)
    BY DEF CopyData, SiteIInv, JobInv
  <1>4. CASE summaryCsv = Absent
    <2>1. job' = Idle /\ site' = Broken
      BY <1>4 DEF CopyData
    <2> QED
      BY <1>2, <2>1 DEF SiteIInv, JobInv, Jobs, Idle, Job, SiteInv, DataBacksPages, Published, Broken
  <1>5. CASE summaryCsv # Absent
    <2>1. /\ job' = [job EXCEPT !.at = "pages"]
          /\ site' = [state |-> "no pages", raw |-> Len(raw), json |-> summaryJson,
                      csv |-> summaryCsv, halfway |-> halfway]
      BY <1>5 DEF CopyData
    <2>2. job' \in Jobs /\ job'.at = "pages" /\ job'.summary = job.summary /\ job'.run = job.run
      BY <1>3, <2>1 DEF Jobs
    <2>3. /\ site'.json = summaryJson /\ site'.raw = Len(raw) /\ site'.state = "no pages"
          /\ site'.csv = summaryCsv /\ site'.halfway = halfway
      BY <2>1
    <2>4. job.summary <= Len(raw)
      BY <1>1, <1>3 DEF Close
    <2>5. Close(job.summary, job.run)'
      BY <1>1, <1>3, <2>2 DEF Close
    <2>6. site'.csv = site'.json \/ site'.halfway
      BY <2>3 DEF SiteIInv, FilesInv
    <2>7. JobInv'
      BY <1>1, <1>3, <2>2, <2>3, <2>4, <2>5, <2>6 DEF JobInv
    <2>8. SiteInv'
      BY <2>3 DEF SiteInv, DataBacksPages, Published
    <2> QED
      BY <1>2, <2>7, <2>8 DEF SiteIInv
  <1> QED
    BY <1>4, <1>5

\* The pages are made from what was loaded, beside the files copied since.
LEMMA WritePagesStep ==
    ASSUME SiteIInv, UNCHANGED vars, WritePages
    PROVE  SiteIInv'
  <1>1. raw' = raw /\ UNCHANGED <<summaryJson, summaryCsv, halfway>> /\ job' = Idle
    BY DEF vars, WritePages, files
  <1>2. IInv' /\ FilesInv' /\ JobInv'
    BY <1>1, NextIInv DEF SiteIInv, FilesInv, JobInv, Jobs, Idle, Job
  <1>3. PICK new : /\ new = [state |-> "published", summary |-> job.summary, run |-> job.run,
                              raw |-> site.raw, json |-> site.json, csv |-> site.csv,
                              halfway |-> site.halfway]
                   /\ site' = new \/ site' = Broken
    BY DEF WritePages
  <1>4. CASE site' = Broken
    <2>1. ~ Published'
      BY <1>4 DEF Published, Broken
    <2> QED
      BY <1>2, <2>1 DEF SiteIInv, SiteInv, DataBacksPages, Published
  <1>5. CASE site' = new
    <2>1. /\ site'.summary = job.summary /\ site'.run = job.run /\ site'.raw = site.raw
          /\ site'.json = site.json /\ site'.csv = site.csv /\ site'.halfway = site.halfway
      BY <1>3, <1>5
    <2>2. /\ Close(job.summary, job.run) /\ site.json = job.summary /\ site.raw >= job.summary
          /\ site.csv = site.json \/ site.halfway
      BY DEF WritePages, SiteIInv, JobInv
    <2>3. Close(site.summary, site.run)'
      BY <1>1, <2>1, <2>2 DEF Close
    <2>4. DataBacksPages'
      BY <2>1, <2>2 DEF DataBacksPages
    <2> QED
      BY <1>2, <2>3, <2>4 DEF SiteIInv, SiteInv
  <1> QED
    BY <1>2, <1>3, <1>4, <1>5 DEF SiteIInv

LEMMA KillSiteStep ==
    ASSUME SiteIInv, UNCHANGED vars, KillSite
    PROVE  SiteIInv'
  <1>1. raw' = raw /\ UNCHANGED <<summaryJson, summaryCsv, halfway>> /\ job' = Idle
    BY DEF vars, KillSite, files
  <1>2. IInv' /\ FilesInv' /\ JobInv'
    BY <1>1, NextIInv DEF SiteIInv, FilesInv, JobInv, Jobs, Idle, Job
  <1>3. site' = site \/ site' = Broken
    BY DEF KillSite
  <1>4. SiteInv'
    BY <1>1, <1>3 DEF SiteIInv, SiteInv, DataBacksPages, Published, Close, Broken
  <1> QED
    BY <1>2, <1>4 DEF SiteIInv

LEMMA NextSite == SiteIInv /\ [SiteNext]_allVars => SiteIInv'
  <1> SUFFICES ASSUME SiteIInv, [SiteNext]_allVars PROVE SiteIInv'
    OBVIOUS
  <1>1. CASE Progress /\ UNCHANGED siteVars
    BY <1>1, RunMovesSite DEF Next
  <1>2. CASE Publish /\ UNCHANGED vars
    BY <1>2, SummarizeStep, LoadRunStep, CopyDataStep, WritePagesStep, KillSiteStep DEF Publish
  <1>3. CASE UNCHANGED allVars
    BY <1>3, RunMovesSite DEF allVars
  <1> QED
    BY <1>1, <1>2, <1>3 DEF SiteNext

\* The inductive invariant of the commands beside the run.
THEOREM SiteInvariance == SiteSpec => []SiteIInv
  BY InitSite, NextSite, PTL DEF SiteSpec

\* Whatever the plan, the charts and the kills were: a published summary.json
\* is the one behind the pages, the published raw.jsonl holds all it was made
\* from, and summary.csv tells the same unless the last summarize was killed.
THEOREM EveryFigureHasItsData == SiteSpec => []DataBacksPages
  <1>1. SiteIInv => DataBacksPages
    BY DEF SiteIInv, SiteInv
  <1> QED
    BY <1>1, SiteInvariance, PTL

\* A failed replicate that neither a group nor a stop event of the pages shows
\* is of the one write of run.json that had not come when the site was made,
\* and there is none once the run is done and its run.json was read.
THEOREM HiddenFailuresAreOfOneWrite == SiteSpec => []FailuresAreShown
  <1>1. SiteIInv => FailuresAreShown
    <2> SUFFICES ASSUME SiteIInv, Published PROVE FailuresAreShown
      BY DEF FailuresAreShown
    <2> DEFINE Event(r) == <<r.impl, r.workload, r.size>>
               Events == {Event(r) : r \in {Known[n] : n \in {n \in DOMAIN Known : Failed(Known[n])}}}
               Hidden == {n \in DOMAIN Shown :
                             /\ Failed(Shown[n])
                             /\ Summary!GroupStatus(Shown, Summary!GroupKey(Shown[n])) = "ok"
                             /\ Event(Shown[n]) \notin Events}
    <2>1. Close(site.summary, site.run) /\ raw \in Seq(Records) /\ Len(raw) \in Nat
      BY LenProperties DEF SiteIInv, SiteInv, IInv, TypeOK
    <2>2. site.summary \in 0..Len(raw) /\ site.run \in 0..Len(raw)
      BY <2>1 DEF Close
    <2>3. \A m \in 0..Len(raw) : /\ DOMAIN SubSeq(raw, 1, m) = 1..m
                                 /\ \A n \in 1..m : SubSeq(raw, 1, m)[n] = raw[n]
      <3> SUFFICES ASSUME NEW m \in 0..Len(raw)
                   PROVE  /\ DOMAIN SubSeq(raw, 1, m) = 1..m
                          /\ \A n \in 1..m : SubSeq(raw, 1, m)[n] = raw[n]
        OBVIOUS
      <3>1. \A n \in 1..m : raw[n] \in Records
        BY <2>1, ElementOfSeq
      <3>2. /\ SubSeq(raw, 1, m) \in Seq(Records) /\ Len(SubSeq(raw, 1, m)) = m
            /\ \A n \in 1..m : SubSeq(raw, 1, m)[n] = raw[n]
        BY <2>1, <3>1, SubSeqProperties
      <3> QED
        BY <3>2, LenProperties
    <2>4. Hidden \subseteq (site.run + 1)..site.summary
      <3> SUFFICES ASSUME NEW n \in Hidden, n <= site.run PROVE FALSE
        <4>1. \A n \in Hidden : n \in 1..site.summary
          BY <2>2, <2>3 DEF Shown
        <4>2. site.summary \in Nat /\ site.run \in Nat
          BY <2>2
        <4> HIDE DEF Hidden
        <4> QED
          BY <4>1, <4>2
      <3>1. n \in 1..site.summary /\ Shown[n] = raw[n] /\ Failed(Shown[n])
        BY <2>2, <2>3 DEF Shown
      <3>2. n \in DOMAIN Known /\ Known[n] = raw[n]
        BY <2>2, <2>3, <3>1 DEF Known
      <3>3. Event(Shown[n]) \in Events
        BY <3>1, <3>2
      <3> QED
        BY <3>3
    <2>5. Hidden # {} => site.run # Len(raw)
      BY <2>1, <2>2, <2>4
    <2>6. \A a, b \in Hidden : OfOneWrite(raw[a], raw[b])
      BY <2>1, <2>4 DEF Close
    <2> QED
      BY <2>5, <2>6 DEF FailuresAreShown
  <1> QED
    BY <1>1, SiteInvariance, PTL

-----------------------------------------------------------------------------
(***************************************************************************)
(* The curves of the pages: what they draw of an arm is what was met in    *)
(* the ladder, up to the record that stopped it.                           *)
(***************************************************************************)
\* A record tells the variant its child was asked for, unless run_child made
\* it; it is of a replicate of the profile and, if canonical, of an arm of the run
\* that supports the workload; and a run is done only after the loops.
RecordsTell ==
    \A n \in 1..Len(raw) : raw[n].status # "censored" => raw[n].variant = raw[n].asked
ReplicatesInRange == \A n \in 1..Len(raw) : raw[n].replicate \in 0..(Replicates - 1)
ArmsInRun ==
    \A n \in 1..Len(raw) : raw[n].asked = "canonical" => raw[n].impl \in Supported(raw[n].workload)
EndInv == RecordsTell /\ ReplicatesInRange /\ ArmsInRun /\ (pc = "done" => at.stage = "final")

LEMMA NextEnd == IInv /\ ScheduleInv /\ EndInv /\ [Next]_vars => EndInv'
  <1> SUFFICES ASSUME IInv, ScheduleInv, EndInv, [Next]_vars PROVE EndInv'
    OBVIOUS
  <1>1. ASSUME NEW i \in Everyone, NEW status \in {"ok", "slow", "failed", "censored"},
               i \in pending,
               pc = "handling", raw' = Append(raw, Record(i, status)), pc' # "done"
        PROVE  EndInv'
    <2>1. PICK r \in Records : r = Record(i, status)
      BY <1>1, RecordIsOfHere DEF IInv, AtInv
    <2>2. r.status # "censored" => r.variant = r.asked
      BY <2>1 DEF Record
    <2>3. raw' = Append(raw, r)
      BY <1>1, <2>1
    <2>4. PICK l \in Nat : l = Len(raw)
      BY LenProperties DEF IInv, TypeOK
    <2>5. Len(raw') = l + 1 /\ raw'[l + 1] = r /\ \A n \in 1..l : raw'[n] = raw[n]
      BY <2>3, <2>4, AppendProperties DEF IInv, TypeOK
    <2>6. \A n \in 1..(l + 1) : n = l + 1 \/ n \in 1..l
      OBVIOUS
    <2>7. RecordsTell'
      BY <2>2, <2>4, <2>5, <2>6 DEF EndInv, RecordsTell
    <2>8. r.replicate \in 0..(Replicates - 1)
      <3>1. at.replicate \in 0..(Replicates - 1)
        BY <1>1 DEF IInv, TypeOK, AtInv, InVariants, Loops, ScheduleInv, CanonicalInv
      <3> QED
        BY <2>1, <3>1 DEF Record
    <2>9. ReplicatesInRange'
      BY <2>4, <2>5, <2>6, <2>8 DEF EndInv, ReplicatesInRange
    <2>10. r.asked = "canonical" => r.impl \in Supported(r.workload)
      <3>1. r.impl = i /\ r.workload = Here.workload /\ r.asked = Asked
        BY <2>1 DEF Record
      <3>2. i \in Arms(Here.workload, Asked)
        BY <1>1 DEF ScheduleInv, PendingInv
      <3> QED
        BY <3>1, <3>2 DEF Arms
    <2>11. ArmsInRun'
      BY <2>4, <2>5, <2>6, <2>10 DEF EndInv, ArmsInRun, Supported
    <2> QED
      BY <1>1, <2>7, <2>9, <2>11 DEF EndInv
  <1>2. ASSUME NEW i \in Everyone, NEW status \in Outcomes, Handle(i, status)
        PROVE  EndInv'
    BY <1>1, <1>2, PlanAssumption DEF Handle
  <1>3. ASSUME NEW i \in Everyone, Unkeyed(i)
        PROVE  EndInv'
    BY <1>1, <1>3 DEF Unkeyed
  <1>4. CASE \/ RunBatch \/ BatchHandled \/ Truncate \/ Fill \/ Advance \/ Finish
             \/ BatchRaises \/ Crash \/ UNCHANGED vars
    BY <1>4 DEF RunBatch, BatchHandled, Truncate, Fill, Advance, Finish, BatchRaises, Crash, vars,
                EndInv, RecordsTell, ReplicatesInRange, ArmsInRun, Supported
  <1> QED
    BY <1>2, <1>3, <1>4 DEF Next, Progress, Stutter

\* Beside the commands the run keeps its schedule.
LEMMA ScheduleBesideSite == SiteSpec => [](SiteIInv /\ ScheduleInv /\ EndInv)
  <1>1. SiteInit => SiteIInv /\ ScheduleInv /\ EndInv
    <2>1. Init => EndInv
      <3> SUFFICES ASSUME Init PROVE EndInv
        OBVIOUS
      <3>1. raw = <<>> /\ Len(raw) = 0 /\ pc = "scheduling"
        BY DEF Init
      <3> QED
        BY <3>1 DEF EndInv, RecordsTell, ReplicatesInRange, ArmsInRun
    <2> QED
      BY <2>1, InitSite, InitSchedule DEF SiteInit
  <1>2. SiteIInv /\ ScheduleInv /\ EndInv /\ [SiteNext]_allVars => (SiteIInv /\ ScheduleInv /\ EndInv)'
    <2> SUFFICES ASSUME SiteIInv, ScheduleInv, EndInv, [SiteNext]_allVars
                 PROVE  ScheduleInv' /\ EndInv'
      BY NextSite
    <2>1. [Next]_vars
      BY DEF SiteNext, Next, allVars
    <2> QED
      BY <2>1, NextSchedule, NextEnd DEF SiteIInv
  <1> QED
    BY <1>1, <1>2, PTL DEF SiteSpec

\* The size of a record of an arm and workload that has a median on the pages.
Met(i, w, s) == \E n \in Measured(i, w, "canonical") :
                    n <= site.summary /\ raw[n].size = s /\ raw[n].status \in {"ok", "slow"}

\* The records behind the pages are the first ones of raw.jsonl.
LEMMA ShownIsRaw ==
    ASSUME IInv, site.summary \in 0..Len(raw)
    PROVE  /\ DOMAIN Shown = 1..site.summary
           /\ \A n \in 1..site.summary : n \in 1..Len(raw) /\ Shown[n] = raw[n] /\ raw[n] \in Records
  <1>1. raw \in Seq(Records) /\ Len(raw) \in Nat
    BY LenProperties DEF IInv, TypeOK
  <1>2. \A n \in 1..site.summary : n \in 1..Len(raw) /\ raw[n] \in Records
    BY <1>1, ElementOfSeq
  <1>3. /\ Shown \in Seq(Records) /\ Len(Shown) = site.summary
        /\ \A n \in 1..site.summary : Shown[n] = raw[n]
    BY <1>1, <1>2, SubSeqProperties DEF Shown
  <1> QED
    BY <1>2, <1>3, LenProperties

\* A point is drawn where a record of it has a median, and only there.
LEMMA MedianIsMet ==
    ASSUME IInv, RecordsTell, site.summary \in 0..Len(raw), NEW i, NEW w, NEW s
    PROVE  /\ <<w, s, i, "canonical">> \in Summary!Measured(Shown) <=> Met(i, w, s)
           /\ <<w, s, i, "canonical">> \in Summary!Measured(Shown) => s \in Summary!SizesOf(Shown, w)
  <1> DEFINE g == <<w, s, i, "canonical">>
  <1>1. /\ DOMAIN Shown = 1..site.summary
        /\ \A n \in 1..site.summary : n \in 1..Len(raw) /\ Shown[n] = raw[n] /\ raw[n] \in Records
    BY ShownIsRaw
  <1>2. \A r : r \in Summary!ToSet(Shown) <=> \E n \in 1..site.summary : r = raw[n]
    BY <1>1 DEF Summary!ToSet
  <1>3. g \in Summary!Measured(Shown) <=>
            \E r \in Summary!ToSet(Shown) : Summary!GroupKey(r) = g /\ Summary!Ok(r)
    BY DEF Summary!Measured, Summary!Groups, Summary!GroupStatus
  <1>4. g \in Summary!Measured(Shown) <=>
            \E n \in 1..site.summary : Summary!GroupKey(raw[n]) = g /\ Summary!Ok(raw[n])
    BY <1>2, <1>3
  <1>5. \A n \in 1..site.summary :
            Summary!GroupKey(raw[n]) = g /\ Summary!Ok(raw[n]) <=>
            /\ raw[n].workload = w /\ raw[n].size = s /\ raw[n].impl = i
            /\ raw[n].asked = "canonical" /\ raw[n].status \in {"ok", "slow"}
    BY <1>1 DEF Summary!GroupKey, Summary!Ok, RecordsTell
  <1>6. g \in Summary!Measured(Shown) <=> Met(i, w, s)
    BY <1>1, <1>4, <1>5 DEF Met, Measured
  <1>7. g \in Summary!Measured(Shown) => s \in Summary!SizesOf(Shown, w)
    BY DEF Summary!Measured, Summary!SizesOf
  <1> QED
    BY <1>6, <1>7

LEMMA DrawnIsMet ==
    ASSUME IInv, RecordsTell, site.summary \in 0..Len(raw), NEW i, NEW w
    PROVE  \A s : s \in Drawn(i, w) <=> Met(i, w, s)
  <1> DEFINE sizes(j) == {s \in Summary!SizesOf(Shown, w) : Summary!PointOf(Shown, w, s, j) # {}}
             curve == Summary!TimeVsSize(Shown, w, {i})
  <1>1. ASSUME NEW s
        PROVE  Summary!PointOf(Shown, w, s, i) # {} <=> <<w, s, i, "canonical">> \in Summary!Measured(Shown)
    BY DEF Summary!PointOf, Summary!Drawn, Summary!CanonicalLookup, Summary!Measured
  <1>2. \A s : s \in sizes(i) <=> Met(i, w, s)
    BY <1>1, MedianIsMet
  <1>3. curve = [j \in {j \in {i} : sizes(j) # {}} |->
                    [s \in sizes(j) |-> CHOOSE p \in Summary!PointOf(Shown, w, s, j) : TRUE]]
    BY DEF Summary!TimeVsSize
  <1>4. Drawn(i, w) = IF i \in DOMAIN curve THEN DOMAIN curve[i] ELSE {}
    BY DEF Drawn
  <1>5. Drawn(i, w) = sizes(i)
    <2> HIDE DEF sizes
    <2> QED
      BY <1>3, <1>4
  <1> QED
    BY <1>2, <1>5

\* The places of a set of numbers, counted from below.
LEMMA Ranked ==
    ASSUME NEW S \in SUBSET Nat, IsFiniteSet(S)
    PROVE  /\ \A x \in S : Earlier(S, x) \in 0..(Cardinality(S) - 1)
           /\ \A x, y \in S : x < y => Earlier(S, x) < Earlier(S, y)
           /\ \A n \in 0..(Cardinality(S) - 1) : \E x \in S : Earlier(S, x) = n
  <1> DEFINE below(x) == {y \in S : y < x}
             rank == [x \in S |-> Cardinality(below(x))]
             T == 0..(Cardinality(S) - 1)
  <1>1. Cardinality(S) \in Nat
    BY FS_CardinalityType
  <1>2. ASSUME NEW x \in S
        PROVE  /\ IsFiniteSet(below(x)) /\ Cardinality(below(x)) \in Nat
               /\ x \notin below(x)
               /\ Cardinality(below(x) \union {x}) = Cardinality(below(x)) + 1
    <2>1. below(x) \in SUBSET S /\ x \notin below(x)
      OBVIOUS
    <2> HIDE DEF below
    <2>2. IsFiniteSet(below(x)) /\ Cardinality(below(x)) \in Nat
      BY <2>1, FS_Subset, FS_CardinalityType
    <2> QED
      BY <2>1, <2>2, FS_AddElement
  <1>3. ASSUME NEW x \in S, NEW U, U \in SUBSET S, IsFiniteSet(U), below(x) \union {x} \subseteq U
        PROVE  Cardinality(below(x)) < Cardinality(U)
    <2>1. Cardinality(below(x) \union {x}) <= Cardinality(U)
      BY <1>3, FS_Subset
    <2>2. Cardinality(U) \in Nat
      BY <1>3, FS_CardinalityType
    <2> HIDE DEF below
    <2> QED
      BY <1>2, <2>1, <2>2
  <1>4. ASSUME NEW x \in S, NEW y \in S, x < y
        PROVE  rank[x] < rank[y]
    <2>0. \A z \in S : z < x => z < y
      <3> SUFFICES ASSUME NEW z \in S, z < x PROVE z < y
        OBVIOUS
      <3>1. x \in Nat /\ y \in Nat /\ z \in Nat
        OBVIOUS
      <3> QED
        BY <1>4, <3>1
    <2>1. below(x) \union {x} \subseteq below(y) /\ below(y) \in SUBSET S
      BY <1>4, <2>0
    <2> HIDE DEF below
    <2>2. Cardinality(below(x)) < Cardinality(below(y))
      BY <1>2, <1>3, <2>1
    <2> QED
      BY <2>2
  <1>5. rank \in [S -> T]
    <2> SUFFICES ASSUME NEW x \in S PROVE Cardinality(below(x)) \in T
      OBVIOUS
    <2>1. below(x) \union {x} \subseteq S
      OBVIOUS
    <2> HIDE DEF below
    <2>2. Cardinality(below(x)) < Cardinality(S)
      BY <1>3, <2>1
    <2>3. PICK c \in Nat : c = Cardinality(below(x))
      BY <1>2
    <2>4. c \in 0..(Cardinality(S) - 1)
      BY <1>1, <2>2, <2>3
    <2> QED
      BY <2>3, <2>4
  <1>6. \A x, y \in S : rank[x] = rank[y] => x = y
    <2> SUFFICES ASSUME NEW x \in S, NEW y \in S, rank[x] = rank[y] PROVE x = y
      OBVIOUS
    <2>1. x \in Nat /\ y \in Nat /\ rank[x] \in Int /\ rank[y] \in Int
      BY <1>5
    <2> HIDE DEF rank
    <2> QED
      BY <1>4, <2>1
  <1>7. \A n \in T : \E x \in S : rank[x] = n
    <2> HIDE DEF rank
    <2>1. rank \in Injection(S, T)
      BY <1>5, <1>6 DEF Injection, IsInjective
    <2>2. IsFiniteSet(T) /\ Cardinality(T) = Cardinality(S)
      <3>1. 0 \in Int /\ Cardinality(S) - 1 \in Int
        BY <1>1
      <3> QED
        BY <1>1, <3>1, FS_Interval
    <2>3. rank \in Surjection(S, T)
      BY <2>1, <2>2, FS_Injection
    <2> QED
      BY <2>3 DEF Surjection
  <1>8. \A x \in S : rank[x] = Earlier(S, x)
    BY DEF Earlier
  <1> HIDE DEF rank
  <1> QED
    BY <1>4, <1>5, <1>7, <1>8

\* The places of the records of a class: every number below their count is one,
\* and they come in the order of raw.jsonl.
LEMMA Places ==
    ASSUME TypeOK, NEW m \in SUBSET (1..Len(raw))
    PROVE  /\ Cardinality(m) \in Nat /\ \A n \in m : Earlier(m, n) \in Nat
           /\ \A n, k \in m : Earlier(m, k) < Earlier(m, n) => k < n
           /\ \A n, k \in m : k < n => Earlier(m, k) < Earlier(m, n)
           /\ \A n \in m : Earlier(m, n) < Cardinality(m)
           /\ \A r \in Nat : r < Cardinality(m) => \E k \in m : Earlier(m, k) = r
  <1>1. Len(raw) \in Nat
    BY LenProperties DEF TypeOK
  <1>2. IsFiniteSet(1..Len(raw))
    BY <1>1, FS_Interval
  <1>3. m \in SUBSET Nat /\ IsFiniteSet(m) /\ Cardinality(m) \in Nat
    <2>1. \A n \in 1..Len(raw) : n \in Nat
      BY <1>1
    <2> QED
      BY <1>2, <2>1, FS_Subset, FS_CardinalityType
  <1>4. /\ \A n \in m : Earlier(m, n) \in 0..(Cardinality(m) - 1)
        /\ \A k, n \in m : k < n => Earlier(m, k) < Earlier(m, n)
        /\ \A r \in 0..(Cardinality(m) - 1) : \E k \in m : Earlier(m, k) = r
    BY <1>3, Ranked
  <1>5. \A n, k \in m : Earlier(m, k) < Earlier(m, n) => k < n
    <2> SUFFICES ASSUME NEW n \in m, NEW k \in m, Earlier(m, k) < Earlier(m, n), ~ (k < n)
                 PROVE  FALSE
      OBVIOUS
    <2>1. k = n \/ n < k
      BY <1>3
    <2>2. Earlier(m, n) \in Nat /\ Earlier(m, k) \in Nat
      BY <1>4
    <2> QED
      BY <1>4, <2>1, <2>2
  <1>6. ASSUME NEW r \in Nat, r < Cardinality(m)
        PROVE  \E k \in m : Earlier(m, k) = r
    <2>1. r \in 0..(Cardinality(m) - 1)
      BY <1>3, <1>6
    <2> QED
      BY <1>4, <2>1
  <1> QED
    BY <1>3, <1>4, <1>5, <1>6

\* An earlier point of a workload has fewer of the workload's points before it.
LEMMA BeforeAscends ==
    ASSUME NEW plan, NEW w, NEW q \in Nat \ {0}, NEW p \in Nat, q < p, plan[q].workload = w
    PROVE  Before(plan, w, q) + 1 <= Before(plan, w, p)
  <1> DEFINE S == {k \in 1..(q - 1) : plan[k].workload = w}
             T == {k \in 1..(p - 1) : plan[k].workload = w}
  <1>1. IsFiniteSet(1..(q - 1)) /\ IsFiniteSet(1..(p - 1))
    BY FS_Interval
  <1>2. S \in SUBSET (1..(q - 1)) /\ T \in SUBSET (1..(p - 1))
    OBVIOUS
  <1>3. S \union {q} \subseteq T /\ q \notin S
    OBVIOUS
  <1>4. Before(plan, w, q) = Cardinality(S) /\ Before(plan, w, p) = Cardinality(T)
    BY DEF Before
  <1> HIDE DEF S, T
  <1>5. IsFiniteSet(S) /\ IsFiniteSet(T) /\ Cardinality(S) \in Nat
    BY <1>1, <1>2, FS_Subset, FS_CardinalityType
  <1>6. Cardinality(S \union {q}) = Cardinality(S) + 1 /\ Cardinality(S \union {q}) <= Cardinality(T)
    BY <1>3, <1>5, FS_AddElement, FS_Subset
  <1> QED
    BY <1>4, <1>6

\* Of two points of a workload, the replicates of the earlier all come before.
LEMMA ReplicatesAscend ==
    ASSUME NEW w, NEW q \in 1..Len(Plan), NEW p \in Nat \ {0}, q < p, Plan[q].workload = w,
           NEW r \in 0..(Replicates - 1)
    PROVE  /\ Before(Plan, w, q) * Replicates \in Nat /\ Before(Plan, w, p) * Replicates \in Nat
           /\ Before(Plan, w, q) * Replicates + r < Before(Plan, w, p) * Replicates
  <1>0. Replicates \in Nat \ {0} /\ q \in Nat \ {0} /\ p \in Nat \ {0}
    BY PlanAssumption
  <1>1. PICK b \in Nat : b = Before(Plan, w, q)
    BY <1>0, BeforeCounts
  <1>2. PICK c \in Nat : c = Before(Plan, w, p)
    BY <1>0, BeforeCounts
  <1>3. b + 1 <= c
    BY <1>0, <1>1, <1>2, BeforeAscends
  <1>4. PICK R \in Nat : R = Replicates
    BY <1>0
  <1>5. PICK d \in Nat : c = (b + 1) + d
    BY <1>3
  <1>6. c * R = b * R + R + d * R /\ d * R \in Nat /\ b * R \in Nat
    BY <1>5
  <1>7. PICK x \in Nat : x = b * R
    BY <1>6
  <1>8. PICK y \in Nat : y = d * R
    BY <1>6
  <1>9. c * R = x + R + y /\ r < R /\ r \in Nat
    BY <1>0, <1>4, <1>6, <1>7, <1>8
  <1>10. x + r < c * R /\ c * R \in Nat
    BY <1>9
  <1> QED
    BY <1>1, <1>2, <1>4, <1>7, <1>10

\* The records of a class reach every point its plan has before their count.
LEMMA LadderMet ==
    ASSUME TypeOK, NEW m \in SUBSET (1..Len(raw)), NEW w, FollowsPlan(m, Plan, w),
           NEW q \in 1..Len(Plan), Plan[q].workload = w,
           Before(Plan, w, q) * Replicates < Cardinality(m)
    PROVE  \E k \in m : raw[k].size = Plan[q].size /\ Earlier(m, k) = Before(Plan, w, q) * Replicates
  <1>0. /\ \A p \in 1..Len(Plan) : p \in Nat \ {0}
        /\ Replicates \in Nat \ {0}
        /\ q \in Nat \ {0}
    BY PlanAssumption
  <1>1. Before(Plan, w, q) * Replicates \in Nat
    BY <1>0, OneMorePoint
  <1>2. PICK k \in m : Earlier(m, k) = Before(Plan, w, q) * Replicates
    BY <1>1, Places
  <1>3. PICK p \in 1..Len(Plan) :
            /\ Plan[p].workload = w /\ Plan[p].size = raw[k].size
            /\ raw[k].replicate \in 0..(Replicates - 1)
            /\ Earlier(m, k) = Before(Plan, w, p) * Replicates + raw[k].replicate
    BY DEF FollowsPlan
  <1>4. ~ (p < q)
    <2> SUFFICES ASSUME p < q PROVE FALSE
      OBVIOUS
    <2>1. Before(Plan, w, p) * Replicates + raw[k].replicate < Before(Plan, w, q) * Replicates
      BY <1>0, <1>3, ReplicatesAscend
    <2> QED
      BY <1>1, <1>2, <1>3, <2>1
  <1>5. ~ (q < p)
    <2> SUFFICES ASSUME q < p PROVE FALSE
      OBVIOUS
    <2>1. 0 \in 0..(Replicates - 1)
      BY <1>0
    <2>2. /\ Before(Plan, w, q) * Replicates + 0 < Before(Plan, w, p) * Replicates
          /\ Before(Plan, w, p) * Replicates \in Nat
      BY <1>0, <1>3, <2>1, ReplicatesAscend
    <2>3. PICK b \in Nat : b = Before(Plan, w, p) * Replicates
      BY <2>2
    <2>4. PICK c \in Nat : c = Before(Plan, w, q) * Replicates
      BY <1>1
    <2> QED
      BY <1>0, <1>2, <1>3, <2>2, <2>3, <2>4
  <1>6. p = q
    BY <1>0, <1>4, <1>5
  <1> QED
    BY <1>2, <1>3, <1>6

\* The sizes of an arm's records ascend, and no smaller size was left out.
LEMMA SizesAscend ==
    ASSUME TypeOK, NEW m \in SUBSET (1..Len(raw)), NEW w, FollowsPlan(m, Plan, w), NEW n \in m
    PROVE  /\ raw[n].size \in Ladder(w) /\ raw[n].size \in Nat
           /\ \A k \in m : k < n => raw[k].size <= raw[n].size
           /\ \A t \in Ladder(w) : t < raw[n].size => \E k \in m : k < n /\ raw[k].size = t
  <1> DEFINE At(k, p) == /\ Plan[p].workload = w /\ Plan[p].size = raw[k].size
                         /\ raw[k].replicate \in 0..(Replicates - 1)
                         /\ Earlier(m, k) = Before(Plan, w, p) * Replicates + raw[k].replicate
  <1>0. /\ Plan \in Seq(PlanPoint) /\ DOMAIN Plan = 1..Len(Plan) /\ Replicates \in Nat \ {0}
        /\ \A p \in 1..Len(Plan) : p \in Nat \ {0} /\ Plan[p].size \in Nat
    <2>1. Plan \in Seq(PlanPoint) /\ DOMAIN Plan = 1..Len(Plan)
      BY PlanAssumption, LenProperties
    <2>2. \A p \in 1..Len(Plan) : Plan[p] \in PlanPoint
      BY <2>1, ElementOfSeq
    <2> QED
      BY <2>1, <2>2, PlanAssumption DEF PlanPoint
  <1>1. \A k \in m : \E p \in 1..Len(Plan) : At(k, p)
    BY DEF FollowsPlan
  <1>2. PICK p \in 1..Len(Plan) : At(n, p)
    BY <1>1
  <1>3. \A t : t \in Ladder(w) <=> \E q \in 1..Len(Plan) : Plan[q].workload = w /\ Plan[q].size = t
    BY <1>0 DEF Ladder
  <1>4. raw[n].size \in Ladder(w) /\ raw[n].size \in Nat
    BY <1>0, <1>2, <1>3
  <1>5. \A k \in m : Earlier(m, k) \in Nat
    BY Places
  <1>6. ASSUME NEW k \in m, k < n
        PROVE  raw[k].size <= raw[n].size
    <2>1. PICK q \in 1..Len(Plan) : At(k, q)
      BY <1>1
    <2>2. Earlier(m, k) < Earlier(m, n)
      BY <1>6, Places
    <2>3. ~ (p < q)
      <3> SUFFICES ASSUME p < q PROVE FALSE
        OBVIOUS
      <3>1. /\ Before(Plan, w, p) * Replicates + raw[n].replicate < Before(Plan, w, q) * Replicates
            /\ Before(Plan, w, q) * Replicates \in Nat
        BY <1>0, <1>2, ReplicatesAscend
      <3>2. PICK b \in Nat : b = Before(Plan, w, q) * Replicates
        BY <3>1
      <3> QED
        BY <1>0, <1>2, <1>5, <2>1, <2>2, <3>1, <3>2
    <2>4. q < p => Plan[q].size < Plan[p].size
      BY <1>2, <2>1, PublicationAssumption
    <2> QED
      BY <1>0, <1>2, <2>1, <2>3, <2>4
  <1>7. ASSUME NEW t \in Ladder(w), t < raw[n].size
        PROVE  \E k \in m : k < n /\ raw[k].size = t
    <2>1. PICK q \in 1..Len(Plan) : Plan[q].workload = w /\ Plan[q].size = t
      BY <1>3
    <2>2. p < q => Plan[p].size < Plan[q].size
      BY <1>2, <2>1, PublicationAssumption
    <2>3. q < p
      BY <1>0, <1>2, <1>7, <2>1, <2>2
    <2>4. 0 \in 0..(Replicates - 1)
      BY <1>0
    <2>5. /\ Before(Plan, w, q) * Replicates + 0 < Before(Plan, w, p) * Replicates
          /\ Before(Plan, w, q) * Replicates \in Nat /\ Before(Plan, w, p) * Replicates \in Nat
      BY <1>0, <2>1, <2>3, <2>4, ReplicatesAscend
    <2>6. Before(Plan, w, q) * Replicates < Earlier(m, n)
      <3>1. PICK b \in Nat : b = Before(Plan, w, p) * Replicates
        BY <2>5
      <3>2. PICK c \in Nat : c = Before(Plan, w, q) * Replicates
        BY <2>5
      <3> QED
        BY <1>0, <1>2, <2>5, <3>1, <3>2
    <2>7. PICK k \in m : raw[k].size = t /\ Earlier(m, k) = Before(Plan, w, q) * Replicates
      <3>1. Before(Plan, w, q) * Replicates < Cardinality(m)
        <4>1. PICK c \in Nat : c = Before(Plan, w, q) * Replicates
          BY <2>5
        <4>2. Earlier(m, n) < Cardinality(m) /\ Earlier(m, n) \in Nat /\ Cardinality(m) \in Nat
          BY Places
        <4> QED
          BY <2>6, <4>1, <4>2
      <3>2. Plan[q].workload = w /\ Plan[q].size = t
        BY <2>1
      <3> HIDE DEF At
      <3>3. \E k \in m : /\ raw[k].size = Plan[q].size
                         /\ Earlier(m, k) = Before(Plan, w, q) * Replicates
        BY <3>1, <3>2, LadderMet
      <3> QED
        BY <3>2, <3>3
    <2> QED
      BY <2>6, <2>7, Places
  <1> QED
    BY <1>4, <1>6, <1>7

\* What holds of a curve and the records that stopped its arm.
LEMMA CurveOfArm ==
    ASSUME SiteIInv, ScheduleInv, EndInv, Published, NEW w, NEW i \in Supported(w),
           NEW stops, \A x : x \in stops <=> \E n \in Measured(i, w, "canonical") :
                                 n <= site.summary /\ raw[n].size = x /\ Stops(raw[n])
    PROVE  /\ \A s \in Drawn(i, w) : s \in Ladder(w) /\ s \in Nat
           /\ \A s \in Drawn(i, w), t \in Ladder(w) : t < s => t \in Drawn(i, w)
           /\ \A x \in stops, t \in Ladder(w) :
                 /\ t < x => t \in Drawn(i, w)
                 /\ t > x => t \notin Drawn(i, w)
           /\ stops = {} /\ pc = "done" /\ site.summary = Len(raw) => Drawn(i, w) = Ladder(w)
  <1>1. /\ IInv /\ TypeOK /\ RecordsTell
        /\ raw \in Seq(Records) /\ Len(raw) \in Nat /\ site.summary \in 0..Len(raw)
    BY LenProperties DEF SiteIInv, SiteInv, Close, IInv, TypeOK, EndInv
  <1>2. w \in Workloads /\ i \in Supported(w)
    BY DEF Workloads, Supported, Everyone
  <1> DEFINE m == Measured(i, w, "canonical")
  <1>3. /\ FollowsPlan(m, Plan, w) /\ StopsAtLast(m)
        /\ Cardinality(m) >= BatchesBefore(w) \/ \E n \in m : Stops(raw[n])
    <2>1. ClassInv(i, w, "canonical") /\ ReachInv(i, w)
      BY <1>2 DEF ScheduleInv, CountInv, Arms, Asks
    <2> QED
      BY <2>1 DEF ClassInv, ReachInv, PlanOf
  <1>4. /\ m \in SUBSET (1..Len(raw)) /\ Cardinality(m) \in Nat
        /\ \A n \in m : n \in Nat /\ raw[n] \in Records
    <2>1. m \in SUBSET (1..Len(raw)) /\ Cardinality(m) \in Nat
      BY <1>1, MeasuredIsFinite
    <2>2. \A n \in 1..Len(raw) : n \in Nat /\ raw[n] \in Records
      BY <1>1, ElementOfSeq
    <2> HIDE DEF m
    <2> QED
      BY <2>1, <2>2
  <1>5. \A s : s \in Drawn(i, w) <=>
                  \E n \in m : n <= site.summary /\ raw[n].size = s /\ raw[n].status \in {"ok", "slow"}
    BY <1>1, DrawnIsMet DEF Met
  <1>6. \A n \in m : Stops(raw[n]) \/ raw[n].status \in {"ok", "slow"}
    BY <1>4 DEF Stops, Failed, Records
  <1>7. \A n, k \in m : k < n => raw[k].status \in {"ok", "slow"}
    BY <1>3, <1>6 DEF StopsAtLast
  <1>8. \A x : x \in stops <=> \E n \in m : n <= site.summary /\ raw[n].size = x /\ Stops(raw[n])
    OBVIOUS
  <1> HIDE DEF m
  <1>9. ASSUME NEW n \in m
        PROVE  /\ raw[n].size \in Ladder(w) /\ raw[n].size \in Nat
               /\ \A k \in m : k < n => raw[k].size <= raw[n].size
               /\ \A t \in Ladder(w) : t < raw[n].size => \E k \in m : k < n /\ raw[k].size = t
    BY <1>1, <1>3, <1>4, SizesAscend
  <1>10. ASSUME NEW n \in m, n <= site.summary, NEW t \in Ladder(w), t < raw[n].size
         PROVE  t \in Drawn(i, w)
    <2>1. PICK k \in m : k < n /\ raw[k].size = t
      BY <1>9, <1>10
    <2>2. k <= site.summary
      BY <1>1, <1>4, <1>10, <2>1
    <2> QED
      BY <1>5, <1>7, <2>1, <2>2
  <1>11. \A s \in Drawn(i, w) : s \in Ladder(w) /\ s \in Nat
    BY <1>5, <1>9
  <1>12. \A s \in Drawn(i, w), t \in Ladder(w) : t < s => t \in Drawn(i, w)
    BY <1>5, <1>10
  <1>13. ASSUME NEW x \in stops, NEW t \in Ladder(w), t > x, t \in Drawn(i, w)
         PROVE  FALSE
    <2>1. PICK n \in m : n <= site.summary /\ raw[n].size = x /\ Stops(raw[n])
      BY <1>8
    <2>2. PICK k \in m : raw[k].size = t
      BY <1>5, <1>13
    <2>3. ~ (k < n) /\ k # n
      BY <1>9, <1>13, <2>1, <2>2
    <2>4. n < k
      BY <1>4, <2>3
    <2> QED
      BY <1>3, <2>1, <2>4 DEF StopsAtLast
  <1>14. ASSUME stops = {}, pc = "done", site.summary = Len(raw), NEW t \in Ladder(w)
         PROVE  t \in Drawn(i, w)
    <2>1. \A n \in m : n <= site.summary
      BY <1>1, <1>4, <1>14
    <2>2. \A n \in m : ~ Stops(raw[n])
      BY <1>8, <1>14, <2>1
    <2>3. BatchesBefore(w) = Planned(Plan, w)
      BY <1>14 DEF EndInv, BatchesBefore
    <2>4. Cardinality(m) >= Before(Plan, w, Len(Plan) + 1) * Replicates
      BY <1>3, <2>2, <2>3 DEF Planned
    <2>5. /\ DOMAIN Plan = 1..Len(Plan) /\ Len(Plan) \in Nat /\ Replicates \in Nat \ {0}
      BY PlanAssumption, LenProperties
    <2>6. PICK q \in 1..Len(Plan) : Plan[q].workload = w /\ Plan[q].size = t
      BY <2>5 DEF Ladder
    <2>7. 0 \in 0..(Replicates - 1) /\ q < Len(Plan) + 1 /\ Len(Plan) + 1 \in Nat \ {0}
      BY <2>5
    <2>8. /\ Before(Plan, w, q) * Replicates + 0 < Before(Plan, w, Len(Plan) + 1) * Replicates
          /\ Before(Plan, w, q) * Replicates \in Nat
          /\ Before(Plan, w, Len(Plan) + 1) * Replicates \in Nat
      BY <2>6, <2>7, ReplicatesAscend
    <2>9. Before(Plan, w, q) * Replicates < Cardinality(m)
      <3>1. PICK b \in Nat : b = Before(Plan, w, Len(Plan) + 1) * Replicates
        BY <2>8
      <3>2. PICK c \in Nat : c = Before(Plan, w, q) * Replicates
        BY <2>8
      <3> QED
        BY <1>4, <2>4, <2>8, <3>1, <3>2
    <2>10. \E k \in m : raw[k].size = Plan[q].size
      BY <1>1, <1>3, <1>4, <2>6, <2>9, LadderMet
    <2> QED
      BY <1>5, <1>6, <2>1, <2>2, <2>6, <2>10
  <1>15. \A x \in stops, t \in Ladder(w) : t < x => t \in Drawn(i, w)
    BY <1>8, <1>10
  <1> QED
    BY <1>11, <1>12, <1>13, <1>14, <1>15

\* A set of numbers that has one above a bound has a smallest one above it.
LEMMA SmallestAbove ==
    ASSUME NEW S \in SUBSET Nat, NEW b, \E s \in S : ~ (s <= b)
    PROVE  \E u \in S : ~ (u <= b) /\ \A s \in S : ~ (s <= b) => u <= s
  <1> DEFINE T == {s \in S : ~ (s <= b)}
  <1>1. T \subseteq Nat /\ T # {}
    OBVIOUS
  <1>2. PICK u \in T : \A s \in T : ~ (<<s, u>> \in OpToRel(<, Nat))
    <2> HIDE DEF T
    <2> QED
      BY <1>1, NatLessThanWellFounded, WFMin
  <1>3. ASSUME NEW s \in T PROVE u <= s
    <2>1. s \in Nat /\ u \in Nat
      BY <1>1
    <2>2. ~ (s < u)
      BY <1>2, <2>1 DEF OpToRel
    <2> QED
      BY <2>1, <2>2
  <1> QED
    BY <1>2, <1>3

\* The paired size is drawn in every curve, and one of them ends there.
LEMMA PairedEndsACurve ==
    ASSUME NEW w, NEW arms, IsFiniteSet(arms), arms # {},
           \A i \in arms : \A s \in Drawn(i, w) : s \in Ladder(w) /\ s \in Nat,
           \A i \in arms : \A s \in Drawn(i, w), t \in Ladder(w) : t < s => t \in Drawn(i, w),
           \A i \in arms : \A s :
               /\ s \in Drawn(i, w) <=> <<w, s, i, "canonical">> \in Summary!Measured(Shown)
               /\ s \in Drawn(i, w) => s \in Summary!SizesOf(Shown, w),
           NEW p \in Summary!LargestPaired(Shown, w, arms)
    PROVE  /\ \A i \in arms : p.size \in Drawn(i, w)
           /\ \E i \in arms : \A s \in Drawn(i, w) : s <= p.size
  <1> DEFINE having(s) == {i \in arms : <<w, s, i, "canonical">> \in Summary!Measured(Shown)}
             sizes == {s \in Summary!SizesOf(Shown, w) : Cardinality(having(s)) >= Cardinality(arms)}
  <1>1. p.size \in sizes /\ \A r \in sizes : r <= p.size
    <2> DEFINE medians(s) == [i \in having(s) |-> Summary!MedianAt(Shown, w, s, i)]
    <2>0. \A S : Summary!Cardinality(S) = Cardinality(S)
      BY DEF Summary!Cardinality, Cardinality
    <2>1. Summary!LargestPaired(Shown, w, arms) =
              {[size |-> s, medians |-> medians(s)] : s \in {s \in sizes : \A r \in sizes : r <= s}}
      BY <2>0 DEF Summary!LargestPaired, Summary!LargestPairedSubset
    <2> HIDE DEF sizes, medians
    <2> QED
      BY <2>1
  <1>2. ASSUME NEW s \in sizes PROVE having(s) = arms
    <2>1. having(s) \subseteq arms /\ Cardinality(having(s)) >= Cardinality(arms)
      OBVIOUS
    <2> HIDE DEF having
    <2>2. /\ Cardinality(having(s)) \in Nat /\ Cardinality(arms) \in Nat
          /\ Cardinality(having(s)) <= Cardinality(arms)
      BY <2>1, FS_Subset, FS_CardinalityType
    <2> QED
      BY <2>1, <2>2, FS_Subset
  <1>3. \A i \in arms : p.size \in Drawn(i, w)
    BY <1>1, <1>2
  <1>4. ASSUME \A i \in arms : \E s \in Drawn(i, w) : ~ (s <= p.size)
        PROVE  FALSE
    <2> DEFINE all == {s \in Nat : \E i \in arms : s \in Drawn(i, w)}
    <2>1. all \in SUBSET Nat /\ \E s \in all : ~ (s <= p.size)
      BY <1>4
    <2>2. PICK u \in all : ~ (u <= p.size) /\ \A s \in all : ~ (s <= p.size) => u <= s
      <3> HIDE DEF all
      <3> QED
        BY <2>1, SmallestAbove
    <2>3. u \in Ladder(w) /\ u \in Nat
      OBVIOUS
    <2>4. ASSUME NEW i \in arms PROVE u \in Drawn(i, w)
      <3>1. PICK s \in Drawn(i, w) : ~ (s <= p.size)
        BY <1>4
      <3>2. s \in Nat /\ u <= s
        BY <2>2, <3>1
      <3>3. u = s \/ u < s
        BY <2>3, <3>2
      <3> QED
        BY <2>3, <3>1, <3>3
    <2>5. having(u) = arms /\ u \in Summary!SizesOf(Shown, w)
      BY <2>4
    <2>6. Cardinality(having(u)) >= Cardinality(arms)
      <3>1. Cardinality(arms) \in Nat
        BY FS_CardinalityType
      <3> HIDE DEF having
      <3> QED
        BY <2>5, <3>1
    <2>7. u \in sizes
      BY <2>5, <2>6
    <2> QED
      BY <1>1, <2>2, <2>7
  <1> QED
    BY <1>3, <1>4

\* "Missing points are gaps", though charts.py draws a line from one point it
\* has to the next: whatever the plan, the outcomes and the moment of the site,
\* a published curve covers the ladder below the size its arm was stopped at
\* and nothing above it, all of it if it never was, and the finding's paired
\* size is where the first curve ends.
THEOREM CurvesEndWhereArmsStopped == SiteSpec => []CurvesStopWhereArmsStopped
  <1>1. SiteIInv /\ ScheduleInv /\ EndInv => CurvesStopWhereArmsStopped
    <2> SUFFICES ASSUME SiteIInv, ScheduleInv, EndInv, Published
                 PROVE  CurvesStopWhereArmsStopped
      BY DEF CurvesStopWhereArmsStopped
    <2>1. /\ IInv /\ RecordsTell /\ site.summary \in 0..Len(raw)
          /\ raw \in Seq(Records) /\ Len(raw) \in Nat
      BY LenProperties DEF SiteIInv, SiteInv, Close, IInv, TypeOK, EndInv
    <2> DEFINE stops(i, w) == {r.size : r \in {Shown[n] : n \in {n \in DOMAIN Shown :
                                  /\ Shown[n].impl = i /\ Shown[n].workload = w
                                  /\ Shown[n].asked = "canonical"
                                  /\ Failed(Shown[n]) \/ Capped(Shown[n])}}}
    <2>2. ASSUME NEW i, NEW w
          PROVE  \A x : x \in stops(i, w) <=> \E n \in Measured(i, w, "canonical") :
                            n <= site.summary /\ raw[n].size = x /\ Stops(raw[n])
      <3>1. /\ DOMAIN Shown = 1..site.summary
            /\ \A n \in 1..site.summary : n \in 1..Len(raw) /\ Shown[n] = raw[n]
        BY <2>1, ShownIsRaw
      <3>2. \A x : x \in stops(i, w) <=> \E n \in 1..site.summary :
                      /\ raw[n].impl = i /\ raw[n].workload = w /\ raw[n].asked = "canonical"
                      /\ raw[n].size = x /\ Stops(raw[n])
        BY <3>1 DEF Stops
      <3>3. \A n : n \in 1..site.summary <=> n \in 1..Len(raw) /\ n <= site.summary
        BY <2>1
      <3> HIDE DEF stops
      <3> QED
        BY <3>2, <3>3 DEF Measured
    <2>3. ASSUME NEW w, NEW i \in Supported(w)
          PROVE  /\ \A s \in Drawn(i, w) : s \in Ladder(w) /\ s \in Nat
                 /\ \A s \in Drawn(i, w), t \in Ladder(w) : t < s => t \in Drawn(i, w)
                 /\ \A x \in stops(i, w), t \in Ladder(w) :
                       /\ t < x => t \in Drawn(i, w)
                       /\ t > x => t \notin Drawn(i, w)
                 /\ stops(i, w) = {} /\ pc = "done" /\ site.summary = Len(raw) =>
                       Drawn(i, w) = Ladder(w)
      <3>1. PICK S : S = stops(i, w)
        OBVIOUS
      <3>2. \A x : x \in S <=> \E n \in Measured(i, w, "canonical") :
                      n <= site.summary /\ raw[n].size = x /\ Stops(raw[n])
        <4> HIDE DEF stops
        <4> QED
          BY <2>2, <3>1
      <3> HIDE DEF stops
      <3> QED
        BY <3>1, <3>2, CurveOfArm
    <2>4. ASSUME NEW w, Supported(w) # {}, NEW p \in Summary!LargestPaired(Shown, w, Supported(w))
          PROVE  /\ \A i \in Supported(w) : p.size \in Drawn(i, w)
                 /\ \E i \in Supported(w) : \A s \in Drawn(i, w) : s <= p.size
      <3>1. IsFiniteSet(Supported(w))
        <4>1. Supported(w) \in SUBSET Everyone
          BY DEF Supported, Everyone
        <4> QED
          BY <4>1, PlanAssumption, FS_Subset
      <3>2. \A i, s : /\ s \in Drawn(i, w) <=> <<w, s, i, "canonical">> \in Summary!Measured(Shown)
                      /\ s \in Drawn(i, w) => s \in Summary!SizesOf(Shown, w)
        BY <2>1, MedianIsMet, DrawnIsMet
      <3> HIDE DEF stops
      <3> QED
        BY <2>3, <2>4, <3>1, <3>2, PairedEndsACurve
    <2> QED
      BY <2>3, <2>4 DEF CurvesStopWhereArmsStopped
  <1> QED
    BY <1>1, ScheduleBesideSite, PTL

-----------------------------------------------------------------------------
(***************************************************************************)
(* The statistics of a summary.  A sorted value is known by how many are   *)
(* below it and how many are not above it; medians and quartiles lie       *)
(* between two of them.                                                    *)
(***************************************************************************)
\* A set of numbers has a least one.
LEMMA Least ==
    ASSUME NEW S \in SUBSET Nat, S # {}
    PROVE  \E u \in S : \A s \in S : u <= s
  <1>1. PICK u \in S : \A s \in S : ~ (<<s, u>> \in OpToRel(<, Nat))
    BY NatLessThanWellFounded, WFMin
  <1>2. ASSUME NEW s \in S PROVE u <= s
    <2>1. s \in Nat /\ u \in Nat /\ ~ (s < u)
      BY <1>1 DEF OpToRel
    <2> QED
      BY <2>1
  <1> QED
    BY <1>2

\* A finite one has a greatest.
LEMMA Greatest ==
    ASSUME NEW S \in SUBSET Nat, S # {}, IsFiniteSet(S)
    PROVE  \E u \in S : \A s \in S : s <= u
  <1> DEFINE above(x) == {y \in S : y > x}
             counts == {Cardinality(above(x)) : x \in S}
  <1>1. ASSUME NEW x \in S
        PROVE  IsFiniteSet(above(x)) /\ Cardinality(above(x)) \in Nat
    <2>1. above(x) \in SUBSET S
      OBVIOUS
    <2> HIDE DEF above
    <2> QED
      BY <2>1, FS_Subset, FS_CardinalityType
  <1>2. counts \in SUBSET Nat /\ counts # {}
    BY <1>1
  <1>3. PICK c \in counts : \A d \in counts : c <= d
    <2> HIDE DEF counts
    <2> QED
      BY <1>2, Least
  <1>4. PICK u \in S : c = Cardinality(above(u))
    OBVIOUS
  <1>5. ASSUME NEW s \in S, ~ (s <= u) PROVE FALSE
    <2>1. s \in Nat /\ u \in Nat /\ u < s
      BY <1>5
    <2>2. \A y \in S : y > s => y > u
      BY <2>1
    <2>6. s > u /\ ~ (s > s)
      BY <2>1
    <2>7. above(s) \in SUBSET above(u) /\ s \in above(u) /\ s \notin above(s)
      BY <2>2, <2>6
    <2>3. /\ Cardinality(above(s)) \in Nat /\ Cardinality(above(u)) \in Nat
          /\ Cardinality(above(s)) < Cardinality(above(u))
      <3>1. IsFiniteSet(above(u)) /\ Cardinality(above(u)) \in Nat /\ Cardinality(above(s)) \in Nat
        BY <1>1
      <3> HIDE DEF above
      <3>2. /\ Cardinality(above(s)) <= Cardinality(above(u))
            /\ Cardinality(above(s)) = Cardinality(above(u)) => above(s) = above(u)
        BY <2>7, <3>1, FS_Subset
      <3>3. Cardinality(above(s)) # Cardinality(above(u))
        BY <2>7, <3>2
      <3> QED
        BY <3>1, <3>2, <3>3
    <2>4. Cardinality(above(s)) \in counts
      OBVIOUS
    <2> HIDE DEF counts, above
    <2> QED
      BY <1>3, <1>4, <2>3, <2>4
  <1> QED
    BY <1>5

-----------------------------------------------------------------------------
\* How many of the values are below a number, and how many are not above it.
Below(val, v)  == Cardinality({k \in DOMAIN val : val[k] < v})
AtMost(val, v) == Cardinality({k \in DOMAIN val : val[k] <= v})
Above(val, v)  == Cardinality({k \in DOMAIN val : val[k] > v})
AtLeast(val, v) == Cardinality({k \in DOMAIN val : val[k] >= v})
Away(val, v)   == [k \in DOMAIN val |-> Summary!Distance(8 * val[k], v)]

LEMMA ImageIsFinite ==
    ASSUME NEW S, IsFiniteSet(S), NEW f, S \in SUBSET DOMAIN f
    PROVE  IsFiniteSet({f[x] : x \in S})
  <1> DEFINE T == {f[x] : x \in S}
             g == [x \in S |-> f[x]]
  <1>1. g \in Surjection(S, T)
    BY DEF Surjection
  <1> QED
    BY <1>1, FS_Surjection

\* Numbers of values, for a bound that is a number.
LEMMA Counts ==
    ASSUME NEW D, IsFiniteSet(D), NEW val \in [D -> Nat], NEW v \in Int, NEW u \in Int
    PROVE  /\ Below(val, v) \in Nat /\ AtMost(val, v) \in Nat /\ Above(val, v) \in Nat
           /\ Below(val, v) <= AtMost(val, v) /\ AtMost(val, v) <= Cardinality(D)
           /\ Above(val, v) = Cardinality(D) - AtMost(val, v) /\ Cardinality(D) \in Nat
           /\ u < v => AtMost(val, u) <= Below(val, v)
           /\ u <= v => /\ Below(val, u) <= Below(val, v) /\ AtMost(val, u) <= AtMost(val, v)
                        /\ Above(val, v) <= Above(val, u)
  <1> DEFINE less(x) == {k \in D : val[k] < x}
             upto(x) == {k \in D : val[k] <= x}
             more(x) == {k \in D : val[k] > x}
  <1>1. \A x : Below(val, x) = Cardinality(less(x)) /\ AtMost(val, x) = Cardinality(upto(x))
               /\ Above(val, x) = Cardinality(more(x))
    BY DEF Below, AtMost, Above
  <1>2. \A k \in D : val[k] \in Nat
    OBVIOUS
  <1>3. \A x : less(x) \in SUBSET D /\ upto(x) \in SUBSET D /\ more(x) \in SUBSET D
    OBVIOUS
  <1>4. \A x \in Int : less(x) \in SUBSET upto(x) /\ more(x) = D \ upto(x)
    BY <1>2
  <1>5. u < v => upto(u) \in SUBSET less(v)
    BY <1>2
  <1>6. u <= v => /\ less(u) \in SUBSET less(v) /\ upto(u) \in SUBSET upto(v)
                  /\ more(v) \in SUBSET more(u)
    BY <1>2
  <1> HIDE DEF less, upto, more
  <1>7. \A A, B : B \in SUBSET D /\ A \in SUBSET B =>
            /\ IsFiniteSet(B) /\ Cardinality(A) \in Nat /\ Cardinality(B) \in Nat
            /\ Cardinality(A) <= Cardinality(B)
    <2> SUFFICES ASSUME NEW A, NEW B, B \in SUBSET D, A \in SUBSET B
                 PROVE  /\ IsFiniteSet(B) /\ Cardinality(A) \in Nat /\ Cardinality(B) \in Nat
                        /\ Cardinality(A) <= Cardinality(B)
      OBVIOUS
    <2>1. IsFiniteSet(B)
      BY FS_Subset
    <2> QED
      BY <2>1, FS_Subset, FS_CardinalityType
  <1>8. /\ Cardinality(less(v)) \in Nat /\ Cardinality(upto(v)) \in Nat /\ Cardinality(more(v)) \in Nat
        /\ Cardinality(less(v)) <= Cardinality(upto(v)) /\ Cardinality(upto(v)) <= Cardinality(D)
    BY <1>3, <1>4, <1>7
  <1>9. Cardinality(more(v)) = Cardinality(D) - Cardinality(upto(v)) /\ Cardinality(D) \in Nat
    <2>1. D \cap upto(v) = upto(v)
      BY <1>3
    <2> QED
      BY <1>4, <2>1, FS_Difference, FS_CardinalityType
  <1>10. u < v => Cardinality(upto(u)) <= Cardinality(less(v))
    BY <1>3, <1>5, <1>7
  <1>11. u <= v => /\ Cardinality(less(u)) <= Cardinality(less(v))
                   /\ Cardinality(upto(u)) <= Cardinality(upto(v))
                   /\ Cardinality(more(v)) <= Cardinality(more(u))
    BY <1>3, <1>6, <1>7
  <1> QED
    BY <1>1, <1>8, <1>9, <1>10, <1>11

\* Sorting: each place has a value, with fewer than as many below it and as many
\* not above it; and the values ascend.
LEMMA Sorted ==
    ASSUME NEW D, IsFiniteSet(D), NEW val \in [D -> Nat], NEW o, o = Summary!Ordered(val)
    PROVE  /\ o \in [1..Cardinality(D) -> Nat] /\ Len(o) = Cardinality(D) /\ Cardinality(D) \in Nat
           /\ \A n \in 1..Cardinality(D) : Below(val, o[n]) < n /\ n <= AtMost(val, o[n])
           /\ \A m, n \in 1..Cardinality(D) : m <= n => o[m] <= o[n]
  <1> DEFINE N == Cardinality(D)
             V == {val[k] : k \in D}
             is(v, n) == Below(val, v) < n /\ AtMost(val, v) >= n
  <1>0. DOMAIN val = D
    OBVIOUS
  <1>1. o = [n \in 1..N |-> CHOOSE v \in V : is(v, n)]
    BY <1>0 DEF Summary!Ordered, Summary!Cardinality, Cardinality, Below, AtMost
  <1>2. N \in Nat /\ V \in SUBSET Nat /\ IsFiniteSet(V)
    BY FS_CardinalityType, ImageIsFinite
  <1>3. ASSUME NEW n \in 1..N PROVE \E v \in V : is(v, n)
    <2> DEFINE T == {v \in V : AtMost(val, v) >= n}
    <2>1. T # {}
      <3>1. D # {}
        BY <1>2, FS_EmptySet
      <3>2. V # {}
        BY <3>1
      <3>3. PICK u \in V : \A s \in V : s <= u
        <4> HIDE DEF V
        <4> QED
          BY <1>2, <3>2, Greatest
      <3>4. {k \in D : val[k] <= u} = D
        BY <3>3
      <3>5. AtMost(val, u) = N
        BY <3>4 DEF AtMost
      <3> HIDE DEF V
      <3> QED
        BY <1>2, <3>3, <3>5
    <2>2. PICK v \in T : \A s \in T : v <= s
      <3>1. T \in SUBSET Nat
        BY <1>2
      <3> HIDE DEF T
      <3> QED
        BY <2>1, <3>1, Least
    <2>3. ASSUME Below(val, v) >= n PROVE FALSE
      <3> DEFINE L == {val[k] : k \in {k \in D : val[k] < v}}
      <3>1. IsFiniteSet({k \in D : val[k] < v}) /\ Cardinality({k \in D : val[k] < v}) # 0
        <4>1. {k \in D : val[k] < v} \in SUBSET D
          OBVIOUS
        <4>2. Cardinality({k \in D : val[k] < v}) >= n
          BY <2>3 DEF Below
        <4> QED
          BY <1>2, <4>1, <4>2, FS_Subset
      <3>2. L # {} /\ IsFiniteSet(L) /\ L \in SUBSET Nat /\ L \in SUBSET V
        <4>1. {k \in D : val[k] < v} # {}
          BY <3>1, FS_EmptySet
        <4>2. IsFiniteSet(L)
          BY <3>1, ImageIsFinite
        <4> QED
          BY <4>1, <4>2
      <3>3. PICK u \in L : \A s \in L : s <= u
        <4> HIDE DEF L
        <4> QED
          BY <3>2, Greatest
      <3>4. u \in Nat /\ v \in Nat /\ u < v /\ u \in V
        BY <3>2
      <3>5. {k \in D : val[k] <= u} = {k \in D : val[k] < v}
        <4>1. ASSUME NEW k \in D PROVE val[k] <= u <=> val[k] < v
          <5>1. val[k] \in Nat /\ (val[k] < v => val[k] \in L)
            OBVIOUS
          <5> HIDE DEF L
          <5> QED
            BY <3>3, <3>4, <5>1
        <4> QED
          BY <4>1
      <3>6. u \in T
        BY <2>3, <3>4, <3>5 DEF AtMost, Below
      <3>7. v <= u
        BY <2>2, <3>6
      <3> HIDE DEF T
      <3> QED
        BY <3>4, <3>7
    <2>4. v \in V /\ AtMost(val, v) >= n
      OBVIOUS
    <2>5. v \in Int
      BY <1>2, <2>4
    <2>6. Below(val, v) \in Nat
      BY <2>5, Counts
    <2> HIDE DEF T, V
    <2> QED
      BY <2>3, <2>4, <2>6
  <1>4. ASSUME NEW n \in 1..N PROVE o[n] \in V /\ is(o[n], n)
    <2> HIDE DEF is, V
    <2>1. o[n] = CHOOSE v \in V : is(v, n)
      BY <1>1
    <2> QED
      BY <1>3, <2>1
  <1>5. o \in [1..N -> Nat]
    <2>1. \A n \in 1..N : o[n] \in Nat
      BY <1>2, <1>4
    <2> HIDE DEF is, V
    <2> QED
      BY <1>1, <2>1
  <1>6. Len(o) = N
    BY <1>2, <1>5
  <1>7. ASSUME NEW m \in 1..N, NEW n \in 1..N, m <= n, ~ (o[m] <= o[n]) PROVE FALSE
    <2>1. o[m] \in Int /\ o[n] \in Int /\ o[n] < o[m]
      BY <1>5, <1>7
    <2>2. AtMost(val, o[n]) <= Below(val, o[m]) /\ AtMost(val, o[n]) \in Nat /\ Below(val, o[m]) \in Nat
      BY <2>1, Counts
    <2>3. Below(val, o[m]) < m /\ AtMost(val, o[n]) >= n
      BY <1>4
    <2> QED
      BY <1>2, <1>7, <2>2, <2>3
  <1> QED
    BY <1>2, <1>4, <1>5, <1>6, <1>7

\* The same of the values at the scale of the statistics.
ScaledBelow(val, x)   == Cardinality({k \in DOMAIN val : 8 * val[k] < x})
ScaledAbove(val, x)   == Cardinality({k \in DOMAIN val : 8 * val[k] > x})
ScaledAtMost(val, x)  == Cardinality({k \in DOMAIN val : 8 * val[k] <= x})
ScaledAtLeast(val, x) == Cardinality({k \in DOMAIN val : 8 * val[k] >= x})

\* A bound on the scaled values bounds as many of them.
LEMMA ScaledCounts ==
    ASSUME NEW D, IsFiniteSet(D), NEW val \in [D -> Nat], NEW x \in Int, NEW h \in Nat
    PROVE  /\ ScaledBelow(val, x) \in Nat /\ ScaledAbove(val, x) \in Nat
           /\ ScaledAtMost(val, x) = Cardinality(D) - ScaledAbove(val, x)
           /\ ScaledAtLeast(val, x) = Cardinality(D) - ScaledBelow(val, x)
           /\ x <= 8 * h => ScaledBelow(val, x) <= Below(val, h)
           /\ 8 * h <= x => ScaledAbove(val, x) <= Above(val, h)
  <1> DEFINE less == {k \in D : 8 * val[k] < x}
             more == {k \in D : 8 * val[k] > x}
             lessH == {k \in D : val[k] < h}
             moreH == {k \in D : val[k] > h}
             upto == {k \in D : 8 * val[k] <= x}
             from == {k \in D : 8 * val[k] >= x}
  <1>1. \A k \in D : val[k] \in Nat
    OBVIOUS
  <1>2. x <= 8 * h => less \in SUBSET lessH
    BY <1>1
  <1>3. 8 * h <= x => more \in SUBSET moreH
    BY <1>1
  <1>4. /\ less \in SUBSET D /\ more \in SUBSET D /\ lessH \in SUBSET D /\ moreH \in SUBSET D
        /\ upto \in SUBSET D /\ from \in SUBSET D
    OBVIOUS
  <1>5. /\ Below(val, h) = Cardinality(lessH) /\ Above(val, h) = Cardinality(moreH)
        /\ ScaledBelow(val, x) = Cardinality(less) /\ ScaledAbove(val, x) = Cardinality(more)
        /\ ScaledAtMost(val, x) = Cardinality(upto) /\ ScaledAtLeast(val, x) = Cardinality(from)
    BY DEF Below, Above, ScaledBelow, ScaledAbove, ScaledAtMost, ScaledAtLeast
  <1>10. upto = D \ more /\ from = D \ less /\ D \cap more = more /\ D \cap less = less
    BY <1>1
  <1> HIDE DEF less, more, lessH, moreH, upto, from
  <1>6. /\ IsFiniteSet(less) /\ IsFiniteSet(more) /\ IsFiniteSet(lessH) /\ IsFiniteSet(moreH)
        /\ IsFiniteSet(upto) /\ IsFiniteSet(from)
    BY <1>4, FS_Subset
  <1>7. /\ Cardinality(less) \in Nat /\ Cardinality(more) \in Nat
        /\ Cardinality(upto) = Cardinality(D) - Cardinality(more)
        /\ Cardinality(from) = Cardinality(D) - Cardinality(less)
    BY <1>6, <1>10, FS_CardinalityType, FS_Difference
  <1>8. x <= 8 * h => Cardinality(less) <= Cardinality(lessH)
    BY <1>2, <1>6, FS_Subset
  <1>9. 8 * h <= x => Cardinality(more) <= Cardinality(moreH)
    BY <1>3, <1>6, FS_Subset
  <1> QED
    BY <1>5, <1>7, <1>8, <1>9

\* The two middle places, which may be one.
Middle(N, l, h) == (2 * l = N /\ h = l + 1) \/ (2 * l = N + 1 /\ h = l)

LEMMA MiddleExists ==
    ASSUME NEW N \in Nat
    PROVE  \E l \in Nat, h \in Nat : Middle(N, l, h)
  <1>1. PICK q \in Nat : N = 2 * q \/ N = 2 * q + 1
    <2>1. PICK q : q = N \div 2
      OBVIOUS
    <2>2. q \in Int /\ 2 * q <= N /\ N < 2 * q + 2
      BY <2>1
    <2> QED
      BY <2>2
  <1>2. CASE N = 2 * q
    BY <1>2 DEF Middle
  <1>3. CASE N = 2 * q + 1
    <2>1. 2 * (q + 1) = N + 1 /\ q + 1 \in Nat
      BY <1>3
    <2> QED
      BY <2>1 DEF Middle
  <1> QED
    BY <1>1, <1>2, <1>3

\* They are places, with at most half of the places on the far side of each.
LEMMA MiddleHalves ==
    ASSUME NEW N \in Nat \ {0}, NEW l \in Nat, NEW h \in Nat, Middle(N, l, h)
    PROVE  /\ l \in 1..N /\ h \in 1..N /\ l <= h
           /\ 2 * (h - 1) <= N /\ 2 * (N - l) <= N
           /\ \A a \in Nat : 2 * a <= N + 1 => a <= l
           /\ \A b \in Nat : 2 * b > N => b >= h
  BY DEF Middle

\* The middle of ordered values: the mean of two of them, which are one if there
\* is an odd number.
LEMMA MedianOf ==
    ASSUME NEW N \in Nat \ {0}, NEW o, Len(o) = N, \A n \in 1..N : o[n] \in Nat,
           NEW l \in Nat, NEW h \in Nat, Middle(N, l, h)
    PROVE  Summary!Median(o) = 4 * (o[l] + o[h])
  <1>6. (2 * l = N /\ h = l + 1) \/ (2 * l = N + 1 /\ h = l)
    BY DEF Middle
  <1>1. /\ l \in 1..N /\ h \in 1..N /\ l <= h
        /\ 2 * (h - 1) <= N /\ 2 * (N - l) <= N
        /\ N % 2 = 1 => l = h
        /\ N % 2 # 1 => l = N \div 2
        /\ h = N \div 2 + 1
    <2>1. CASE 2 * l = N /\ h = l + 1
      <3>1. N % 2 = 0 /\ N \div 2 = l
        BY <2>1
      <3> QED
        BY <2>1, <3>1
    <2>2. CASE 2 * l = N + 1 /\ h = l
      <3>1. N = 2 * (l - 1) + 1 /\ l - 1 \in Nat
        BY <2>2
      <3>2. N % 2 = 1 /\ N \div 2 = l - 1
        BY <3>1
      <3> QED
        BY <2>2, <3>2
    <2> QED
      BY <1>6, <2>1, <2>2
  <1>2. o[l] \in Nat /\ o[h] \in Nat
    BY <1>1
  <1>3. Summary!Median(o) = IF N % 2 = 1 THEN 8 * o[h] ELSE (8 \div 2) * (o[N \div 2] + o[h])
    BY <1>1 DEF Summary!Median, Summary!Scale
  <1>4. CASE N % 2 = 1
    <2>1. PICK a \in Nat : a = o[h]
      BY <1>2
    <2> QED
      BY <1>1, <1>3, <1>4, <2>1
  <1>5. CASE N % 2 # 1
    <2>1. 8 \div 2 = 4
      OBVIOUS
    <2> QED
      BY <1>1, <1>3, <1>5, <2>1
  <1> QED
    BY <1>1, <1>4, <1>5

\* At most half of the values lie on either side of the median.
LEMMA MedianSplits ==
    ASSUME NEW D, IsFiniteSet(D), D # {}, NEW val \in [D -> Nat],
           NEW m, m = Summary!Median(Summary!Ordered(val))
    PROVE  /\ m \in Nat /\ Cardinality(D) \in Nat
           /\ ScaledBelow(val, m) \in Nat /\ 2 * ScaledBelow(val, m) <= Cardinality(D)
           /\ ScaledAbove(val, m) \in Nat /\ 2 * ScaledAbove(val, m) <= Cardinality(D)
           /\ \E j, k \in D : m = 4 * (val[j] + val[k])
  <1> DEFINE N == Cardinality(D)
             o == Summary!Ordered(val)
  <1>1. N \in Nat \ {0}
    BY FS_CardinalityType, FS_EmptySet
  <1>0. PICK l \in Nat, h \in Nat : Middle(N, l, h)
    BY <1>1, MiddleExists
  <1>2. /\ o \in [1..N -> Nat] /\ Len(o) = N
        /\ \A n \in 1..N : Below(val, o[n]) < n /\ n <= AtMost(val, o[n])
        /\ \A n, k \in 1..N : n <= k => o[n] <= o[k]
    BY Sorted
  <1>10. m = Summary!Median(o)
    OBVIOUS
  <1> HIDE DEF o, N
  <1>3. /\ l \in 1..N /\ h \in 1..N /\ l <= h /\ 2 * (h - 1) <= N /\ 2 * (N - l) <= N
        /\ m = 4 * (o[l] + o[h])
    <2>1. l \in 1..N /\ h \in 1..N /\ l <= h /\ 2 * (h - 1) <= N /\ 2 * (N - l) <= N
      BY <1>0, <1>1, MiddleHalves
    <2>2. \A n \in 1..N : o[n] \in Nat
      BY <1>2
    <2>3. Summary!Median(o) = 4 * (o[l] + o[h])
      BY <1>0, <1>1, <1>2, <2>2, MedianOf
    <2> QED
      BY <1>10, <2>1, <2>3
  <1>4. PICK a \in Nat, b \in Nat : a = o[l] /\ b = o[h] /\ a <= b
    BY <1>2, <1>3
  <1>5. m \in Nat /\ 8 * a <= m /\ m <= 8 * b
    BY <1>3, <1>4
  <1>6. /\ Below(val, b) < h /\ l <= AtMost(val, a)
        /\ Below(val, b) \in Nat /\ AtMost(val, a) \in Nat /\ Above(val, a) = N - AtMost(val, a)
    <2>1. Below(val, b) \in Nat
      BY <1>4, Counts
    <2>2. AtMost(val, a) \in Nat /\ Above(val, a) = N - AtMost(val, a)
      BY <1>4, Counts DEF N
    <2> QED
      BY <1>2, <1>3, <1>4, <2>1, <2>2
  <1>7. /\ ScaledBelow(val, m) \in Nat /\ ScaledBelow(val, m) <= Below(val, b)
        /\ ScaledAbove(val, m) \in Nat /\ ScaledAbove(val, m) <= Above(val, a)
    BY <1>5, ScaledCounts
  <1>8. l \in Nat /\ h \in Nat
    BY <1>1, <1>3
  <1>9. \E j, k \in D : a = val[j] /\ b = val[k]
    <2>1. ASSUME NEW n \in 1..N PROVE \E k \in D : val[k] = o[n]
      <3>1. o[n] \in Int /\ Below(val, o[n]) < n /\ n <= AtMost(val, o[n])
        BY <1>2
      <3>2. Below(val, o[n]) \in Nat /\ AtMost(val, o[n]) \in Nat
        BY <3>1, Counts
      <3>3. {k \in D : val[k] < o[n]} # {k \in D : val[k] <= o[n]}
        <4>1. Below(val, o[n]) # AtMost(val, o[n])
          BY <1>1, <3>1, <3>2
        <4> QED
          BY <4>1 DEF Below, AtMost
      <3>4. \A k \in D : val[k] \in Int
        OBVIOUS
      <3> QED
        BY <3>1, <3>3, <3>4
    <2> QED
      BY <1>3, <1>4, <2>1
  <1> QED
    BY <1>1, <1>3, <1>4, <1>5, <1>6, <1>7, <1>8, <1>9 DEF N

\* The quartiles of four values and more: at most a quarter of the places are
\* before the one, or behind the other; the median is between them.
LEMMA QuartilesOf ==
    ASSUME NEW N \in Nat, N >= 4, NEW o \in [1..N -> Nat], Len(o) = N,
           \A m, n \in 1..N : m <= n => o[m] <= o[n]
    PROVE  /\ Summary!Quantile(o, 1) \in Nat /\ Summary!Quantile(o, 3) \in Nat
           /\ 8 * o[1] <= Summary!Quantile(o, 1) /\ Summary!Quantile(o, 3) <= 8 * o[N]
           /\ \E a \in 1..N : /\ 4 * (a - 1) <= N /\ 2 * a <= N + 1
                              /\ Summary!Quantile(o, 1) <= 8 * o[a]
           /\ \E b \in 1..N : /\ 4 * (N - b) <= N /\ 2 * b > N
                              /\ 8 * o[b] <= Summary!Quantile(o, 3)
  <1> DEFINE mix(j, d) == 2 * (o[j] * (4 - d) + o[j + 1] * d)
  <1>1. ASSUME NEW i \in {1, 3}, NEW j \in 1..(N - 1), j = (i * (N + 1)) \div 4
        PROVE  /\ Summary!Quantile(o, i) = mix(j, i * (N + 1) - 4 * j)
    <2>1. ~ (j < 1) /\ ~ (j > N - 1) /\ 8 \div 4 = 2
      OBVIOUS
    <2> QED
      BY <1>1, <2>1 DEF Summary!Quantile, Summary!Scale
  <1>2. ASSUME NEW j \in 1..(N - 1), NEW d \in 0..3
        PROVE  /\ mix(j, d) \in Nat
               /\ 8 * o[j] <= mix(j, d) /\ mix(j, d) <= 8 * o[j + 1]
               /\ d = 0 => mix(j, d) = 8 * o[j]
               /\ 8 * o[1] <= mix(j, d) /\ mix(j, d) <= 8 * o[N]
    <2>1. j \in 1..N /\ j + 1 \in 1..N /\ 1 \in 1..N /\ N \in 1..N /\ 1 <= j /\ j <= j + 1 /\ j + 1 <= N
      OBVIOUS
    <2>2. PICK x \in Nat, y \in Nat : x = o[j] /\ y = o[j + 1] /\ x <= y
      BY <2>1
    <2>3. PICK z \in Nat, u \in Nat : z = o[1] /\ u = o[N] /\ z <= x /\ y <= u
      BY <2>1, <2>2
    <2>4. mix(j, d) = 2 * (x * (4 - d) + y * d)
      BY <2>2
    <2>5. \/ d = 0 /\ mix(j, d) = 8 * x
          \/ d = 1 /\ mix(j, d) = 6 * x + 2 * y
          \/ d = 2 /\ mix(j, d) = 4 * x + 4 * y
          \/ d = 3 /\ mix(j, d) = 2 * x + 6 * y
      <3>1. d = 0 \/ d = 1 \/ d = 2 \/ d = 3
        OBVIOUS
      <3>2. CASE d = 0
        BY <2>4, <3>2
      <3>3. CASE d = 1
        BY <2>4, <3>3
      <3>4. CASE d = 2
        BY <2>4, <3>4
      <3>5. CASE d = 3
        BY <2>4, <3>5
      <3> QED
        BY <3>1, <3>2, <3>3, <3>4, <3>5
    <2>6. /\ mix(j, d) \in Nat
          /\ 8 * x <= mix(j, d) /\ mix(j, d) <= 8 * y
          /\ d = 0 => mix(j, d) = 8 * x
          /\ 8 * z <= mix(j, d) /\ mix(j, d) <= 8 * u
      <3>1. x <= y /\ z <= x /\ y <= u
        BY <2>2, <2>3
      <3>2. PICK w : w = mix(j, d)
        OBVIOUS
      <3> HIDE DEF mix
      <3>3. \/ d = 0 /\ w = 8 * x
            \/ d = 1 /\ w = 6 * x + 2 * y
            \/ d = 2 /\ w = 4 * x + 4 * y
            \/ d = 3 /\ w = 2 * x + 6 * y
        BY <2>5, <3>2
      <3>4. /\ w \in Nat /\ 8 * x <= w /\ w <= 8 * y
            /\ d = 0 => w = 8 * x
            /\ 8 * z <= w /\ w <= 8 * u
        BY <3>1, <3>3
      <3> QED
        BY <3>2, <3>4
    <2> HIDE DEF mix
    <2> QED
      BY <2>2, <2>3, <2>6
  <1>3. PICK q \in Nat, r \in 0..3 : N = 4 * q + r /\ q >= 1
    <2>1. PICK q : q = N \div 4
      OBVIOUS
    <2>2. q \in Int /\ 4 * q <= N /\ N < 4 * q + 4
      BY <2>1
    <2>3. q \in Nat /\ q >= 1 /\ N - 4 * q \in 0..3 /\ N = 4 * q + (N - 4 * q)
      BY <2>2
    <2> QED
      BY <2>3
  <1> HIDE DEF mix
  <1>4. PICK j \in 1..(N - 1), d \in 0..3 :
            /\ j = (1 * (N + 1)) \div 4 /\ d = 1 * (N + 1) - 4 * j
            /\ d = 0 => j = q + 1
            /\ d # 0 => j = q
    <2>1. CASE r = 3
      <3>1. N + 1 = 4 * (q + 1) /\ (4 * (q + 1)) \div 4 = q + 1 /\ q + 1 \in 1..(N - 1)
        BY <1>3, <2>1
      <3>2. 1 * (N + 1) - 4 * (q + 1) = 0 /\ 0 \in 0..3 /\ (1 * (N + 1)) \div 4 = q + 1
        BY <3>1
      <3> QED
        BY <3>1, <3>2
    <2>2. CASE r # 3
      <3>1. r + 1 \in 1..3 /\ 1 * (N + 1) = 4 * q + (r + 1) /\ q \in 1..(N - 1)
        BY <1>3, <2>2
      <3>2. (4 * q + (r + 1)) \div 4 = q
        BY <3>1
      <3>3. (1 * (N + 1)) \div 4 = q /\ 1 * (N + 1) - 4 * q = r + 1 /\ r + 1 \in 0..3 /\ r + 1 # 0
        BY <3>1, <3>2
      <3> QED
        BY <3>1, <3>3
    <2> QED
      BY <2>1, <2>2
  <1>5. PICK k \in 1..(N - 1), e \in 0..3 :
            /\ k = (3 * (N + 1)) \div 4 /\ e = 3 * (N + 1) - 4 * k
            /\ k = 3 * q + r
    <2>1. 3 - r \in 0..3 /\ 3 * (N + 1) = 4 * (3 * q + r) + (3 - r) /\ 3 * q + r \in 1..(N - 1)
      BY <1>3
    <2>2. (4 * (3 * q + r) + (3 - r)) \div 4 = 3 * q + r
      BY <2>1
    <2>3. (3 * (N + 1)) \div 4 = 3 * q + r /\ 3 * (N + 1) - 4 * (3 * q + r) = 3 - r
      BY <2>1, <2>2
    <2> QED
      BY <2>1, <2>3
  <1>6. Summary!Quantile(o, 1) = mix(j, d) /\ Summary!Quantile(o, 3) = mix(k, e)
    BY <1>1, <1>4, <1>5
  <1>7. /\ q + 1 \in 1..N /\ 4 * ((q + 1) - 1) <= N /\ 2 * (q + 1) <= N + 1
    BY <1>3
  <1>8. Summary!Quantile(o, 1) <= 8 * o[q + 1]
    <2>1. CASE d = 0
      <3>1. o[q + 1] \in Nat
        BY <1>7
      <3> QED
        BY <1>2, <1>4, <1>6, <2>1, <3>1
    <2>2. CASE d # 0
      BY <1>2, <1>4, <1>6, <2>2
    <2> QED
      BY <2>1, <2>2
  <1>9. k \in 1..N /\ 4 * (N - k) <= N /\ 2 * k > N /\ 8 * o[k] <= Summary!Quantile(o, 3)
    <2>1. k \in 1..N /\ 4 * (N - k) <= N /\ 2 * k > N
      BY <1>3, <1>5
    <2> QED
      BY <1>2, <1>6, <2>1
  <1>10. /\ Summary!Quantile(o, 1) \in Nat /\ Summary!Quantile(o, 3) \in Nat
         /\ 8 * o[1] <= Summary!Quantile(o, 1) /\ Summary!Quantile(o, 3) <= 8 * o[N]
    BY <1>2, <1>6
  <1> QED
    BY <1>7, <1>8, <1>9, <1>10

\* The deviation is the median of the distances: its scaling is exact.
LEMMA DeviationSplits ==
    ASSUME NEW D, IsFiniteSet(D), D # {}, NEW val \in [D -> Nat], NEW c \in Nat,
           NEW away, away = Away(val, 4 * c),
           NEW mad, mad = Summary!Deviation(val, 4 * c)
    PROVE  /\ away \in [D -> Nat]
           /\ mad \in Nat /\ Summary!Median(Summary!Ordered(away)) = 8 * mad
  <1>1. Summary!Scale = 8
    BY DEF Summary!Scale
  <1>10. away = [k \in D |-> Summary!Distance(8 * val[k], 4 * c)]
    BY DEF Away
  <1>2. ASSUME NEW k \in D
        PROVE  \E d \in Nat : away[k] = 4 * d
    <2>1. val[k] \in Nat
      OBVIOUS
    <2>2. away[k] = IF 8 * val[k] < 4 * c THEN 4 * c - 8 * val[k] ELSE 8 * val[k] - 4 * c
      BY <1>10 DEF Summary!Distance
    <2>3. CASE 8 * val[k] < 4 * c
      <3>1. away[k] = 4 * (c - 2 * val[k]) /\ c - 2 * val[k] \in Nat
        BY <2>1, <2>2, <2>3
      <3> QED
        BY <3>1
    <2>4. CASE ~ (8 * val[k] < 4 * c)
      <3>1. away[k] = 4 * (2 * val[k] - c) /\ 2 * val[k] - c \in Nat
        BY <2>1, <2>2, <2>4
      <3> QED
        BY <3>1
    <2> QED
      BY <2>3, <2>4
  <1>3. away \in [D -> Nat]
    <2>1. \A k \in D : away[k] \in Nat
      BY <1>2
    <2> QED
      BY <1>10, <2>1
  <1>4. mad = Summary!Median(Summary!Ordered(away)) \div 8
    <2>1. DOMAIN val = D
      OBVIOUS
    <2> QED
      BY <1>1, <1>10, <2>1 DEF Summary!Deviation
  <1>5. PICK m : m = Summary!Median(Summary!Ordered(away))
    OBVIOUS
  <1>6. PICK j \in D, k \in D : m = 4 * (away[j] + away[k])
    BY <1>3, <1>5, MedianSplits
  <1>7. PICK d \in Nat, e \in Nat : away[j] = 4 * d /\ away[k] = 4 * e
    BY <1>2
  <1>8. m = 8 * (2 * (d + e)) /\ 2 * (d + e) \in Nat
    BY <1>6, <1>7
  <1>9. m \div 8 = 2 * (d + e)
    BY <1>8
  <1> QED
    BY <1>3, <1>4, <1>5, <1>8, <1>9

\* The six numbers of some values.
LEMMA StatsBracket ==
    ASSUME NEW D, IsFiniteSet(D), D # {}, NEW val \in [D -> Nat], NEW s, s = Summary!StatsMs(val),
           NEW away, away = Away(val, s.median)
    PROVE  /\ s.min <= s.p25 /\ s.p25 <= s.median /\ s.median <= s.p75 /\ s.p75 <= s.max
           /\ 2 * ScaledBelow(val, s.median) <= Cardinality(D)
           /\ 2 * ScaledAbove(val, s.median) <= Cardinality(D)
           /\ 4 * ScaledBelow(val, s.p25) <= Cardinality(D)
           /\ 4 * ScaledAbove(val, s.p75) <= Cardinality(D)
           /\ 2 * AtMost(away, s.mad) >= Cardinality(D)
           /\ 2 * AtLeast(away, s.mad) >= Cardinality(D)
           /\ s.median \in Nat /\ s.mad \in Nat
  <1> DEFINE N == Cardinality(D)
             o == Summary!Ordered(val)
  <1>1. N \in Nat \ {0}
    BY FS_CardinalityType, FS_EmptySet
  <1>2. /\ o \in [1..N -> Nat] /\ Len(o) = N
        /\ \A n \in 1..N : Below(val, o[n]) < n /\ n <= AtMost(val, o[n])
        /\ \A n, k \in 1..N : n <= k => o[n] <= o[k]
    BY Sorted
  <1>3. /\ s.median = Summary!Median(o)
        /\ s.p25 = IF N >= 4 THEN Summary!Quantile(o, 1) ELSE 8 * o[1]
        /\ s.p75 = IF N >= 4 THEN Summary!Quantile(o, 3) ELSE 8 * o[N]
        /\ s.min = 8 * o[1] /\ s.max = 8 * o[N]
        /\ s.mad = Summary!Deviation(val, s.median)
    <2>1. Len(Summary!Ordered(val)) = Cardinality(D)
      BY <1>2
    <2> QED
      BY <2>1 DEF Summary!StatsMs, Summary!Scale
  <1>4. /\ s.median \in Nat
        /\ 2 * ScaledBelow(val, s.median) <= N /\ 2 * ScaledAbove(val, s.median) <= N
        /\ \E j, k \in D : s.median = 4 * (val[j] + val[k])
    BY <1>3, MedianSplits
  <1> HIDE DEF o
  <1>5. PICK l \in Nat, h \in Nat : Middle(N, l, h)
    BY <1>1, MiddleExists
  <1>6. /\ l \in 1..N /\ h \in 1..N /\ l <= h
        /\ s.median = 4 * (o[l] + o[h])
    <2>1. s.median = Summary!Median(o)
      BY <1>3
    <2>2. o \in [1..N -> Nat] /\ Len(o) = N
      BY <1>2
    <2> HIDE DEF N
    <2>3. l \in 1..N /\ h \in 1..N /\ l <= h
      BY <1>1, <1>5, MiddleHalves
    <2>4. \A n \in 1..N : o[n] \in Nat
      BY <2>2
    <2>5. Summary!Median(o) = 4 * (o[l] + o[h])
      BY <1>1, <1>5, <2>2, <2>4, MedianOf
    <2> QED
      BY <2>1, <2>3, <2>5
  <1>7. 1 \in 1..N /\ N \in 1..N
    BY <1>1
  <1>8. /\ 8 * o[l] <= s.median /\ s.median <= 8 * o[h]
        /\ \A n \in 1..N : o[n] \in Nat /\ 8 * o[1] <= 8 * o[n] /\ 8 * o[n] <= 8 * o[N]
    <2>1. PICK x \in Nat, y \in Nat : x = o[l] /\ y = o[h] /\ x <= y
      BY <1>2, <1>6
    <2>2. 8 * o[l] <= s.median /\ s.median <= 8 * o[h]
      BY <1>6, <2>1
    <2>3. ASSUME NEW n \in 1..N PROVE o[n] \in Nat /\ 8 * o[1] <= 8 * o[n] /\ 8 * o[n] <= 8 * o[N]
      <3>1. o[n] \in Nat /\ o[1] \in Nat /\ o[N] \in Nat /\ o[1] <= o[n] /\ o[n] <= o[N]
        BY <1>1, <1>2, <1>7
      <3> QED
        BY <3>1
    <2> QED
      BY <2>2, <2>3
  <1>22. N >= 4 =>
            /\ Summary!Quantile(o, 1) \in Nat /\ Summary!Quantile(o, 3) \in Nat
            /\ 8 * o[1] <= Summary!Quantile(o, 1) /\ Summary!Quantile(o, 3) <= 8 * o[N]
            /\ \E a \in 1..N : /\ 4 * (a - 1) <= N /\ 2 * a <= N + 1
                               /\ Summary!Quantile(o, 1) <= 8 * o[a]
            /\ \E b \in 1..N : /\ 4 * (N - b) <= N /\ 2 * b > N
                               /\ 8 * o[b] <= Summary!Quantile(o, 3)
    <2> SUFFICES ASSUME N >= 4
                 PROVE  /\ Summary!Quantile(o, 1) \in Nat /\ Summary!Quantile(o, 3) \in Nat
                        /\ 8 * o[1] <= Summary!Quantile(o, 1) /\ Summary!Quantile(o, 3) <= 8 * o[N]
                        /\ \E a \in 1..N : /\ 4 * (a - 1) <= N /\ 2 * a <= N + 1
                                           /\ Summary!Quantile(o, 1) <= 8 * o[a]
                        /\ \E b \in 1..N : /\ 4 * (N - b) <= N /\ 2 * b > N
                                           /\ 8 * o[b] <= Summary!Quantile(o, 3)
      OBVIOUS
    <2>1. /\ N \in Nat /\ o \in [1..N -> Nat] /\ Len(o) = N
          /\ \A m, n \in 1..N : m <= n => o[m] <= o[n]
      BY <1>1, <1>2
    <2> HIDE DEF N
    <2> QED
      BY <2>1, QuartilesOf
  <1>9. /\ s.p25 \in Nat /\ s.min <= s.p25
        /\ \E a \in 1..N : 4 * (a - 1) <= N /\ a <= l /\ s.p25 <= 8 * o[a]
    <2>1. CASE N >= 4
      <3>1. /\ \A a \in Nat : 2 * a <= N + 1 => a <= l
            /\ \A b \in Nat : 2 * b > N => b >= h
        BY <1>1, <1>5, MiddleHalves
      <3>2. \A a \in 1..N : a \in Nat
        OBVIOUS
      <3> HIDE DEF N
      <3> QED
        BY <1>3, <1>22, <2>1, <3>1, <3>2
    <2>2. CASE ~ (N >= 4)
      <3>1. s.p25 = 8 * o[1] /\ o[1] \in Nat
        BY <1>3, <1>7, <1>8, <2>2
      <3>2. 1 <= l /\ 4 * (1 - 1) <= N
        BY <1>1, <1>6
      <3> QED
        BY <1>3, <1>7, <3>1, <3>2
    <2> QED
      BY <2>1, <2>2
  <1>10. /\ s.p75 \in Nat /\ s.p75 <= s.max
         /\ \E b \in 1..N : 4 * (N - b) <= N /\ b >= h /\ 8 * o[b] <= s.p75
    <2>1. CASE N >= 4
      <3>1. /\ \A a \in Nat : 2 * a <= N + 1 => a <= l
            /\ \A b \in Nat : 2 * b > N => b >= h
        BY <1>1, <1>5, MiddleHalves
      <3>2. \A a \in 1..N : a \in Nat
        OBVIOUS
      <3> HIDE DEF N
      <3> QED
        BY <1>3, <1>22, <2>1, <3>1, <3>2
    <2>2. CASE ~ (N >= 4)
      <3>1. s.p75 = 8 * o[N] /\ o[N] \in Nat
        BY <1>3, <1>7, <1>8, <2>2
      <3>2. N >= h /\ 4 * (N - N) <= N
        BY <1>1, <1>6
      <3> QED
        BY <1>3, <1>7, <3>1, <3>2
    <2> QED
      BY <2>1, <2>2
  <1>11. PICK a \in 1..N : 4 * (a - 1) <= N /\ a <= l /\ s.p25 <= 8 * o[a]
    BY <1>9
  <1>12. PICK b \in 1..N : 4 * (N - b) <= N /\ b >= h /\ 8 * o[b] <= s.p75
    BY <1>10
  <1>13. o[a] \in Nat /\ o[b] \in Nat /\ o[l] \in Nat /\ o[h] \in Nat /\ o[a] <= o[l] /\ o[h] <= o[b]
    BY <1>2, <1>6, <1>11, <1>12
  <1>14. s.p25 <= s.median /\ s.median <= s.p75
    BY <1>4, <1>8, <1>9, <1>10, <1>11, <1>12, <1>13
  <1>15. 4 * ScaledBelow(val, s.p25) <= N
    <2>1. ScaledBelow(val, s.p25) \in Nat /\ ScaledBelow(val, s.p25) <= Below(val, o[a])
      BY <1>9, <1>11, <1>13, ScaledCounts
    <2>2. Below(val, o[a]) \in Nat /\ Below(val, o[a]) < a
      <3>1. o[a] \in Int
        BY <1>13
      <3> QED
        BY <1>2, <1>11, <3>1, Counts
    <2> QED
      BY <1>1, <1>11, <2>1, <2>2
  <1>16. 4 * ScaledAbove(val, s.p75) <= N
    <2>1. ScaledAbove(val, s.p75) \in Nat /\ ScaledAbove(val, s.p75) <= Above(val, o[b])
      BY <1>10, <1>12, <1>13, ScaledCounts
    <2>2. Above(val, o[b]) = N - AtMost(val, o[b]) /\ AtMost(val, o[b]) \in Nat /\ b <= AtMost(val, o[b])
      <3>1. o[b] \in Int
        BY <1>13
      <3> QED
        BY <1>2, <1>12, <3>1, Counts
    <2> QED
      BY <1>1, <1>12, <2>1, <2>2
  <1>17. /\ away \in [D -> Nat] /\ s.mad \in Nat
         /\ Summary!Median(Summary!Ordered(away)) = 8 * s.mad
    <2>1. PICK j \in D, k \in D : s.median = 4 * (val[j] + val[k])
      BY <1>4
    <2>2. PICK c \in Nat : c = val[j] + val[k]
      OBVIOUS
    <2>3. s.median = 4 * c
      BY <2>1, <2>2
    <2> QED
      BY <1>3, <2>3, DeviationSplits
  <1>18. /\ ScaledBelow(away, 8 * s.mad) \in Nat /\ 2 * ScaledBelow(away, 8 * s.mad) <= N
         /\ ScaledAbove(away, 8 * s.mad) \in Nat /\ 2 * ScaledAbove(away, 8 * s.mad) <= N
    BY <1>17, MedianSplits
  <1>19. /\ ScaledAtMost(away, 8 * s.mad) = N - ScaledAbove(away, 8 * s.mad)
         /\ ScaledAtLeast(away, 8 * s.mad) = N - ScaledBelow(away, 8 * s.mad)
    <2>1. 8 * s.mad \in Int /\ s.mad \in Nat
      BY <1>17
    <2> QED
      BY <1>17, <2>1, ScaledCounts
  <1>20. /\ AtMost(away, s.mad) = ScaledAtMost(away, 8 * s.mad)
         /\ AtLeast(away, s.mad) = ScaledAtLeast(away, 8 * s.mad)
    <2>1. \A k \in D : /\ away[k] <= s.mad <=> 8 * away[k] <= 8 * s.mad
                       /\ away[k] >= s.mad <=> 8 * away[k] >= 8 * s.mad
      <3>1. \A k \in D : away[k] \in Nat
        BY <1>17
      <3> QED
        BY <1>17, <3>1
    <2>2. /\ {k \in D : away[k] <= s.mad} = {k \in D : 8 * away[k] <= 8 * s.mad}
          /\ {k \in D : away[k] >= s.mad} = {k \in D : 8 * away[k] >= 8 * s.mad}
      BY <2>1
    <2>3. DOMAIN away = D
      BY <1>17
    <2> QED
      BY <2>2, <2>3 DEF AtMost, AtLeast, ScaledAtMost, ScaledAtLeast
  <1>21. 2 * AtMost(away, s.mad) >= N /\ 2 * AtLeast(away, s.mad) >= N
    BY <1>1, <1>18, <1>19, <1>20
  <1> QED
    BY <1>4, <1>9, <1>10, <1>14, <1>15, <1>16, <1>17, <1>21

-----------------------------------------------------------------------------
\* The times of some records are numbers.
LEMMA TimesAreNumbers ==
    ASSUME TypeOK, ReplicatesInRange, NEW ns \in SUBSET (1..Len(raw))
    PROVE  /\ Summary!Times(raw, ns) \in [ns -> Nat] /\ IsFiniteSet(ns)
           /\ \A n \in ns : Summary!Times(raw, ns)[n] = Summary!Time(raw[n])
  <1>1. Len(raw) \in Nat /\ Len(PopulateTime) \in Nat /\ DOMAIN PopulateTime = 1..Len(PopulateTime)
    BY SummaryAssumption DEF TypeOK
  <1>2. ASSUME NEW n \in ns PROVE Summary!Time(raw[n]) \in Nat
    <2>1. raw[n].replicate + 1 \in 1..Len(PopulateTime)
      BY <1>1, PlanAssumption, SummaryAssumption DEF ReplicatesInRange
    <2> QED
      BY <2>1, SummaryAssumption DEF Summary!Time
  <1>3. IsFiniteSet(ns)
    <2>1. 1 \in Int /\ Len(raw) \in Int
      BY <1>1
    <2> QED
      BY <2>1, FS_Interval, FS_Subset
  <1> QED
    BY <1>2, <1>3 DEF Summary!Times

LEMMA GroupsAreBracketed ==
    ASSUME TypeOK, ReplicatesInRange
    PROVE  StatisticsBracket
  <1>1. ASSUME NEW g, Summary!OkRecords(raw, g) # {}
        PROVE  LET oks     == Summary!OkRecords(raw, g)
                   all     == Cardinality(oks)
                   s       == Summary!GroupStats(raw, g)
                   time(n) == Summary!Scale * Summary!Time(raw[n])
                   away(n) == Summary!Distance(time(n), s.median)
               IN  /\ s.min <= s.p25 /\ s.p25 <= s.median /\ s.median <= s.p75 /\ s.p75 <= s.max
                   /\ 2 * Cardinality({n \in oks : time(n) < s.median}) <= all
                   /\ 2 * Cardinality({n \in oks : time(n) > s.median}) <= all
                   /\ 4 * Cardinality({n \in oks : time(n) < s.p25}) <= all
                   /\ 4 * Cardinality({n \in oks : time(n) > s.p75}) <= all
                   /\ 2 * Cardinality({n \in oks : away(n) <= s.mad}) >= all
                   /\ 2 * Cardinality({n \in oks : away(n) >= s.mad}) >= all
    <2> DEFINE oks == Summary!OkRecords(raw, g)
               val == Summary!Times(raw, oks)
               s == Summary!GroupStats(raw, g)
    <2>1. oks \in SUBSET (1..Len(raw)) /\ oks # {}
      BY <1>1 DEF Summary!OkRecords
    <2>2. /\ val \in [oks -> Nat] /\ IsFiniteSet(oks)
          /\ \A n \in oks : val[n] = Summary!Time(raw[n])
      BY <2>1, TimesAreNumbers
    <2>3. s = Summary!StatsMs(val)
      BY DEF Summary!GroupStats
    <2> HIDE DEF oks, val, s
    <2>4. PICK away : away = Away(val, s.median)
      OBVIOUS
    <2>5. /\ s.min <= s.p25 /\ s.p25 <= s.median /\ s.median <= s.p75 /\ s.p75 <= s.max
          /\ 2 * ScaledBelow(val, s.median) <= Cardinality(oks)
          /\ 2 * ScaledAbove(val, s.median) <= Cardinality(oks)
          /\ 4 * ScaledBelow(val, s.p25) <= Cardinality(oks)
          /\ 4 * ScaledAbove(val, s.p75) <= Cardinality(oks)
          /\ 2 * AtMost(away, s.mad) >= Cardinality(oks)
          /\ 2 * AtLeast(away, s.mad) >= Cardinality(oks)
      BY <2>1, <2>2, <2>3, <2>4, StatsBracket
    <2>6. /\ DOMAIN val = oks /\ DOMAIN away = oks
          /\ \A n \in oks : away[n] = Summary!Distance(8 * val[n], s.median)
      BY <2>2, <2>4 DEF Away
    <2>7. \A n \in oks : /\ Summary!Scale * Summary!Time(raw[n]) = 8 * val[n]
                         /\ Summary!Distance(Summary!Scale * Summary!Time(raw[n]), s.median) = away[n]
      BY <2>2, <2>6 DEF Summary!Scale
    <2>8. \A x : /\ {n \in oks : Summary!Scale * Summary!Time(raw[n]) < x} = {n \in DOMAIN val : 8 * val[n] < x}
                 /\ {n \in oks : Summary!Scale * Summary!Time(raw[n]) > x} = {n \in DOMAIN val : 8 * val[n] > x}
      BY <2>6, <2>7
    <2>9. /\ {n \in oks : Summary!Distance(Summary!Scale * Summary!Time(raw[n]), s.median) <= s.mad}
                 = {n \in DOMAIN away : away[n] <= s.mad}
          /\ {n \in oks : Summary!Distance(Summary!Scale * Summary!Time(raw[n]), s.median) >= s.mad}
                 = {n \in DOMAIN away : away[n] >= s.mad}
      BY <2>6, <2>7
    <2> QED
      BY <2>5, <2>8, <2>9 DEF ScaledBelow, ScaledAbove, AtMost, AtLeast, oks, s
  <1> QED
    BY <1>1 DEF StatisticsBracket, Count, Summary!OkRecords

\* A group has an ok record, and with it statistics, where its status says so.
LEMMA OkGroups ==
    ASSUME TypeOK, NEW g
    PROVE  /\ Summary!GroupStatus(raw, g) = "ok" <=> Summary!OkRecords(raw, g) # {}
           /\ Summary!OkRecords(raw, g) # {} => g \in Summary!Groups(raw)
           /\ g \in Summary!Groups(raw) <=> \E n \in 1..Len(raw) : Summary!GroupKey(raw[n]) = g
  <1>1. DOMAIN raw = 1..Len(raw)
    BY DEF TypeOK
  <1>2. \A r : r \in Summary!ToSet(raw) <=> \E n \in 1..Len(raw) : r = raw[n]
    BY <1>1 DEF Summary!ToSet
  <1>3. Summary!GroupStatus(raw, g) = "ok" <=>
            \E n \in 1..Len(raw) : Summary!GroupKey(raw[n]) = g /\ Summary!Ok(raw[n])
    BY <1>2 DEF Summary!GroupStatus
  <1>4. g \in Summary!Groups(raw) <=> \E n \in 1..Len(raw) : Summary!GroupKey(raw[n]) = g
    BY <1>2 DEF Summary!Groups
  <1> QED
    BY <1>3, <1>4 DEF Summary!OkRecords

\* The successful records of a point or variant.
Succeeded(w, s, i, v) ==
    {n \in 1..Len(raw) : /\ raw[n].workload = w /\ raw[n].size = s /\ raw[n].impl = i
                         /\ raw[n].asked = v /\ ~ Failed(raw[n])}

\* The ok records of a point or variant, by what their children were asked for.
LEMMA OkByAsked ==
    ASSUME TypeOK, RecordsTell, NEW w, NEW s, NEW i, NEW v
    PROVE  Summary!OkRecords(raw, <<w, s, i, v>>) = Succeeded(w, s, i, v)
  <1>1. ASSUME NEW n \in 1..Len(raw)
        PROVE  Summary!GroupKey(raw[n]) = <<w, s, i, v>> /\ Summary!Ok(raw[n]) <=>
               /\ raw[n].workload = w /\ raw[n].size = s /\ raw[n].impl = i
               /\ raw[n].asked = v /\ ~ Failed(raw[n])
    <2>1. raw[n] \in Records
      BY ElementOfSeq DEF TypeOK
    <2>2. Summary!Ok(raw[n]) <=> ~ Failed(raw[n])
      BY <2>1 DEF Summary!Ok, Failed, Records
    <2>3. ~ Failed(raw[n]) => raw[n].variant = raw[n].asked
      BY DEF Failed, RecordsTell
    <2> QED
      BY <2>2, <2>3 DEF Summary!GroupKey
  <1> QED
    BY <1>1 DEF Summary!OkRecords, Succeeded

\* A published median is one of its point's successful canonical runs.
LEMMA MedianOfPoint ==
    ASSUME TypeOK, ReplicatesInRange, RecordsTell, NEW w, NEW s, NEW i,
           <<w, s, i, "canonical">> \in Summary!Measured(raw),
           NEW ran, ran = {n \in RanAt(i, w, s) : ~ Failed(raw[n])},
           NEW m, m = Summary!MedianAt(raw, w, s, i)
    PROVE  /\ ran # {}
           /\ 2 * Cardinality({n \in ran : Summary!Scale * Summary!Time(raw[n]) < m}) <= Cardinality(ran)
           /\ 2 * Cardinality({n \in ran : Summary!Scale * Summary!Time(raw[n]) > m}) <= Cardinality(ran)
  <1> DEFINE g == <<w, s, i, "canonical">>
             val == Summary!Times(raw, ran)
  <1>1. ran = Summary!OkRecords(raw, g)
    BY OkByAsked DEF RanAt, Succeeded
  <1>2. ran # {} /\ ran \in SUBSET (1..Len(raw))
    <2>1. Summary!GroupStatus(raw, g) = "ok"
      BY DEF Summary!Measured
    <2> HIDE DEF g
    <2> QED
      BY <1>1, <2>1, OkGroups DEF Summary!OkRecords
  <1>3. val \in [ran -> Nat] /\ IsFiniteSet(ran) /\ \A n \in ran : val[n] = Summary!Time(raw[n])
    BY <1>2, TimesAreNumbers
  <1>4. m = Summary!Median(Summary!Ordered(val))
    BY <1>1 DEF Summary!MedianAt, Summary!GroupStats, Summary!StatsMs
  <1> HIDE DEF val
  <1>5. 2 * ScaledBelow(val, m) <= Cardinality(ran) /\ 2 * ScaledAbove(val, m) <= Cardinality(ran)
    BY <1>2, <1>3, <1>4, MedianSplits
  <1>6. /\ {n \in ran : Summary!Scale * Summary!Time(raw[n]) < m} = {n \in DOMAIN val : 8 * val[n] < m}
        /\ {n \in ran : Summary!Scale * Summary!Time(raw[n]) > m} = {n \in DOMAIN val : 8 * val[n] > m}
    BY <1>3 DEF Summary!Scale
  <1> QED
    BY <1>2, <1>5, <1>6 DEF ScaledBelow, ScaledAbove

\* A class that has reached past a point has all the replicates of the point.
LEMMA WholePoint ==
    ASSUME TypeOK, NEW m \in SUBSET (1..Len(raw)), NEW w, FollowsPlan(m, Plan, w),
           NEW p \in 1..Len(Plan), Plan[p].workload = w,
           Before(Plan, w, p + 1) * Replicates <= Cardinality(m),
           NEW r \in 0..(Replicates - 1)
    PROVE  \E k \in m : raw[k].size = Plan[p].size /\ raw[k].replicate = r
  <1>0. /\ \A q \in 1..Len(Plan) : q \in Nat \ {0}
        /\ Replicates \in Nat \ {0} /\ p \in Nat \ {0}
    BY PlanAssumption
  <1>1. PICK x \in Nat : x = Before(Plan, w, p) * Replicates
    BY <1>0, OneMorePoint
  <1>2. x + Replicates <= Cardinality(m)
    <2>0. Replicates \in Nat /\ p \in Nat \ {0}
      BY <1>0
    <2>1. Before(Plan, w, p + 1) * Replicates =
              Before(Plan, w, p) * Replicates + IF Plan[p].workload = w THEN Replicates ELSE 0
      BY <2>0, OneMorePoint, Zenon
    <2> QED
      BY <1>1, <2>1
  <1>3. PICK k \in m : Earlier(m, k) = x + r
    <2>1. x + r \in Nat /\ x + r < x + Replicates /\ Cardinality(m) \in Nat
      BY <1>0, Places
    <2>2. x + r < Cardinality(m)
      BY <1>0, <1>2, <2>1
    <2> QED
      BY <2>1, <2>2, Places
  <1>4. PICK q \in 1..Len(Plan) :
            /\ Plan[q].workload = w /\ Plan[q].size = raw[k].size
            /\ raw[k].replicate \in 0..(Replicates - 1)
            /\ Earlier(m, k) = Before(Plan, w, q) * Replicates + raw[k].replicate
    BY DEF FollowsPlan
  <1>5. PICK y \in Nat : y = Before(Plan, w, q) * Replicates
    BY <1>0, OneMorePoint
  <1>6. ~ (q < p)
    <2> SUFFICES ASSUME q < p PROVE FALSE
      OBVIOUS
    <2>1. y + raw[k].replicate < x
      BY <1>0, <1>1, <1>4, <1>5, ReplicatesAscend
    <2> QED
      BY <1>0, <1>3, <1>4, <1>5, <2>1
  <1>7. ~ (p < q)
    <2> SUFFICES ASSUME p < q PROVE FALSE
      OBVIOUS
    <2>1. x + r < y
      BY <1>0, <1>1, <1>5, ReplicatesAscend
    <2> QED
      BY <1>0, <1>3, <1>4, <1>5, <2>1
  <1>8. p = q
    BY <1>0, <1>6, <1>7
  <1>9. raw[k].replicate = r
    <2>1. x = y /\ x + r = y + raw[k].replicate
      BY <1>1, <1>3, <1>4, <1>5, <1>8
    <2> QED
      BY <1>0, <1>4, <2>1
  <1> QED
    BY <1>4, <1>8, <1>9

\* What is measured after a point of an arm shows that the point is complete.
LEMMA SurvivorsAreLast ==
    ASSUME IInv, ScheduleInv, EndInv, NEW i, NEW w, NEW s,
           NEW all, all = RanAt(i, w, s), all # {}
    PROVE  Complete(all) \/ LastOfArm(i, w, all)
  <1> SUFFICES ASSUME NEW k \in 1..Len(raw), raw[k].impl = i, raw[k].workload = w,
                      \A n \in all : n < k
               PROVE  Complete(all)
    BY DEF LastOfArm
  <1> DEFINE m == Measured(i, w, "canonical")
             At(n, p) == /\ Plan[p].workload = w /\ Plan[p].size = raw[n].size
                         /\ raw[n].replicate \in 0..(Replicates - 1)
                         /\ Earlier(m, n) = Before(Plan, w, p) * Replicates + raw[n].replicate
  <1>0. /\ TypeOK /\ Len(raw) \in Nat /\ Replicates \in Nat \ {0} /\ Len(Plan) \in Nat
        /\ \A p \in 1..Len(Plan) : p \in Nat \ {0}
    BY PlanAssumption, LenProperties DEF IInv, TypeOK
  <1>1. m \in SUBSET (1..Len(raw)) /\ all = {n \in m : raw[n].size = s}
    BY DEF RanAt, Measured
  <1>2. PICK first : first \in all /\ first \in m /\ raw[first].size = s
    BY <1>1
  <1>3. i \in Supported(w) /\ w \in Workloads
    <2>1. /\ first \in 1..Len(raw) /\ raw[first].impl = i /\ raw[first].workload = w
          /\ raw[first].asked = "canonical" /\ raw[first] \in Records
      BY <1>0, <1>2, ElementOfSeq DEF Measured, TypeOK
    <2>2. i \in Supported(w)
      BY <2>1 DEF EndInv, ArmsInRun
    <2> QED
      BY <2>1, <2>2 DEF Records, Workloads
  <1>4. FollowsPlan(m, Plan, w) /\ StopsAtLast(m) /\ CompleteInv(i, w)
    <2>1. ClassInv(i, w, "canonical")
      BY <1>3 DEF ScheduleInv, CountInv, Arms, Asks
    <2> QED
      BY <1>3, <2>1 DEF ClassInv, ScheduleInv, PlanOf
  <1>5. \A n \in m : \E p \in 1..Len(Plan) : At(n, p)
    BY <1>4 DEF FollowsPlan
  <1>6. PICK p \in 1..Len(Plan) : At(first, p)
    BY <1>2, <1>5
  <1> HIDE DEF m
  <1>7. PICK x \in Nat : /\ x = Before(Plan, w, p) * Replicates
                         /\ Before(Plan, w, p + 1) * Replicates = x + Replicates
    <2>1. Replicates \in Nat /\ p \in Nat \ {0} /\ Plan[p].workload = w
      BY <1>0, <1>6
    <2>2. /\ Before(Plan, w, p) * Replicates \in Nat
          /\ Before(Plan, w, p + 1) * Replicates =
                 Before(Plan, w, p) * Replicates + IF Plan[p].workload = w THEN Replicates ELSE 0
      BY <2>1, OneMorePoint, Zenon
    <2> QED
      BY <2>1, <2>2
  <1>8. ASSUME NEW q \in Nat \ {0}, p < q
        PROVE  x + Replicates <= Before(Plan, w, q) * Replicates /\ Before(Plan, w, q) * Replicates \in Nat
    <2>1. Replicates - 1 \in 0..(Replicates - 1)
      BY <1>0
    <2>2. /\ x + (Replicates - 1) < Before(Plan, w, q) * Replicates
          /\ Before(Plan, w, q) * Replicates \in Nat
      BY <1>6, <1>7, <1>8, <2>1, ReplicatesAscend
    <2>3. PICK y \in Nat : y = Before(Plan, w, q) * Replicates
      BY <2>2
    <2> QED
      BY <1>0, <2>2, <2>3
  <1>9. (\A n \in all : ~ Stops(raw[n])) /\ x + Replicates <= Cardinality(m)
    <2>1. CASE raw[k].asked = "canonical"
      <3>1. k \in m
        BY <2>1 DEF m, Measured
      <3>2. k \notin all /\ raw[k].size # s
        BY <1>0, <1>1, <3>1
      <3>3. \A n \in all : ~ Stops(raw[n])
        BY <1>1, <1>4, <3>1 DEF StopsAtLast
      <3>4. PICK q \in 1..Len(Plan) : At(k, q)
        BY <1>5, <3>1
      <3>5. PICK y \in Nat : y = Before(Plan, w, q) * Replicates
        BY <1>0, OneMorePoint
      <3>6. /\ x + raw[first].replicate < y + raw[k].replicate
            /\ y + raw[k].replicate < Cardinality(m) /\ Cardinality(m) \in Nat
        <4>1. Earlier(m, first) < Earlier(m, k) /\ Earlier(m, k) < Cardinality(m) /\ Cardinality(m) \in Nat
          BY <1>0, <1>1, <1>2, <3>1, Places
        <4> QED
          BY <1>6, <1>7, <3>4, <3>5, <4>1
      <3>7. q # p
        BY <1>2, <1>6, <3>2, <3>4
      <3>8. ~ (q < p)
        <4> SUFFICES ASSUME q < p PROVE FALSE
          OBVIOUS
        <4>1. y + raw[k].replicate < x
          BY <1>0, <1>7, <3>4, <3>5, ReplicatesAscend
        <4> QED
          BY <1>0, <1>6, <3>4, <3>6, <4>1
      <3>9. x + Replicates <= y
        <4>1. p < q /\ q \in Nat \ {0}
          BY <1>0, <3>7, <3>8
        <4> QED
          BY <1>8, <3>5, <4>1
      <3>10. x + Replicates <= Cardinality(m)
        BY <1>0, <3>4, <3>6, <3>9
      <3> QED
        BY <3>3, <3>10
    <2>2. CASE raw[k].asked # "canonical"
      <3>1. raw[k].asked \in Asks \ {"canonical"} /\ k \in Measured(i, w, raw[k].asked)
        <4>1. raw[k] \in Records
          BY <1>0, ElementOfSeq DEF TypeOK
        <4> QED
          BY <2>2, <4>1 DEF Records, Measured
      <3>2. Cardinality(m) = Planned(Plan, w) /\ \A n \in m : ~ Stops(raw[n])
        BY <1>4, <3>1 DEF CompleteInv, m
      <3>3. Len(Plan) + 1 \in Nat \ {0} /\ p < Len(Plan) + 1
        BY <1>0
      <3> QED
        BY <1>1, <1>8, <3>2, <3>3 DEF Planned
    <2> QED
      BY <2>1, <2>2
  <1>10. \A n \in all : ~ Failed(raw[n])
    BY <1>9 DEF Stops
  <1>11. \A n \in all : raw[n].replicate \in 0..(Replicates - 1)
    BY <1>1, <1>5
  <1>12. ASSUME NEW r \in 0..(Replicates - 1)
         PROVE  \E n \in all : raw[n].replicate = r
    <2>0. /\ TypeOK /\ m \in SUBSET (1..Len(raw)) /\ FollowsPlan(m, Plan, w)
          /\ Before(Plan, w, p + 1) * Replicates <= Cardinality(m) /\ Plan[p].workload = w
      BY <1>0, <1>1, <1>4, <1>6, <1>7, <1>9
    <2>1. \E n \in m : raw[n].size = Plan[p].size /\ raw[n].replicate = r
      BY <2>0, <1>12, WholePoint, Zenon
    <2> QED
      BY <1>1, <1>2, <1>6, <2>1
  <1> QED
    BY <1>10, <1>11, <1>12 DEF Complete

LEMMA RatiosAreOfPoints ==
    ASSUME IInv, ScheduleInv, EndInv
    PROVE  RatiosAreNeverExtrapolated
  <1> SUFFICES ASSUME NEW s \in Ratios,
                      NEW side \in {<<s.numerator, s.above>>, <<s.denominator, s.below>>}
               PROVE  LET all == RanAt(side[1], s.workload, s.size)
                          ran == {n \in all : ~ Failed(raw[n])}
                          time(n) == Summary!Scale * Summary!Time(raw[n])
                      IN  /\ ran # {}
                          /\ 2 * Cardinality({n \in ran : time(n) < side[2]}) <= Cardinality(ran)
                          /\ 2 * Cardinality({n \in ran : time(n) > side[2]}) <= Cardinality(ran)
                          /\ Complete(all) \/ LastOfArm(side[1], s.workload, all)
    BY DEF RatiosAreNeverExtrapolated
  <1> DEFINE point(i) == <<s.workload, s.size, i, "canonical">>
  <1>0. TypeOK /\ ReplicatesInRange /\ RecordsTell
    BY DEF IInv, EndInv
  <1>1. /\ point(s.numerator) \in Summary!Measured(raw) /\ point(s.denominator) \in Summary!Measured(raw)
        /\ s.above = Summary!MedianAt(raw, s.workload, s.size, s.numerator)
        /\ s.below = Summary!MedianAt(raw, s.workload, s.size, s.denominator)
    <2>1. PICK c \in (DOMAIN Panels) \X Summary!Measured(raw) :
              /\ <<c[2][1], c[2][2], Panels[c[1]].denominator, "canonical">> \in Summary!Measured(raw)
              /\ s = [panel |-> c[1], workload |-> c[2][1], size |-> c[2][2], numerator |-> c[2][3],
                      denominator |-> Panels[c[1]].denominator,
                      above |-> Summary!MedianAt(raw, c[2][1], c[2][2], c[2][3]),
                      below |-> Summary!MedianAt(raw, c[2][1], c[2][2], Panels[c[1]].denominator)]
      BY DEF Ratios, Summary!Speedups
    <2>2. c[2] \in Summary!Measured(raw)
      BY <2>1
    <2>3. c[2] = <<c[2][1], c[2][2], c[2][3], "canonical">>
      BY <2>2 DEF Summary!Measured, Summary!Groups, Summary!GroupKey
    <2> QED
      BY <2>1, <2>2, <2>3
  <1>2. PICK i : /\ i = side[1] /\ side[2] = Summary!MedianAt(raw, s.workload, s.size, i)
                 /\ point(i) \in Summary!Measured(raw)
    BY <1>1
  <1>3. PICK all, ran, m : /\ all = RanAt(i, s.workload, s.size)
                           /\ ran = {n \in all : ~ Failed(raw[n])}
                           /\ m = Summary!MedianAt(raw, s.workload, s.size, i)
    OBVIOUS
  <1>4. /\ ran # {}
        /\ 2 * Cardinality({n \in ran : Summary!Scale * Summary!Time(raw[n]) < m}) <= Cardinality(ran)
        /\ 2 * Cardinality({n \in ran : Summary!Scale * Summary!Time(raw[n]) > m}) <= Cardinality(ran)
    BY <1>0, <1>2, <1>3, MedianOfPoint
  <1>5. Complete(all) \/ LastOfArm(i, s.workload, all)
    BY <1>3, <1>4, SurvivorsAreLast
  <1> QED
    BY <1>2, <1>3, <1>4, <1>5

\* The finding about one arm: the greatest size at which it has a median.
LEMMA FoundOfArm ==
    ASSUME TypeOK, NEW w, NEW i, NEW s,
           NEW found, found = Summary!LargestPairedSubset(raw, w, {i}, 1)
    PROVE  /\ <<w, s, i, "canonical">> \in Summary!Measured(raw) => \E f \in found : f.size >= s
           /\ \A f \in found : f.size = s => f.medians[i] = Summary!MedianAt(raw, w, s, i)
  <1> DEFINE having(t) == {j \in {i} : <<w, t, j, "canonical">> \in Summary!Measured(raw)}
             sizes == {t \in Summary!SizesOf(raw, w) : Cardinality(having(t)) >= 1}
             medians(t) == [j \in having(t) |-> Summary!MedianAt(raw, w, t, j)]
  <1>1. found = {[size |-> t, medians |-> medians(t)] : t \in {t \in sizes : \A r \in sizes : r <= t}}
    BY DEF Summary!LargestPairedSubset, Summary!Cardinality, Cardinality
  <1>2. \A t : t \in sizes <=> <<w, t, i, "canonical">> \in Summary!Measured(raw)
    <2> SUFFICES ASSUME NEW t PROVE t \in sizes <=> <<w, t, i, "canonical">> \in Summary!Measured(raw)
      OBVIOUS
    <2>1. <<w, t, i, "canonical">> \in Summary!Measured(raw) => t \in Summary!SizesOf(raw, w)
      BY DEF Summary!Measured, Summary!SizesOf
    <2>2. CASE <<w, t, i, "canonical">> \in Summary!Measured(raw)
      <3>1. having(t) = {i}
        BY <2>2
      <3>2. Cardinality(having(t)) = 1
        BY <3>1, FS_Singleton
      <3> QED
        BY <2>1, <2>2, <3>2
    <2>3. CASE <<w, t, i, "canonical">> \notin Summary!Measured(raw)
      <3>1. having(t) = {}
        BY <2>3
      <3>2. Cardinality(having(t)) = 0
        BY <3>1, FS_EmptySet
      <3> QED
        BY <2>3, <3>2
    <2> QED
      BY <2>2, <2>3
  <1>3. sizes \in SUBSET Nat /\ IsFiniteSet(sizes)
    <2> DEFINE f == [n \in 1..Len(raw) |-> raw[n].size]
               all == {f[n] : n \in 1..Len(raw)}
    <2>1. Len(raw) \in Nat /\ \A n \in 1..Len(raw) : raw[n] \in Records
      BY ElementOfSeq DEF TypeOK
    <2>2. IsFiniteSet(1..Len(raw))
      <3>1. 1 \in Int /\ Len(raw) \in Int
        BY <2>1
      <3> QED
        BY <3>1, FS_Interval
    <2>3. IsFiniteSet(all)
      <3>1. (1..Len(raw)) \in SUBSET DOMAIN f
        OBVIOUS
      <3> HIDE DEF f
      <3> QED
        BY <2>2, <3>1, ImageIsFinite
    <2>4. ASSUME NEW t \in sizes PROVE t \in Nat /\ t \in all
      <3>1. PICK g \in Summary!Groups(raw) : g[2] = t
        BY DEF Summary!SizesOf
      <3>2. PICK n \in 1..Len(raw) : Summary!GroupKey(raw[n]) = g
        BY OkGroups
      <3>3. raw[n].size = t
        BY <3>1, <3>2 DEF Summary!GroupKey
      <3> QED
        BY <2>1, <3>3 DEF Records
    <2> HIDE DEF sizes, all
    <2> QED
      BY <2>3, <2>4, FS_Subset
  <1>4. \A f : f \in found <=>
            \E t \in sizes : f = [size |-> t, medians |-> medians(t)] /\ \A r \in sizes : r <= t
    <2> HIDE DEF sizes, medians
    <2> QED
      BY <1>1
  <1>5. ASSUME <<w, s, i, "canonical">> \in Summary!Measured(raw)
        PROVE  \E f \in found : f.size >= s
    <2>1. s \in sizes
      BY <1>2, <1>5
    <2> HIDE DEF sizes
    <2>2. PICK t \in sizes : \A r \in sizes : r <= t
      BY <1>3, <2>1, Greatest
    <2>3. PICK f : f = [size |-> t, medians |-> medians(t)]
      OBVIOUS
    <2>4. f \in found /\ f.size = t
      BY <1>4, <2>2, <2>3
    <2>5. s <= t /\ s \in Nat /\ t \in Nat
      BY <1>3, <2>1, <2>2
    <2> QED
      BY <2>4, <2>5
  <1>6. ASSUME NEW f \in found, f.size = s
        PROVE  f.medians[i] = Summary!MedianAt(raw, w, s, i)
    <2>1. PICK t \in sizes : f = [size |-> t, medians |-> medians(t)]
      <3> HIDE DEF sizes, medians
      <3> QED
        BY <1>4
    <2>2. t = s /\ f.medians = medians(s)
      BY <1>6, <2>1
    <2>3. i \in having(s)
      BY <1>2, <2>1, <2>2
    <2> QED
      BY <2>2, <2>3
  <1> QED
    BY <1>5, <1>6

LEMMA ChartsShowTheSame ==
    ASSUME TypeOK, RecordsTell
    PROVE  ChartsAgree
  <1>1. ASSUME NEW g \in Summary!Groups(raw)
        PROVE  LET w == g[1]  s == g[2]  i == g[3]
                   oks    == {n \in 1..Len(raw) : /\ raw[n].workload = w /\ raw[n].size = s
                                                  /\ raw[n].impl = i /\ raw[n].asked = g[4]
                                                  /\ ~ Failed(raw[n])}
                   stats  == {Summary!StatsMs(Summary!Times(raw, oks))}
                   curve  == Summary!TimeVsSize(raw, w, {i})
                   bars   == Summary!HeadlineBars(raw, w, s, {i})
                   tick   == Summary!VariantChart(raw, w, s, {i})[g[4]]
                   readme == Summary!ReadmeGroups(raw, w, s)
                   line   == Summary!ReadmeSeries(raw, w, i)
                   found  == Summary!LargestPairedSubset(raw, w, {i}, 1)
                   canonical == g[4] = "canonical"
                   shown     == canonical /\ oks # {}
               IN  /\ oks # {} => tick = [j \in {i} |-> CHOOSE x \in stats : TRUE] /\ Summary!HasPoints(raw, i)
                   /\ oks = {} => DOMAIN tick = {}
                   /\ canonical =>
                         /\ shown <=> i \in DOMAIN curve /\ s \in DOMAIN curve[i]
                         /\ shown <=> i \in DOMAIN bars
                         /\ shown <=> i \in DOMAIN readme
                         /\ shown <=> s \in DOMAIN line
                         /\ shown => \E f \in found : f.size >= s
                   /\ shown =>
                         /\ {curve[i][s], bars[i], readme[i]} = stats
                         /\ \A x \in stats : line[s] = x.median
                         /\ \A f \in found, x \in stats : f.size = s => f.medians[i] = x.median
    <2>1. PICK w, s, i, v : g = <<w, s, i, v>> /\ v \in Asks
      <3>1. PICK n \in 1..Len(raw) : Summary!GroupKey(raw[n]) = g
        BY OkGroups
      <3>2. raw[n] \in Records
        BY ElementOfSeq DEF TypeOK
      <3> QED
        BY <3>1, <3>2 DEF Summary!GroupKey, Records
    <2>2. PICK oks : oks = {n \in 1..Len(raw) : /\ raw[n].workload = w /\ raw[n].size = s
                                                /\ raw[n].impl = i /\ raw[n].asked = v
                                                /\ ~ Failed(raw[n])}
      OBVIOUS
    <2>3. PICK st : st = Summary!StatsMs(Summary!Times(raw, oks))
      OBVIOUS
    <2>4. oks = Summary!OkRecords(raw, g) /\ st = Summary!GroupStats(raw, g)
      <3>1. oks = Succeeded(w, s, i, v)
        BY <2>2 DEF Succeeded
      <3>2. oks = Summary!OkRecords(raw, g)
        BY <2>1, <3>1, OkByAsked
      <3> QED
        BY <2>3, <3>2 DEF Summary!GroupStats
    <2>5. Summary!GroupStatus(raw, g) = "ok" <=> oks # {}
      BY <2>4, OkGroups
    <2>6. Summary!Drawn(raw, {g} \cap Summary!Groups(raw)) = IF oks # {} THEN {st} ELSE {}
      <3>1. {g} \cap Summary!Groups(raw) = {g}
        OBVIOUS
      <3>2. {x \in {g} : Summary!GroupStatus(raw, x) = "ok"} = IF oks # {} THEN {g} ELSE {}
        BY <2>5
      <3> QED
        BY <2>4, <3>1, <3>2 DEF Summary!Drawn
    <2>7. (CHOOSE x \in {st} : TRUE) = st
      OBVIOUS
    <2>8. Summary!VariantChart(raw, w, s, {i})[v] = [j \in (IF oks # {} THEN {i} ELSE {}) |-> st]
      <3> DEFINE drawn(j) == Summary!Drawn(raw, {<<w, s, j, v>>} \cap Summary!Groups(raw))
      <3>1. v \in {"canonical", "shuffled", "duplicated"}
        BY <2>1 DEF Asks
      <3>2. Summary!VariantChart(raw, w, s, {i})[v] =
                [j \in {j \in {i} : drawn(j) # {}} |-> CHOOSE p \in drawn(j) : TRUE]
        BY <3>1 DEF Summary!VariantChart
      <3>3. drawn(i) = IF oks # {} THEN {st} ELSE {}
        BY <2>1, <2>6
      <3> HIDE DEF drawn
      <3>4. {j \in {i} : drawn(j) # {}} = IF oks # {} THEN {i} ELSE {}
        BY <3>3
      <3>5. oks # {} => (CHOOSE p \in drawn(i) : TRUE) = st
        BY <2>7, <3>3
      <3> QED
        BY <3>2, <3>4, <3>5
    <2>9. oks # {} => Summary!HasPoints(raw, i)
      BY <2>1, <2>5 DEF Summary!HasPoints
    <2>10. ASSUME v = "canonical"
           PROVE  LET curve  == Summary!TimeVsSize(raw, w, {i})
                      bars   == Summary!HeadlineBars(raw, w, s, {i})
                      readme == Summary!ReadmeGroups(raw, w, s)
                      line   == Summary!ReadmeSeries(raw, w, i)
                      found  == Summary!LargestPairedSubset(raw, w, {i}, 1)
                  IN  /\ oks # {} <=> i \in DOMAIN curve /\ s \in DOMAIN curve[i]
                      /\ oks # {} <=> i \in DOMAIN bars
                      /\ oks # {} <=> i \in DOMAIN readme
                      /\ oks # {} <=> s \in DOMAIN line
                      /\ oks # {} => \E f \in found : f.size >= s
                      /\ oks # {} => curve[i][s] = st /\ bars[i] = st /\ readme[i] = st
                      /\ oks # {} => line[s] = st.median
                      /\ oks # {} => \A f \in found : f.size = s => f.medians[i] = st.median
      <3> DEFINE point(t) == Summary!PointOf(raw, w, t, i)
                 curve  == Summary!TimeVsSize(raw, w, {i})
                 bars   == Summary!HeadlineBars(raw, w, s, {i})
                 readme(t) == Summary!ReadmeGroups(raw, w, t)
                 line   == Summary!ReadmeSeries(raw, w, i)
                 found  == Summary!LargestPairedSubset(raw, w, {i}, 1)
      <3>1. g = <<w, s, i, "canonical">>
        BY <2>1, <2>10
      <3>2. point(s) = IF oks # {} THEN {st} ELSE {}
        BY <2>6, <3>1 DEF Summary!PointOf, Summary!CanonicalLookup
      <3>3. s \in Summary!SizesOf(raw, w)
        BY <3>1 DEF Summary!SizesOf
      <3>4. /\ oks # {} <=> i \in DOMAIN curve /\ s \in DOMAIN curve[i]
            /\ oks # {} => curve[i][s] = st
        <4> DEFINE sizes(j) == {t \in Summary!SizesOf(raw, w) : Summary!PointOf(raw, w, t, j) # {}}
                   of(j) == [t \in sizes(j) |-> CHOOSE p \in Summary!PointOf(raw, w, t, j) : TRUE]
        <4>1. curve = [j \in {j \in {i} : sizes(j) # {}} |-> of(j)]
          BY DEF Summary!TimeVsSize
        <4>2. oks # {} <=> s \in sizes(i)
          BY <3>2, <3>3
        <4>3. s \in sizes(i) => of(i)[s] = st
          BY <2>7, <3>2, <4>2
        <4>4. DOMAIN of(i) = sizes(i)
          OBVIOUS
        <4> HIDE DEF sizes, of
        <4>5. i \in DOMAIN curve <=> sizes(i) # {}
          BY <4>1
        <4>6. sizes(i) # {} => curve[i] = of(i)
          BY <4>1
        <4> HIDE DEF curve
        <4> QED
          BY <4>2, <4>3, <4>4, <4>5, <4>6
      <3>5. (oks # {} <=> i \in DOMAIN bars) /\ (oks # {} => bars[i] = st)
        BY <2>7, <3>2 DEF Summary!HeadlineBars
      <3>6. /\ \A t : i \in DOMAIN readme(t) <=> <<w, t, i, "canonical">> \in Summary!Measured(raw)
            /\ i \in DOMAIN readme(s) => readme(s)[i] = st
        <4>1. \A t, j : j \in DOMAIN readme(t) <=>
                   \E x \in Summary!Groups(raw) : /\ x[1] = w /\ x[2] = t /\ x[3] = j /\ x[4] = "canonical"
                                                  /\ Summary!GroupStatus(raw, x) = "ok"
          BY DEF Summary!ReadmeGroups
        <4>2. \A x \in Summary!Groups(raw) : x = <<x[1], x[2], x[3], x[4]>>
          BY DEF Summary!Groups, Summary!GroupKey
        <4>3. \A t, j : j \in DOMAIN readme(t) <=>
                   /\ <<w, t, j, "canonical">> \in Summary!Groups(raw)
                   /\ Summary!GroupStatus(raw, <<w, t, j, "canonical">>) = "ok"
          <5> SUFFICES ASSUME NEW t, NEW j
                       PROVE  j \in DOMAIN readme(t) <=>
                                 /\ <<w, t, j, "canonical">> \in Summary!Groups(raw)
                                 /\ Summary!GroupStatus(raw, <<w, t, j, "canonical">>) = "ok"
            OBVIOUS
          <5>1. PICK x : x = <<w, t, j, "canonical">>
            OBVIOUS
          <5>2. x[1] = w /\ x[2] = t /\ x[3] = j /\ x[4] = "canonical"
            BY <5>1
          <5> HIDE DEF readme
          <5> QED
            BY <4>1, <4>2, <5>1, <5>2
        <4>4. i \in DOMAIN readme(s) => readme(s)[i] = Summary!GroupStats(raw, <<w, s, i, "canonical">>)
          BY DEF Summary!ReadmeGroups
        <4> HIDE DEF readme
        <4> QED
          BY <2>4, <3>1, <4>3, <4>4 DEF Summary!Measured
      <3>7. <<w, s, i, "canonical">> \in Summary!Measured(raw) <=> oks # {}
        BY <2>5, <3>1 DEF Summary!Measured
      <3>8. (oks # {} <=> i \in DOMAIN readme(s)) /\ (oks # {} => readme(s)[i] = st)
        BY <3>6, <3>7
      <3>9. (oks # {} <=> s \in DOMAIN line) /\ (oks # {} => line[s] = st.median)
        <4>1. line = [t \in {t \in Summary!SizesOf(raw, w) : i \in DOMAIN readme(t)} |-> readme(t)[i].median]
          BY DEF Summary!ReadmeSeries
        <4> HIDE DEF readme, line
        <4> QED
          BY <3>3, <3>8, <4>1
      <3>10. /\ oks # {} => \E f \in found : f.size >= s
             /\ \A f \in found : f.size = s => f.medians[i] = Summary!MedianAt(raw, w, s, i)
        BY <3>7, FoundOfArm
      <3>11. Summary!MedianAt(raw, w, s, i) = st.median
        BY <2>4, <3>1 DEF Summary!MedianAt
      <3> QED
        BY <3>4, <3>5, <3>8, <3>9, <3>10, <3>11
    <2>11. g[1] = w /\ g[2] = s /\ g[3] = i /\ g[4] = v
      BY <2>1
    <2>12. [j \in {i} |-> CHOOSE x \in {st} : TRUE] = [j \in {i} |-> st]
      BY <2>7
    <2>13. /\ oks # {} => Summary!VariantChart(raw, w, s, {i})[v] = [j \in {i} |-> CHOOSE x \in {st} : TRUE]
           /\ oks = {} => DOMAIN Summary!VariantChart(raw, w, s, {i})[v] = {}
      BY <2>8, <2>12
    <2>14. v = "canonical" /\ oks # {} =>
              /\ {Summary!TimeVsSize(raw, w, {i})[i][s], Summary!HeadlineBars(raw, w, s, {i})[i],
                  Summary!ReadmeGroups(raw, w, s)[i]} = {st}
              /\ \A x \in {st} : Summary!ReadmeSeries(raw, w, i)[s] = x.median
              /\ \A f \in Summary!LargestPairedSubset(raw, w, {i}, 1), x \in {st} :
                     f.size = s => f.medians[i] = x.median
      BY <2>10
    <2>15. v = "canonical" =>
              /\ oks # {} <=> /\ i \in DOMAIN Summary!TimeVsSize(raw, w, {i})
                              /\ s \in DOMAIN Summary!TimeVsSize(raw, w, {i})[i]
              /\ oks # {} <=> i \in DOMAIN Summary!HeadlineBars(raw, w, s, {i})
              /\ oks # {} <=> i \in DOMAIN Summary!ReadmeGroups(raw, w, s)
              /\ oks # {} <=> s \in DOMAIN Summary!ReadmeSeries(raw, w, i)
              /\ oks # {} => \E f \in Summary!LargestPairedSubset(raw, w, {i}, 1) : f.size >= s
      BY <2>10
    <2> QED
      BY <2>2, <2>3, <2>9, <2>11, <2>13, <2>14, <2>15
  <1> QED
    BY <1>1 DEF ChartsAgree

LEMMA EndInvariance == Spec => [](IInv /\ ScheduleInv /\ EndInv)
  <1>1. Init => EndInv
    <2> SUFFICES ASSUME Init PROVE EndInv
      OBVIOUS
    <2>1. raw = <<>> /\ Len(raw) = 0 /\ pc = "scheduling"
      BY DEF Init
    <2> QED
      BY <2>1 DEF EndInv, RecordsTell, ReplicatesInRange, ArmsInRun
  <1> QED
    BY <1>1, NextEnd, Invariance, ScheduleInvariance, PTL DEF Spec

\* However many of a group's runs succeeded, in whatever order they were filed
\* and with whatever times: the five numbers are in order, at most half of the
\* runs lie on either side of the median and at most a quarter beyond each
\* quartile, and the MAD splits the distances from the median in halves.
THEOREM StatisticsAlwaysBracket == Spec => []StatisticsBracket
  <1>1. IInv /\ ScheduleInv /\ EndInv => StatisticsBracket
    BY GroupsAreBracketed DEF IInv, EndInv
  <1> QED
    BY <1>1, EndInvariance, PTL

\* Whatever the panels, at every moment of the run: both sides of a published
\* ratio are medians over all successful canonical runs of that very point, and
\* each of these points was completed (every replicate measured, none failed) or
\* is the last its arm has come to.  The docstring's "completed by both
\* implementations" asks for the former only.
THEOREM RatiosNeverExtrapolate == Spec => []RatiosAreNeverExtrapolated
  <1>1. IInv /\ ScheduleInv /\ EndInv => RatiosAreNeverExtrapolated
    BY RatiosAreOfPoints
  <1> QED
    BY <1>1, EndInvariance, PTL

\* The charts, findings and plots, which select their groups anew each, show
\* the same statistics of every point, or all of them none.
THEOREM ChartsAlwaysAgree == Spec => []ChartsAgree
  <1>1. IInv /\ ScheduleInv /\ EndInv => ChartsAgree
    BY ChartsShowTheSame DEF IInv, EndInv
  <1> QED
    BY <1>1, EndInvariance, PTL
=============================================================================
