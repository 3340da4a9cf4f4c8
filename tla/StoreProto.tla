----------------------------- MODULE StoreProto -----------------------------
(***************************************************************************)
(* The store-proto program (rust-store-proto/src/main.rs): one of kernels  *)
(* A, B and C per process, driven through one workload: a block over all   *)
(* variables, lookups, an iteration, removals and updates of disjoint      *)
(* cells (every other update parametric), and assertions that "keep every  *)
(* kernel honest".  Besides the drivers, a kernel can be left free to take *)
(* any call its contract allows.                                           *)
(*                                                                         *)
(* Values are in halves, as (i % 97) + 0.5 is.  Timing and memory readings *)
(* are left out; the sizes 100,000, 10,000 and 100 are constants.          *)
(***************************************************************************)
EXTENDS PackedStore

CONSTANTS
    FreeVars,      \* the variables a free kernel is called about
    MaxValue,      \* bound on kernel A's sums when it is free
    ArenaIds,      \* bound on kernel A's slots
    LookupCount, RemoveCount, UpdateCount,
    SampleStep     \* for_var is called for every SampleStep-th lookup

\* Nothing checks --n, but pick() draws until it has enough distinct cells and
\* updates[0] is read unconditionally.
ASSUME WorkAssumption ==
    /\ Vars = 1..Cardinality(Vars)   \* vars
    /\ FreeVars \subseteq Vars
    /\ {LookupCount, RemoveCount, UpdateCount, SampleStep} \subseteq Nat \ {0}
    /\ RemoveCount + UpdateCount <= Cardinality(Vars)

Objective == "objective"   \* kernel C's only target

VARIABLES
    kernel,   \* --kernel
    stage,    \* where the driver is, or "free"
    at,       \* index in its loop
    target,   \* CoefficientTarget::Objective(obj)
    work,     \* lookups, removes and updates
    seen,     \* what the driver's counters and pre_id hold
    slots, count, varIds, targetIds, paramIds, cellId,   \* kernel A
    packed, start, len, removed, built                   \* kernel C

A == INSTANCE CoefficientIndex
    WITH MaxIds <- ArenaIds, byVar <- varIds, byTarget <- targetIds, byParam <- paramIds, byCell <- cellId
C == INSTANCE RawPacked
    WITH Targets <- {Objective}, Values <- 1..2, dead <- removed

ASSUME IndexAssumption == A!IndexAssumption

driver    == <<kernel, stage, at, target, work, seen>>
aVars     == <<slots, count, varIds, targetIds, paramIds, cellId>>
cVars     == <<packed, start, len, removed, built>>
stores    == <<vars, aVars, cVars>>
protoVars == <<driver, stores>>

-----------------------------------------------------------------------------
\* lookups repeat; pick() draws removes and updates without repetition
Workloads ==
    {w \in [lookups : [1..LookupCount -> Vars], removes : [1..RemoveCount -> Vars],
            updates : [1..UpdateCount -> Vars]] : IsInjective(w.removes \o w.updates)}

NothingSeen == [found |-> 0, sum |-> 0, count |-> 0, total |-> 0, pre |-> 0]

ProtoInit ==
    /\ Init /\ A!Init /\ C!Init
    /\ kernel \in {"a", "b", "c"}
    /\ at = 1
    /\ seen = NothingSeen
    /\ \/ stage = "free" /\ target = Objective /\ work = <<>>
       \/ /\ stage = "build"
          /\ target \in IF kernel = "c" THEN {Objective} ELSE Targets
          /\ work \in Workloads

OnA == kernel = "a" /\ UNCHANGED <<vars, cVars>>
OnB == kernel = "b" /\ UNCHANGED <<aVars, cVars>>
OnC == kernel = "c" /\ UNCHANGED <<vars, aVars>>

\* vals, the value of an even update, and that of an odd one
BaseValue(v) == 2 * ((v - 1) % 97) + 1
AllVars == [k \in 1..Cardinality(Vars) |-> k]
AllVals == [k \in 1..Cardinality(Vars) |-> BaseValue(k)]
UpdateExpr(k, v) ==
    IF k % 2 = 1 THEN [value |-> 2 * BaseValue(v), deps |-> {}] ELSE [value |-> 6, deps |-> Params]

Lookup(v) ==
    IF kernel = "a" THEN A!ForCell(target, v)
    ELSE IF kernel = "b" THEN ForCell(target, v)
    ELSE C!ForCell(target, v)

\* for_objective with get, iter_target, iter_live: the cells and values met
CellsMet ==
    CASE kernel = "a" ->
            [n \in 1..Cardinality(targetIds[target]) |-> A!Get(SetToSeq(targetIds[target])[n])]
      [] kernel = "b" -> IterTarget(target)
      [] kernel = "c" -> C!IterLive
Walk == [n \in 1..Len(CellsMet) |-> CellsMet[n].value]

LiveAfter == IF kernel = "a" THEN count ELSE Len(Walk)

\* a sum over a vector, in its order
SumOf(values) ==
    LET sum[n \in 0..Len(values)] == IF n = 0 THEN 0 ELSE sum[n - 1] + values[n]
    IN  sum[Len(values)]

-----------------------------------------------------------------------------
(***************************************************************************)
(* drive_a, drive_b and drive_c.                                           *)
(***************************************************************************)
Build ==
    /\ stage = "build"
    /\ \/ OnA /\ A!AddConstantUniqueBlock(target, AllVars, AllVals)
       \/ OnB /\ BuildConstantBlock(target, AllVars, AllVals)
       \/ OnC /\ C!BuildConstantBlock(target, AllVars, AllVals)
    /\ stage' = "lookup"
    /\ UNCHANGED <<kernel, at, target, work, seen>>

LookUp ==
    LET found == {n \in 1..LookupCount : Lookup(work.lookups[n]) # NoCell}
        met(n) == IF n \in found THEN Lookup(work.lookups[n]).value ELSE 0
    IN  /\ stage = "lookup"
        /\ seen' = [seen EXCEPT !.found = Cardinality(found),
                                !.sum = SumOf([n \in 1..LookupCount |-> met(n)])]
        /\ stage' = "iterate"
        /\ UNCHANGED <<kernel, at, target, work, stores>>

\* followed by drive_b's "identity-location oracle before mutation"
Iterate ==
    LET first == Lookup(work.updates[1])
    IN  /\ stage = "iterate"
        /\ seen' = [seen EXCEPT !.count = Len(Walk), !.total = SumOf(Walk), !.pre = first.id]
        /\ stage' = IF kernel = "b" /\ Locate(first.id).place # "packed" THEN "panicked" ELSE "remove"
        /\ UNCHANGED <<kernel, at, target, work, stores>>

Loop(n, next) == /\ at' = IF at = n THEN 1 ELSE at + 1
                 /\ stage' = IF at = n THEN next ELSE stage
                 /\ UNCHANGED <<kernel, target, work, seen>>

\* assert!(store.remove(..)), of kernels B and C; drive_a passes over a miss
RemoveOne ==
    LET v == work.removes[at]
        missing == Lookup(v) = NoCell
    IN  /\ stage = "remove"
        /\ IF missing THEN UNCHANGED stores
           ELSE \/ OnA /\ A!Remove(A!Id(Lookup(v).id))
                \/ OnB /\ RemoveCell(target, v)
                \/ OnC /\ C!RemoveCell(target, v)
        /\ IF missing /\ kernel # "a"
             THEN stage' = "panicked" /\ UNCHANGED <<kernel, at, target, work, seen>>
             ELSE Loop(RemoveCount, "update")

UpdateOne ==
    LET v == work.updates[at]
        e == UpdateExpr(at, v)
    IN  /\ stage = "update"
        /\ \/ OnA /\ IF Lookup(v) = NoCell THEN UNCHANGED aVars
                     ELSE A!SetExpr(A!Id(Lookup(v).id), e.value, e.deps)
           \/ OnB /\ Update(target, v, e.value, e.deps)
           \/ OnC /\ C!UpdateCell(target, v, e.value)
        /\ Loop(UpdateCount, IF kernel = "b" THEN "probe" ELSE "report")

\* drive_b's for_var calls: the first one builds the index
Probe ==
    /\ stage = "probe"
    /\ OnB
    /\ IF indexed = NotBuilt THEN BuildVarIndex ELSE UNCHANGED vars
    /\ stage' = "report"
    /\ UNCHANGED <<kernel, at, target, work, seen>>

Sample  == {n \in 1..LookupCount : (n - 1) % SampleStep = 0}
VarHits == SumOf([n \in 1..LookupCount |-> IF n \in Sample THEN Len(ForVar(work.lookups[n])) ELSE 0])

\* the assertions at the end of the drivers
Assertions ==
    /\ seen.found = LookupCount
    /\ seen.count = Cardinality(Vars)
    /\ kernel \in {"b", "c"} => LiveAfter = Cardinality(Vars) - RemoveCount
    /\ kernel = "b" =>
          LET post == Lookup(work.updates[1])
          IN  /\ VarHits = Cardinality({n \in Sample : work.lookups[n] \notin ToSet(work.removes)})
              /\ post.value = UpdateExpr(1, work.updates[1]).value
              /\ post.id = seen.pre
              /\ Locate(post.id).place = "overlay"
              /\ Lookup(work.removes[1]) = NoCell

Report ==
    /\ stage = "report"
    /\ stage' = IF Assertions THEN "done" ELSE "panicked"
    /\ UNCHANGED <<kernel, at, target, work, seen, stores>>

Ended == stage \in {"done", "panicked"} /\ UNCHANGED protoVars

\* a kernel left free
Free ==
    /\ stage = "free"
    /\ \/ OnA /\ A!Calls(FreeVars, 0..MaxValue)
       \/ OnB /\ Calls(FreeVars, Exprs)
       \/ OnC /\ C!Next
    /\ UNCHANGED driver

ProtoNext ==
    \/ Build \/ LookUp \/ Iterate \/ RemoveOne \/ UpdateOne
    \/ Probe \/ Report \/ Ended \/ Free

ProtoSpec == ProtoInit /\ [][ProtoNext]_protoVars

-----------------------------------------------------------------------------
(***************************************************************************)
(* Properties.                                                             *)
(***************************************************************************)

\* Kernel A's indexes and arena agree (see module CoefficientIndex).
IndexesAgree == A!IndexesAgree

\* Kernel A's ids are stale for good (see module CoefficientIndex).
StaleForGood == A!StaleForGood

FinalValue(v) ==
    CASE v \in ToSet(work.removes) -> NoCell.value
      [] v \in ToSet(work.updates) ->
            UpdateExpr(CHOOSE k \in 1..UpdateCount : work.updates[k] = v, v).value
      [] OTHER -> BaseValue(v)

\* The three kernels can be compared: whichever is driven, whatever the
\* workload, none of the driver's "sampled read-back assertions" fails, and the
\* checksum, the counts and the value of every cell afterwards are those of the
\* workload, of the cells that no assertion samples too.
DriversAgree ==
    /\ stage # "panicked"
    /\ stage = "done" =>
        /\ seen.found = LookupCount
        /\ seen.sum + seen.total =
              SumOf([n \in 1..LookupCount |-> BaseValue(work.lookups[n])])
              + SumOf([v \in 1..Cardinality(Vars) |-> BaseValue(v)])
        /\ LiveAfter = Cardinality(Vars) - RemoveCount
        /\ \A v \in Vars : Lookup(v).value = FinalValue(v)

Store == INSTANCE CoeffStore
    WITH Targets <- Targets \union {Objective},
         Values  <- Int,
         cells   <- IF kernel = "a" THEN A!Cells ELSE IF kernel = "b" THEN Cells ELSE C!Cells,
         minted  <- IF kernel = "a" THEN A!Minted ELSE IF kernel = "b" THEN Minted ELSE C!Minted

\* Seen through for_cell, every kernel is a coefficient store: updates keep the
\* identity, no identity is handed out twice, a cell added again gets a new one.
ImplementsCoeffStore == Store!Spec
=============================================================================
