------------------------------ MODULE Populate ------------------------------
(***************************************************************************)
(* worker.main and the native programs as the child that measures one      *)
(* implementation (an arm) at one point of the grid: it makes the case,    *)
(* populates an empty model phase by phase, and reports the counts.  The   *)
(* children of a point run one after the other here, each in a process of  *)
(* its own; how they are supervised is RunChild's business.  The arms of   *)
(* scripts/persist_bench.py go further: when a model is solved, the next   *)
(* forecast arrives and the model is updated or built anew.                *)
(***************************************************************************)
EXTENDS Planning, TLC

CONSTANTS Points,   \* [workload, size, variant]: what run_profile asks for
          Factor    \* stands for the 1.1 of the probe's price update

\* the variants are of sparse_rows alone
ASSUME PointsAssumption ==
    \A p \in Points :
        /\ p.workload \in {"sparse_rows", "bess_96", "rule_rows", "param_bess", "bess_96_param", "planning"}
        /\ p.size \in Nat \ {0}
        /\ p.variant \in {"canonical", "shuffled", "duplicated"}
        /\ p.variant # "canonical" => p.workload = "sparse_rows"

VARIABLES point,    \* the point under measurement
          arm,      \* the child's implementation, or "" between children
          csr,      \* its payload
          todo,     \* the phases it has still to run
          model,    \* what it has built
          record,   \* the counts it reports: <<variables, constraints, nnz, objective nnz>>
          status,   \* "idle", "building", "ok" or "error"
          factor,   \* by what the prices were multiplied
          previous, \* the payload of the previous child
          cycle     \* of persist_bench: the forecast that the model is to have

vars == <<point, arm, csr, todo, model, record, status, factor, previous, cycle>>

NoPayload == <<>>
Empty == Model(<<>>, <<>>, <<>>, "", Numeric)

-----------------------------------------------------------------------------
\* supported_workloads, and the probes.  roml_core_rust_anon differs from
\* roml_core_rust in names only.
Offers(a) ==
    CASE a = "roml_core_l1"    -> {"bess_96"}
      [] a = "roml_core_rules" -> {"rule_rows"}
      [] a \in {"roml_core_bulk_param", "roml_core_l1_param"} -> {"param_bess"}
      [] a = "roml_python_csr"   -> {"bess_96"}
      [] a = "roml_python_rules" -> {"rule_rows"}
      [] a \in {"roml_python_param", "roml_python_concrete"} -> {"param_bess"}
      [] a = "pyomo_python"      -> {"sparse_rows", "bess_96", "rule_rows"}
      [] a = "ops_probe_parameterized" -> {"sparse_rows"}
      [] a = "forensic_probe"    -> {"bess_96_param"}
      [] a \in PlanningArms      -> {"planning"}
      [] OTHER                   -> {"sparse_rows", "bess_96"}

Arms == {"roml_core_rust", "roml_core_bulk", "roml_core_l1", "roml_core_rules",
         "roml_core_bulk_param", "roml_core_l1_param", "jump_julia", "ortools_mathopt_cpp",
         "roml_python_naive_chain", "roml_python_vectorized", "roml_python_csr",
         "roml_python_rules", "roml_python_param", "roml_python_concrete", "pulp_python",
         "pyomo_python", "pyoptinterface_python", "pyoptinterface_scalar",
         "ops_probe", "ops_probe_parameterized", "forensic_probe"} \cup PlanningArms

\* the arms that ingest the payload; the first two have variants
VariantArms == {"roml_python_vectorized", "pyoptinterface_python"}
CsrArms == VariantArms \cup {"roml_python_csr"}

Phases(a) ==
    IF "param_bess" \in Offers(a) THEN <<"variables", "parameters", "objective">>
    ELSE IF a = "forensic_probe" THEN <<"variables", "parameters", "constraints", "objective">>
    ELSE IF a \in Retaining THEN <<"variables", "parameters", "constraints", "objective", "update">>
    ELSE <<"variables", "constraints", "objective">>

\* the builder of an arm
SparseOf(a, n, payload) ==
    CASE a = "roml_core_rust"          -> BuildSparse(n, FALSE)
      [] a = "roml_core_bulk"          -> BuildSparseBulk(n)
      [] a = "jump_julia"              -> JuliaSparse(n)
      [] a = "ortools_mathopt_cpp"     -> MathoptSparse(n)
      [] a = "roml_python_naive_chain" -> NaiveSparse(n)
      [] a = "roml_python_vectorized"  -> VectorizedSparse(n, payload)
      [] a = "pulp_python"             -> PulpSparse(n)
      [] a = "pyomo_python"            -> PyomoSparse(n)
      [] a = "pyoptinterface_python"   -> MatrixSparse(n, payload)
      [] a = "pyoptinterface_scalar"   -> ScalarSparse(n)
      [] a = "ops_probe"               -> OpsProbeSparse(n, FALSE)
      [] a = "ops_probe_parameterized" -> OpsProbeSparse(n, TRUE)

BessOf(a, b, payload) ==
    CASE a \in {"roml_core_rust", "ops_probe"} -> BuildBess(b)
      [] a = "roml_core_bulk"          -> BuildBessBulk(b)
      [] a = "roml_core_l1"            -> BuildBessL1(b)
      [] a = "jump_julia"              -> JuliaBess(b)
      [] a = "ortools_mathopt_cpp"     -> MathoptBess(b)
      [] a = "roml_python_naive_chain" -> NaiveBess(b)
      [] a = "roml_python_vectorized"  -> VectorizedBess(b)
      [] a = "roml_python_csr"         -> CsrBess(b, payload)
      [] a = "pulp_python"             -> PulpBess(b)
      [] a = "pyomo_python"            -> PyomoBess(b)
      [] a = "pyoptinterface_python"   -> MatrixBess(b, payload)
      [] a = "pyoptinterface_scalar"   -> ScalarBess(b)

RulesOf(a, n) == CASE a = "roml_core_rules"   -> BuildRules(n)
                   [] a = "roml_python_rules" -> PythonRules(n)
                   [] a = "pyomo_python"      -> PyomoRules(n)

ParamOf(a, b) == CASE a = "roml_core_bulk_param" -> BuildParamBessBulk(b)
                   [] a = "roml_core_l1_param"   -> BuildParamBessL1(b)
                   [] a = "roml_python_param"    -> PythonParam(b)
                   [] a = "roml_python_concrete" -> ConcreteParam(b)

Built == CASE point.workload = "sparse_rows"   -> SparseOf(arm, point.size, csr)
           [] point.workload = "bess_96"       -> BessOf(arm, point.size, csr)
           [] point.workload = "rule_rows"     -> RulesOf(arm, point.size)
           [] point.workload = "param_bess"    -> ParamOf(arm, point.size)
           [] point.workload = "bess_96_param" -> ProbeParamBess(point.size)
           [] point.workload = "planning"      -> PlanOf(arm, point.size, cycle)

-----------------------------------------------------------------------------
Init == /\ point \in Points
        /\ arm = "" /\ csr = NoPayload /\ todo = <<>> /\ model = Empty /\ record = <<>>
        /\ status = "idle" /\ factor = 1 /\ previous = NoPayload /\ cycle = 0

\* rng.permutation of each row.  The generator is seeded with hash(variant),
\* which Python salts anew in every process: any order can come out.
Orders == [0..((point.size \div Width) - 1) -> {p \in [1..Width -> 1..Width] : IsInjective(p)}]

NoOrder == <<>>

\* make_case, then apply_csr_variant for a variant; the counts go into the
\* record before anything is built.
Prepare(a) ==
    /\ status = "idle"
    /\ point.workload \in Offers(a)
    /\ point.variant # "canonical" => a \in VariantArms
    /\ \E order \in IF point.variant = "shuffled" THEN Orders ELSE {NoOrder} :
          csr' = IF a \in CsrArms
                 THEN ApplyCsrVariant(Csr(point.workload, point.size), point.variant, order)
                 ELSE NoPayload
    /\ record' = IF point.workload \in {"bess_96_param", "planning"} THEN <<>>
                 ELSE [Counts(point.workload, point.size) EXCEPT
                          ![3] = IF point.variant = "canonical" THEN @ ELSE ActualNnz(csr')]
    /\ arm' = a /\ todo' = Phases(a) /\ model' = Empty /\ status' = "building"
    /\ UNCHANGED <<point, factor, previous, cycle>>

\* External: HiGHS takes no row with a column twice.
Rejected == /\ arm = "pyoptinterface_python" /\ todo # <<>> /\ Head(todo) = "constraints"
            /\ point.variant = "duplicated"

\* What one phase adds.  Arms without a phase for them create the parameters
\* together with the objective.
Install(phase) ==
    CASE phase = "variables"   -> [model EXCEPT !.columns = Built.columns]
      [] phase = "parameters"  -> [model EXCEPT !.params = Built.params]
      [] phase = "constraints" -> [model EXCEPT !.rows = Built.rows]
      [] phase = "update"      -> [model EXCEPT !.params = Updated(point.size, cycle, @)]
      [] phase = "objective"   -> [model EXCEPT !.objective = Built.objective,
                                                !.sense = Built.sense, !.params = Built.params]

RunPhase ==
    /\ status = "building" /\ todo # <<>> /\ ~ Rejected
    /\ model' = Install(Head(todo))
    /\ todo' = Tail(todo)
    /\ UNCHANGED <<point, arm, csr, record, status, factor, previous, cycle>>

\* A phase that raises makes an error record, with the counts of the case.
PhaseRaises ==
    /\ status = "building" /\ Rejected
    /\ status' = "error"
    /\ UNCHANGED <<point, arm, csr, todo, model, record, factor, previous, cycle>>

Report ==
    /\ status = "building" /\ todo = <<>>
    /\ status' = "ok"
    /\ UNCHANGED <<point, arm, csr, todo, model, record, factor, previous, cycle>>

\* probe_param_bess: every parameter is set to its period's price, times 1.1
RaisePrices ==
    /\ status = "ok" /\ arm = "forensic_probe" /\ factor = 1
    /\ factor' = Factor
    /\ model' = [model EXCEPT !.params = [i \in DOMAIN @ |-> Prices[(i - 1) % Periods] * Factor]]
    /\ UNCHANGED <<point, arm, csr, todo, record, status, previous, cycle>>

\* the next turn of an arm's loop: its model is kept for an update, or rebuilt
NextCycle ==
    /\ status = "ok" /\ point.workload = "planning"
    /\ cycle + 1 \in DOMAIN Forecasts
    /\ cycle' = cycle + 1
    /\ status' = "building"
    /\ IF arm \in Retaining THEN todo' = <<"update">> /\ UNCHANGED model
                             ELSE todo' = Phases(arm) /\ model' = Empty
    /\ UNCHANGED <<point, arm, csr, record, factor, previous>>

\* The child exits; the next one of the point is a fresh process.  The arms of
\* persist_bench end after the last cycle.
NextChild ==
    /\ status \in {"ok", "error"}
    /\ point.workload = "planning" => cycle + 1 \notin DOMAIN Forecasts
    /\ cycle' = 0
    /\ arm' = "" /\ csr' = NoPayload /\ todo' = <<>> /\ model' = Empty /\ record' = <<>>
    /\ status' = "idle" /\ factor' = 1
    /\ previous' = IF csr = NoPayload THEN previous ELSE csr
    /\ UNCHANGED point

Next == (\E a \in Arms : Prepare(a)) \/ RunPhase \/ PhaseRaises \/ Report \/ RaisePrices
            \/ NextCycle \/ NextChild

Spec == Init /\ [][Next]_vars

-----------------------------------------------------------------------------
\* inspect of PuLP and Pyomo looks at the model: an expression has each column
\* once.  The other adapters of Python repeat the counts of the case.
Mentioned(terms) == Cardinality({terms[i].col : i \in DOMAIN terms})
Introspected == <<Len(model.columns), Len(model.rows),
                  FoldLeft(LAMBDA sum, row : sum + Mentioned(row.terms), 0, model.rows),
                  Mentioned(model.objective)>>
Inspect == IF arm \in {"pulp_python", "pyomo_python"} THEN Introspected
           ELSE Counts(point.workload, point.size)

\* the fields, by position, that check_report_against_case complains of
ReportProblems(report) ==
    {field \in DOMAIN report : report[field] # Counts(point.workload, point.size)[field]}

-----------------------------------------------------------------------------
(***************************************************************************)
(* The contract's workloads (BENCHMARK-CONTRACT.md, section 1, and the     *)
(* counts of workloads.py), as sets and functions over names: nothing is   *)
(* numbered and nothing has an order.                                      *)
(***************************************************************************)
Cells(b) == (0..(b - 1)) \X (0..(Periods - 1))
Ones(names) == [nm \in names |-> 1]
Ranged(terms, lower, upper) == [terms |-> terms, lower |-> lower, upper |-> upper]

\* what a battery earns, over both families; the parametric fixture has no dt
Revenue(b, scale) ==
    [nm \in {<<f, ij[1], ij[2]>> : f \in {"charge", "discharge"}, ij \in Cells(b)} |->
        IF nm[1] = "charge" THEN -(scale * Prices[nm[3]]) ELSE scale * Prices[nm[3]]]

PowerColumns(b) ==
    {Column(<<f, ij[1], ij[2]>>, Power) : f \in {"charge", "discharge"}, ij \in Cells(b)}

\* what persist_bench plans, and where a sale earns anything
Plan(n) == (0..(n - 1)) \X (0..(Horizon - 1))
Worth(n) == {it \in Plan(n) : Forecasts[cycle].margin[it] # 0}

Contract(workload, n) ==
    LET balance(bb, tt) ==
            (<<"energy", bb, tt + 1>> :> 1) @@ (<<"energy", bb, tt>> :> -1)
                @@ (<<"charge", bb, tt>> :> -(Dt * Eta)) @@ (<<"discharge", bb, tt>> :> Dt \div Eta)
        stock(i, t) ==
            (<<"inventory", i, t + 1>> :> 1) @@ (<<"inventory", i, t>> :> -1)
                @@ (<<"production", i, t>> :> -1) @@ (<<"sales", i, t>> :> 1)
    IN  CASE workload = "sparse_rows" ->
               [columns |-> {Column(<<"x", i>>, 5) : i \in 0..(n - 1)},
                rows |-> {Ranged(Ones({<<"x", Width * r + k>> : k \in 0..(Width - 1)}), Unbounded, 10) :
                             r \in 0..((n \div Width) - 1)},
                objective |-> Ones({<<"x", i>> : i \in 0..(n - 1)}), sense |-> "min"]
          [] workload \in {"bess_96", "bess_96_param"} ->
               [columns |-> PowerColumns(n) \cup
                    {Column(<<"energy", bb, tt>>, Energy) : bb \in 0..(n - 1), tt \in 0..Periods},
                rows |-> {Ranged(<<"energy", bb, 0>> :> 1, Energy0, Energy0) : bb \in 0..(n - 1)}
                    \cup {Ranged(balance(ij[1], ij[2]), 0, 0) : ij \in Cells(n)}
                    \cup {Ranged(Ones({<<"charge", ij[1], ij[2]>>, <<"discharge", ij[1], ij[2]>>}),
                                 Unbounded, Power) : ij \in Cells(n)},
                objective |-> Revenue(n, Dt), sense |-> "max"]
          [] workload = "rule_rows" ->
               [columns |-> {Column(<<"x", i, j>>, 5) : i \in 0..(n - 1), j \in 0..(Width - 1)},
                rows |-> {Ranged(Ones({<<"x", i, j>> : j \in 0..(Width - 1)}), Unbounded, Caps[i]) :
                             i \in 0..(n - 1)},
                objective |-> Ones({<<"x", i, j>> : i \in 0..(n - 1), j \in 0..(Width - 1)}),
                sense |-> "min"]
          [] workload = "planning" ->
               [columns |-> {Column(<<"production", it[1], it[2]>>, Capacity) : it \in Plan(n)}
                    \cup {Column(<<"sales", it[1], it[2]>>, Unlimited) : it \in Plan(n)}
                    \cup {Column(<<"inventory", i, t>>, Unlimited) : i \in 0..(n - 1), t \in 0..Horizon},
                rows |-> {Ranged(Ones({<<"sales", it[1], it[2]>>}), Unbounded,
                                 Forecasts[cycle].demand[it]) : it \in Plan(n)}
                    \cup {Ranged(Ones({<<"inventory", i, 0>>}), 0, 0) : i \in 0..(n - 1)}
                    \cup {Ranged(stock(it[1], it[2]), 0, 0) : it \in Plan(n)},
                objective |-> [nm \in {<<"sales", it[1], it[2]>> : it \in Worth(n)}
                                   \cup {<<"inventory", it[1], it[2]>> : it \in Plan(n)} |->
                    IF nm[1] = "sales" THEN Forecasts[cycle].margin[<<nm[2], nm[3]>>] ELSE -Holding],
                sense |-> "max"]
          [] workload = "param_bess" ->
               [columns |-> PowerColumns(n), rows |-> {}, objective |-> Revenue(n, 1), sense |-> "max"]

\* what was built, read the same way
RowMeaning(row) == Ranged(Meaning(model.columns, row.terms, model.params),
                          row.lower, Upper(row, model.params))
ModelMeaning == [columns |-> ToSet(model.columns),
                 rows |-> {RowMeaning(model.rows[r]) : r \in DOMAIN model.rows},
                 objective |-> Meaning(model.columns, model.objective, model.params),
                 sense |-> model.sense]

\* every coefficient of f, k times
Scaled(k, f) == [x \in DOMAIN f |-> k * f[x]]

-----------------------------------------------------------------------------
(***************************************************************************)
(* Every child that reports ok has built the contract's model of its       *)
(* point, no row or column missing or twice, whatever the loops, index     *)
(* arithmetic, order and payload of its builder.  Duplicated entries       *)
(* accumulate, so that variant has twice the coefficients under the same   *)
(* bounds; the probe's update scales the whole objective.  In every cycle  *)
(* of persist_bench, what an arm solves, whether updated or rebuilt, is    *)
(* the model of that cycle's forecast and of no earlier one.               *)
(***************************************************************************)
BuildsTheContract ==
    LET contract == Contract(point.workload, point.size)
        k == IF point.variant = "duplicated" THEN 2 ELSE 1
    IN  status = "ok" =>
            /\ ModelMeaning = [contract EXCEPT
                                   !.rows = {[row EXCEPT !.terms = Scaled(k, @)] : row \in @},
                                   !.objective = Scaled(factor, @)]
            /\ Len(model.columns) = Cardinality(contract.columns)
            /\ Len(model.rows) = Cardinality(contract.rows)

(***************************************************************************)
(* The counts of a record are those of the model that was built, although  *)
(* the worker and the native programs write them from formulas of the size *)
(* (and the last row pointer of a variant) and never look at the model:    *)
(* worker.py, common.rs, mathopt_bench.cc, jump_bench.jl.  Entries of rows *)
(* are counted as handed to the library.  Validation's structural check,   *)
(* which does look at the model of PuLP and Pyomo, complains of nothing.   *)
(***************************************************************************)
CountsAreTrue ==
    status = "ok" /\ record # <<>> =>
        /\ record = <<Len(model.columns), Len(model.rows),
                      FoldLeft(LAMBDA sum, row : sum + Len(row.terms), 0, model.rows),
                      Cardinality(DOMAIN Meaning(model.columns, model.objective, model.params))>>
        /\ point.variant = "canonical" => ReportProblems(Inspect) = {}

\* replay: cells by column number, rows as a multiset
ByNumber(m) ==
    LET cells(terms) == {<<terms[i].col, Value(terms[i], m.params)>> : i \in DOMAIN terms}
        row(r) == <<cells(m.rows[r].terms), m.rows[r].lower, Upper(m.rows[r], m.params)>>
    IN  [variables |-> [c \in DOMAIN m.columns |-> m.columns[c].ub],
         rows |-> [v \in {row(r) : r \in DOMAIN m.rows} |->
                      Cardinality({r \in DOMAIN m.rows : row(r) = v})],
         objective |-> cells(m.objective), sense |-> m.sense]

\* build_case of the other construction
Scalar(workload, n) == IF workload = "sparse_rows" THEN BuildSparse(n, FALSE) ELSE BuildBess(n)

(***************************************************************************)
(* forensic_probe --equiv never reports a difference: the scalar and the   *)
(* bulk construction agree column number by column number, although they   *)
(* add their rows in different orders.  check_equiv relies on "Variable    *)
(* creation order is identical in both builders" (forensic_probe.rs:86).   *)
(***************************************************************************)
EquivProbeAccepts ==
    status = "ok" /\ arm = "roml_core_bulk" =>
        ByNumber(model) = ByNumber(Scalar(point.workload, point.size))

(***************************************************************************)
(* The layout that build_param_bess_bulk hands over with its flat cells is *)
(* a true witness of them: each cell lies in exactly one block, has the    *)
(* block's scale and reads the parameter at its place in the block.        *)
(***************************************************************************)
LayoutWitnessIsTrue ==
    status = "ok" /\ arm = "roml_core_bulk_param" =>
        \A i \in DOMAIN model.objective :
            LET inside(block) == i > block.offset /\ i <= block.offset + block.length
                holding == {block \in ParamLayout(point.size) : inside(block)}
            IN  /\ Cardinality(holding) = 1
                /\ \A block \in holding : /\ model.objective[i].coef = block.scale
                                          /\ model.objective[i].param = i - block.offset

(***************************************************************************)
(* "The payload is created once, outside every timed region, and shared    *)
(* across adapters" (workloads.py:3), with its variants "from a seeded     *)
(* RNG" (workloads.py:276): two children of one point ingest one payload.  *)
(***************************************************************************)
PayloadIsShared == csr # NoPayload /\ previous # NoPayload => csr = previous
=============================================================================
