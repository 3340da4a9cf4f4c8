----------------------------- MODULE Workloads -----------------------------
(***************************************************************************)
(* workloads.py: the canonical cases, the CSR payload that the matrix arms *)
(* ingest, and its diagnostic variants.                                    *)
(*                                                                         *)
(* The model's constants stand for the code's, whose values only have to   *)
(* be told apart: products like dt * eta are exact integers here and       *)
(* doubles there.                                                          *)
(***************************************************************************)
EXTENDS LinearModel

CONSTANTS Width,    \* the ten variables of a sparse row, and RULE_J
          Periods,  \* BESS_T
          Prices,   \* bess_prices: one per period, shared by the batteries
          Caps,     \* rule_rows_caps: one per row
          Dt, Eta, Power, Energy, Energy0   \* BESS_DT, BESS_ETA, BESS_P, BESS_E, BESS_E0

ASSUME WorkloadAssumption ==
    /\ Width \in Nat \ {0} /\ Periods \in Nat \ {0}
    /\ Prices \in [0..(Periods - 1) -> Int]
    /\ Dt \in Nat /\ Eta \in Nat \ {0} /\ Dt % Eta = 0

\* [variables, constraints, constraint_nnz, objective_nnz] of a case
Counts(workload, n) ==
    CASE workload = "sparse_rows" -> <<n, n \div Width, Width * (n \div Width), n>>
      [] workload = "bess_96"     -> <<n * (3 * Periods + 1), n * (2 * Periods + 1),
                                       n * (1 + 6 * Periods), n * (2 * Periods)>>
      [] workload = "rule_rows"   -> <<n * Width, n, n * Width, n * Width>>
      [] workload = "param_bess"  -> <<2 * n * Periods, 0, 0, 2 * n * Periods>>

\* np.tile(prices, (b, 1)), flattened
PriceGrid(b) == Grid(b, Periods, LAMBDA bb, tt : Prices[tt])

\* sparse_rows_csr: row r covers x[Width * r .. Width * r + Width - 1]
SparseRowsCsr(n) ==
    LET rows == n \div Width
    IN  [indptr |-> [r \in 0..rows |-> Width * r],
         indices |-> For(Width * rows, LAMBDA k : k),
         data |-> For(Width * rows, LAMBDA k : 1),
         lower |-> For(rows, LAMBDA r : Unbounded), upper |-> For(rows, LAMBDA r : 10),
         objCoeff |-> For(n, LAMBDA i : 1)]

\* the flat column order: charge, discharge, energy
ColCharge(b, bb, tt) == bb * Periods + tt
ColDischarge(b, bb, tt) == b * Periods + bb * Periods + tt

\* Fault: energy is strided like the other families.
ColEnergyShort(b, bb, tt) == 2 * b * Periods + bb * Periods + tt

ColEnergy(b, bb, tt) == 2 * b * Periods + bb * (Periods + 1) + tt

\* bess_96_csr: the init rows, then the balance rows, then the mode rows
Bess96Csr(b) ==
    LET T == Periods
        inits    == For(b, LAMBDA bb : << <<ColEnergy(b, bb, 0), 1>> >>)
        balances == Grid(b, T, LAMBDA bb, tt :
                        << <<ColEnergy(b, bb, tt + 1), 1>>, <<ColEnergy(b, bb, tt), -1>>,
                           <<ColCharge(b, bb, tt), -(Dt * Eta)>>,
                           <<ColDischarge(b, bb, tt), Dt \div Eta>> >>)
        modes    == Grid(b, T, LAMBDA bb, tt :
                        << <<ColCharge(b, bb, tt), 1>>, <<ColDischarge(b, bb, tt), 1>> >>)
        bounds(init, balance, mode) ==
            For(b, LAMBDA i : init) \o For(b * T, LAMBDA i : balance) \o For(b * T, LAMBDA i : mode)
        obj(k) == IF k < b * T THEN -Dt * Prices[k % T]
                  ELSE IF k < 2 * b * T THEN Dt * Prices[k % T] ELSE 0
        packed == Packed(inits \o balances \o modes, bounds(Energy0, 0, Unbounded),
                         bounds(Energy0, 0, Power))
    IN  [indptr |-> packed.indptr, indices |-> packed.indices, data |-> packed.data,
         lower |-> packed.lower, upper |-> packed.upper,
         objCoeff |-> For(b * (3 * T + 1), obj)]

\* var_ub: the flat bounds in the flat column order
VarUb(b) == For(b * Periods, LAMBDA i : Power) \o For(b * Periods, LAMBDA i : Power)
                \o For(b * (Periods + 1), LAMBDA i : Energy)

Csr(workload, n) == IF workload = "sparse_rows" THEN SparseRowsCsr(n) ELSE Bess96Csr(n)

-----------------------------------------------------------------------------
(***************************************************************************)
(* apply_csr_variant.  order[r] is rng.permutation for row r.              *)
(***************************************************************************)

\* F(r, seg) of every row's segment of s, concatenated
PerRow(csr, s, F(_, _)) ==
    FlattenSeq(For(Len(csr.upper), LAMBDA r : F(r, Slice(s, csr.indptr[r], csr.indptr[r + 1]))))

Shuffle(csr, order) ==
    LET permuted(r, seg) == [k \in DOMAIN seg |-> seg[order[r][k]]]
    IN  [csr EXCEPT !.indices = PerRow(csr, @, permuted), !.data = PerRow(csr, @, permuted)]

Duplicate(csr) ==
    LET twice(r, seg) == seg \o seg
    IN  [csr EXCEPT !.indptr = [r \in DOMAIN @ |-> 2 * @[r]],
                    !.indices = PerRow(csr, @, twice), !.data = PerRow(csr, @, twice)]

ApplyCsrVariant(csr, variant, order) ==
    CASE variant = "canonical"  -> csr
      [] variant = "shuffled"   -> Shuffle(csr, order)
      [] variant = "duplicated" -> Duplicate(csr)

\* Fault: the last row's pointer is its first entry.
ActualNnzShort(csr) == csr.indptr[Len(csr.upper) - 1]

\* actual_nnz: the last row pointer
ActualNnz(csr) == csr.indptr[Len(csr.upper)]
=============================================================================
