------------------------------ MODULE Builders ------------------------------
(***************************************************************************)
(* The builders: how each implementation under comparison puts a case into *)
(* its library, with its own loops, index arithmetic and order.  A builder *)
(* is given as what it adds: columns, rows, the objective with its sense,  *)
(* and the parameters' values.  The implementations differ in nothing else *)
(* that a model could show: names, phases and the libraries are left out.  *)
(***************************************************************************)
EXTENDS Workloads

T == Periods

Model(columns, rows, objective, sense, params) ==
    [columns |-> columns, rows |-> rows, objective |-> objective, sense |-> sense, params |-> params]

Numeric == <<>>   \* no parameters

\* dt * (eta * ch - di / eta); Eta divides Dt
Charged(ch, di) == Times(Dt * Eta, Var(ch)) \o Times(-(Dt \div Eta), Var(di))

\* price * (di - ch)
Earned(price, ch, di) == Times(price, Minus(Var(di), Var(ch)))

\* en1 == en0 + dt * (eta * ch - di / eta), which the library brings to one side
BalanceRow(en1, en0, ch, di) == EqRow(Minus(Var(en1), Var(en0) \o Charged(ch, di)), 0)

ModeRow(ch, di) == LeRow(Var(ch) \o Var(di), Power)

-----------------------------------------------------------------------------
(***************************************************************************)
(* sparse_rows: n variables, a row over each Width of them.                *)
(***************************************************************************)
XColumns(n) == For(n, LAMBDA i : Column(<<"x", i>>, 5))
SumOf(n, x) == For(n, LAMBDA i : Term(x[i], 1))

\* common.rs build_sparse: in the parameterized mode, one shared parameter 1.0
BuildSparse(n, parameterized) ==
    LET x == Handles(XColumns(n), "x")
        obj == SumOf(n, x)
    IN  Model(XColumns(n),
              For(n \div Width, LAMBDA r : LeRow(For(Width, LAMBDA k : Term(x[Width * r + k], 1)), 10)),
              IF parameterized THEN ByParam(1, obj) ELSE obj, "min",
              IF parameterized THEN <<1>> ELSE Numeric)

\* Fault: the entries of a row are a row count apart.
BuildSparseBulkStrided(n) ==
    LET x == Handles(XColumns(n), "x")
        rows == n \div Width
    IN  [BuildSparse(n, FALSE) EXCEPT
            !.rows = For(rows, LAMBDA r : LeRow(For(Width, LAMBDA k : Term(x[rows * k + r], 1)), 10))]

\* build_sparse_bulk derives row pointers and flat columns itself
BuildSparseBulk(n) ==
    LET x == Handles(XColumns(n), "x")
        rows == n \div Width
        csr == [indptr |-> [r \in 0..rows |-> Width * r],
                indices |-> Grid(rows, Width, LAMBDA r, k : Width * r + k),
                data |-> For(Width * rows, LAMBDA k : 1),
                lower |-> For(rows, LAMBDA r : Unbounded), upper |-> For(rows, LAMBDA r : 10)]
    IN  Model(XColumns(n), AddLinearRows(csr, x), SumOf(n, x), "min", Numeric)

\* the same loops again in the ops probe, C++, PuLP, Pyomo and the scalar
\* PyOptInterface adapter
OpsProbeSparse(n, parameterized) == BuildSparse(n, parameterized)
MathoptSparse(n) == BuildSparse(n, FALSE)
PulpSparse(n) == BuildSparse(n, FALSE)
PyomoSparse(n) == BuildSparse(n, FALSE)
ScalarSparse(n) == BuildSparse(n, FALSE)

\* Julia counts from 1: row r covers x[Width * (r - 1) + k], k = 1 .. Width
JuliaSparse(n) ==
    LET x(i) == Handle(XColumns(n), <<"x", i - 1>>)
    IN  Model(XColumns(n),
              For(n \div Width, LAMBDA i : LET r == i + 1 IN
                  LeRow([k \in 1..Width |-> Term(x(Width * (r - 1) + k), 1)], 10)),
              [i \in 1..n |-> Term(x(i), 1)], "min", Numeric)

\* the naive chain starts from the first variable and adds the others one by one
NaiveSparse(n) ==
    LET x == Handles(XColumns(n), "x")
        chain(from, to) == FoldLeft(LAMBDA e, i : e \o Var(x[i]), Var(x[from]),
                                    [k \in 1..(to - from) |-> from + k])
    IN  Model(XColumns(n), For(n \div Width, LAMBDA r : LeRow(chain(Width * r, Width * r + Width - 1), 10)),
              chain(0, n - 1), "min", Numeric)

\* add_linear_rows from the payload; the objective is rm.sum(x)
VectorizedSparse(n, csr) ==
    LET x == Handles(XColumns(n), "x")
    IN  Model(XColumns(n), AddLinearRows(csr, x), SumOf(n, x), "min", Numeric)

\* _set_objective: the coefficients that are not zero
NonZeroTerms(x, coeff) ==
    FlattenSeq(For(Len(coeff), LAMBDA j :
        IF coeff[j + 1] = 0 THEN <<>> ELSE <<Term(x[j], coeff[j + 1])>>))

\* one matrix of <= rows, from which the lower bounds of the payload are not read
MatrixSparse(n, csr) ==
    LET x == Handles(XColumns(n), "x")
    IN  Model(XColumns(n),
              For(Len(csr.upper), LAMBDA r : LeRow(MatrixRow(csr, x, r), csr.upper[r + 1])),
              NonZeroTerms(x, csr.objCoeff), "min", Numeric)

-----------------------------------------------------------------------------
(***************************************************************************)
(* bess_96: b batteries over T periods.                                    *)
(***************************************************************************)
BessColumns(b) == Block("charge", b, T, Power) \o Block("discharge", b, T, Power)
                      \o Block("energy", b, T + 1, Energy)

\* the loops over flat vectors: per battery its init row, then per period the
\* balance row and the mode row
FlatBessRows(b, cols) ==
    LET charge == Handles(cols, "charge")
        discharge == Handles(cols, "discharge")
        energy == Handles(cols, "energy")
        at(bb, tt) == bb * (T + 1) + tt
    IN  Each(b, 1 + 2 * T, LAMBDA bb :
            <<EqRow(Var(energy[bb * (T + 1)]), Energy0)>>
                \o Each(T, 2, LAMBDA tt :
                      LET ch == charge[bb * T + tt]
                          di == discharge[bb * T + tt]
                      IN  <<BalanceRow(energy[at(bb, tt) + 1], energy[at(bb, tt)], ch, di),
                            ModeRow(ch, di)>>))

\* common.rs build_bess
BuildBess(b) ==
    LET charge == Handles(BessColumns(b), "charge")
        discharge == Handles(BessColumns(b), "discharge")
    IN  Model(BessColumns(b), FlatBessRows(b, BessColumns(b)),
              GridEach(b, T, 2, LAMBDA bb, tt :
                  <<Term(charge[bb * T + tt], -Dt * Prices[tt]),
                    Term(discharge[bb * T + tt], Dt * Prices[tt])>>),
              "max", Numeric)

\* build_bess_bulk: three groups of rows, each its own matrix
BuildBessBulk(b) ==
    LET charge == Handles(BessColumns(b), "charge")
        discharge == Handles(BessColumns(b), "discharge")
        energy == Handles(BessColumns(b), "energy")
        group(width, segs, lower, upper) ==
            LET n == Len(segs)
                entries == Each(n, width, LAMBDA r : segs[r + 1])
            IN  AddLinearRows([indptr |-> [r \in 0..n |-> width * r],
                               indices |-> [k \in DOMAIN entries |-> entries[k][1]],
                               data |-> [k \in DOMAIN entries |-> entries[k][2]],
                               lower |-> For(n, LAMBDA r : lower), upper |-> For(n, LAMBDA r : upper)],
                              [c \in 0..(Len(BessColumns(b)) - 1) |-> c])
        inits == For(b, LAMBDA bb : << <<energy[bb * (T + 1)], 1>> >>)
        balances == Grid(b, T, LAMBDA bb, tt :
            << <<energy[bb * (T + 1) + tt + 1], 1>>, <<energy[bb * (T + 1) + tt], -1>>,
               <<charge[bb * T + tt], -(Dt * Eta)>>, <<discharge[bb * T + tt], Dt \div Eta>> >>)
        modes == For(b * T, LAMBDA r : << <<charge[r], 1>>, <<discharge[r], 1>> >>)
    IN  Model(BessColumns(b),
              group(1, inits, Energy0, Energy0) \o group(4, balances, 0, 0)
                  \o group(2, modes, Unbounded, Power),
              Grid(b, T, LAMBDA bb, tt : Term(discharge[bb * T + tt], Dt * Prices[tt]))
                  \o Grid(b, T, LAMBDA bb, tt : Term(charge[bb * T + tt], -Dt * Prices[tt])),
              "max", Numeric)

\* arrays of shape (b, t), and arr.slice(1, from, width) of one
Shaped(cols, family, b, t) == [ij \in (0..(b - 1)) \X (0..(t - 1)) |-> Handles(cols, family)[ij[1] * t + ij[2]]]
Sliced(arr, from, b, width) == [ij \in (0..(b - 1)) \X (0..(width - 1)) |-> arr[<<ij[1], from + ij[2]>>]]

\* the rows of array algebra: energy[:, 0], then energy[:, 1:] against energy[:, :-1]
ArrayBessRows(b) ==
    LET charge == Shaped(BessColumns(b), "charge", b, T)
        discharge == Shaped(BessColumns(b), "discharge", b, T)
        energy == Shaped(BessColumns(b), "energy", b, T + 1)
        first == Sliced(energy, 0, b, 1)
        next == Sliced(energy, 1, b, T)
        prev == Sliced(energy, 0, b, T)
    IN  Grid(b, 1, LAMBDA i, j : EqRow(Var(first[<<i, j>>]), Energy0))
            \o Grid(b, T, LAMBDA i, j : BalanceRow(next[<<i, j>>], prev[<<i, j>>],
                                                   charge[<<i, j>>], discharge[<<i, j>>]))
            \o Grid(b, T, LAMBDA i, j : ModeRow(charge[<<i, j>>], discharge[<<i, j>>]))

\* build_bess_l1: the prices are a parameter of shape (b, T)
BuildBessL1(b) ==
    LET charge == Handles(BessColumns(b), "charge")
        discharge == Handles(BessColumns(b), "discharge")
    IN  Model(BessColumns(b), ArrayBessRows(b),
              Each(b * T, 2, LAMBDA i : ByParam(i + 1, Times(Dt, Earned(1, charge[i], discharge[i])))),
              "max", PriceGrid(b))

\* RomlPythonBulkAdapter: rm.dot of the price grid
VectorizedBess(b) ==
    LET charge == Handles(BessColumns(b), "charge")
        discharge == Handles(BessColumns(b), "discharge")
    IN  Model(BessColumns(b), ArrayBessRows(b),
              Times(Dt, Each(b * T, 2, LAMBDA i : Earned(PriceGrid(b)[i + 1], charge[i], discharge[i]))),
              "max", Numeric)

\* C++ pushes charge and discharge in turn
MathoptBess(b) ==
    LET cols == GridEach(b, T, 2, LAMBDA bb, tt : <<Column(<<"charge", bb, tt>>, Power),
                                                    Column(<<"discharge", bb, tt>>, Power)>>)
                    \o Block("energy", b, T + 1, Energy)
        charge == Handles(cols, "charge")
        discharge == Handles(cols, "discharge")
    IN  Model(cols, FlatBessRows(b, cols),
              GridEach(b, T, 2, LAMBDA bb, tt :
                  Earned(Dt * Prices[tt], charge[bb * T + tt], discharge[bb * T + tt])),
              "max", Numeric)

\* handles kept under their indices: nested lists, dictionaries, indexed variables
At(b, family, bb, tt) == Handle(BessColumns(b), <<family, bb, tt>>)
InitRowAt(b, bb) == EqRow(Var(At(b, "energy", bb, 0)), Energy0)
BalanceRowAt(b, bb, tt) == BalanceRow(At(b, "energy", bb, tt + 1), At(b, "energy", bb, tt),
                                      At(b, "charge", bb, tt), At(b, "discharge", bb, tt))
ModeRowAt(b, bb, tt) == ModeRow(At(b, "charge", bb, tt), At(b, "discharge", bb, tt))
EarnedAt(b, k(_)) == GridEach(b, T, 2, LAMBDA bb, tt :
                        Earned(k(tt), At(b, "charge", bb, tt), At(b, "discharge", bb, tt)))

\* per battery its init row, its balance rows, its mode rows
PulpBess(b) ==
    Model(BessColumns(b),
          Each(b, 1 + 2 * T, LAMBDA bb : <<InitRowAt(b, bb)>> \o For(T, LAMBDA tt : BalanceRowAt(b, bb, tt))
                                                   \o For(T, LAMBDA tt : ModeRowAt(b, bb, tt))),
          EarnedAt(b, LAMBDA tt : Dt * Prices[tt]), "max", Numeric)

\* the same rows; dt is multiplied in at the end
NaiveBess(b) == [PulpBess(b) EXCEPT !.objective = Times(Dt, EarnedAt(b, LAMBDA tt : Prices[tt]))]

\* the same order, term by term
ScalarBess(b) ==
    LET balance(bb, tt) ==
            EqRow(<<Term(At(b, "energy", bb, tt + 1), 1), Term(At(b, "energy", bb, tt), -1),
                    Term(At(b, "charge", bb, tt), -(Dt * Eta)),
                    Term(At(b, "discharge", bb, tt), Dt \div Eta)>>, 0)
    IN  Model(BessColumns(b),
              Each(b, 1 + 2 * T, LAMBDA bb : <<InitRowAt(b, bb)>> \o For(T, LAMBDA tt : balance(bb, tt))
                                                       \o For(T, LAMBDA tt : ModeRowAt(b, bb, tt))),
              GridEach(b, T, 2, LAMBDA bb, tt :
                  <<Term(At(b, "discharge", bb, tt), Dt * Prices[tt]),
                    Term(At(b, "charge", bb, tt), -(Dt * Prices[tt]))>>),
              "max", Numeric)

\* indexed constraints: all init rows, all balance rows, all mode rows
PyomoBess(b) ==
    Model(BessColumns(b),
          For(b, LAMBDA bb : InitRowAt(b, bb)) \o Grid(b, T, LAMBDA bb, tt : BalanceRowAt(b, bb, tt))
              \o Grid(b, T, LAMBDA bb, tt : ModeRowAt(b, bb, tt)),
          EarnedAt(b, LAMBDA tt : Dt * Prices[tt]), "max", Numeric)

\* the same groups over arrays that count from 1; in which order JuMP numbers
\* the members of an array is left to it, and taken row by row
JuliaBess(b) ==
    LET at(family, bb, tt) == At(b, family, bb - 1, tt - 1)
        grid(Item(_, _)) == Grid(b, T, LAMBDA i, j : Item(i + 1, j + 1))
        price(tt) == Prices[tt - 1]
        earned(bb, tt) == Earned(price(tt), at("charge", bb, tt), at("discharge", bb, tt))
    IN  Model(BessColumns(b),
              For(b, LAMBDA i : EqRow(Var(at("energy", i + 1, 1)), Energy0))
                  \o grid(LAMBDA bb, tt : BalanceRow(at("energy", bb, tt + 1), at("energy", bb, tt),
                                                     at("charge", bb, tt), at("discharge", bb, tt)))
                  \o grid(LAMBDA bb, tt : ModeRow(at("charge", bb, tt), at("discharge", bb, tt))),
              Times(Dt, GridEach(b, T, 2, LAMBDA i, j : earned(i + 1, j + 1))),
              "max", Numeric)

\* PyOptInterface slices the payload by sense: init and balance rows are
\* equalities with the upper bound, mode rows are <= rows
MatrixBess(b, csr) ==
    LET cols == BessColumns(b)
        x == [c \in 0..(Len(cols) - 1) |-> c]   \* the three families, concatenated
    IN  Model(cols,
              For(Len(csr.upper), LAMBDA r :
                  IF r < b + b * T THEN EqRow(MatrixRow(csr, x, r), csr.upper[r + 1])
                  ELSE LeRow(MatrixRow(csr, x, r), csr.upper[r + 1])),
              NonZeroTerms(x, csr.objCoeff), "max", Numeric)

\* RomlPythonCsrAdapter: flat variables; what each stands for is its position
CsrBess(b, csr) ==
    LET cols == For(b * (3 * T + 1), LAMBDA i : Column(BessColumns(b)[i + 1].name, VarUb(b)[i + 1]))
        x == [c \in 0..(Len(cols) - 1) |-> c]
    IN  Model(cols, AddLinearRows(csr, x),
              For(Len(csr.objCoeff), LAMBDA j : Term(x[j], csr.objCoeff[j + 1])), "max", Numeric)

-----------------------------------------------------------------------------
(***************************************************************************)
(* rule_rows and param_bess.                                               *)
(***************************************************************************)

\* row i is over x[i, :] with its own capacity
BuildRules(n) ==
    LET cols == Block("x", n, Width, 5)
        x == Shaped(cols, "x", n, Width)
    IN  Model(cols, For(n, LAMBDA i : LeRow(For(Width, LAMBDA j : Term(x[<<i, j>>], 1)), Caps[i])),
              Grid(n, Width, LAMBDA i, j : Term(x[<<i, j>>], 1)), "min", Numeric)

PythonRules(n) == BuildRules(n)
PyomoRules(n) == BuildRules(n)

ParamColumns(b) == Block("charge", b, T, Power) \o Block("discharge", b, T, Power)

\* the terms by column: all charges, then all discharges, with parameter,
\* and the layout that tells the library so
BuildParamBessBulk(b) ==
    LET charge == Handles(ParamColumns(b), "charge")
        discharge == Handles(ParamColumns(b), "discharge")
        cell(x, i, scale) == [col |-> x[i], coef |-> scale, param |-> i + 1]
    IN  Model(ParamColumns(b), <<>>,
              For(b * T, LAMBDA i : cell(charge, i, -1)) \o For(b * T, LAMBDA i : cell(discharge, i, 1)),
              "max", PriceGrid(b))

\* Fault: both blocks of the layout start at the first cell.
ParamLayoutOverlapping(b) ==
    {[offset |-> 0, length |-> b * T, scale |-> -1], [offset |-> 0, length |-> b * T, scale |-> 1]}

\* ParamDepLayout: cell offset + i of a block reads parameter i, times the scale
ParamLayout(b) ==
    {[offset |-> 0, length |-> b * T, scale |-> -1],
     [offset |-> b * T, length |-> b * T, scale |-> 1]}

\* array algebra: sum(price * (discharge - charge))
BuildParamBessL1(b) ==
    LET charge == Handles(ParamColumns(b), "charge")
        discharge == Handles(ParamColumns(b), "discharge")
    IN  Model(ParamColumns(b), <<>>,
              Each(b * T, 2, LAMBDA i : ByParam(i + 1, Earned(1, charge[i], discharge[i]))),
              "max", PriceGrid(b))

PythonParam(b) == BuildParamBessL1(b)
ConcreteParam(b) == BuildParamBessL1(b)

\* probe_param_bess: the rows of build_bess under a parametric objective, its
\* discharge terms first; prices.iter().cycle() fills the parameters
ProbeParamBess(b) ==
    LET charge == Handles(BessColumns(b), "charge")
        discharge == Handles(BessColumns(b), "discharge")
    IN  Model(BessColumns(b), FlatBessRows(b, BessColumns(b)),
              For(b * T, LAMBDA i : [Term(discharge[i], Dt) EXCEPT !.param = i + 1])
                  \o For(b * T, LAMBDA i : [Term(charge[i], -Dt) EXCEPT !.param = i + 1]),
              "max", For(b * T, LAMBDA i : Prices[i % T]))
=============================================================================
