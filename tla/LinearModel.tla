---------------------------- MODULE LinearModel ----------------------------
(***************************************************************************)
(* What the modelling libraries give the builders: columns numbered in the *)
(* order they are added, linear expressions over them, rows, and matrices  *)
(* in compressed sparse row (CSR) form.  All of it is external; it is      *)
(* modelled by what the builders rely on.                                  *)
(*                                                                         *)
(* Columns and the code's arrays count from 0, sequences from 1.  Every    *)
(* lower bound of a column is 0 and is left out.  A coefficient is an      *)
(* integer, times the value of parameter number `param` unless that is 0;  *)
(* the upper bound of a row may be a parameter in the same way.            *)
(***************************************************************************)
EXTENDS Integers, Sequences, FiniteSets, SequencesExt

Unbounded == -1000000   \* the lower bound of a row that has none
Unlimited == 1000000    \* the upper bound of a column that has none

\* for i in range(n): one item, or w of them
For(n, Item(_)) == [i \in 1..n |-> Item(i - 1)]
Each(n, w, Items(_)) == For(n * w, LAMBDA k : Items(k \div w)[(k % w) + 1])

\* for i in range(b): for j in range(t), or an array of shape (b, t)
Grid(b, t, Item(_, _)) == For(b * t, LAMBDA k : Item(k \div t, k % t))
GridEach(b, t, w, Items(_, _)) == Each(b * t, w, LAMBDA k : Items(k \div t, k % t))

\* s[from:to], and a sequence as an array from 0
Slice(s, from, to) == SubSeq(s, from + 1, to)
Array(s) == [i \in 0..(Len(s) - 1) |-> s[i + 1]]

-----------------------------------------------------------------------------
Column(name, ub) == [name |-> name, ub |-> ub]

\* columns of shape (b, t): row-major
Block(family, b, t, ub) == Grid(b, t, LAMBDA i, j : Column(<<family, i, j>>, ub))

\* the handle of a column that is kept under its indices
Handle(cols, name) == (CHOOSE k \in DOMAIN cols : cols[k].name = name) - 1

\* the handles of a family in a flat vector, in the order they were pushed: the
\* i-th, from 0, is the one that i others are before
Handles(cols, family) ==
    LET pushed == {c \in 0..(Len(cols) - 1) : cols[c + 1].name[1] = family}
    IN  [i \in 0..(Cardinality(pushed) - 1) |->
            CHOOSE c \in pushed : Cardinality({d \in pushed : d < c}) = i]

-----------------------------------------------------------------------------
Term(c, k) == [col |-> c, coef |-> k, param |-> 0]
Var(c) == <<Term(c, 1)>>
Times(k, e) == [i \in DOMAIN e |-> [e[i] EXCEPT !.coef = k * @]]
Minus(e, f) == e \o Times(-1, f)
ByParam(p, e) == [i \in DOMAIN e |-> [e[i] EXCEPT !.param = p]]

Row(e, lower, upper) == [terms |-> e, lower |-> lower, upper |-> upper, param |-> 0]
EqRow(e, rhs) == Row(e, rhs, rhs)
LeRow(e, rhs) == Row(e, Unbounded, rhs)
LeParamRow(e, p) == [LeRow(e, 1) EXCEPT !.param = p]

\* rows of a CSR matrix, whose column numbers are positions in the array x
MatrixRow(csr, x, r) ==
    LET from == csr.indptr[r]
    IN  [k \in 1..(csr.indptr[r + 1] - from) |->
            Term(x[csr.indices[from + k]], csr.data[from + k])]

AddLinearRows(csr, x) ==
    For(Len(csr.upper), LAMBDA r : Row(MatrixRow(csr, x, r), csr.lower[r + 1], csr.upper[r + 1]))

\* the matrix whose r-th row is segs[r], a sequence of <<column, coefficient>>
Packed(segs, lower, upper) ==
    LET flat == FlattenSeq(segs)
        ptr[r \in 0..Len(segs)] == IF r = 0 THEN 0 ELSE ptr[r - 1] + Len(segs[r])
    IN  [indptr |-> ptr, indices |-> [k \in DOMAIN flat |-> flat[k][1]],
         data |-> [k \in DOMAIN flat |-> flat[k][2]], lower |-> lower, upper |-> upper]

-----------------------------------------------------------------------------
\* What an expression says of each column it mentions, whatever their numbers
\* and the order of its terms: repeated terms accumulate, what cancels is gone.
Scale(param, params) == IF param = 0 THEN 1 ELSE params[param]
Value(t, params) == t.coef * Scale(t.param, params)
Upper(row, params) == row.upper * Scale(row.param, params)

Meaning(cols, terms, params) ==
    LET name(t) == cols[t.col + 1].name
        total(nm) == FoldLeft(LAMBDA sum, t : IF name(t) = nm THEN sum + Value(t, params) ELSE sum,
                              0, terms)
    IN  [nm \in {m \in {name(terms[i]) : i \in DOMAIN terms} : total(m) # 0} |-> total(nm)]
=============================================================================
