----------------------------- MODULE MCPopulate -----------------------------
\* Two full rows of three, up to three batteries over three periods; every
\* price, bound and factor is told apart from the others.  Three cycles of
\* persist_bench.
EXTENDS Populate

At3(s) == [i \in 0..2 |-> s[i + 1]]
ThreePrices == At3(<<20, 35, 50>>)
ThreeCaps == At3(<<2, 3, 4>>)

\* two products over two periods; a product without demand, a sale that earns
\* nothing and one at a loss are among the three forecasts
At4(a, b, c, d) == (<<0, 0>> :> a) @@ (<<0, 1>> :> b) @@ (<<1, 0>> :> c) @@ (<<1, 1>> :> d)
ThreeForecasts == At3(<<[demand |-> At4(8, 11, 5, 9), margin |-> At4(6, 4, 7, 3)],
                        [demand |-> At4(0, 10, 6, 13), margin |-> At4(5, -1, 8, 2)],
                        [demand |-> At4(7, 12, 3, 14), margin |-> At4(9, 0, 10, 12)]>>)

Canonical(workload, sizes) == [workload : {workload}, size : sizes, variant : {"canonical"}]
Variants(sizes) == [workload : {"sparse_rows"}, size : sizes, variant : {"shuffled", "duplicated"}]

GridPoints == Canonical("sparse_rows", {3, 6}) \cup Canonical("bess_96", 1..3)
                  \cup Canonical("rule_rows", 1..3) \cup Canonical("param_bess", 1..3)
                  \cup Canonical("bess_96_param", 1..3) \cup Canonical("planning", {2})
                  \cup Variants({3, 6})
OneVariant == {[workload |-> "sparse_rows", size |-> 3, variant |-> "shuffled"]}
=============================================================================
