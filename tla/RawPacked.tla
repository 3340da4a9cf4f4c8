----------------------------- MODULE RawPacked -----------------------------
(***************************************************************************)
(* Kernel C (rust-store-proto/src/kernel_c.rs): raw packed arrays without  *)
(* an identity arena.  The store keeps one run, [start, start + len), and  *)
(* a bitset of removed positions; a position is an identity; an update of  *)
(* a cell that is not there is dropped.  The target of a call is ignored.  *)
(*                                                                         *)
(* Positions count from 1.  exprs, which nothing reads, is left out.       *)
(***************************************************************************)
EXTENDS Integers, FiniteSets, Sequences

CONSTANTS Targets,
          Vars,     \* natural numbers
          Values

NoCell == [id |-> 0, value |-> 0]   \* Option::None of a lookup

VARIABLES
    packed,   \* vars and values, as records
    start,    \* where the run starts
    len,      \* its length
    dead,     \* the positions removed
    built     \* the caller's view: the targets it built a block for

vars == <<packed, start, len, dead, built>>

Init ==
    /\ packed = <<>>
    /\ start = 1
    /\ len = 0
    /\ dead = {}
    /\ built = {}

-----------------------------------------------------------------------------
Run == start..(start + len - 1)

\* position: binary search in the run, 0 when there is none or it was removed
Position(v) ==
    LET hits == {pos \in Run : packed[pos].var = v /\ pos \notin dead}
    IN  IF hits = {} THEN 0 ELSE CHOOSE pos \in hits : TRUE

ForCell(t, v) ==
    IF Position(v) = 0 THEN NoCell
    ELSE [id |-> Position(v), value |-> packed[Position(v)].value]

\* the numbers of a set in order, as a loop over a vector meets them
Ascending(S) ==
    [n \in 1..Cardinality(S) |-> CHOOSE x \in S : Cardinality({y \in S : y < x}) = n - 1]

CellsAt(positions) ==
    [n \in 1..Len(positions) |-> [id |-> positions[n], var |-> packed[positions[n]].var,
                                  value |-> packed[positions[n]].value]]

\* Fault: the iteration does not look at the bitset.
IterAll == CellsAt(Ascending(Run))

IterLive == CellsAt(Ascending({pos \in Run : pos \notin dead}))

\* a caller's block: variables sorted, hence unique
SortedBlocks ==
    {s \in UNION {[1..n -> Vars] : n \in 1..Cardinality(Vars)} :
        \A i, j \in DOMAIN s : i < j => s[i] < s[j]}

\* build_constant_block, under "the same caller contract as kernel B": a fresh
\* target
BuildConstantBlock(t, block, value) ==
    LET n == Len(block)
    IN  /\ t \notin built
        /\ built' = built \union {t}
        /\ packed' = packed \o [k \in 1..n |-> [var |-> block[k], value |-> value[k]]]
        /\ start' = Len(packed) + 1
        /\ len' = n
        /\ UNCHANGED dead

RemoveCell(t, v) ==
    /\ t \in built
    /\ dead' = IF Position(v) = 0 THEN dead ELSE dead \union {Position(v)}
    /\ UNCHANGED <<packed, start, len, built>>

\* An update of a cell the run does not have changes nothing.
UpdateCell(t, v, x) ==
    /\ t \in built
    /\ packed' = IF Position(v) = 0 THEN packed ELSE [packed EXCEPT ![Position(v)].value = x]
    /\ UNCHANGED <<start, len, dead, built>>

Next ==
    \/ \E t \in Targets, block \in SortedBlocks :
          \E value \in [DOMAIN block -> Values] : BuildConstantBlock(t, block, value)
    \/ \E t \in Targets, v \in Vars : RemoveCell(t, v) \/ \E x \in Values : UpdateCell(t, v, x)

Spec == Init /\ [][Next]_vars

-----------------------------------------------------------------------------
(***************************************************************************)
(* The inductive invariant behind the contract (proved in                  *)
(* StoreProtoProofs): the run lies in the arrays and has a variable once,  *)
(* and nothing is stored before the one block of the one target.           *)
(***************************************************************************)
RunInv ==
    /\ packed \in Seq([var : Vars, value : Int])
    /\ start \in Nat \ {0} /\ len \in Nat
    /\ Run \subseteq 1..Len(packed)
    /\ \A i, j \in Run : packed[i].var = packed[j].var => i = j

IInv ==
    /\ RunInv
    /\ dead \subseteq 1..Len(packed)
    /\ built \subseteq Targets
    /\ built = {} => packed = <<>>

\* What a caller of for_cell sees, for module CoeffStore.  With one target the
\* store is one: positions serve as identities because none is ever reused.
Cells  == [k \in {k \in Targets \X Vars : ForCell(k[1], k[2]) # NoCell} |-> ForCell(k[1], k[2])]
Minted == Len(packed)
=============================================================================
