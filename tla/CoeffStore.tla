----------------------------- MODULE CoeffStore -----------------------------
(***************************************************************************)
(* What a coefficient store promises: at most one cell per (target, var),  *)
(* each with an identity that its updates keep, that no other cell ever    *)
(* had, and that a cell added again after its removal does not get back.   *)
(* The three kernels of rust-store-proto implement it.                     *)
(***************************************************************************)
EXTENDS Integers, FiniteSets

CONSTANTS Targets, Vars, Values

VARIABLES cells,   \* a partial function from Targets \X Vars to [id, value]
          minted   \* identities 1..minted have been handed out

vars == <<cells, minted>>

Keys == Targets \X Vars
Live == DOMAIN cells

Init == minted = 0 /\ cells = [k \in {} |-> 0]

\* the cells of ks may change, all others stay, and the live ones are then live
Become(live, ks) ==
    LET next == cells'
    IN  /\ DOMAIN next = live
        /\ \A k \in Live \ ks : next[k] = cells[k]

\* new cells of one target, none of which it has, under the next identities
AddBlock(t, block) ==
    LET new  == {t} \X block
        next == cells'
    IN  /\ new \cap Live = {}
        /\ minted' = minted + Cardinality(block)
        /\ Become(Live \union new, {})
        /\ \A k \in new : next[k].value \in Values
        /\ {next[k].id : k \in new} = (minted + 1)..minted'

\* a cell's value is replaced, or the cell is added with a new identity
Put(k) ==
    LET fresh == k \notin Live
        next  == cells'
    IN  /\ minted' = IF fresh THEN minted + 1 ELSE minted
        /\ Become(Live \union {k}, {k})
        /\ next[k].value \in Values
        /\ next[k].id = IF fresh THEN minted' ELSE cells[k].id

Remove(k) ==
    /\ k \in Live
    /\ UNCHANGED minted
    /\ Become(Live \ {k}, {k})

Next ==
    \/ \E k \in Keys : Put(k) \/ Remove(k)
    \/ \E t \in Targets, block \in SUBSET Vars : AddBlock(t, block)

Spec == Init /\ [][Next]_vars
=============================================================================
