-------------------------- MODULE CoefficientIndex --------------------------
(***************************************************************************)
(* Kernel A (rust-store-proto/src/kernel_a): an IdArena of coefficients    *)
(* under four secondary indexes (by variable, by target, by parameter, by  *)
(* cell), each maintained by hand in every operation.                      *)
(*                                                                         *)
(* Slots count from 1.  by_constraint and by_objective are one map from    *)
(* targets, and a map to sets is total: the code drops a key whose set is  *)
(* empty, and reads a missing key as the empty set.  An expression is its  *)
(* cached value and the set of parameters it depends on.                   *)
(* get_mut and iter_mut, which lend out the data itself, are left out:     *)
(* nothing in the repository calls them.                                   *)
(***************************************************************************)
EXTENDS Integers, FiniteSets, Sequences

CONSTANTS Targets,
          Vars,       \* natural numbers
          Params,
          MaxValue,   \* bound on the sums add() makes of cached values
          MaxIds      \* bound on the slots allocated

NoData == [var |-> -1]    \* Option::None in a slot
NoCell == [id |-> 0, value |-> 0]   \* Option::None of a lookup

VARIABLES
    slots,     \* the arena's slots: [generation, data]
    count,     \* its count of occupied slots
    byVar,     \* by_var
    byTarget,  \* by_constraint and by_objective
    byParam,   \* by_param
    byCell     \* by_cell: a partial function from keys to ids

vars == <<slots, count, byVar, byTarget, byParam, byCell>>

Keys == Targets \X Vars

Init ==
    /\ slots = <<>>
    /\ count = 0
    /\ byVar = [v \in Vars |-> {}]
    /\ byTarget = [t \in Targets |-> {}]
    /\ byParam = [p \in Params |-> {}]
    /\ byCell = [k \in {} |-> 0]

-----------------------------------------------------------------------------
(***************************************************************************)
(* The arena.                                                              *)
(***************************************************************************)
Id(index) == [index |-> index, generation |-> 0]

\* every id handed out: a slot is allocated once, at the first generation
Handles == {Id(i) : i \in 1..Len(slots)}

\* get: a generation that does not match is stale
Get(id) == IF slots[id.index].generation = id.generation THEN slots[id.index].data ELSE NoData

Valid(id) == Get(id) # NoData

\* allocate pushes a slot at the end
Occupied(data) == [generation |-> 0, data |-> data]
NextId == Id(Len(slots) + 1)

\* remove takes the data and bumps the generation
Vacated(slot) == [generation |-> slot.generation + 1, data |-> NoData]

\* for_cell, and get of the id it answers
ForCell(t, v) ==
    IF <<t, v>> \in DOMAIN byCell
      THEN [id |-> byCell[<<t, v>>].index, value |-> Get(byCell[<<t, v>>]).value]
      ELSE NoCell

Data(t, v, x, deps) == [var |-> v, target |-> t, value |-> x, deps |-> deps]

-----------------------------------------------------------------------------
(***************************************************************************)
(* The operations.                                                         *)
(***************************************************************************)

\* Fault: dependencies of the old expression are not dropped.
RedependAddOnly(id, old, new) ==
    [p \in Params |-> IF p \in new THEN byParam[p] \union {id} ELSE byParam[p]]

\* the parameter index after id's dependencies went from old to new
Redepend(id, old, new) ==
    [p \in Params |-> IF p \in new THEN byParam[p] \union {id}
                      ELSE IF p \in old THEN byParam[p] \ {id} ELSE byParam[p]]

\* add() to a cell that exists: expressions are summed, the id is kept
AddCombine(t, v, x, deps) ==
    /\ <<t, v>> \in DOMAIN byCell
    /\ Valid(byCell[<<t, v>>])
    /\ LET id  == byCell[<<t, v>>]
           old == Get(id)
       IN  /\ old.value + x <= MaxValue
           /\ slots' = [slots EXCEPT ![id.index].data =
                           Data(t, v, old.value + x, old.deps \union deps)]
           /\ byParam' = Redepend(id, old.deps, old.deps \union deps)
    /\ UNCHANGED <<count, byVar, byTarget, byCell>>

\* Fault: a vacated slot is used again, at the first generation.
AddNewReusing(t, v, x, deps) ==
    /\ <<t, v>> \in DOMAIN byCell => ~ Valid(byCell[<<t, v>>])
    /\ \E i \in 1..Len(slots) :
          /\ slots[i].data = NoData
          /\ slots' = [slots EXCEPT ![i] = Occupied(Data(t, v, x, deps))]
          /\ byVar' = [byVar EXCEPT ![v] = @ \union {Id(i)}]
          /\ byTarget' = [byTarget EXCEPT ![t] = @ \union {Id(i)}]
          /\ byParam' = Redepend(Id(i), {}, deps)
          /\ byCell' = [k \in DOMAIN byCell \union {<<t, v>>} |->
                           IF k = <<t, v>> THEN Id(i) ELSE byCell[k]]
    /\ count' = count + 1

\* add() of a new cell: allocated, and entered into every index
AddNew(t, v, x, deps) ==
    /\ <<t, v>> \in DOMAIN byCell => ~ Valid(byCell[<<t, v>>])
    /\ Len(slots) < MaxIds
    /\ slots' = Append(slots, Occupied(Data(t, v, x, deps)))
    /\ count' = count + 1
    /\ byVar' = [byVar EXCEPT ![v] = @ \union {NextId}]
    /\ byTarget' = [byTarget EXCEPT ![t] = @ \union {NextId}]
    /\ byParam' = Redepend(NextId, {}, deps)
    /\ byCell' = [k \in DOMAIN byCell \union {<<t, v>>} |->
                     IF k = <<t, v>> THEN NextId ELSE byCell[k]]

\* add_constant_unique_block, under its caller contract: distinct variables
\* whose cells are empty, here a sequence without repetitions.
AddConstantUniqueBlock(t, block, value) ==
    LET n == Len(block)
        id(v) == Id(Len(slots) + CHOOSE k \in 1..n : block[k] = v)
        new == {block[k] : k \in 1..n}
    IN  /\ \A v \in new : <<t, v>> \notin DOMAIN byCell
        /\ Len(slots) + n <= MaxIds
        /\ slots' = slots \o [k \in 1..n |-> Occupied(Data(t, block[k], value[k], {}))]
        /\ count' = count + n
        /\ byVar' = [v \in Vars |-> IF v \in new THEN byVar[v] \union {id(v)} ELSE byVar[v]]
        /\ byTarget' = [byTarget EXCEPT ![t] = @ \union {id(v) : v \in new}]
        /\ byCell' = [k \in DOMAIN byCell \union ({t} \X new) |->
                         IF k \in {t} \X new THEN id(k[2]) ELSE byCell[k]]
        /\ UNCHANGED byParam

\* Fault: the expression and its dependencies are replaced, the cached value is not.
SetExprUncached(id, x, deps) ==
    /\ Valid(id)
    /\ slots' = [slots EXCEPT ![id.index].data.deps = deps]
    /\ byParam' = Redepend(id, Get(id).deps, deps)
    /\ UNCHANGED <<count, byVar, byTarget, byCell>>

\* set_expr(id, ...): a stale id changes nothing
SetExpr(id, x, deps) ==
    /\ Valid(id)
    /\ slots' = [slots EXCEPT ![id.index].data.value = x, ![id.index].data.deps = deps]
    /\ byParam' = Redepend(id, Get(id).deps, deps)
    /\ UNCHANGED <<count, byVar, byTarget, byCell>>

\* remove(id): out of every index; a stale id changes nothing
Remove(id) ==
    /\ Valid(id)
    /\ LET data == Get(id)
       IN  /\ byCell' = [k \in DOMAIN byCell \ {<<data.target, data.var>>} |-> byCell[k]]
           /\ byVar' = [byVar EXCEPT ![data.var] = @ \ {id}]
           /\ byTarget' = [byTarget EXCEPT ![data.target] = @ \ {id}]
           /\ byParam' = Redepend(id, data.deps, {})
    /\ slots' = [slots EXCEPT ![id.index] = Vacated(@)]
    /\ count' = count - 1

\* a call with a stale id: the arena answers None
Stale(id) == ~ Valid(id) /\ UNCHANGED vars

\* every slot of the bound is allocated
Exhausted == Len(slots) = MaxIds /\ UNCHANGED vars

Blocks(V) == {s \in UNION {[1..n -> V] : n \in 1..Cardinality(V)} :
                 \A i, j \in DOMAIN s : i # j => s[i] # s[j]}

\* any call, about variables of V and with values of X
Calls(V, X) ==
    \/ \E t \in Targets, v \in V, x \in X, deps \in SUBSET Params :
          AddCombine(t, v, x, deps) \/ AddNew(t, v, x, deps)
    \/ \E t \in Targets, block \in Blocks(V) : \E value \in [DOMAIN block -> X] :
          AddConstantUniqueBlock(t, block, value)
    \/ \E id \in Handles :
          \/ \E x \in X, deps \in SUBSET Params : SetExpr(id, x, deps)
          \/ Remove(id)
          \/ Stale(id)
    \/ Exhausted

Next == Calls(Vars, 0..MaxValue)

Spec == Init /\ [][Next]_vars

-----------------------------------------------------------------------------
(***************************************************************************)
(* Properties.                                                             *)
(***************************************************************************)
Live == {id \in Handles : Valid(id)}

\* The four indexes and the arena say the same after every operation: each
\* index lists exactly the live ids with its key, in particular none that is
\* stale and, for a parameter, none whose expression no longer depends on it.
\* len(), which counts arena slots, is the number of cells: "exactly one
\* CoeffId per (target, variable) pair".
IndexesAgree ==
    /\ \A v \in Vars : byVar[v] = {id \in Live : Get(id).var = v}
    /\ \A t \in Targets : byTarget[t] = {id \in Live : Get(id).target = t}
    /\ \A p \in Params : byParam[p] = {id \in Live : p \in Get(id).deps}
    /\ DOMAIN byCell = {<<Get(id).target, Get(id).var>> : id \in Live}
    /\ \A k \in DOMAIN byCell : byCell[k] \in Live /\ <<Get(byCell[k]).target, Get(byCell[k]).var>> = k
    /\ count = Cardinality(DOMAIN byCell)

\* "Never reuses indices": an id that went stale never resolves again.
StaleForGood == [][\A id \in Handles : ~ Valid(id) => ~ Valid(id)']_vars

(***************************************************************************)
(* The inductive invariant behind both (proved in CoefficientIndexProofs), *)
(* slot by slot.  Variables are numbered, as VariableId is, and a model    *)
(* has finitely many.                                                      *)
(***************************************************************************)
IndexAssumption == Vars \subseteq Nat /\ IsFiniteSet(Vars) /\ MaxValue \in Nat

Entries == [var : Vars, target : Targets, value : Int, deps : SUBSET Params]

\* the slot's id still resolves
Occ(i) == slots[i].generation = 0

\* A slot has data exactly while its generation is the one handed out.
ArenaInv ==
    /\ slots \in Seq([generation : {0, 1}, data : Entries \union {NoData}])
    /\ \A i \in 1..Len(slots) : Occ(i) <=> slots[i].data \in Entries

\* The three lists of ids hold a slot's id exactly under the keys of its data.
ListInv ==
    /\ byVar \in [Vars -> SUBSET Handles]
    /\ byTarget \in [Targets -> SUBSET Handles]
    /\ byParam \in [Params -> SUBSET Handles]
    /\ \A i \in 1..Len(slots) :
          /\ \A v \in Vars : Id(i) \in byVar[v] <=> Occ(i) /\ slots[i].data.var = v
          /\ \A t \in Targets : Id(i) \in byTarget[t] <=> Occ(i) /\ slots[i].data.target = t
          /\ \A p \in Params : Id(i) \in byParam[p] <=> Occ(i) /\ p \in slots[i].data.deps

Cell(i) == <<slots[i].data.target, slots[i].data.var>>

\* The cell map is a bijection between the cells and the occupied slots.
CellInv ==
    /\ DOMAIN byCell \subseteq Keys
    /\ \A k \in DOMAIN byCell :
          \E i \in 1..Len(slots) : Occ(i) /\ Cell(i) = k /\ byCell[k] = Id(i)
    /\ \A i \in 1..Len(slots) : Occ(i) => Cell(i) \in DOMAIN byCell /\ byCell[Cell(i)] = Id(i)

CountInv == IsFiniteSet(DOMAIN byCell) /\ count = Cardinality(DOMAIN byCell)

IInv == ArenaInv /\ ListInv /\ CellInv /\ CountInv

\* What a caller of for_cell sees, for module CoeffStore.
Cells  == [k \in DOMAIN byCell |-> ForCell(k[1], k[2])]
Minted == Len(slots)
=============================================================================
