----------------------- MODULE CoefficientIndexProofs -----------------------
(***************************************************************************)
(* Proofs about CoefficientIndex for every set of targets, parameters and  *)
(* values, every finite set of variables and any number of slots: the four *)
(* indexes always say what the arena says, and an id that went stale never *)
(* resolves again.  IInv says both slot by slot, and that the cell map is  *)
(* a bijection onto the occupied slots, so that counting slots is counting *)
(* cells.                                                                  *)
(***************************************************************************)
EXTENDS CoefficientIndex, FiniteSetTheorems, SequenceTheorems, TLAPS

Slots == [generation : {0, 1}, data : Entries \union {NoData}]

-----------------------------------------------------------------------------
(***************************************************************************)
(* The arena.                                                              *)
(***************************************************************************)

\* Ids of different slots are different.
LEMMA IdInjective == \A i, j : Id(i) = Id(j) => i = j
  BY DEF Id

\* An empty slot's data is no entry: variables are natural numbers.
LEMMA NoDataIsNoEntry ==
    ASSUME IndexAssumption
    PROVE  NoData \notin Entries
  <1> SUFFICES ASSUME NoData \in Entries PROVE FALSE
    OBVIOUS
  <1>1. NoData.var \in Nat
    BY DEF Entries, IndexAssumption
  <1>2. NoData.var = -1
    BY DEF NoData
  <1> QED
    BY <1>1, <1>2

\* What an id resolves to.
LEMMA GetOfId ==
    ASSUME IndexAssumption, ArenaInv, NEW i \in 1..Len(slots)
    PROVE  /\ Valid(Id(i)) <=> Occ(i)
           /\ Occ(i) => Get(Id(i)) = slots[i].data
  <1>1. slots[i] \in Slots
    BY ElementOfSeq DEF ArenaInv, Slots
  <1>2. Id(i).index = i /\ Id(i).generation = 0
    BY DEF Id
  <1>3. Get(Id(i)) = IF Occ(i) THEN slots[i].data ELSE NoData
    BY <1>2 DEF Get, Occ
  <1>4. Occ(i) => slots[i].data # NoData
    BY NoDataIsNoEntry DEF ArenaInv
  <1> QED
    BY <1>3, <1>4 DEF Valid

\* Changing one slot.
LEMMA SlotUpdate ==
    ASSUME NEW s \in Seq(Slots), NEW i \in 1..Len(s), NEW slot \in Slots
    PROVE  /\ [s EXCEPT ![i] = slot] \in Seq(Slots)
           /\ Len([s EXCEPT ![i] = slot]) = Len(s)
           /\ \A j \in 1..Len(s) : [s EXCEPT ![i] = slot][j] = IF j = i THEN slot ELSE s[j]
  BY ExceptSeq

\* The slots after appending some.
LEMMA AppendedSlots ==
    ASSUME NEW s \in Seq(Slots), NEW m \in Nat, NEW tail \in [1..m -> Slots]
    PROVE  /\ s \o tail \in Seq(Slots) /\ Len(s \o tail) = Len(s) + m
           /\ \A j \in 1..Len(s) : (s \o tail)[j] = s[j]
           /\ \A k \in 1..m : (s \o tail)[Len(s) + k] = tail[k]
  <1>0. PICK L \in Nat : L = Len(s)
    BY LenProperties
  <1>1. tail \in Seq(Slots) /\ Len(tail) = m
    BY SeqDef, LenProperties
  <1>2. /\ s \o tail \in Seq(Slots) /\ Len(s \o tail) = L + m
        /\ \A i \in 1..(L + m) : (s \o tail)[i] = IF i <= L THEN s[i] ELSE tail[i - L]
    BY <1>0, <1>1, ConcatProperties
  <1>3. \A k \in 1..m : (L + k) \in 1..(L + m) /\ ~ (L + k <= L) /\ (L + k) - L = k
    OBVIOUS
  <1>4. \A k \in 1..m : (s \o tail)[L + k] = tail[k]
    BY <1>2, <1>3
  <1>5. \A j \in 1..L : j \in 1..(L + m) /\ j <= L
    OBVIOUS
  <1>6. \A j \in 1..L : (s \o tail)[j] = s[j]
    BY <1>2, <1>5
  <1> QED
    BY <1>0, <1>2, <1>4, <1>6

\* The data built by the operations.
LEMMA DataEntry ==
    ASSUME NEW t \in Targets, NEW v \in Vars, NEW x \in Int, NEW deps \in SUBSET Params
    PROVE  /\ Data(t, v, x, deps) \in Entries
           /\ Data(t, v, x, deps).var = v /\ Data(t, v, x, deps).target = t
           /\ Data(t, v, x, deps).deps = deps
           /\ Occupied(Data(t, v, x, deps)) \in Slots
           /\ Occupied(Data(t, v, x, deps)).generation = 0
           /\ Occupied(Data(t, v, x, deps)).data = Data(t, v, x, deps)
  BY DEF Data, Entries, Occupied, Slots

-----------------------------------------------------------------------------
\* The empty store.
LEMMA InitIInv == Init => IInv
  <1> SUFFICES ASSUME Init PROVE IInv
    OBVIOUS
  <1>1. Len(slots) = 0 /\ slots = <<>>
    BY DEF Init
  <1>2. ArenaInv
    BY <1>1, EmptySeq DEF ArenaInv
  <1>3. ListInv
    BY <1>1 DEF Init, ListInv
  <1>4. DOMAIN byCell = {}
    BY DEF Init
  <1>5. CellInv
    BY <1>1, <1>4 DEF CellInv
  <1>6. CountInv
    BY <1>4, FS_EmptySet DEF Init, CountInv
  <1> QED
    BY <1>2, <1>3, <1>5, <1>6 DEF IInv

\* A cell keeps its slot and gets another expression: only the parameter lists
\* have anything to follow.
LEMMA Rewrite ==
    ASSUME IInv, NEW i \in 1..Len(slots), Occ(i),
           NEW slot \in Slots, slot.generation = 0, slot.data \in Entries,
           slot.data.var = slots[i].data.var, slot.data.target = slots[i].data.target,
           slots' = [slots EXCEPT ![i] = slot],
           byParam' = Redepend(Id(i), slots[i].data.deps, slot.data.deps),
           UNCHANGED <<count, byVar, byTarget, byCell>>
    PROVE  IInv'
  <1> USE DEF IInv
  <1>1. /\ slots' \in Seq(Slots) /\ Len(slots') = Len(slots)
        /\ \A j \in 1..Len(slots) : slots'[j] = IF j = i THEN slot ELSE slots[j]
    BY SlotUpdate DEF ArenaInv, Slots
  <1>2. ArenaInv'
    BY <1>1 DEF ArenaInv, Occ, Slots
  <1>3. Handles' = Handles
    BY <1>1 DEF Handles
  <1>4. \A j \in 1..Len(slots) : /\ Occ(j)' <=> Occ(j)
                                 /\ slots'[j].data.var = slots[j].data.var
                                 /\ slots'[j].data.target = slots[j].data.target
                                 /\ j # i => slots'[j].data.deps = slots[j].data.deps
    BY <1>1 DEF Occ
  <1>5. ListInv'
    <2>1. byParam' \in [Params -> SUBSET Handles]
      BY DEF ListInv, Redepend, Handles
    <2>2. ASSUME NEW j \in 1..Len(slots), NEW p \in Params
          PROVE  Id(j) \in byParam'[p] <=> Occ(j)' /\ p \in slots'[j].data.deps
      <3>1. byParam'[p] = IF p \in slot.data.deps THEN byParam[p] \union {Id(i)}
                          ELSE IF p \in slots[i].data.deps THEN byParam[p] \ {Id(i)} ELSE byParam[p]
        BY DEF Redepend
      <3>2. Id(j) \in byParam[p] <=> Occ(j) /\ p \in slots[j].data.deps
        BY DEF ListInv
      <3>3. CASE j = i
        BY <1>1, <3>1, <3>2, <3>3 DEF Occ
      <3>4. CASE j # i
        BY <1>4, <3>1, <3>2, <3>4, IdInjective
      <3> QED
        BY <3>3, <3>4
    <2> QED
      BY <1>1, <1>3, <1>4, <2>1, <2>2 DEF ListInv
  <1>6. CellInv'
    <2>1. \A j \in 1..Len(slots) : Cell(j)' = Cell(j)
      BY <1>4 DEF Cell
    <2> QED
      BY <1>1, <1>4, <2>1 DEF CellInv
  <1>7. CountInv'
    BY DEF CountInv
  <1> QED
    BY <1>2, <1>5, <1>6, <1>7

\* add() to a cell that exists.
LEMMA AddCombineStep ==
    ASSUME IInv, IndexAssumption,
           NEW t \in Targets, NEW v \in Vars, NEW x \in Int, NEW deps \in SUBSET Params,
           AddCombine(t, v, x, deps)
    PROVE  IInv'
  <1>1. PICK i \in 1..Len(slots) : Occ(i) /\ Cell(i) = <<t, v>> /\ byCell[<<t, v>>] = Id(i)
    BY DEF AddCombine, IInv, CellInv
  <1> DEFINE old == slots[i].data
             new == Data(t, v, old.value + x, old.deps \union deps)
             slot == [slots[i] EXCEPT !.data = new]
  <1>2. Get(Id(i)) = old /\ Id(i).index = i
    BY <1>1, GetOfId DEF IInv, Id
  <1>3. slots[i] \in Slots /\ slots[i].generation = 0 /\ old \in Entries
    BY <1>1, ElementOfSeq DEF IInv, ArenaInv, Occ, Slots
  <1>4. old.target = t /\ old.var = v /\ old.value \in Int /\ old.deps \in SUBSET Params
    BY <1>1, <1>3 DEF Cell, Entries
  <1>5. new \in Entries /\ new.var = v /\ new.target = t /\ new.deps = old.deps \union deps
    <2>1. old.value + x \in Int /\ old.deps \union deps \in SUBSET Params
      BY <1>4
    <2> QED
      BY <2>1, DataEntry
  <1>6. slot \in Slots /\ slot.generation = 0 /\ slot.data = new
    BY <1>3, <1>5 DEF Slots
  <1>7. /\ slots' = [slots EXCEPT ![i] = slot]
        /\ byParam' = Redepend(Id(i), old.deps, old.deps \union deps)
        /\ UNCHANGED <<count, byVar, byTarget, byCell>>
    BY <1>1, <1>2 DEF AddCombine
  <1> HIDE DEF old, new, slot
  <1> QED
    BY <1>1, <1>4, <1>5, <1>6, <1>7, Rewrite DEF old

\* set_expr of an id that resolves.
LEMMA SetExprStep ==
    ASSUME IInv, IndexAssumption,
           NEW id \in Handles, NEW x \in Int, NEW deps \in SUBSET Params,
           SetExpr(id, x, deps)
    PROVE  IInv'
  <1>1. PICK i \in 1..Len(slots) : id = Id(i)
    BY DEF Handles
  <1> DEFINE old == slots[i].data
             new == [old EXCEPT !.value = x, !.deps = deps]
             slot == [slots[i] EXCEPT !.data = new]
  <1>2. Occ(i) /\ Get(Id(i)) = old /\ Id(i).index = i
    BY <1>1, GetOfId DEF IInv, SetExpr, Id
  <1>3. slots[i] \in Slots /\ slots[i].generation = 0 /\ old \in Entries
    BY <1>2, ElementOfSeq DEF IInv, ArenaInv, Occ, Slots
  <1>4. new \in Entries /\ new.var = old.var /\ new.target = old.target /\ new.deps = deps
    BY <1>3 DEF Entries
  <1>5. slot \in Slots /\ slot.generation = 0 /\ slot.data = new
    BY <1>3, <1>4 DEF Slots
  <1>6. /\ slots' = [slots EXCEPT ![i] = slot]
        /\ byParam' = Redepend(Id(i), old.deps, deps)
        /\ UNCHANGED <<count, byVar, byTarget, byCell>>
    BY <1>1, <1>2 DEF SetExpr
  <1> HIDE DEF new, slot
  <1> QED
    BY <1>2, <1>4, <1>5, <1>6, Rewrite

-----------------------------------------------------------------------------
\* add() of a new cell: the new slot is the last, and no list has its id yet.
LEMMA AddNewStep ==
    ASSUME IInv, IndexAssumption,
           NEW t \in Targets, NEW v \in Vars, NEW x \in Int, NEW deps \in SUBSET Params,
           AddNew(t, v, x, deps)
    PROVE  IInv'
  <1> USE DEF IInv
  <1>0. PICK n \in Nat : n = Len(slots) + 1
    BY LenProperties DEF ArenaInv
  <1> DEFINE d == Data(t, v, x, deps)
  <1>1. n \notin 1..Len(slots) /\ NextId = Id(n) /\ slots \in Seq(Slots)
    BY <1>0, LenProperties DEF ArenaInv, Slots, NextId
  <1>2. /\ slots' \in Seq(Slots) /\ Len(slots') = n
        /\ \A j \in 1..Len(slots) : slots'[j] = slots[j]
        /\ slots'[n].generation = 0 /\ slots'[n].data = d
    BY <1>0, <1>1, DataEntry, AppendProperties DEF AddNew
  <1>3. d \in Entries /\ d.var = v /\ d.target = t /\ d.deps = deps
    BY DataEntry
  <1> HIDE DEF d
  <1>4. 1..Len(slots') = 1..Len(slots) \union {n}
    BY <1>0, <1>2, LenProperties DEF ArenaInv
  <1>5. Occ(n)' /\ \A j \in 1..Len(slots) : Occ(j)' <=> Occ(j)
    BY <1>2 DEF Occ
  <1>6. ArenaInv'
    <2>1. \A j \in 1..Len(slots') : Occ(j)' <=> slots'[j].data \in Entries
      BY <1>2, <1>3, <1>4, <1>5 DEF ArenaInv
    <2> QED
      BY <1>2, <2>1 DEF ArenaInv, Slots
  <1>7. Handles' = Handles \union {Id(n)} /\ Id(n) \notin Handles
    BY <1>1, <1>2, <1>4, IdInjective DEF Handles
  <1>8. <<t, v>> \notin DOMAIN byCell
    <2> SUFFICES ASSUME <<t, v>> \in DOMAIN byCell PROVE FALSE
      OBVIOUS
    <2>1. PICK i \in 1..Len(slots) : Occ(i) /\ byCell[<<t, v>>] = Id(i)
      BY DEF CellInv
    <2> QED
      BY <2>1, GetOfId DEF AddNew
  <1>9. /\ byVar' = [byVar EXCEPT ![v] = @ \union {Id(n)}]
        /\ byTarget' = [byTarget EXCEPT ![t] = @ \union {Id(n)}]
        /\ byParam' = [p \in Params |-> IF p \in deps THEN byParam[p] \union {Id(n)} ELSE byParam[p]]
        /\ byCell' = [k \in DOMAIN byCell \union {<<t, v>>} |-> IF k = <<t, v>> THEN Id(n) ELSE byCell[k]]
        /\ count' = count + 1
    BY <1>1 DEF AddNew, Redepend
  <1>10. ListInv'
    <2>1. /\ byVar' \in [Vars -> SUBSET Handles']
          /\ byTarget' \in [Targets -> SUBSET Handles']
          /\ byParam' \in [Params -> SUBSET Handles']
      BY <1>7, <1>9 DEF ListInv
    <2> /\ byVar \in [Vars -> SUBSET Handles]
        /\ byTarget \in [Targets -> SUBSET Handles]
      BY DEF ListInv
    <2>2. \A u \in Vars : byVar'[u] = IF u = v THEN byVar[u] \union {Id(n)} ELSE byVar[u]
      BY <1>9
    <2>3. \A u \in Targets : byTarget'[u] = IF u = t THEN byTarget[u] \union {Id(n)} ELSE byTarget[u]
      BY <1>9
    <2>4. \A u \in Params : byParam'[u] = IF u \in deps THEN byParam[u] \union {Id(n)} ELSE byParam[u]
      BY <1>9
    <2>5. /\ \A u \in Vars : Id(n) \notin byVar[u]
          /\ \A u \in Targets : Id(n) \notin byTarget[u]
          /\ \A u \in Params : Id(n) \notin byParam[u]
      BY <1>7 DEF ListInv
    <2>6. ASSUME NEW j \in 1..Len(slots)
          PROVE  /\ \A u \in Vars : Id(j) \in byVar'[u] <=> Occ(j)' /\ slots'[j].data.var = u
                 /\ \A u \in Targets : Id(j) \in byTarget'[u] <=> Occ(j)' /\ slots'[j].data.target = u
                 /\ \A p \in Params : Id(j) \in byParam'[p] <=> Occ(j)' /\ p \in slots'[j].data.deps
      <3>1. Id(j) # Id(n)
        BY <1>1, IdInjective
      <3> QED
        BY <1>2, <1>5, <1>9, <2>2, <2>3, <3>1 DEF ListInv
    <2>7. /\ \A u \in Vars : Id(n) \in byVar'[u] <=> Occ(n)' /\ slots'[n].data.var = u
          /\ \A u \in Targets : Id(n) \in byTarget'[u] <=> Occ(n)' /\ slots'[n].data.target = u
          /\ \A p \in Params : Id(n) \in byParam'[p] <=> Occ(n)' /\ p \in slots'[n].data.deps
      <3>1. \A u \in Vars : Id(n) \in byVar'[u] <=> Occ(n)' /\ slots'[n].data.var = u
        BY <1>2, <1>3, <1>5, <2>2, <2>5
      <3>2. \A u \in Targets : Id(n) \in byTarget'[u] <=> Occ(n)' /\ slots'[n].data.target = u
        BY <1>2, <1>3, <1>5, <2>3, <2>5
      <3>3. \A p \in Params : Id(n) \in byParam'[p] <=> Occ(n)' /\ p \in slots'[n].data.deps
        BY <1>2, <1>3, <1>5, <2>4, <2>5
      <3> QED
        BY <3>1, <3>2, <3>3
    <2> QED
      BY <1>4, <2>1, <2>6, <2>7 DEF ListInv
  <1>11. CellInv'
    <2>1. DOMAIN byCell' = DOMAIN byCell \union {<<t, v>>}
      BY <1>9
    <2>2. Cell(n)' = <<t, v>> /\ \A j \in 1..Len(slots) : Cell(j)' = Cell(j)
      BY <1>2, <1>3 DEF Cell
    <2>3. byCell'[<<t, v>>] = Id(n) /\ \A k \in DOMAIN byCell : byCell'[k] = byCell[k]
      BY <1>8, <1>9
    <2>4. DOMAIN byCell' \subseteq Keys
      BY <2>1 DEF CellInv, Keys
    <2>5. \A k \in DOMAIN byCell' :
             \E i \in 1..Len(slots') : Occ(i)' /\ Cell(i)' = k /\ byCell'[k] = Id(i)
      BY <1>4, <1>5, <2>1, <2>2, <2>3 DEF CellInv
    <2>6. \A i \in 1..Len(slots') : Occ(i)' => Cell(i)' \in DOMAIN byCell' /\ byCell'[Cell(i)'] = Id(i)
      BY <1>4, <1>5, <2>1, <2>2, <2>3 DEF CellInv
    <2> QED
      BY <2>4, <2>5, <2>6 DEF CellInv
  <1>12. CountInv'
    <2>1. DOMAIN byCell' = DOMAIN byCell \union {<<t, v>>}
      BY <1>9
    <2> QED
      BY <1>8, <1>9, <2>1, FS_AddElement DEF CountInv
  <1> QED
    BY <1>6, <1>10, <1>11, <1>12

\* remove(): the cell goes with its slot, out of every list.
LEMMA RemoveStep ==
    ASSUME IInv, IndexAssumption, NEW id \in Handles, Remove(id)
    PROVE  IInv'
  <1> USE DEF IInv
  <1>1. PICK i \in 1..Len(slots) : id = Id(i)
    BY DEF Handles
  <1> DEFINE d == slots[i].data
             gone == Vacated(slots[i])
  <1>2. Occ(i) /\ Get(id) = d /\ id.index = i
    BY <1>1, GetOfId DEF Remove, Id
  <1>3. slots[i] \in Slots /\ slots[i].generation = 0 /\ d \in Entries
    BY <1>2, ElementOfSeq DEF ArenaInv, Occ, Slots
  <1>4. d.var \in Vars /\ d.target \in Targets /\ d.deps \in SUBSET Params
    BY <1>3 DEF Entries
  <1>5. gone \in Slots /\ gone.generation = 1 /\ gone.data = NoData
    BY <1>3 DEF Vacated, Slots
  <1>6. slots' = [slots EXCEPT ![i] = gone]
    BY <1>2 DEF Remove
  <1>7. /\ byCell' = [k \in DOMAIN byCell \ {<<d.target, d.var>>} |-> byCell[k]]
        /\ byVar' = [byVar EXCEPT ![d.var] = @ \ {Id(i)}]
        /\ byTarget' = [byTarget EXCEPT ![d.target] = @ \ {Id(i)}]
        /\ byParam' = [p \in Params |-> IF p \in d.deps THEN byParam[p] \ {Id(i)} ELSE byParam[p]]
        /\ count' = count - 1
    BY <1>1, <1>2 DEF Remove, Redepend
  <1> HIDE DEF gone
  <1>8. /\ slots' \in Seq(Slots) /\ Len(slots') = Len(slots)
        /\ \A j \in 1..Len(slots) : slots'[j] = IF j = i THEN gone ELSE slots[j]
    BY <1>5, <1>6, SlotUpdate DEF ArenaInv, Slots
  <1>9. ~ Occ(i)' /\ \A j \in 1..Len(slots) : j # i => (Occ(j)' <=> Occ(j)) /\ slots'[j] = slots[j]
    BY <1>5, <1>8 DEF Occ
  <1>10. ArenaInv'
    <2>1. \A j \in 1..Len(slots) : Occ(j)' <=> slots'[j].data \in Entries
      BY <1>5, <1>8, <1>9, NoDataIsNoEntry DEF ArenaInv
    <2> QED
      BY <1>8, <2>1 DEF ArenaInv, Slots
  <1>11. Handles' = Handles
    BY <1>8 DEF Handles
  <1>12. ListInv'
    <2>1. /\ byVar' \in [Vars -> SUBSET Handles]
          /\ byTarget' \in [Targets -> SUBSET Handles]
          /\ byParam' \in [Params -> SUBSET Handles]
      BY <1>7 DEF ListInv
    <2>2. \A u \in Vars : byVar'[u] = IF u = d.var THEN byVar[u] \ {Id(i)} ELSE byVar[u]
      BY <1>7 DEF ListInv
    <2>3. \A u \in Targets : byTarget'[u] = IF u = d.target THEN byTarget[u] \ {Id(i)} ELSE byTarget[u]
      BY <1>7 DEF ListInv
    <2>4. ASSUME NEW j \in 1..Len(slots), j # i
          PROVE  /\ \A u \in Vars : Id(j) \in byVar'[u] <=> Occ(j)' /\ slots'[j].data.var = u
                 /\ \A u \in Targets : Id(j) \in byTarget'[u] <=> Occ(j)' /\ slots'[j].data.target = u
                 /\ \A p \in Params : Id(j) \in byParam'[p] <=> Occ(j)' /\ p \in slots'[j].data.deps
      <3>1. Id(j) # Id(i)
        BY <2>4, IdInjective
      <3> QED
        BY <1>7, <1>9, <2>2, <2>3, <2>4, <3>1 DEF ListInv
    <2>5. /\ \A u \in Vars : Id(i) \notin byVar'[u]
          /\ \A u \in Targets : Id(i) \notin byTarget'[u]
          /\ \A p \in Params : Id(i) \notin byParam'[p]
      BY <1>7, <2>2, <2>3 DEF ListInv
    <2> QED
      BY <1>8, <1>9, <1>11, <2>1, <2>4, <2>5 DEF ListInv
  <1>13. Cell(i) = <<d.target, d.var>> /\ Cell(i) \in DOMAIN byCell /\ byCell[Cell(i)] = Id(i)
    BY <1>2 DEF CellInv, Cell
  <1>14. CellInv'
    <2>1. DOMAIN byCell' = DOMAIN byCell \ {Cell(i)} /\ \A k \in DOMAIN byCell' : byCell'[k] = byCell[k]
      BY <1>7, <1>13
    <2>2. \A j \in 1..Len(slots) : j # i => Cell(j)' = Cell(j)
      BY <1>9 DEF Cell
    <2>3. DOMAIN byCell' \subseteq Keys
      BY <2>1 DEF CellInv
    <2>4. ASSUME NEW k \in DOMAIN byCell'
          PROVE  \E j \in 1..Len(slots') : Occ(j)' /\ Cell(j)' = k /\ byCell'[k] = Id(j)
      <3>1. PICK j \in 1..Len(slots) : Occ(j) /\ Cell(j) = k /\ byCell[k] = Id(j)
        BY <2>1 DEF CellInv
      <3>2. j # i
        BY <2>1, <3>1
      <3> QED
        BY <1>8, <1>9, <2>1, <2>2, <3>1, <3>2
    <2>5. ASSUME NEW j \in 1..Len(slots'), Occ(j)'
          PROVE  Cell(j)' \in DOMAIN byCell' /\ byCell'[Cell(j)'] = Id(j)
      <3>1. j # i /\ j \in 1..Len(slots) /\ Occ(j) /\ Cell(j)' = Cell(j)
        BY <1>8, <1>9, <2>2, <2>5
      <3>2. Cell(j) \in DOMAIN byCell /\ byCell[Cell(j)] = Id(j)
        BY <3>1 DEF CellInv
      <3>3. Cell(j) # Cell(i)
        BY <1>13, <3>1, <3>2, IdInjective
      <3> QED
        BY <2>1, <3>1, <3>2, <3>3
    <2> QED
      BY <2>3, <2>4, <2>5 DEF CellInv
  <1>15. CountInv'
    <2>1. DOMAIN byCell' = DOMAIN byCell \ {Cell(i)}
      BY <1>7, <1>13
    <2> QED
      BY <1>7, <1>13, <2>1, FS_RemoveElement DEF CountInv
  <1> QED
    BY <1>10, <1>12, <1>14, <1>15

-----------------------------------------------------------------------------
\* A block within its contract is an enumeration without repetitions.
LEMMA BlockShape ==
    ASSUME IndexAssumption, NEW V \in SUBSET Vars, NEW block \in Blocks(V)
    PROVE  \E m \in Nat : /\ block \in [1..m -> Vars] /\ block \in Seq(Vars) /\ Len(block) = m
                          /\ \A i, j \in 1..m : i # j => block[i] # block[j]
  <1>1. IsFiniteSet(V)
    BY FS_Subset DEF IndexAssumption
  <1>2. PICK m \in 1..Cardinality(V) : block \in [1..m -> V]
    BY DEF Blocks
  <1>3. m \in Nat
    BY <1>1, <1>2, FS_CardinalityType
  <1>4. block \in [1..m -> Vars] /\ DOMAIN block = 1..m
    BY <1>2
  <1>5. block \in Seq(Vars)
    BY <1>3, <1>4, SeqDef
  <1>6. Len(block) = m
    BY <1>3, <1>4, <1>5, LenProperties
  <1>7. \A i, j \in 1..m : i # j => block[i] # block[j]
    BY <1>4 DEF Blocks
  <1> QED
    BY <1>3, <1>4, <1>5, <1>6, <1>7

\* Counting the cells of a block.
LEMMA BlockCells ==
    ASSUME NEW t \in Targets, NEW m \in Nat, NEW new \in SUBSET Vars, NEW block \in Bijection(1..m, new)
    PROVE  IsFiniteSet({t} \X new) /\ Cardinality({t} \X new) = m
  <1> DEFINE cells == {t} \X new
             f == [k \in 1..m |-> <<t, block[k]>>]
  <1>0. /\ block \in [1..m -> new]
        /\ \A i, j \in 1..m : block[i] = block[j] => i = j
        /\ \A v \in new : \E k \in 1..m : block[k] = v
    BY DEF Bijection, Injection, IsInjective, Surjection
  <1>1. f \in [1..m -> cells]
    BY <1>0
  <1>2. \A i, j \in 1..m : i # j => f[i] # f[j]
    BY <1>0
  <1>3. \A c \in cells : \E k \in 1..m : f[k] = c
    BY <1>0
  <1>4. f \in Bijection(1..m, cells)
    <2> f \in [1..m -> cells] /\ DOMAIN f = 1..m
      BY <1>1
    <2> HIDE DEF f, cells
    <2>1. f \in Injection(1..m, cells)
      BY <1>2 DEF Injection, IsInjective
    <2>2. f \in Surjection(1..m, cells)
      BY <1>3 DEF Surjection
    <2> QED
      BY <2>1, <2>2 DEF Bijection
  <1>5. IsFiniteSet(1..m) /\ Cardinality(1..m) = m
    BY FS_Interval
  <1> QED
    BY <1>4, <1>5, FS_Bijection DEF ExistsBijection

\* add_constant_unique_block(): the new slots are the last ones, one for each
\* cell of the block, in its order.
LEMMA BlockStep ==
    ASSUME IInv, IndexAssumption,
           NEW t \in Targets, NEW V \in SUBSET Vars, NEW block \in Blocks(V),
           NEW value \in [DOMAIN block -> Int],
           AddConstantUniqueBlock(t, block, value)
    PROVE  IInv'
  <1> USE DEF IInv
  <1>1. PICK m \in Nat : /\ block \in [1..m -> Vars] /\ Len(block) = m
                         /\ \A i, j \in 1..m : i # j => block[i] # block[j]
    BY BlockShape
  <1>2. PICK L \in Nat : L = Len(slots)
    BY LenProperties DEF ArenaInv
  <1> DEFINE new == {block[k] : k \in 1..m}
             at(v) == CHOOSE k \in 1..m : block[k] = v
             d(k) == Data(t, block[k], value[k], {})
             tail == [k \in 1..m |-> Occupied(d(k))]
  <1>3. \A k \in 1..m : at(block[k]) = k
    BY <1>1
  <1>4. \A v \in new : at(v) \in 1..m /\ block[at(v)] = v
    BY <1>3
  <1>5. ASSUME NEW k \in 1..m
        PROVE  /\ d(k) \in Entries /\ d(k).var = block[k] /\ d(k).target = t /\ d(k).deps = {}
               /\ Occupied(d(k)) \in Slots /\ Occupied(d(k)).generation = 0
               /\ Occupied(d(k)).data = d(k)
    <2>1. block[k] \in Vars /\ value[k] \in Int
      BY <1>1
    <2> QED
      BY <2>1, DataEntry
  <1>6. /\ \A v \in new : <<t, v>> \notin DOMAIN byCell
        /\ slots' = slots \o tail
        /\ count' = count + m
        /\ byVar' = [v \in Vars |-> IF v \in new THEN byVar[v] \union {Id(L + at(v))} ELSE byVar[v]]
        /\ byTarget' = [byTarget EXCEPT ![t] = @ \union {Id(L + at(v)) : v \in new}]
        /\ byCell' = [k \in DOMAIN byCell \union ({t} \X new) |->
                         IF k \in {t} \X new THEN Id(L + at(k[2])) ELSE byCell[k]]
        /\ byParam' = byParam
    BY <1>1, <1>2 DEF AddConstantUniqueBlock
  <1>7. /\ slots' \in Seq(Slots) /\ Len(slots') = L + m
        /\ \A j \in 1..L : slots'[j] = slots[j]
        /\ \A k \in 1..m : slots'[L + k] = Occupied(d(k))
    <2>1. tail \in [1..m -> Slots]
      BY <1>5
    <2>2. slots \in Seq(Slots)
      BY DEF ArenaInv, Slots
    <2>3. \A k \in 1..m : tail[k] = Occupied(d(k))
      OBVIOUS
    <2> HIDE DEF tail, d
    <2> QED
      BY <1>2, <1>6, <2>1, <2>2, <2>3, AppendedSlots
  <1> HIDE DEF tail, at, d
  <1>8. \A i \in 1..Len(slots') : i \in 1..L \/ \E k \in 1..m : i = L + k
    <2> SUFFICES ASSUME NEW i \in 1..(L + m), i > L
                 PROVE  \E k \in 1..m : i = L + k
      BY <1>7
    <2>1. (i - L) \in 1..m /\ i = L + (i - L)
      OBVIOUS
    <2> QED
      BY <2>1
  <1>9. /\ \A k \in 1..m : (L + k) \in 1..Len(slots') /\ (L + k) \notin 1..L
        /\ 1..L \subseteq 1..Len(slots')
    BY <1>7
  <1>10. /\ \A j \in 1..L : Occ(j)' <=> Occ(j)
         /\ \A k \in 1..m : Occ(L + k)'
    BY <1>5, <1>7 DEF Occ
  <1>11. ArenaInv'
    <2>1. \A j \in 1..L : Occ(j)' <=> slots'[j].data \in Entries
      BY <1>2, <1>7, <1>10 DEF ArenaInv
    <2>2. \A k \in 1..m : slots'[L + k].data \in Entries
      BY <1>5, <1>7
    <2>3. \A j \in 1..Len(slots') : Occ(j)' <=> slots'[j].data \in Entries
      BY <1>8, <1>10, <2>1, <2>2
    <2> QED
      BY <1>7, <2>3 DEF ArenaInv, Slots
  <1>12. Handles \subseteq Handles' /\ \A k \in 1..m : Id(L + k) \in Handles' /\ Id(L + k) \notin Handles
    BY <1>2, <1>9, IdInjective DEF Handles
  <1>13. ListInv'
    <2> /\ byVar \in [Vars -> SUBSET Handles]
        /\ byTarget \in [Targets -> SUBSET Handles]
        /\ byParam \in [Params -> SUBSET Handles]
      BY DEF ListInv
    <2>0. /\ \A v \in new : Id(L + at(v)) \in Handles'
          /\ {Id(L + at(v)) : v \in new} \subseteq Handles'
      BY <1>4, <1>12
    <2>1. /\ byVar' \in [Vars -> SUBSET Handles']
          /\ byTarget' \in [Targets -> SUBSET Handles']
          /\ byParam' \in [Params -> SUBSET Handles']
      <3> HIDE DEF new
      <3> DEFINE ids == {Id(L + at(v)) : v \in new}
      <3>1. byVar' \in [Vars -> SUBSET Handles']
        <4>1. \A u \in Vars : byVar[u] \subseteq Handles'
          BY <1>12
        <4>2. \A u \in Vars : (IF u \in new THEN byVar[u] \union {Id(L + at(u))} ELSE byVar[u]) \in SUBSET Handles'
          BY <2>0, <4>1
        <4> QED
          BY <1>6, <4>2
      <3>2. byTarget' = [byTarget EXCEPT ![t] = @ \union ids] /\ ids \subseteq Handles'
        BY <1>6, <2>0
      <3> HIDE DEF ids
      <3>3. byTarget' \in [Targets -> SUBSET Handles']
        BY <1>12, <3>2
      <3>4. byParam' \in [Params -> SUBSET Handles']
        BY <1>6, <1>12
      <3> QED
        BY <3>1, <3>3, <3>4
    <2>2. \A u \in Vars : byVar'[u] = IF u \in new THEN byVar[u] \union {Id(L + at(u))} ELSE byVar[u]
      BY <1>6
    <2>3. \A u \in Targets : byTarget'[u] = IF u = t THEN byTarget[u] \union {Id(L + at(v)) : v \in new}
                                                    ELSE byTarget[u]
      BY <1>6
    <2>4. ASSUME NEW j \in 1..L
          PROVE  /\ \A u \in Vars : Id(j) \in byVar'[u] <=> Occ(j)' /\ slots'[j].data.var = u
                 /\ \A u \in Targets : Id(j) \in byTarget'[u] <=> Occ(j)' /\ slots'[j].data.target = u
                 /\ \A p \in Params : Id(j) \in byParam'[p] <=> Occ(j)' /\ p \in slots'[j].data.deps
      <3>1. \A v \in new : Id(j) # Id(L + at(v))
        BY <1>4, <1>9, IdInjective
      <3>2. /\ \A u \in Vars : Id(j) \in byVar'[u] <=> Id(j) \in byVar[u]
            /\ \A u \in Targets : Id(j) \in byTarget'[u] <=> Id(j) \in byTarget[u]
            /\ byParam' = byParam
        BY <1>6, <2>2, <2>3, <3>1
      <3> QED
        BY <1>2, <1>7, <1>10, <3>2 DEF ListInv
    <2>5. ASSUME NEW k \in 1..m
          PROVE  /\ \A u \in Vars : Id(L + k) \in byVar'[u] <=> Occ(L + k)' /\ slots'[L + k].data.var = u
                 /\ \A u \in Targets : Id(L + k) \in byTarget'[u] <=> Occ(L + k)' /\ slots'[L + k].data.target = u
                 /\ \A p \in Params : Id(L + k) \in byParam'[p] <=> Occ(L + k)' /\ p \in slots'[L + k].data.deps
      <3>1. Occ(L + k)' /\ slots'[L + k].data = d(k)
        BY <1>5, <1>7, <1>10
      <3>2. d(k).var = block[k] /\ d(k).target = t /\ d(k).deps = {}
        BY <1>5
      <3>3. \A v \in new : Id(L + k) = Id(L + at(v)) <=> v = block[k]
        <4>1. \A v \in new : L + k = L + at(v) <=> k = at(v)
          BY <1>4
        <4>2. \A v \in new : Id(L + k) = Id(L + at(v)) <=> L + k = L + at(v)
          BY IdInjective
        <4> QED
          BY <1>3, <1>4, <4>1, <4>2
      <3>4. block[k] \in new
        OBVIOUS
      <3>0. /\ \A u \in Vars : Id(L + k) \notin byVar[u]
            /\ \A u \in Targets : Id(L + k) \notin byTarget[u]
        BY <1>12
      <3>5. ASSUME NEW u \in Vars PROVE Id(L + k) \in byVar'[u] <=> block[k] = u
        <4> HIDE DEF new
        <4>1. byVar'[u] = IF u \in new THEN byVar[u] \union {Id(L + at(u))} ELSE byVar[u]
          BY <2>2
        <4>2. Id(L + k) \in byVar'[u] <=> u \in new /\ Id(L + k) = Id(L + at(u))
          BY <3>0, <4>1
        <4> QED
          BY <3>3, <3>4, <4>2
      <3>6. ASSUME NEW u \in Targets PROVE Id(L + k) \in byTarget'[u] <=> t = u
        <4> HIDE DEF new
        <4> DEFINE ids == {Id(L + at(v)) : v \in new}
        <4>1. Id(L + k) \in ids
          BY <3>3, <3>4
        <4>2. byTarget'[u] = IF u = t THEN byTarget[u] \union ids ELSE byTarget[u]
          BY <2>3
        <4> HIDE DEF ids
        <4> QED
          BY <3>0, <4>1, <4>2
      <3>7. \A p \in Params : Id(L + k) \notin byParam'[p]
        BY <1>6, <1>12
      <3> QED
        BY <3>1, <3>2, <3>5, <3>6, <3>7
    <2>6. ASSUME NEW i \in 1..Len(slots')
          PROVE  /\ \A u \in Vars : Id(i) \in byVar'[u] <=> Occ(i)' /\ slots'[i].data.var = u
                 /\ \A u \in Targets : Id(i) \in byTarget'[u] <=> Occ(i)' /\ slots'[i].data.target = u
                 /\ \A p \in Params : Id(i) \in byParam'[p] <=> Occ(i)' /\ p \in slots'[i].data.deps
      <3>1. CASE i \in 1..L
        BY <2>4, <3>1
      <3>2. CASE \E k \in 1..m : i = L + k
        <4>1. PICK k \in 1..m : i = L + k
          BY <3>2
        <4> QED
          BY <2>5, <4>1
      <3> QED
        BY <1>8, <3>1, <3>2
    <2> QED
      BY <2>1, <2>6 DEF ListInv
  <1>14. CellInv'
    <2>1. DOMAIN byCell' = DOMAIN byCell \union ({t} \X new)
      BY <1>6
    <2>2. \A k \in DOMAIN byCell : k \notin {t} \X new
      BY <1>6
    <2>3. /\ \A k \in DOMAIN byCell : byCell'[k] = byCell[k]
          /\ \A k \in 1..m : byCell'[<<t, block[k]>>] = Id(L + k)
      <3>1. \A k \in 1..m : <<t, block[k]>> \in {t} \X new /\ <<t, block[k]>>[2] = block[k]
        OBVIOUS
      <3>2. \A k \in 1..m : byCell'[<<t, block[k]>>] = Id(L + at(block[k]))
        BY <1>6, <3>1
      <3> QED
        BY <1>3, <1>6, <2>2, <3>2
    <2>4. \A j \in 1..L : Cell(j)' = Cell(j)
      BY <1>7 DEF Cell
    <2>5. \A k \in 1..m : Cell(L + k)' = <<t, block[k]>>
      BY <1>5, <1>7 DEF Cell
    <2>6. DOMAIN byCell' \subseteq Keys
      BY <1>1, <2>1 DEF CellInv, Keys
    <2>7. ASSUME NEW c \in DOMAIN byCell'
          PROVE  \E i \in 1..Len(slots') : Occ(i)' /\ Cell(i)' = c /\ byCell'[c] = Id(i)
      <3>1. CASE c \in DOMAIN byCell
        <4>1. PICK i \in 1..L : Occ(i) /\ Cell(i) = c /\ byCell[c] = Id(i)
          BY <1>2, <3>1 DEF CellInv
        <4> QED
          BY <1>9, <1>10, <2>3, <2>4, <3>1, <4>1
      <3>2. CASE c \in {t} \X new
        <4>1. PICK k \in 1..m : c = <<t, block[k]>>
          BY <3>2
        <4> QED
          BY <1>9, <1>10, <2>3, <2>5, <4>1
      <3> QED
        BY <2>1, <3>1, <3>2
    <2>8. ASSUME NEW i \in 1..Len(slots'), Occ(i)'
          PROVE  Cell(i)' \in DOMAIN byCell' /\ byCell'[Cell(i)'] = Id(i)
      <3>1. CASE i \in 1..L
        <4>1. Occ(i) /\ Cell(i)' = Cell(i)
          BY <1>10, <2>4, <2>8, <3>1
        <4>2. Cell(i) \in DOMAIN byCell /\ byCell[Cell(i)] = Id(i)
          BY <1>2, <3>1, <4>1 DEF CellInv
        <4> QED
          BY <2>1, <2>3, <4>1, <4>2
      <3>2. CASE \E k \in 1..m : i = L + k
        <4>1. PICK k \in 1..m : i = L + k
          BY <3>2
        <4>2. Cell(i)' = <<t, block[k]>> /\ <<t, block[k]>> \in {t} \X new
          BY <2>5, <4>1
        <4> QED
          BY <2>1, <2>3, <4>1, <4>2
      <3> QED
        BY <1>8, <3>1, <3>2
    <2> QED
      BY <2>6, <2>7, <2>8 DEF CellInv
  <1>15. CountInv'
    <2>1. DOMAIN byCell' = DOMAIN byCell \union ({t} \X new)
      BY <1>6
    <2>2. DOMAIN byCell \cap ({t} \X new) = {}
      BY <1>6
    <2>3. IsFiniteSet({t} \X new) /\ Cardinality({t} \X new) = m
      <3>1. new \in SUBSET Vars /\ block \in [1..m -> new] /\ DOMAIN block = 1..m
        BY <1>1
      <3>2. \A v \in new : \E k \in 1..m : block[k] = v
        OBVIOUS
      <3> HIDE DEF new
      <3>3. block \in Injection(1..m, new)
        BY <1>1, <3>1 DEF Injection, IsInjective
      <3>4. block \in Surjection(1..m, new)
        BY <3>1, <3>2 DEF Surjection
      <3>5. block \in Bijection(1..m, new)
        BY <3>3, <3>4 DEF Bijection
      <3> QED
        BY <3>1, <3>5, BlockCells
    <2>4. IsFiniteSet(DOMAIN byCell) /\ count = Cardinality(DOMAIN byCell) /\ count \in Nat
      BY FS_CardinalityType DEF CountInv
    <2> HIDE DEF new
    <2>5. /\ IsFiniteSet(DOMAIN byCell')
          /\ Cardinality(DOMAIN byCell') = count + m - Cardinality({})
      BY <2>1, <2>2, <2>3, <2>4, FS_Union
    <2>6. Cardinality({}) = 0
      BY FS_EmptySet
    <2> QED
      BY <1>6, <2>4, <2>5, <2>6 DEF CountInv
  <1> QED
    BY <1>11, <1>13, <1>14, <1>15

-----------------------------------------------------------------------------
(***************************************************************************)
(* The invariant, for any calls within the caller's contract.              *)
(***************************************************************************)

\* A call that changes nothing.
LEMMA Unchanged == IInv /\ UNCHANGED vars => IInv'
  <1> SUFFICES ASSUME IInv, UNCHANGED vars PROVE IInv'
    OBVIOUS
  <1> USE DEF vars
  <1>1. Handles' = Handles
    BY DEF Handles
  <1>2. \A i : (Occ(i)' <=> Occ(i)) /\ Cell(i)' = Cell(i)
    BY DEF Occ, Cell
  <1>3. ArenaInv'
    BY <1>2 DEF IInv, ArenaInv
  <1>4. ListInv'
    BY <1>1, <1>2 DEF IInv, ListInv
  <1>5. CellInv'
    BY <1>2 DEF IInv, CellInv
  <1>6. CountInv'
    BY DEF IInv, CountInv
  <1> QED
    BY <1>3, <1>4, <1>5, <1>6 DEF IInv

\* The calls of the driver are among these, for its own V and X.
LEMMA CallsIInv ==
    ASSUME IInv, IndexAssumption, NEW V \in SUBSET Vars, NEW X \in SUBSET Int, Calls(V, X)
    PROVE  IInv'
  <1>1. ASSUME NEW t \in Targets, NEW v \in V, NEW x \in X, NEW deps \in SUBSET Params,
               AddCombine(t, v, x, deps)
        PROVE  IInv'
    BY <1>1, AddCombineStep
  <1>2. ASSUME NEW t \in Targets, NEW v \in V, NEW x \in X, NEW deps \in SUBSET Params,
               AddNew(t, v, x, deps)
        PROVE  IInv'
    BY <1>2, AddNewStep
  <1>3. ASSUME NEW t \in Targets, NEW block \in Blocks(V), NEW value \in [DOMAIN block -> X],
               AddConstantUniqueBlock(t, block, value)
        PROVE  IInv'
    <2>1. value \in [DOMAIN block -> Int]
      OBVIOUS
    <2> QED
      BY <1>3, <2>1, BlockStep
  <1>4. ASSUME NEW id \in Handles, NEW x \in X, NEW deps \in SUBSET Params, SetExpr(id, x, deps)
        PROVE  IInv'
    BY <1>4, SetExprStep
  <1>5. ASSUME NEW id \in Handles, Remove(id)
        PROVE  IInv'
    BY <1>5, RemoveStep
  <1>6. ASSUME NEW id \in Handles, Stale(id)
        PROVE  IInv'
    BY <1>6, Unchanged DEF Stale
  <1>7. ASSUME Exhausted
        PROVE  IInv'
    BY <1>7, Unchanged DEF Exhausted
  <1> QED
    BY <1>1, <1>2, <1>3, <1>4, <1>5, <1>6, <1>7 DEF Calls

LEMMA NextIInv == IndexAssumption /\ IInv /\ [Next]_vars => IInv'
  <1>1. IndexAssumption => 0..MaxValue \in SUBSET Int
    BY DEF IndexAssumption
  <1> QED
    BY <1>1, CallsIInv, Unchanged DEF Next

\* IInv holds in every state.
THEOREM Invariance ==
    ASSUME IndexAssumption
    PROVE  Spec => []IInv
  <1>1. IInv /\ [Next]_vars => IInv'
    BY NextIInv
  <1> QED
    BY <1>1, InitIInv, PTL DEF Spec

-----------------------------------------------------------------------------
(***************************************************************************)
(* The indexes and the arena agree.                                        *)
(***************************************************************************)

\* The ids that resolve are those of the occupied slots.
LEMMA LiveIds ==
    ASSUME IndexAssumption, IInv
    PROVE  /\ \A id \in Live : \E i \in 1..Len(slots) :
                 id = Id(i) /\ Occ(i) /\ Get(id) = slots[i].data
           /\ \A i \in 1..Len(slots) : Occ(i) => Id(i) \in Live /\ Get(Id(i)) = slots[i].data
  BY GetOfId DEF Live, Handles, IInv

LEMMA AgreementOfIInv ==
    ASSUME IndexAssumption, IInv
    PROVE  IndexesAgree
  <1>1. ASSUME NEW v \in Vars
        PROVE  byVar[v] = {id \in Live : Get(id).var = v}
    <2>1. \A id \in byVar[v] : \E i \in 1..Len(slots) : id = Id(i) /\ Occ(i) /\ slots[i].data.var = v
      BY DEF IInv, ListInv, Handles
    <2>2. \A i \in 1..Len(slots) : Occ(i) /\ slots[i].data.var = v => Id(i) \in byVar[v]
      BY DEF IInv, ListInv
    <2> QED
      BY <2>1, <2>2, LiveIds
  <1>2. ASSUME NEW t \in Targets
        PROVE  byTarget[t] = {id \in Live : Get(id).target = t}
    <2>1. \A id \in byTarget[t] : \E i \in 1..Len(slots) : id = Id(i) /\ Occ(i) /\ slots[i].data.target = t
      BY DEF IInv, ListInv, Handles
    <2>2. \A i \in 1..Len(slots) : Occ(i) /\ slots[i].data.target = t => Id(i) \in byTarget[t]
      BY DEF IInv, ListInv
    <2> QED
      BY <2>1, <2>2, LiveIds
  <1>3. ASSUME NEW p \in Params
        PROVE  byParam[p] = {id \in Live : p \in Get(id).deps}
    <2>1. \A id \in byParam[p] : \E i \in 1..Len(slots) : id = Id(i) /\ Occ(i) /\ p \in slots[i].data.deps
      BY DEF IInv, ListInv, Handles
    <2>2. \A i \in 1..Len(slots) : Occ(i) /\ p \in slots[i].data.deps => Id(i) \in byParam[p]
      BY DEF IInv, ListInv
    <2> QED
      BY <2>1, <2>2, LiveIds
  <1>4. DOMAIN byCell = {<<Get(id).target, Get(id).var>> : id \in Live}
    <2>1. ASSUME NEW k \in DOMAIN byCell
          PROVE  \E id \in Live : k = <<Get(id).target, Get(id).var>>
      <3>1. PICK i \in 1..Len(slots) : Occ(i) /\ Cell(i) = k
        BY DEF IInv, CellInv
      <3> QED
        BY <3>1, LiveIds DEF Cell
    <2>2. ASSUME NEW id \in Live
          PROVE  <<Get(id).target, Get(id).var>> \in DOMAIN byCell
      <3>1. PICK i \in 1..Len(slots) : Occ(i) /\ Get(id) = slots[i].data
        BY LiveIds
      <3> QED
        BY <3>1 DEF IInv, CellInv, Cell
    <2> QED
      BY <2>1, <2>2
  <1>5. ASSUME NEW k \in DOMAIN byCell
        PROVE  byCell[k] \in Live /\ <<Get(byCell[k]).target, Get(byCell[k]).var>> = k
    <2>1. PICK i \in 1..Len(slots) : Occ(i) /\ Cell(i) = k /\ byCell[k] = Id(i)
      BY DEF IInv, CellInv
    <2> QED
      BY <2>1, LiveIds DEF Cell
  <1>6. count = Cardinality(DOMAIN byCell)
    BY DEF IInv, CountInv
  <1> QED
    BY <1>1, <1>2, <1>3, <1>4, <1>5, <1>6 DEF IndexesAgree

\* Whatever is added, combined, overwritten and removed, in whatever order, the
\* indexes kept by variable, target, parameter and cell list exactly the live
\* ids, and there is one id to a cell.
THEOREM IndexesNeverDiverge ==
    ASSUME IndexAssumption
    PROVE  Spec => []IndexesAgree
  <1>1. IInv => IndexesAgree
    BY AgreementOfIInv
  <1> QED
    BY <1>1, Invariance, PTL

-----------------------------------------------------------------------------
(***************************************************************************)
(* A stale id stays stale.                                                 *)
(***************************************************************************)

\* No call occupies a vacated slot: what is occupied after it is new or was
\* occupied before.
VacatedForGood == \A i \in 1..Len(slots) : slots'[i].generation = 0 => Occ(i)

LEMMA CallsNeverRefill ==
    ASSUME IInv, IndexAssumption, NEW V \in SUBSET Vars, NEW X \in SUBSET Int, Calls(V, X)
    PROVE  VacatedForGood
  <1> slots \in Seq(Slots)
    BY DEF IInv, ArenaInv, Slots
  <1>0. \A i \in 1..Len(slots) : slots[i] \in Slots
    BY ElementOfSeq
  <1>1. ASSUME NEW id, Valid(id), id \in Handles \/ \E k \in DOMAIN byCell : id = byCell[k]
        PROVE  id.index \in 1..Len(slots) /\ Occ(id.index)
    <2>1. PICK i \in 1..Len(slots) : id = Id(i)
      BY <1>1 DEF Handles, IInv, CellInv
    <2> QED
      BY <1>1, <2>1, GetOfId DEF Id, IInv
  <1>2. ASSUME NEW t \in Targets, NEW v \in V, NEW x \in X, NEW deps \in SUBSET Params,
               AddCombine(t, v, x, deps)
        PROVE  VacatedForGood
    <2>1. PICK n \in 1..Len(slots) : Occ(n) /\ \E d : slots' = [slots EXCEPT ![n].data = d]
      BY <1>1, <1>2 DEF AddCombine
    <2> QED
      BY <1>0, <2>1 DEF VacatedForGood, Occ, Slots
  <1>3. ASSUME NEW t \in Targets, NEW v \in V, NEW x \in X, NEW deps \in SUBSET Params,
               AddNew(t, v, x, deps)
        PROVE  VacatedForGood
    <2>1. Occupied(Data(t, v, x, deps)) \in Slots
      BY DataEntry
    <2>2. \A i \in 1..Len(slots) : slots'[i] = slots[i]
      BY <1>3, <2>1, AppendProperties DEF AddNew
    <2> QED
      BY <2>2 DEF VacatedForGood, Occ
  <1>4. ASSUME NEW t \in Targets, NEW block \in Blocks(V), NEW value \in [DOMAIN block -> X],
               AddConstantUniqueBlock(t, block, value)
        PROVE  VacatedForGood
    <2>1. PICK m \in Nat : block \in [1..m -> Vars] /\ Len(block) = m
      BY BlockShape
    <2> DEFINE tail == [k \in 1..m |-> Occupied(Data(t, block[k], value[k], {}))]
    <2>2. slots' = slots \o tail
      BY <1>4, <2>1 DEF AddConstantUniqueBlock
    <2>3. tail \in [1..m -> Slots]
      <3>1. \A k \in 1..m : block[k] \in Vars /\ value[k] \in Int
        BY <2>1
      <3> QED
        BY <3>1, DataEntry
    <2>4. tail \in Seq(Slots)
      BY <2>3, SeqDef
    <2> HIDE DEF tail
    <2>5. \A i \in 1..Len(slots) : slots'[i] = slots[i]
      BY <2>2, <2>4, ConcatProperties, LenProperties
    <2> QED
      BY <2>5 DEF VacatedForGood, Occ
  <1>5. ASSUME NEW id \in Handles, NEW x \in X, NEW deps \in SUBSET Params, SetExpr(id, x, deps)
        PROVE  VacatedForGood
    <2>1. id.index \in 1..Len(slots) /\ Occ(id.index)
      BY <1>1, <1>5 DEF SetExpr
    <2>2. \A i \in 1..Len(slots) : i # id.index => slots'[i] = slots[i]
      BY <1>5, <2>1 DEF SetExpr
    <2> QED
      BY <2>1, <2>2 DEF VacatedForGood, Occ
  <1>6. ASSUME NEW id \in Handles, Remove(id)
        PROVE  VacatedForGood
    <2>1. id.index \in 1..Len(slots) /\ Occ(id.index)
      BY <1>1, <1>6 DEF Remove
    <2>2. \A i \in 1..Len(slots) : i # id.index => slots'[i] = slots[i]
      BY <1>6, <2>1 DEF Remove
    <2> QED
      BY <2>1, <2>2 DEF VacatedForGood, Occ
  <1>7. ASSUME UNCHANGED vars
        PROVE  VacatedForGood
    BY <1>7 DEF VacatedForGood, Occ, vars
  <1> QED
    BY <1>2, <1>3, <1>4, <1>5, <1>6, <1>7 DEF Calls, Stale, Exhausted

\* An id that is stale before such a step is stale after it.
LEMMA StaleStep ==
    ASSUME IInv, IndexAssumption, VacatedForGood
    PROVE  \A id \in Handles : ~ Valid(id) => ~ Valid(id)'
  <1> SUFFICES ASSUME NEW id \in Handles, ~ Valid(id)
               PROVE  ~ Valid(id)'
    OBVIOUS
  <1>1. PICK i \in 1..Len(slots) : id = Id(i)
    BY DEF Handles
  <1>2. slots'[i].generation # 0
    BY <1>1, GetOfId DEF VacatedForGood, IInv
  <1>3. id.index = i /\ id.generation = 0
    BY <1>1 DEF Id
  <1> QED
    BY <1>2, <1>3 DEF Valid, Get

\* "Never reuses indices": removing a coefficient makes its id stale for ever,
\* however many coefficients are added after it.
THEOREM StaleIdsStayStale ==
    ASSUME IndexAssumption
    PROVE  Spec => StaleForGood
  <1>1. IInv /\ [Next]_vars => [\A id \in Handles : ~ Valid(id) => ~ Valid(id)']_vars
    <2>1. 0..MaxValue \in SUBSET Int
      BY DEF IndexAssumption
    <2> QED
      BY <2>1, CallsNeverRefill, StaleStep DEF Next
  <1> QED
    BY <1>1, Invariance, PTL DEF Spec, StaleForGood
-----------------------------------------------------------------------------
(***************************************************************************)
(* The kernel is a coefficient store: a slot's index is its cell's         *)
(* identity.                                                               *)
(***************************************************************************)
Contract == INSTANCE CoeffStore WITH Values <- Int, cells <- Cells, minted <- Minted

\* what for_cell answers, slot by slot
CellsView ==
    /\ DOMAIN Cells = DOMAIN byCell
    /\ \A k \in DOMAIN Cells : \E i \in 1..Len(slots) : Occ(i) /\ Cell(i) = k
    /\ \A i \in 1..Len(slots) :
          Occ(i) => /\ Cell(i) \in DOMAIN Cells
                    /\ Cells[Cell(i)] = [id |-> i, value |-> slots[i].data.value]
                    /\ slots[i].data.value \in Int

LEMMA CellsViewed ==
    ASSUME IndexAssumption
    PROVE  IInv => CellsView
  <1> SUFFICES ASSUME IInv PROVE CellsView
    OBVIOUS
  <1>1. DOMAIN Cells = DOMAIN byCell
    BY DEF Cells
  <1>2. ASSUME NEW i \in 1..Len(slots), Occ(i)
        PROVE  /\ Cell(i) \in DOMAIN Cells
               /\ Cells[Cell(i)] = [id |-> i, value |-> slots[i].data.value]
               /\ slots[i].data.value \in Int
    <2>1. Cell(i) \in DOMAIN byCell /\ byCell[Cell(i)] = Id(i)
      BY <1>2 DEF IInv, CellInv
    <2>2. Get(Id(i)) = slots[i].data /\ slots[i].data \in Entries
      BY <1>2, GetOfId DEF IInv, ArenaInv
    <2>3. Cells[Cell(i)] = [id |-> i, value |-> slots[i].data.value]
      BY <2>1, <2>2 DEF Cells, ForCell, Cell, Id
    <2> QED
      BY <1>1, <2>1, <2>2, <2>3 DEF Entries
  <1> QED
    BY <1>1, <1>2 DEF CellsView, IInv, CellInv

\* Cells whose slots a call does not touch look the same after it.
LEMMA Untouched ==
    ASSUME CellsView, CellsView', NEW ks, 1..Len(slots) \subseteq 1..Len(slots'),
           \A i \in 1..Len(slots) : Occ(i) /\ Cell(i) \notin ks => slots'[i] = slots[i]
    PROVE  \A k \in DOMAIN Cells \ ks : k \in DOMAIN Cells' /\ Cells'[k] = Cells[k]
  <1> SUFFICES ASSUME NEW k \in DOMAIN Cells \ ks
               PROVE  k \in DOMAIN Cells' /\ Cells'[k] = Cells[k]
    OBVIOUS
  <1>1. PICK i \in 1..Len(slots) : Occ(i) /\ Cell(i) = k
    BY DEF CellsView
  <1>2. slots'[i] = slots[i] /\ i \in 1..Len(slots')
    BY <1>1
  <1>3. Occ(i)' /\ Cell(i)' = k
    BY <1>1, <1>2 DEF Occ, Cell
  <1>4. k \in DOMAIN Cells' /\ Cells'[k] = [id |-> i, value |-> slots[i].data.value]
    BY <1>2, <1>3 DEF CellsView
  <1>5. Cells[k] = [id |-> i, value |-> slots[i].data.value]
    BY <1>1 DEF CellsView
  <1> QED
    BY <1>4, <1>5

\* A rewritten slot is a Put of its cell, which keeps its identity.
LEMMA RewriteIsPut ==
    ASSUME CellsView, CellsView', IInv, NEW i \in 1..Len(slots), Occ(i),
           NEW slot \in Slots, slot.generation = 0,
           slot.data.var = slots[i].data.var, slot.data.target = slots[i].data.target,
           slots' = [slots EXCEPT ![i] = slot], byCell' = byCell
    PROVE  Contract!Next
  <1> DEFINE k == Cell(i)
  <1>1. /\ Len(slots') = Len(slots)
        /\ \A j \in 1..Len(slots) : slots'[j] = IF j = i THEN slot ELSE slots[j]
    BY SlotUpdate DEF IInv, ArenaInv, Slots
  <1>2. k \in DOMAIN Cells /\ Cells[k].id = i
    <2>1. k \in DOMAIN Cells /\ Cells[k] = [id |-> i, value |-> slots[i].data.value]
      BY DEF CellsView
    <2> QED
      BY <2>1
  <1>3. Occ(i)' /\ Cell(i)' = k
    BY <1>1 DEF Occ, Cell
  <1>4. k \in DOMAIN Cells' /\ Cells'[k].id = i /\ Cells'[k].value \in Int
    <2>1. /\ k \in DOMAIN Cells' /\ Cells'[k] = [id |-> i, value |-> slots'[i].data.value]
          /\ slots'[i].data.value \in Int
      BY <1>1, <1>3 DEF CellsView
    <2> QED
      BY <2>1
  <1>5. DOMAIN Cells' = DOMAIN Cells
    BY DEF CellsView
  <1>6. \A j \in 1..Len(slots) : Occ(j) /\ Cell(j) \notin {k} => slots'[j] = slots[j]
    BY <1>1
  <1>7. \A c \in DOMAIN Cells \ {k} : Cells'[c] = Cells[c]
    BY <1>1, <1>6, Untouched
  <1>8. k \in Keys
    BY <1>2 DEF CellsView, IInv, CellInv
  <1>9. Minted' = Minted
    BY <1>1 DEF Minted
  <1> HIDE DEF k
  <1>10. Contract!Put(k)
    BY <1>2, <1>4, <1>5, <1>7, <1>9 DEF Contract!Put, Contract!Live, Contract!Become
  <1> QED
    BY <1>8, <1>10 DEF Contract!Next, Contract!Keys, Keys
\* A new slot is a Put of a cell that was not there.
LEMMA AddNewIsPut ==
    ASSUME IInv, IndexAssumption, CellsView, CellsView',
           NEW t \in Targets, NEW v \in Vars, NEW x \in Int, NEW deps \in SUBSET Params,
           AddNew(t, v, x, deps)
    PROVE  Contract!Next
  <1> DEFINE k == <<t, v>>
             d == Data(t, v, x, deps)
  <1>0. PICK n \in Nat : n = Len(slots) + 1
    BY LenProperties DEF IInv, ArenaInv
  <1>1. slots \in Seq(Slots)
    BY DEF IInv, ArenaInv, Slots
  <1>2. /\ Len(slots') = n
        /\ \A j \in 1..Len(slots) : slots'[j] = slots[j]
        /\ slots'[n].generation = 0 /\ slots'[n].data = d
    BY <1>0, <1>1, DataEntry, AppendProperties DEF AddNew
  <1>3. d.target = t /\ d.var = v /\ d.value = x
    BY DEF Data
  <1>4. k \notin DOMAIN byCell
    <2> SUFFICES ASSUME k \in DOMAIN byCell PROVE FALSE
      OBVIOUS
    <2>1. PICK i \in 1..Len(slots) : Occ(i) /\ byCell[k] = Id(i)
      BY DEF IInv, CellInv
    <2> QED
      BY <2>1, GetOfId DEF AddNew, IInv
  <1>5. DOMAIN Cells' = DOMAIN Cells \union {k}
    BY DEF AddNew, CellsView
  <1>6. k \in DOMAIN Cells' /\ Cells'[k].id = n /\ Cells'[k].value \in Int
    <2>1. Occ(n)' /\ Cell(n)' = k /\ n \in 1..Len(slots')
      BY <1>0, <1>2, <1>3 DEF Occ, Cell
    <2>2. Cells'[k] = [id |-> n, value |-> x]
      BY <1>2, <1>3, <2>1 DEF CellsView
    <2> QED
      BY <1>5, <2>2
  <1>7. \A c \in DOMAIN Cells \ {k} : Cells'[c] = Cells[c]
    <2>1. 1..Len(slots) \subseteq 1..Len(slots')
      BY <1>0, <1>1, <1>2, LenProperties
    <2> QED
      BY <1>2, <2>1, Untouched
  <1>8. Minted' = Minted + 1 /\ n = Minted + 1
    BY <1>0, <1>1, <1>2 DEF Minted
  <1>9. k \notin DOMAIN Cells
    BY <1>4 DEF CellsView
  <1> HIDE DEF d
  <1>10. Contract!Put(k)
    BY <1>5, <1>6, <1>7, <1>8, <1>9 DEF Contract!Put, Contract!Live, Contract!Become
  <1> QED
    BY <1>10 DEF Contract!Next, Contract!Keys

\* A vacated slot is a Remove of its cell.
LEMMA RemoveIsRemove ==
    ASSUME IInv, IndexAssumption, CellsView, CellsView', NEW id \in Handles, Remove(id)
    PROVE  Contract!Next
  <1>1. PICK i \in 1..Len(slots) : id = Id(i)
    BY DEF Handles
  <1>2. Occ(i) /\ Get(id) = slots[i].data /\ id.index = i
    BY <1>1, GetOfId DEF Remove, Id, IInv
  <1> DEFINE k == Cell(i)
  <1>3. slots[i] \in Slots /\ Vacated(slots[i]) \in Slots
    <2>1. slots[i] \in Slots /\ slots[i].generation = 0
      BY <1>2, ElementOfSeq DEF IInv, ArenaInv, Occ, Slots
    <2> QED
      BY <2>1 DEF Vacated, Slots
  <1>4. /\ Len(slots') = Len(slots)
        /\ \A j \in 1..Len(slots) : j # i => slots'[j] = slots[j]
    BY <1>2, <1>3, SlotUpdate DEF Remove, IInv, ArenaInv, Slots
  <1>5. DOMAIN Cells' = DOMAIN Cells \ {k}
    BY <1>2 DEF Remove, CellsView, Cell
  <1>6. k \in DOMAIN Cells /\ k \in Keys
    BY <1>2 DEF CellsView, IInv, CellInv
  <1>7. \A j \in 1..Len(slots) : Occ(j) /\ Cell(j) \notin {k} => slots'[j] = slots[j]
    BY <1>4
  <1>8. \A c \in DOMAIN Cells \ {k} : Cells'[c] = Cells[c]
    BY <1>4, <1>7, Untouched
  <1>9. Minted' = Minted
    BY <1>4 DEF Minted
  <1> HIDE DEF k
  <1>10. Contract!Remove(k)
    BY <1>5, <1>6, <1>8, <1>9 DEF Contract!Remove, Contract!Live, Contract!Become
  <1> QED
    BY <1>6, <1>10 DEF Contract!Next, Contract!Keys, Keys

\* A block of slots is an AddBlock under the identities that come next.
LEMMA BlockIsAddBlock ==
    ASSUME IInv, IndexAssumption, CellsView, CellsView',
           NEW t \in Targets, NEW V \in SUBSET Vars, NEW block \in Blocks(V),
           NEW value \in [DOMAIN block -> Int],
           AddConstantUniqueBlock(t, block, value)
    PROVE  Contract!Next
  <1>1. PICK m \in Nat : /\ block \in [1..m -> Vars] /\ Len(block) = m
                         /\ \A i, j \in 1..m : i # j => block[i] # block[j]
    BY BlockShape
  <1>2. PICK L \in Nat : L = Len(slots)
    BY LenProperties DEF IInv, ArenaInv
  <1> DEFINE new == {block[k] : k \in 1..m}
             d(k) == Data(t, block[k], value[k], {})
             tail == [k \in 1..m |-> Occupied(d(k))]
  <1>3. ASSUME NEW k \in 1..m
        PROVE  /\ d(k).target = t /\ d(k).var = block[k] /\ d(k).value \in Int
               /\ Occupied(d(k)) \in Slots
               /\ Occupied(d(k)).generation = 0 /\ Occupied(d(k)).data = d(k)
    <2>1. block[k] \in Vars /\ value[k] \in Int
      BY <1>1
    <2> QED
      BY <2>1, DataEntry DEF Data
  <1>4. /\ \A v \in new : <<t, v>> \notin DOMAIN byCell
        /\ slots' = slots \o tail
        /\ DOMAIN byCell' = DOMAIN byCell \union ({t} \X new)
    BY <1>1 DEF AddConstantUniqueBlock
  <1>5. /\ Len(slots') = L + m
        /\ \A j \in 1..L : slots'[j] = slots[j]
        /\ \A k \in 1..m : slots'[L + k] = Occupied(d(k))
    <2>1. tail \in [1..m -> Slots]
      BY <1>3
    <2>2. slots \in Seq(Slots)
      BY DEF IInv, ArenaInv, Slots
    <2>3. \A k \in 1..m : tail[k] = Occupied(d(k))
      OBVIOUS
    <2> HIDE DEF tail, d
    <2> QED
      BY <1>2, <1>4, <2>1, <2>2, <2>3, AppendedSlots
  <1> HIDE DEF tail
  <1>6. /\ new \subseteq Vars /\ ({t} \X new) \cap DOMAIN Cells = {}
        /\ DOMAIN Cells' = DOMAIN Cells \union ({t} \X new)
    BY <1>1, <1>4 DEF CellsView
  <1>7. \A c \in DOMAIN Cells : Cells'[c] = Cells[c]
    <2>1. 1..Len(slots) \subseteq 1..Len(slots')
      BY <1>2, <1>5
    <2>2. \A c \in DOMAIN Cells \ {} : Cells'[c] = Cells[c]
      BY <1>2, <1>5, <2>1, Untouched
    <2> QED
      BY <2>2
  <1>8. ASSUME NEW k \in 1..m
        PROVE  Cells'[<<t, block[k]>>].id = L + k /\ Cells'[<<t, block[k]>>].value \in Int
    <2>1. L + k \in 1..Len(slots') /\ slots'[L + k] = Occupied(d(k))
      BY <1>5
    <2>2. Occ(L + k)' /\ Cell(L + k)' = <<t, block[k]>> /\ slots'[L + k].data.value \in Int
      BY <1>3, <2>1 DEF Occ, Cell
    <2>3. Cells'[<<t, block[k]>>] = [id |-> L + k, value |-> slots'[L + k].data.value]
      BY <2>1, <2>2 DEF CellsView
    <2> QED
      BY <2>2, <2>3
  <1>9. Cardinality(new) = m
    <2>1. block \in Bijection(1..m, new)
      BY <1>1 DEF Bijection, Injection, Surjection, IsInjective
    <2>2. IsFiniteSet(1..m) /\ Cardinality(1..m) = m
      BY FS_Interval
    <2> QED
      BY <2>1, <2>2, FS_Bijection DEF ExistsBijection
  <1>10. Contract!Cardinality(new) = m
    BY <1>9 DEF Contract!Cardinality, Contract!IsFiniteSet, Cardinality, IsFiniteSet
  <1>11. Minted = L /\ Minted' = L + m
    BY <1>2, <1>5 DEF Minted
  <1>12. {Cells'[k].id : k \in {t} \X new} = (L + 1)..(L + m)
    <2>1. ASSUME NEW k \in {t} \X new
          PROVE  Cells'[k].id \in (L + 1)..(L + m)
      <3>1. PICK n \in 1..m : k = <<t, block[n]>>
        OBVIOUS
      <3> QED
        BY <1>8, <3>1
    <2>2. ASSUME NEW id \in (L + 1)..(L + m)
          PROVE  \E k \in {t} \X new : Cells'[k].id = id
      <3>1. id - L \in 1..m /\ L + (id - L) = id
        OBVIOUS
      <3>2. Cells'[<<t, block[id - L]>>].id = id
        BY <1>8, <3>1
      <3> QED
        BY <3>1, <3>2
    <2> QED
      BY <2>1, <2>2
  <1>13. \A k \in {t} \X new : Cells'[k].value \in Int
    BY <1>8
  <1> HIDE DEF new
  <1>14. Contract!AddBlock(t, new)
    BY <1>6, <1>7, <1>10, <1>11, <1>12, <1>13
       DEF Contract!AddBlock, Contract!Live, Contract!Become
  <1> QED
    BY <1>6, <1>14 DEF Contract!Next
\* Every call is a step of the contract.
LEMMA CallsImplement ==
    ASSUME IInv, IndexAssumption, CellsView, CellsView',
           NEW V \in SUBSET Vars, NEW X \in SUBSET Int, Calls(V, X)
    PROVE  [Contract!Next]_Contract!vars
  <1>1. ASSUME NEW t \in Targets, NEW v \in V, NEW x \in X, NEW deps \in SUBSET Params,
               AddCombine(t, v, x, deps)
        PROVE  Contract!Next
    <2>1. PICK i \in 1..Len(slots) : Occ(i) /\ Cell(i) = <<t, v>> /\ byCell[<<t, v>>] = Id(i)
      BY <1>1 DEF AddCombine, IInv, CellInv
    <2> DEFINE old == slots[i].data
               new == Data(t, v, old.value + x, old.deps \union deps)
               slot == [slots[i] EXCEPT !.data = new]
    <2>2. Get(Id(i)) = old /\ Id(i).index = i
      BY <2>1, GetOfId DEF IInv, Id
    <2>3. slots[i] \in Slots /\ slots[i].generation = 0 /\ old \in Entries
      BY <2>1, ElementOfSeq DEF IInv, ArenaInv, Occ, Slots
    <2>4. new \in Entries /\ new.var = old.var /\ new.target = old.target
      <3>1. old.value + x \in Int /\ old.deps \union deps \in SUBSET Params
        BY <2>3 DEF Entries
      <3>2. old.target = t /\ old.var = v
        BY <2>1 DEF Cell
      <3> QED
        BY <3>1, <3>2, DataEntry
    <2>5. slot \in Slots /\ slot.generation = 0 /\ slot.data = new
      BY <2>3, <2>4 DEF Slots
    <2>6. slots' = [slots EXCEPT ![i] = slot] /\ byCell' = byCell
      BY <1>1, <2>1, <2>2 DEF AddCombine
    <2> HIDE DEF new, slot
    <2> QED
      BY <2>1, <2>4, <2>5, <2>6, RewriteIsPut
  <1>2. ASSUME NEW t \in Targets, NEW v \in V, NEW x \in X, NEW deps \in SUBSET Params,
               AddNew(t, v, x, deps)
        PROVE  Contract!Next
    BY <1>2, AddNewIsPut
  <1>3. ASSUME NEW t \in Targets, NEW block \in Blocks(V), NEW value \in [DOMAIN block -> X],
               AddConstantUniqueBlock(t, block, value)
        PROVE  Contract!Next
    <2>1. value \in [DOMAIN block -> Int]
      OBVIOUS
    <2> QED
      BY <1>3, <2>1, BlockIsAddBlock
  <1>4. ASSUME NEW id \in Handles, NEW x \in X, NEW deps \in SUBSET Params, SetExpr(id, x, deps)
        PROVE  Contract!Next
    <2>1. PICK i \in 1..Len(slots) : id = Id(i)
      BY DEF Handles
    <2> DEFINE old == slots[i].data
               new == [old EXCEPT !.value = x, !.deps = deps]
               slot == [slots[i] EXCEPT !.data = new]
    <2>2. Occ(i) /\ Id(i).index = i
      BY <1>4, <2>1, GetOfId DEF IInv, SetExpr, Id
    <2>3. slots[i] \in Slots /\ slots[i].generation = 0 /\ old \in Entries
      BY <2>2, ElementOfSeq DEF IInv, ArenaInv, Occ, Slots
    <2>4. new \in Entries /\ new.var = old.var /\ new.target = old.target
      BY <2>3 DEF Entries
    <2>5. slot \in Slots /\ slot.generation = 0 /\ slot.data = new
      BY <2>3, <2>4 DEF Slots
    <2>6. slots' = [slots EXCEPT ![i] = slot] /\ byCell' = byCell
      BY <1>4, <2>1, <2>2 DEF SetExpr
    <2> HIDE DEF new, slot
    <2> QED
      BY <2>2, <2>4, <2>5, <2>6, RewriteIsPut
  <1>5. ASSUME NEW id \in Handles, Remove(id)
        PROVE  Contract!Next
    BY <1>5, RemoveIsRemove
  <1>6. UNCHANGED vars => UNCHANGED Contract!vars
    BY DEF vars, Contract!vars, Cells, Minted, ForCell, Get
  <1> QED
    BY <1>1, <1>2, <1>3, <1>4, <1>5, <1>6 DEF Calls, Stale, Exhausted

LEMMA InitImplements == Init => Contract!Init
  BY DEF Init, Contract!Init, Cells, Minted

\* Seen through for_cell, kernel A is a coefficient store under any calls of the
\* operations modelled (get_mut and iter_mut are not): an update keeps the
\* identity, no identity is handed out twice, a cell added again gets a new one.
THEOREM ImplementsContract ==
    ASSUME IndexAssumption
    PROVE  Spec => Contract!Spec
  <1>1. IInv => CellsView
    BY CellsViewed
  <1>2. IInv /\ CellsView /\ CellsView' /\ [Next]_vars => [Contract!Next]_Contract!vars
    <2>1. 0..MaxValue \in SUBSET Int
      BY DEF IndexAssumption
    <2>2. UNCHANGED vars => UNCHANGED Contract!vars
      BY DEF vars, Contract!vars, Cells, Minted, ForCell, Get
    <2> QED
      BY <2>1, <2>2, CallsImplement DEF Next
  <1> QED
    BY <1>1, <1>2, InitImplements, Invariance, PTL DEF Spec, Contract!Spec

-----------------------------------------------------------------------------
(***************************************************************************)
(* What a call makes for_cell answer, for one who knows the cell is there. *)
(***************************************************************************)

\* A cell that answers does so from the slot its identity names.
LEMMA SlotOfCell ==
    ASSUME IInv, IndexAssumption, NEW t, NEW v, ForCell(t, v) # NoCell
    PROVE  /\ <<t, v>> \in DOMAIN byCell
           /\ \E i \in 1..Len(slots) : /\ Occ(i) /\ Cell(i) = <<t, v>> /\ ForCell(t, v).id = i
                                       /\ Id(ForCell(t, v).id) \in Handles
                                       /\ Id(ForCell(t, v).id) = Id(i)
  <1>1. <<t, v>> \in DOMAIN byCell
    BY DEF ForCell
  <1>2. PICK i \in 1..Len(slots) : Occ(i) /\ Cell(i) = <<t, v>> /\ byCell[<<t, v>>] = Id(i)
    BY <1>1 DEF IInv, CellInv
  <1>3. ForCell(t, v).id = i
    BY <1>1, <1>2 DEF ForCell, Id
  <1> QED
    BY <1>1, <1>2, <1>3 DEF Handles

\* Two cells whose slots are told apart.
LEMMA UntouchedShows ==
    ASSUME IInv, IInv', IndexAssumption, NEW t, NEW v, NEW i \in 1..Len(slots), Cell(i) = <<t, v>>,
           Occ(i), Len(slots') = Len(slots), \A j \in 1..Len(slots) : j # i => slots'[j] = slots[j],
           DOMAIN byCell' \ {<<t, v>>} = DOMAIN byCell \ {<<t, v>>},
           \A k \in DOMAIN byCell \ {<<t, v>>} : byCell'[k] = byCell[k]
    PROVE  \A u, w : <<u, w>> # <<t, v>> => ForCell(u, w)' = ForCell(u, w)
  <1> SUFFICES ASSUME NEW u, NEW w, <<u, w>> # <<t, v>>
               PROVE  ForCell(u, w)' = ForCell(u, w)
    OBVIOUS
  <1>1. CASE <<u, w>> \notin DOMAIN byCell
    <2>1. <<u, w>> \notin DOMAIN byCell'
      BY <1>1
    <2> QED
      BY <1>1, <2>1 DEF ForCell
  <1>2. CASE <<u, w>> \in DOMAIN byCell
    <2>1. <<u, w>> \in DOMAIN byCell' /\ byCell'[<<u, w>>] = byCell[<<u, w>>]
      BY <1>2
    <2>2. PICK j \in 1..Len(slots) : Occ(j) /\ Cell(j) = <<u, w>> /\ byCell[<<u, w>>] = Id(j)
      BY <1>2 DEF IInv, CellInv
    <2>3. slots'[j] = slots[j]
      BY <2>2
    <2>4. Get(Id(j))' = Get(Id(j))
      BY <2>3 DEF Get, Id
    <2> QED
      BY <1>2, <2>1, <2>2, <2>4 DEF ForCell
  <1> QED
    BY <1>1, <1>2

\* After set_expr() of a cell's id, the cell answers the new value under it; the
\* other cells answer as before.
LEMMA SetExprShows ==
    ASSUME IInv, IInv', IndexAssumption, NEW t, NEW v, NEW x \in Int, NEW deps \in SUBSET Params,
           ForCell(t, v) # NoCell, SetExpr(Id(ForCell(t, v).id), x, deps)
    PROVE  /\ \A u, w : <<u, w>> # <<t, v>> => ForCell(u, w)' = ForCell(u, w)
           /\ ForCell(t, v)' = [id |-> ForCell(t, v).id, value |-> x]
           /\ DOMAIN byCell' = DOMAIN byCell
  <1>1. PICK i \in 1..Len(slots) : /\ Occ(i) /\ Cell(i) = <<t, v>> /\ ForCell(t, v).id = i
                                   /\ Id(ForCell(t, v).id) = Id(i)
    BY SlotOfCell
  <1>2. <<t, v>> \in DOMAIN byCell /\ byCell' = byCell /\ byCell[<<t, v>>] = Id(i)
    BY <1>1, SlotOfCell DEF SetExpr, IInv, CellInv
  <1> DEFINE slot == [[slots[i] EXCEPT !.data.value = x] EXCEPT !.data.deps = deps]
  <1>3. slots[i] \in Slots /\ slots[i].generation = 0 /\ slots[i].data \in Entries
    BY <1>1, ElementOfSeq DEF IInv, ArenaInv, Occ, Slots
  <1>4. slot \in Slots /\ slot.generation = 0 /\ slot.data.value = x
    BY <1>3 DEF Slots, Entries
  <1>5. slots' = [slots EXCEPT ![i] = slot]
    BY <1>1 DEF SetExpr, Id
  <1> HIDE DEF slot
  <1>6. /\ Len(slots') = Len(slots)
        /\ \A j \in 1..Len(slots) : slots'[j] = IF j = i THEN slot ELSE slots[j]
    BY <1>4, <1>5, SlotUpdate DEF IInv, ArenaInv, Slots
  <1>7. \A u, w : <<u, w>> # <<t, v>> => ForCell(u, w)' = ForCell(u, w)
    BY <1>1, <1>2, <1>6, UntouchedShows
  <1>8. ForCell(t, v)' = [id |-> i, value |-> x]
    <2>1. Get(Id(i))'.value = x
      BY <1>4, <1>6 DEF Get, Id
    <2> QED
      BY <1>2, <2>1 DEF ForCell, Id
  <1> QED
    BY <1>1, <1>2, <1>7, <1>8

\* After remove() of a cell's id the cell is gone; the other cells answer as before.
LEMMA RemoveShows ==
    ASSUME IInv, IInv', IndexAssumption, NEW t, NEW v,
           ForCell(t, v) # NoCell, Remove(Id(ForCell(t, v).id))
    PROVE  /\ \A u, w : <<u, w>> # <<t, v>> => ForCell(u, w)' = ForCell(u, w)
           /\ ForCell(t, v)' = NoCell
           /\ DOMAIN byCell' \subseteq DOMAIN byCell
  <1>1. PICK i \in 1..Len(slots) : /\ Occ(i) /\ Cell(i) = <<t, v>> /\ ForCell(t, v).id = i
                                   /\ Id(ForCell(t, v).id) = Id(i)
    BY SlotOfCell
  <1>2. Get(Id(i)) = slots[i].data
    BY <1>1, GetOfId DEF IInv
  <1>3. byCell' = [k \in DOMAIN byCell \ {<<t, v>>} |-> byCell[k]]
    BY <1>1, <1>2 DEF Remove, Cell
  <1>4. slots' = [slots EXCEPT ![i] = Vacated(slots[i])]
    BY <1>1 DEF Remove, Id
  <1>5. Len(slots') = Len(slots) /\ \A j \in 1..Len(slots) : j # i => slots'[j] = slots[j]
    BY <1>4 DEF IInv, ArenaInv
  <1>6. DOMAIN byCell' = DOMAIN byCell \ {<<t, v>>}
    BY <1>3
  <1>7. \A k \in DOMAIN byCell \ {<<t, v>>} : byCell'[k] = byCell[k]
    BY <1>3
  <1>8. \A u, w : <<u, w>> # <<t, v>> => ForCell(u, w)' = ForCell(u, w)
    BY <1>1, <1>5, <1>6, <1>7, UntouchedShows
  <1> QED
    BY <1>6, <1>8 DEF ForCell

\* The first block of a store: its cells answer their values under the first
\* identities.
LEMMA FirstBlockShows ==
    ASSUME IndexAssumption, Init, NEW t \in Targets, NEW V \in SUBSET Vars, NEW block \in Blocks(V),
           NEW value \in [DOMAIN block -> Int], AddConstantUniqueBlock(t, block, value)
    PROVE  /\ \A i \in 1..Len(block) : ForCell(t, block[i])' = [id |-> i, value |-> value[i]]
           /\ DOMAIN byCell' \subseteq {t} \X Vars
  <1>1. PICK m \in Nat : /\ block \in [1..m -> Vars] /\ Len(block) = m
                         /\ \A i, j \in 1..m : i # j => block[i] # block[j]
    BY BlockShape
  <1>2. slots = <<>> /\ Len(slots) = 0 /\ DOMAIN byCell = {}
    BY DEF Init
  <1> DEFINE new == {block[k] : k \in 1..m}
             id(v) == Id(0 + CHOOSE k \in 1..m : block[k] = v)
             made == [k \in 1..m |-> Occupied(Data(t, block[k], value[k], {}))]
  <1>3. byCell' = [k \in DOMAIN byCell \union ({t} \X new) |-> IF k \in {t} \X new THEN id(k[2]) ELSE byCell[k]]
    BY <1>1, <1>2 DEF AddConstantUniqueBlock
  <1>4. DOMAIN byCell' = {t} \X new
    BY <1>2, <1>3
  <1>5. ASSUME NEW i \in 1..m
        PROVE  <<t, block[i]>> \in DOMAIN byCell' /\ byCell'[<<t, block[i]>>] = Id(i)
    <2>1. <<t, block[i]>> \in {t} \X new
      OBVIOUS
    <2>2. (CHOOSE k \in 1..m : block[k] = block[i]) = i
      BY <1>1
    <2>3. byCell'[<<t, block[i]>>] = Id(0 + CHOOSE k \in 1..m : block[k] = block[i])
      BY <1>3, <2>1
    <2>4. 0 + i = i
      OBVIOUS
    <2> QED
      BY <1>4, <2>1, <2>2, <2>3, <2>4
  <1>6. ASSUME NEW i \in 1..m
        PROVE  slots'[i] = Occupied(Data(t, block[i], value[i], {}))
    <2>1. slots' = slots \o made
      BY <1>1 DEF AddConstantUniqueBlock
    <2>2. value \in [1..m -> Int]
      BY <1>1
    <2>3. made \in [1..m -> Slots]
      BY <1>1, <2>2, DataEntry
    <2>4. slots \in Seq(Slots)
      BY <1>2
    <2>5. \A k \in 1..m : (slots \o made)[Len(slots) + k] = made[k]
      <3> HIDE DEF made
      <3> QED
        BY <1>1, <2>3, <2>4, AppendedSlots
    <2>6. slots'[0 + i] = made[i]
      BY <1>2, <2>1, <2>5
    <2> QED
      BY <2>6
  <1>7. ASSUME NEW i \in 1..m
        PROVE  ForCell(t, block[i])' = [id |-> i, value |-> value[i]]
    <2>1. slots'[i].generation = 0 /\ slots'[i].data.value = value[i]
      <3>1. slots'[i] = [generation |-> 0, data |-> Data(t, block[i], value[i], {})]
        BY <1>6 DEF Occupied
      <3>2. Data(t, block[i], value[i], {}).value = value[i]
        BY DEF Data
      <3> QED
        BY <3>1, <3>2
    <2>2. Get(Id(i))'.value = value[i]
      BY <2>1 DEF Get, Id
    <2> QED
      BY <1>5, <2>2 DEF ForCell, Id
  <1>8. new \subseteq Vars
    BY <1>1
  <1> HIDE DEF new
  <1> QED
    BY <1>1, <1>4, <1>7, <1>8
=============================================================================
