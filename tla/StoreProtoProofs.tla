--------------------------- MODULE StoreProtoProofs ---------------------------
(***************************************************************************)
(* Proofs about store-proto, in four parts.  Kernel B by itself, for every *)
(* set of targets and expressions, every finite set of variables and any   *)
(* number of identities: its inductive invariant, its two iterations, and  *)
(* that it is a coefficient store.  Then the kernels under the drivers:    *)
(* what holds of a kernel under any calls within its contract holds there  *)
(* too, because each of a driver's steps is such a call or leaves the      *)
(* kernel alone; kernel A's own proofs are those of                        *)
(* CoefficientIndexProofs, taken by instance.  Then kernel C, and what the *)
(* drivers count, add up and assert (DriversAlwaysAgree).                  *)
(***************************************************************************)
EXTENDS StoreProto, FiniteSetTheorems, SequenceTheorems, WellFoundedInduction, TLAPS

Locations == [place : {"none", "packed", "overlay"}, at : Nat]

-----------------------------------------------------------------------------
(***************************************************************************)
(* Cells, positions and sequences.                                         *)
(***************************************************************************)
LEMMA CellTyped ==
    ASSUME NEW t \in Targets, NEW v \in Vars, NEW id \in Nat, NEW x \in Int,
           NEW deps \in SUBSET Params, NEW gone \in BOOLEAN
    PROVE  /\ Cell(t, v, id, x, deps, gone) \in OverlayCells
           /\ Cell(t, v, id, x, deps, gone).target = t
           /\ Cell(t, v, id, x, deps, gone).var = v
           /\ Cell(t, v, id, x, deps, gone).id = id
           /\ Cell(t, v, id, x, deps, gone).value = x
           /\ Cell(t, v, id, x, deps, gone).deps = deps
           /\ Cell(t, v, id, x, deps, gone).tombstone = gone
  BY DEF Cell, OverlayCells

\* Changing one element, and adding one.
LEMMA ElementUpdate ==
    ASSUME NEW S, NEW s \in Seq(S), NEW i \in 1..Len(s), NEW e \in S
    PROVE  /\ [s EXCEPT ![i] = e] \in Seq(S)
           /\ Len([s EXCEPT ![i] = e]) = Len(s)
           /\ \A j \in 1..Len(s) : [s EXCEPT ![i] = e][j] = IF j = i THEN e ELSE s[j]
  BY ExceptSeq

LEMMA ElementAppend ==
    ASSUME NEW S, NEW s \in Seq(S), NEW e \in S
    PROVE  /\ Append(s, e) \in Seq(S)
           /\ Len(Append(s, e)) = Len(s) + 1
           /\ Append(s, e)[Len(s) + 1] = e
           /\ \A j \in 1..Len(s) : Append(s, e)[j] = s[j]
           /\ \A j \in 1..(Len(s) + 1) : j \in 1..Len(s) \/ j = Len(s) + 1
           /\ Len(s) + 1 \notin 1..Len(s) /\ Len(s) \in Nat
  BY AppendProperties, LenProperties

LEMMA AppendedIsNotEmpty ==
    ASSUME NEW S, NEW s \in Seq(S), NEW e \in S
    PROVE  Append(s, e) \in Seq(S) /\ Append(s, e) # <<>>
  <1>1. Append(s, e) \in Seq(S) /\ Len(Append(s, e)) = Len(s) + 1 /\ Len(s) \in Nat
    BY AppendProperties, LenProperties
  <1>2. Len(Append(s, e)) # 0
    BY <1>1
  <1> QED
    BY <1>1, <1>2, EmptySeq

\* Appending several.
LEMMA Extended ==
    ASSUME NEW S, NEW s \in Seq(S), NEW n \in Nat, NEW f \in [1..n -> S]
    PROVE  /\ s \o f \in Seq(S) /\ Len(s \o f) = Len(s) + n /\ Len(s) \in Nat
           /\ \A i \in 1..Len(s) : (s \o f)[i] = s[i]
           /\ \A i \in 1..n : (s \o f)[Len(s) + i] = f[i]
           /\ 1..Len(s) \subseteq 1..(Len(s) + n)
           /\ \A j \in 1..(Len(s) + n) : j \notin 1..Len(s) => j - Len(s) \in 1..n
  <1>1. f \in Seq(S) /\ Len(f) = n /\ Len(s) \in Nat
    BY SeqDef, LenProperties
  <1>2. /\ s \o f \in Seq(S) /\ Len(s \o f) = Len(s) + n
        /\ \A i \in 1..(Len(s) + n) : (s \o f)[i] = IF i <= Len(s) THEN s[i] ELSE f[i - Len(s)]
    BY <1>1, ConcatProperties
  <1>3. ASSUME NEW i \in 1..n
        PROVE  (s \o f)[Len(s) + i] = f[i]
    <2>1. /\ Len(s) + i \in 1..(Len(s) + n) /\ ~ (Len(s) + i <= Len(s))
          /\ Len(s) + i - Len(s) = i
      BY <1>1
    <2> QED
      BY <1>2, <2>1
  <1>4. \A i \in 1..Len(s) : (s \o f)[i] = s[i]
    BY <1>1, <1>2
  <1> QED
    BY <1>1, <1>2, <1>3, <1>4

\* A block: a finite sequence of distinct variables.
LEMMA BlockTyped ==
    ASSUME NEW V \in SUBSET Vars, NEW block \in SortedBlocks(V)
    PROVE  /\ Len(block) \in Nat /\ DOMAIN block = 1..Len(block)
           /\ \A i \in 1..Len(block) : block[i] \in V
           /\ \A i, j \in 1..Len(block) : block[i] = block[j] => i = j
  <1>1. Cardinality(V) \in Nat
    BY StoreAssumption, FS_Subset, FS_CardinalityType DEF StoreAssumption
  <1>2. PICK n \in 1..Cardinality(V) : block \in [1..n -> V]
    BY DEF SortedBlocks
  <1>3. n \in Nat /\ DOMAIN block = 1..n /\ Len(block) = n
    <2>1. n \in Nat
      BY <1>1, <1>2
    <2>2. block \in Seq(V)
      BY <1>2, <2>1, SeqDef
    <2> QED
      BY <1>2, <2>1, <2>2, LenProperties
  <1>4. \A i, j \in 1..n : i < j => block[i] < block[j]
    BY <1>3 DEF SortedBlocks
  <1>5. \A i \in 1..n : block[i] \in V /\ block[i] \in Nat
    BY <1>2, StoreAssumption DEF StoreAssumption
  <1>6. ASSUME NEW i \in 1..n, NEW j \in 1..n, block[i] = block[j]
        PROVE  i = j
    <2>1. i < j \/ j < i \/ i = j
      BY <1>3
    <2> QED
      BY <1>4, <1>5, <1>6, <2>1
  <1> QED
    BY <1>3, <1>5, <1>6

\* base_position finds the one visible position of a cell, if there is one.
LEMMA PositionFound ==
    ASSUME SliceInv, NEW t \in Targets, NEW v
    PROVE  /\ BasePosition(t, v) # 0 =>
                /\ BasePosition(t, v) \in PositionsOf(t)
                /\ BasePosition(t, v) \in 1..Len(base)
                /\ base[BasePosition(t, v)].var = v
                /\ Visible(BasePosition(t, v))
           /\ \A pos \in PositionsOf(t) :
                 base[pos].var = v /\ Visible(pos) => BasePosition(t, v) = pos /\ pos # 0
  <1>1. PositionsOf(t) \subseteq 1..Len(base)
    BY DEF SliceInv
  <1>2. \A pos \in Hits(t, v) : pos \in PositionsOf(t) /\ base[pos].var = v /\ Visible(pos) /\ pos # 0
    BY <1>1 DEF Hits
  <1>3. \A p, q \in Hits(t, v) : p = q
    BY DEF Hits, SliceInv
  <1>4. Hits(t, v) # {} => BasePosition(t, v) \in Hits(t, v)
    BY DEF BasePosition
  <1>5. Hits(t, v) = {} => BasePosition(t, v) = 0
    BY DEF BasePosition
  <1>6. ASSUME NEW pos \in PositionsOf(t), base[pos].var = v, Visible(pos)
        PROVE  BasePosition(t, v) = pos /\ pos # 0
    <2>1. pos \in Hits(t, v)
      BY <1>6 DEF Hits
    <2> QED
      BY <1>2, <1>3, <1>4, <2>1
  <1> QED
    BY <1>1, <1>2, <1>4, <1>5, <1>6

\* Positions of the base are as they were when the base is.
LEMMA SameBase ==
    ASSUME UNCHANGED baseVars
    PROVE  /\ base' = base
           /\ \A t \in Targets : PositionsOf(t)' = PositionsOf(t)
           /\ SliceInv => SliceInv'
  BY DEF baseVars, PositionsOf, SlicePositions, SliceInv

\* Overlay slots and their keys.
LEMMA SlotTyped ==
    ASSUME IInv, NEW oi \in 1..Len(overlay)
    PROVE  /\ overlay[oi] \in OverlayCells
           /\ overlay[oi].target \in Targets /\ overlay[oi].var \in Vars /\ overlay[oi].id \in Nat
           /\ overlay[oi].value \in Int /\ overlay[oi].deps \in SUBSET Params
           /\ overlay[oi].tombstone \in BOOLEAN
  <1>1. overlay[oi] \in OverlayCells
    BY ElementOfSeq DEF IInv, TypeOK
  <1> QED
    BY <1>1 DEF OverlayCells

-----------------------------------------------------------------------------
(***************************************************************************)
(* The two ways the overlay changes.                                       *)
(***************************************************************************)

\* A slot gets another cell of the same key.
LEMMA InPlace ==
    ASSUME IInv, NEW oi \in 1..Len(overlay), NEW cell \in OverlayCells,
           cell.target = overlay[oi].target, cell.var = overlay[oi].var,
           overlay' = [overlay EXCEPT ![oi] = cell],
           UNCHANGED <<baseVars, shadowed, dead, byCell, byTarget>>
    PROVE  /\ overlay' \in Seq(OverlayCells) /\ Len(overlay') = Len(overlay)
           /\ \A j \in 1..Len(overlay) : overlay'[j] = IF j = oi THEN cell ELSE overlay[j]
           /\ SliceInv' /\ OverlayInv' /\ BitInv'
  <1>1. /\ overlay' \in Seq(OverlayCells) /\ Len(overlay') = Len(overlay)
        /\ \A j \in 1..Len(overlay) : overlay'[j] = IF j = oi THEN cell ELSE overlay[j]
    BY ElementUpdate DEF IInv, TypeOK
  <1>2. \A j \in 1..Len(overlay) : overlay'[j].target = overlay[j].target /\ overlay'[j].var = overlay[j].var
    BY <1>1
  <1>3. OverlayInv'
    BY <1>1, <1>2 DEF IInv, OverlayInv, OverlayKey
  <1>4. SliceInv'
    BY SameBase DEF IInv
  <1>5. BitInv'
    BY SameBase DEF IInv, BitInv, Visible
  <1> QED
    BY <1>1, <1>3, <1>4, <1>5

\* A slot is added for a cell the overlay does not have.
LEMMA Pushed ==
    ASSUME IInv, NEW cell \in OverlayCells, <<cell.target, cell.var>> \notin DOMAIN byCell,
           PushOverlay(cell)
    PROVE  /\ overlay' \in Seq(OverlayCells) /\ Len(overlay') = Len(overlay) + 1
           /\ Len(overlay) \in Nat
           /\ overlay'[Len(overlay) + 1] = cell
           /\ \A j \in 1..Len(overlay) : overlay'[j] = overlay[j]
           /\ \A j \in 1..Len(overlay') : j \in 1..Len(overlay) \/ j = Len(overlay) + 1
           /\ Len(overlay) + 1 \notin 1..Len(overlay)
           /\ DOMAIN byCell' = DOMAIN byCell \union {<<cell.target, cell.var>>}
           /\ byCell'[<<cell.target, cell.var>>] = Len(overlay) + 1
           /\ \A k \in DOMAIN byCell : byCell'[k] = byCell[k]
           /\ byVar' \in [Vars -> Seq(Nat)] /\ byTarget' \in [Targets -> Seq(Nat)]
           /\ OverlayInv'
  <1>0. PICK n : n = Len(overlay) + 1
    OBVIOUS
  <1> DEFINE k == <<cell.target, cell.var>>
  <1>1. /\ overlay' \in Seq(OverlayCells) /\ Len(overlay') = n /\ overlay'[n] = cell
        /\ \A j \in 1..Len(overlay) : overlay'[j] = overlay[j]
        /\ \A j \in 1..Len(overlay') : j \in 1..Len(overlay) \/ j = n
        /\ n \notin 1..Len(overlay) /\ Len(overlay) \in Nat
    BY <1>0, ElementAppend DEF IInv, TypeOK, PushOverlay
  <1>2. cell.target \in Targets /\ cell.var \in Vars
    BY DEF OverlayCells
  <1>3. /\ DOMAIN byCell' = DOMAIN byCell \union {k}
        /\ byCell'[k] = n
        /\ \A j \in DOMAIN byCell : byCell'[j] = byCell[j]
    BY <1>0 DEF PushOverlay
  <1>4. /\ byTarget' = [byTarget EXCEPT ![cell.target] = Append(@, n)]
        /\ byVar' = [byVar EXCEPT ![cell.var] = Append(@, n)]
    BY <1>0 DEF PushOverlay
  <1>5. byTarget \in [Targets -> Seq(Nat)] /\ byVar \in [Vars -> Seq(Nat)] /\ n \in Nat
    BY <1>0, <1>1 DEF IInv, TypeOK
  <1>6. /\ byTarget' \in [Targets -> Seq(Nat)] /\ byVar' \in [Vars -> Seq(Nat)]
    <2>1. Append(byTarget[cell.target], n) \in Seq(Nat) /\ Append(byVar[cell.var], n) \in Seq(Nat)
      BY <1>2, <1>5, AppendProperties
    <2> QED
      BY <1>2, <1>4, <1>5, <2>1
  <1>7. \A t \in Targets : byTarget[t] # <<>> \/ t = cell.target => byTarget'[t] # <<>>
    <2>1. Append(byTarget[cell.target], n) # <<>>
      BY <1>2, <1>5, AppendedIsNotEmpty
    <2> QED
      BY <1>2, <1>4, <1>5, <2>1
  <1> HIDE DEF k
  <1>8. OverlayInv'
    <2>1. DOMAIN byCell' \subseteq Keys
      BY <1>2, <1>3 DEF IInv, OverlayInv, Keys, k
    <2>2. OverlayKey(n)' = k /\ \A j \in 1..Len(overlay) : OverlayKey(j)' = OverlayKey(j)
      BY <1>1 DEF OverlayKey, k
    <2>3. n \in 1..Len(overlay') /\ 1..Len(overlay) \subseteq 1..Len(overlay')
      BY <1>0, <1>1
    <2>4. ASSUME NEW j \in DOMAIN byCell'
          PROVE  byCell'[j] \in 1..Len(overlay') /\ OverlayKey(byCell[j])' = j
      BY <1>1, <1>3, <2>2, <2>3 DEF IInv, OverlayInv, OverlayKey
    <2>5. ASSUME NEW j \in 1..Len(overlay')
          PROVE  /\ OverlayKey(j)' \in DOMAIN byCell' /\ byCell'[OverlayKey(j)'] = j
                 /\ byTarget'[overlay'[j].target] # <<>>
      <3>1. CASE j = n
        BY <1>1, <1>2, <1>3, <1>7, <2>2, <3>1
      <3>2. CASE j \in 1..Len(overlay)
        <4>1. overlay'[j].target \in Targets /\ overlay'[j] = overlay[j]
          BY <1>1, <3>2, SlotTyped
        <4> QED
          BY <1>3, <1>7, <2>2, <3>2, <4>1 DEF IInv, OverlayInv
      <3> QED
        BY <1>1, <3>1, <3>2
    <2> QED
      BY <2>1, <2>4, <2>5 DEF OverlayInv, OverlayKey
  <1> QED
    BY <1>0, <1>1, <1>3, <1>6, <1>8 DEF k

\* ... as slot n, for the cell of <<t, v>>.
GrownBy(n, cell, t, v) ==
    /\ overlay' \in Seq(OverlayCells) /\ Len(overlay') = n /\ overlay'[n] = cell
    /\ \A j \in 1..Len(overlay) : overlay'[j] = overlay[j]
    /\ \A j \in 1..Len(overlay') : j \in 1..Len(overlay) \/ j = n
    /\ 1..Len(overlay) \subseteq 1..n /\ n \in 1..n /\ n \notin 1..Len(overlay)
    /\ DOMAIN byCell' = DOMAIN byCell \union {<<t, v>>} /\ byCell'[<<t, v>>] = n
    /\ \A k \in DOMAIN byCell : byCell'[k] = byCell[k]
    /\ byVar' \in [Vars -> Seq(Nat)] /\ byTarget' \in [Targets -> Seq(Nat)]
    /\ OverlayInv'

LEMMA PushedAt ==
    ASSUME IInv, NEW t, NEW v, NEW n, n = Len(overlay) + 1,
           NEW cell \in OverlayCells, cell.target = t, cell.var = v,
           <<t, v>> \notin DOMAIN byCell, PushOverlay(cell)
    PROVE  GrownBy(n, cell, t, v)
  <1>1. <<cell.target, cell.var>> = <<t, v>>
    OBVIOUS
  <1>2. <<cell.target, cell.var>> \notin DOMAIN byCell
    BY <1>1
  <1>3. /\ overlay' \in Seq(OverlayCells) /\ Len(overlay') = n /\ overlay'[n] = cell
        /\ \A j \in 1..Len(overlay) : overlay'[j] = overlay[j]
        /\ \A j \in 1..Len(overlay') : j \in 1..Len(overlay) \/ j = n
        /\ n \notin 1..Len(overlay) /\ Len(overlay) \in Nat
        /\ DOMAIN byCell' = DOMAIN byCell \union {<<cell.target, cell.var>>}
        /\ byCell'[<<cell.target, cell.var>>] = n
        /\ \A k \in DOMAIN byCell : byCell'[k] = byCell[k]
        /\ byVar' \in [Vars -> Seq(Nat)] /\ byTarget' \in [Targets -> Seq(Nat)]
        /\ OverlayInv'
    BY <1>2, Pushed
  <1>4. 1..Len(overlay) \subseteq 1..n /\ n \in 1..n
    BY <1>3
  <1> QED
    BY <1>1, <1>3, <1>4 DEF GrownBy

\* A new live slot enters the lists of its parameters.
LEMMA PushedLists ==
    ASSUME IInv, NEW n, NEW deps \in SUBSET Params, n \notin 1..Len(overlay),
           byParam' = [p \in Params |-> IF p \in deps THEN byParam[p] \union {n} ELSE byParam[p]],
           \A j \in 1..Len(overlay) : overlay'[j] = overlay[j] /\ (LiveSlot(j)' <=> LiveSlot(j)),
           \A j \in 1..Len(overlay') : j \in 1..Len(overlay) \/ j = n,
           overlay'[n].deps = deps
    PROVE  ParamListsExact'
  <1>1. \A p \in Params : n \notin byParam[p]
    BY DEF IInv, TypeOK
  <1>2. \A p \in Params : byParam'[p] = IF p \in deps THEN byParam[p] \union {n} ELSE byParam[p]
    OBVIOUS
  <1>3. ASSUME NEW oi \in 1..Len(overlay'), LiveSlot(oi)', NEW p \in Params
        PROVE  oi \in byParam'[p] <=> p \in overlay'[oi].deps
    <2>1. CASE oi = n
      BY <1>1, <1>2, <2>1
    <2>2. CASE oi \in 1..Len(overlay)
      <3>1. LiveSlot(oi) /\ overlay'[oi] = overlay[oi] /\ oi # n
        BY <1>3, <2>2
      <3>2. oi \in byParam[p] <=> p \in overlay[oi].deps
        BY <2>2, <3>1 DEF IInv, ParamListsExact, LiveSlot
      <3>3. oi \in byParam'[p] <=> oi \in byParam[p]
        BY <1>2, <3>1
      <3> QED
        BY <3>1, <3>2, <3>3
    <2> QED
      BY <2>1, <2>2
  <1> QED
    BY <1>3 DEF ParamListsExact, LiveSlot

-----------------------------------------------------------------------------
(***************************************************************************)
(* The invariant.                                                          *)
(***************************************************************************)
LEMMA InitIInv == Init => IInv
  <1> SUFFICES ASSUME Init PROVE IInv
    OBVIOUS
  <1>1. /\ Len(base) = 0 /\ Len(overlay) = 0 /\ Len(slices) = 0 /\ Len(identity) = 0
        /\ DOMAIN byCell = {}
    BY DEF Init
  <1>2. TypeOK
    BY <1>1, EmptySeq DEF Init, TypeOK
  <1>3. SliceInv
    BY <1>1 DEF Init, SliceInv, PositionsOf
  <1>4. OverlayInv
    BY <1>1 DEF OverlayInv
  <1>5. BitInv
    BY <1>1 DEF Init, BitInv, PositionsOf
  <1>6. IdInv
    BY <1>1 DEF IdInv
  <1>7. ParamListsExact
    BY <1>1 DEF ParamListsExact
  <1> QED
    BY <1>2, <1>3, <1>4, <1>5, <1>6, <1>7 DEF IInv

\* update() of a live overlay cell.
LEMMA UpdateOverlayStep ==
    ASSUME IInv, NEW t \in Targets, NEW v \in Vars, NEW x \in Int, NEW deps \in SUBSET Params,
           UpdateOverlay(t, v, x, deps)
    PROVE  IInv'
  <1>1. PICK oi \in 1..Len(overlay) : oi = byCell[<<t, v>>] /\ LiveSlot(oi)
    BY DEF UpdateOverlay, IInv, OverlayInv, LiveSlot
  <1> DEFINE cell == [[overlay[oi] EXCEPT !.value = x] EXCEPT !.deps = deps]
  <1>2. /\ cell \in OverlayCells /\ cell.target = overlay[oi].target /\ cell.var = overlay[oi].var
        /\ cell.id = overlay[oi].id /\ cell.tombstone = overlay[oi].tombstone /\ cell.deps = deps
    BY SlotTyped DEF OverlayCells
  <1>3. /\ overlay' = [overlay EXCEPT ![oi] = cell]
        /\ byParam' = [p \in Params |-> IF p \in deps THEN byParam[p] \union {oi} ELSE byParam[p] \ {oi}]
        /\ UNCHANGED <<identity, baseVars, shadowed, dead, byCell, byVar, byTarget, indexed>>
    BY <1>1 DEF UpdateOverlay, ReindexParams
  <1> HIDE DEF cell
  <1>4. /\ overlay' \in Seq(OverlayCells) /\ Len(overlay') = Len(overlay)
        /\ \A j \in 1..Len(overlay) : overlay'[j] = IF j = oi THEN cell ELSE overlay[j]
        /\ SliceInv' /\ OverlayInv' /\ BitInv'
    BY <1>2, <1>3, InPlace
  <1>5. TypeOK'
    <2>1. byParam' \in [Params -> SUBSET (1..Len(overlay'))]
      BY <1>3, <1>4 DEF IInv, TypeOK
    <2> QED
      BY <1>3, <1>4, <2>1 DEF IInv, TypeOK, baseVars
  <1>6. \A j \in 1..Len(overlay) : overlay'[j].id = overlay[j].id /\ (LiveSlot(j)' <=> LiveSlot(j))
    BY <1>2, <1>4 DEF LiveSlot
  <1>7. IdInv'
    <2>1. base' = base /\ identity' = identity /\ \A pos : Visible(pos)' <=> Visible(pos)
      BY <1>3 DEF baseVars, Visible
    <2>2. \A j \in 1..Len(overlay') : LiveSlot(j)' =>
             overlay'[j].id \in 1..Len(identity') /\ identity'[overlay'[j].id] = InOverlay(j)
      BY <1>4, <1>6, <2>1 DEF IInv, IdInv
    <2>3. ASSUME NEW id \in 1..Len(identity)
          PROVE  Resolves(id)'
      <3>1. Resolves(id)
        BY DEF IInv, IdInv
      <3> QED
        BY <1>4, <1>6, <2>1, <3>1 DEF Resolves
    <2>4. \A pos \in 1..Len(base') : Visible(pos)' =>
            base'[pos].id \in 1..Len(identity') /\ identity'[base'[pos].id] = InPacked(pos)
      BY <2>1 DEF IInv, IdInv
    <2> QED
      BY <2>1, <2>2, <2>3, <2>4 DEF IdInv, InOverlay, InPacked
  <1>8. ParamListsExact'
    BY <1>2, <1>3, <1>4, <1>6 DEF IInv, ParamListsExact, LiveSlot
  <1> QED
    BY <1>4, <1>5, <1>7, <1>8 DEF IInv

\* Identities that hold data are held once.
LEMMA OneHolder ==
    ASSUME IInv
    PROVE  /\ \A pos, q \in 1..Len(base) :
                 Visible(pos) /\ Visible(q) /\ base[pos].id = base[q].id => pos = q
           /\ \A pos \in 1..Len(base), oi \in 1..Len(overlay) :
                 Visible(pos) /\ LiveSlot(oi) => base[pos].id # overlay[oi].id
           /\ \A oi, j \in 1..Len(overlay) :
                 LiveSlot(oi) /\ LiveSlot(j) /\ overlay[oi].id = overlay[j].id => oi = j
  <1>1. \A pos \in 1..Len(base) : Visible(pos) => identity[base[pos].id] = InPacked(pos)
    BY DEF IInv, IdInv
  <1>2. \A oi \in 1..Len(overlay) : LiveSlot(oi) => identity[overlay[oi].id] = InOverlay(oi)
    BY DEF IInv, IdInv
  <1>3. \A i, j : /\ InPacked(i) # InOverlay(j)
                  /\ InPacked(i) = InPacked(j) => i = j
                  /\ InOverlay(i) = InOverlay(j) => i = j
    <2>1. \A i : InPacked(i).at = i /\ InOverlay(i).at = i
      BY DEF InPacked, InOverlay
    <2>2. \A i : InPacked(i).place = "packed" /\ InOverlay(i).place = "overlay"
      BY DEF InPacked, InOverlay
    <2> QED
      BY <2>1, <2>2
  <1>4. ASSUME NEW pos \in 1..Len(base), NEW q \in 1..Len(base),
               Visible(pos), Visible(q), base[pos].id = base[q].id
        PROVE  pos = q
    BY <1>1, <1>3, <1>4
  <1>5. ASSUME NEW pos \in 1..Len(base), NEW oi \in 1..Len(overlay), Visible(pos), LiveSlot(oi)
        PROVE  base[pos].id # overlay[oi].id
    BY <1>1, <1>2, <1>3, <1>5
  <1>6. ASSUME NEW oi \in 1..Len(overlay), NEW j \in 1..Len(overlay),
               LiveSlot(oi), LiveSlot(j), overlay[oi].id = overlay[j].id
        PROVE  oi = j
    BY <1>2, <1>3, <1>6
  <1> QED
    BY <1>4, <1>5, <1>6

\* update() of a tombstone.
LEMMA UpdateTombstoneStep ==
    ASSUME IInv, NEW t \in Targets, NEW v \in Vars, NEW x \in Int, NEW deps \in SUBSET Params,
           UpdateTombstone(t, v, x, deps)
    PROVE  IInv'
  <1>1. PICK oi \in 1..Len(overlay) : oi = byCell[<<t, v>>] /\ ~ LiveSlot(oi)
    BY DEF UpdateTombstone, IInv, OverlayInv, LiveSlot
  <1>2. overlay[oi].target = t /\ overlay[oi].var = v
    BY <1>1 DEF UpdateTombstone, IInv, OverlayInv, OverlayKey
  <1>3. PICK n : n = Len(identity) + 1
    OBVIOUS
  <1>4. identity \in Seq(Locations) /\ InOverlay(oi) \in Locations /\ n \in Nat
    BY <1>3 DEF IInv, TypeOK, Locations, InOverlay
  <1> DEFINE cell == Cell(t, v, n, x, deps, FALSE)
  <1>5. /\ cell \in OverlayCells /\ cell.target = overlay[oi].target /\ cell.var = overlay[oi].var
        /\ cell.id = n /\ cell.tombstone = FALSE /\ cell.deps = deps
    BY <1>2, <1>4 DEF Cell, OverlayCells
  <1>6. /\ overlay' = [overlay EXCEPT ![oi] = cell]
        /\ byParam' = [p \in Params |-> IF p \in deps THEN byParam[p] \union {oi} ELSE byParam[p] \ {oi}]
        /\ identity' = Append(identity, InOverlay(oi))
        /\ UNCHANGED <<baseVars, shadowed, dead, byCell, byVar, byTarget, indexed>>
    BY <1>1, <1>3 DEF UpdateTombstone, ReindexParams, Allocate
  <1> HIDE DEF cell
  <1>7. /\ overlay' \in Seq(OverlayCells) /\ Len(overlay') = Len(overlay)
        /\ \A j \in 1..Len(overlay) : overlay'[j] = IF j = oi THEN cell ELSE overlay[j]
        /\ SliceInv' /\ OverlayInv' /\ BitInv'
    BY <1>5, <1>6, InPlace
  <1>8. /\ identity' \in Seq(Locations) /\ Len(identity') = n
        /\ identity'[n] = InOverlay(oi)
        /\ \A id \in 1..Len(identity) : identity'[id] = identity[id]
        /\ \A id \in 1..Len(identity') : id \in 1..Len(identity) \/ id = n
        /\ 1..Len(identity) \subseteq 1..n /\ n \in 1..n
    BY <1>3, <1>4, <1>6, ElementAppend
  <1>9. TypeOK'
    <2>1. byParam' \in [Params -> SUBSET (1..Len(overlay'))]
      BY <1>6, <1>7 DEF IInv, TypeOK
    <2> QED
      BY <1>6, <1>7, <1>8, <2>1 DEF IInv, TypeOK, baseVars, Locations
  <1>10. /\ \A j \in 1..Len(overlay) : j # oi =>
              overlay'[j] = overlay[j] /\ (LiveSlot(j)' <=> LiveSlot(j))
         /\ LiveSlot(oi)' /\ overlay'[oi].id = n /\ overlay'[oi].deps = deps
    BY <1>5, <1>7 DEF LiveSlot
  <1>11. IdInv'
    <2>1. base' = base /\ \A pos : Visible(pos)' <=> Visible(pos)
      BY <1>6 DEF baseVars, Visible
    <2>2. ASSUME NEW j \in 1..Len(overlay'), LiveSlot(j)'
          PROVE  overlay'[j].id \in 1..Len(identity') /\ identity'[overlay'[j].id] = InOverlay(j)
      <3>1. CASE j = oi
        BY <1>8, <1>10, <3>1
      <3>2. CASE j # oi
        BY <1>7, <1>8, <1>10, <2>2, <3>2 DEF IInv, IdInv
      <3> QED
        BY <3>1, <3>2
    <2>3. ASSUME NEW id \in 1..Len(identity')
          PROVE  Resolves(id)'
      <3>1. CASE id = n
        BY <1>7, <1>8, <1>10, <3>1 DEF Resolves, InOverlay
      <3>2. CASE id \in 1..Len(identity)
        <4>1. Resolves(id)
          BY <3>2 DEF IInv, IdInv
        <4> QED
          BY <1>1, <1>7, <1>8, <1>10, <2>1, <3>2, <4>1 DEF Resolves
      <3> QED
        BY <1>8, <3>1, <3>2
    <2>4. \A pos \in 1..Len(base') : Visible(pos)' =>
            base'[pos].id \in 1..Len(identity') /\ identity'[base'[pos].id] = InPacked(pos)
      BY <1>8, <2>1 DEF IInv, IdInv
    <2> QED
      BY <2>1, <2>2, <2>3, <2>4 DEF IdInv, InOverlay, InPacked
  <1>12. ParamListsExact'
    BY <1>6, <1>7, <1>10 DEF IInv, ParamListsExact, LiveSlot
  <1> QED
    BY <1>7, <1>9, <1>11, <1>12 DEF IInv

\* remove() of a live overlay cell.
LEMMA RemoveOverlayStep ==
    ASSUME IInv, NEW t \in Targets, NEW v \in Vars, RemoveOverlay(t, v)
    PROVE  IInv'
  <1>1. PICK oi \in 1..Len(overlay) : oi = byCell[<<t, v>>] /\ LiveSlot(oi)
    BY DEF RemoveOverlay, IInv, OverlayInv, LiveSlot
  <1>2. PICK gone : gone = overlay[oi].id
    OBVIOUS
  <1>3. gone \in 1..Len(identity) /\ identity[gone] = InOverlay(oi)
    BY <1>1, <1>2 DEF IInv, IdInv
  <1>4. identity \in Seq(Locations) /\ Gone \in Locations
    BY DEF IInv, TypeOK, Locations, Gone
  <1> DEFINE cell == [overlay[oi] EXCEPT !.tombstone = TRUE]
  <1>5. /\ cell \in OverlayCells /\ cell.target = overlay[oi].target /\ cell.var = overlay[oi].var
        /\ cell.tombstone = TRUE
    BY SlotTyped DEF OverlayCells
  <1>6. /\ overlay' = [overlay EXCEPT ![oi] = cell]
        /\ identity' = [identity EXCEPT ![gone] = Gone]
        /\ UNCHANGED <<baseVars, shadowed, dead, byCell, byVar, byTarget, byParam, indexed>>
    BY <1>1, <1>2 DEF RemoveOverlay
  <1> HIDE DEF cell
  <1>7. /\ overlay' \in Seq(OverlayCells) /\ Len(overlay') = Len(overlay)
        /\ \A j \in 1..Len(overlay) : overlay'[j] = IF j = oi THEN cell ELSE overlay[j]
        /\ SliceInv' /\ OverlayInv' /\ BitInv'
    BY <1>5, <1>6, InPlace
  <1>8. /\ identity' \in Seq(Locations) /\ Len(identity') = Len(identity)
        /\ \A id \in 1..Len(identity) : identity'[id] = IF id = gone THEN Gone ELSE identity[id]
    BY <1>3, <1>4, <1>6, ElementUpdate
  <1>9. TypeOK'
    BY <1>6, <1>7, <1>8 DEF IInv, TypeOK, baseVars, Locations
  <1>10. /\ \A j \in 1..Len(overlay) : j # oi =>
              overlay'[j] = overlay[j] /\ (LiveSlot(j)' <=> LiveSlot(j))
         /\ ~ LiveSlot(oi)'
    BY <1>5, <1>7 DEF LiveSlot
  <1>11. IdInv'
    <2>1. base' = base /\ \A pos : Visible(pos)' <=> Visible(pos)
      BY <1>6 DEF baseVars, Visible
    <2>2. ASSUME NEW j \in 1..Len(overlay'), LiveSlot(j)'
          PROVE  overlay'[j].id \in 1..Len(identity') /\ identity'[overlay'[j].id] = InOverlay(j)
      <3>1. j # oi /\ j \in 1..Len(overlay) /\ LiveSlot(j) /\ overlay'[j] = overlay[j]
        BY <1>7, <1>10, <2>2
      <3>2. overlay[j].id # gone
        BY <1>1, <1>2, <3>1, OneHolder
      <3>3. overlay[j].id \in 1..Len(identity) /\ identity[overlay[j].id] = InOverlay(j)
        BY <3>1 DEF IInv, IdInv
      <3> QED
        BY <1>8, <3>1, <3>2, <3>3
    <2>3. ASSUME NEW id \in 1..Len(identity)
          PROVE  Resolves(id)'
      <3>1. Resolves(id)
        BY DEF IInv, IdInv
      <3>2. CASE id = gone
        BY <1>8, <3>2 DEF Resolves
      <3>3. CASE id # gone
        BY <1>2, <1>7, <1>8, <1>10, <2>1, <3>1, <3>3 DEF Resolves
      <3> QED
        BY <3>2, <3>3
    <2>4. ASSUME NEW pos \in 1..Len(base), Visible(pos)
          PROVE  base[pos].id \in 1..Len(identity') /\ identity'[base[pos].id] = InPacked(pos)
      <3>1. base[pos].id # gone
        BY <1>1, <1>2, <2>4, OneHolder
      <3> QED
        BY <1>8, <2>4, <3>1 DEF IInv, IdInv
    <2> QED
      BY <1>8, <2>1, <2>2, <2>3, <2>4 DEF IdInv, InOverlay, InPacked
  <1>12. ParamListsExact'
    BY <1>6, <1>7, <1>10 DEF IInv, ParamListsExact, LiveSlot
  <1> QED
    BY <1>7, <1>9, <1>11, <1>12 DEF IInv

\* The overlay takes over a packed cell: exactly its position gets hidden.
LEMMA HideOne ==
    ASSUME IInv, NEW t \in Targets, NEW v \in Vars, NEW pos,
           pos = BasePosition(t, v), pos # 0, UNCHANGED baseVars,
           DOMAIN byCell' = DOMAIN byCell \union {<<t, v>>},
           \/ dead' = dead \union {pos} /\ shadowed' = shadowed
           \/ dead' = dead /\ shadowed' = shadowed \union {pos}
    PROVE  BitInv' /\ \A q : Visible(q)' <=> Visible(q) /\ q # pos
  <1>1. /\ pos \in PositionsOf(t) /\ pos \in 1..Len(base) /\ base[pos].var = v /\ Visible(pos)
        /\ pos \notin dead /\ pos \notin shadowed
    BY PositionFound DEF IInv, Visible
  <1>2. \A q : Visible(q)' <=> Visible(q) /\ q # pos
    BY DEF Visible
  <1>3. base' = base /\ \A u \in Targets : PositionsOf(u)' = PositionsOf(u)
    BY SameBase
  <1>4. /\ dead' \subseteq 1..Len(base') /\ shadowed' \subseteq 1..Len(base')
        /\ dead' \cap shadowed' = {}
    <2>1. /\ dead \subseteq 1..Len(base) /\ shadowed \subseteq 1..Len(base)
          /\ dead \cap shadowed = {}
      BY DEF IInv, BitInv
    <2> HIDE DEF IInv
    <2>2. CASE dead' = dead \union {pos} /\ shadowed' = shadowed
      BY <1>1, <1>3, <2>1, <2>2
    <2>3. CASE dead' = dead /\ shadowed' = shadowed \union {pos}
      BY <1>1, <1>3, <2>1, <2>3
    <2> QED
      BY <2>2, <2>3
  <1>5. ASSUME NEW u \in Targets, NEW q \in PositionsOf(u)
        PROVE  Visible(q)' <=> <<u, base[q].var>> \notin DOMAIN byCell'
    <2>1. <<u, base[q].var>> = <<t, v>> <=> q = pos
      BY <1>1 DEF IInv, SliceInv
    <2>2. Visible(q) <=> <<u, base[q].var>> \notin DOMAIN byCell
      BY DEF IInv, BitInv
    <2> QED
      BY <1>2, <2>1, <2>2
  <1> QED
    BY <1>2, <1>3, <1>4, <1>5 DEF BitInv

\* The overlay takes a cell that has no visible position: none gets hidden.
LEMMA HideNone ==
    ASSUME IInv, NEW t \in Targets, NEW v \in Vars, BasePosition(t, v) = 0,
           <<t, v>> \notin DOMAIN byCell, UNCHANGED <<baseVars, dead, shadowed>>,
           DOMAIN byCell' = DOMAIN byCell \union {<<t, v>>}
    PROVE  BitInv' /\ \A q : Visible(q)' <=> Visible(q)
  <1>1. \A q : Visible(q)' <=> Visible(q)
    BY DEF Visible
  <1>2. base' = base /\ \A u \in Targets : PositionsOf(u)' = PositionsOf(u)
    BY SameBase
  <1>3. ASSUME NEW u \in Targets, NEW q \in PositionsOf(u)
        PROVE  Visible(q) <=> <<u, base[q].var>> \notin DOMAIN byCell'
    <2>1. Visible(q) <=> <<u, base[q].var>> \notin DOMAIN byCell
      BY DEF IInv, BitInv
    <2>2. <<u, base[q].var>> # <<t, v>>
      BY <2>1, PositionFound DEF IInv
    <2> QED
      BY <2>1, <2>2
  <1> QED
    BY <1>1, <1>2, <1>3 DEF IInv, BitInv

\* update() of a packed cell.
LEMMA UpdatePackedStep ==
    ASSUME IInv, NEW t \in Targets, NEW v \in Vars, NEW x \in Int, NEW deps \in SUBSET Params,
           UpdatePacked(t, v, x, deps)
    PROVE  IInv'
  <1>1. PICK pos : pos = BasePosition(t, v)
    OBVIOUS
  <1>2. pos # 0 /\ <<t, v>> \notin DOMAIN byCell
    BY <1>1 DEF UpdatePacked
  <1>3. pos \in PositionsOf(t) /\ pos \in 1..Len(base) /\ base[pos].var = v /\ Visible(pos)
    BY <1>1, <1>2, PositionFound DEF IInv
  <1>4. PICK kept : kept = base[pos].id
    OBVIOUS
  <1>5. kept \in 1..Len(identity) /\ identity[kept] = InPacked(pos)
    BY <1>3, <1>4 DEF IInv, IdInv
  <1>6. identity[kept] # Gone /\ kept \in Nat
    BY <1>5 DEF InPacked, Gone
  <1>7. PICK n : n = Len(overlay) + 1
    OBVIOUS
  <1>8. Len(overlay) \in Nat /\ n \in Nat
    BY <1>7, LenProperties DEF IInv, TypeOK
  <1>9. identity \in Seq(Locations) /\ InOverlay(n) \in Locations
    BY <1>8 DEF IInv, TypeOK, Locations, InOverlay
  <1>10. PICK cell \in OverlayCells :
            /\ cell = Cell(t, v, kept, x, deps, FALSE) /\ cell.target = t /\ cell.var = v
            /\ cell.id = kept /\ ~ cell.tombstone /\ cell.deps = deps
    <2> DEFINE cell == Cell(t, v, kept, x, deps, FALSE)
    <2>1. /\ cell \in OverlayCells /\ cell.target = t /\ cell.var = v
          /\ cell.id = kept /\ ~ cell.tombstone /\ cell.deps = deps
      BY <1>6 DEF Cell, OverlayCells
    <2> HIDE DEF cell
    <2> QED
      BY <2>1 DEF cell
  <1>11. /\ shadowed' = shadowed \union {pos}
         /\ identity' = [identity EXCEPT ![kept] = InOverlay(n)]
         /\ byParam' = [p \in Params |-> IF p \in deps THEN byParam[p] \union {n} ELSE byParam[p]]
         /\ PushOverlay(cell)
         /\ UNCHANGED <<baseVars, dead, indexed>>
    BY <1>1, <1>4, <1>6, <1>7, <1>10 DEF UpdatePacked, IndexParams
  <1>12. /\ overlay' \in Seq(OverlayCells) /\ Len(overlay') = n /\ overlay'[n] = cell
         /\ \A j \in 1..Len(overlay) : overlay'[j] = overlay[j]
         /\ \A j \in 1..Len(overlay') : j \in 1..Len(overlay) \/ j = n
         /\ 1..Len(overlay) \subseteq 1..n /\ n \in 1..n /\ n \notin 1..Len(overlay)
         /\ DOMAIN byCell' = DOMAIN byCell \union {<<t, v>>}
         /\ byVar' \in [Vars -> Seq(Nat)] /\ byTarget' \in [Targets -> Seq(Nat)]
         /\ OverlayInv'
    <2>1. GrownBy(n, cell, t, v)
      BY <1>2, <1>7, <1>10, <1>11, PushedAt
    <2> QED
      BY <2>1 DEF GrownBy
  <1>13. BitInv' /\ \A q : Visible(q)' <=> Visible(q) /\ q # pos
    BY <1>1, <1>2, <1>11, <1>12, HideOne
  <1>14. SliceInv'
    BY <1>11, SameBase DEF IInv
  <1>15. /\ identity' \in Seq(Locations) /\ Len(identity') = Len(identity)
         /\ \A id \in 1..Len(identity) : identity'[id] = IF id = kept THEN InOverlay(n) ELSE identity[id]
    BY <1>5, <1>9, <1>11, ElementUpdate
  <1>16. TypeOK'
    <2>1. byParam' \in [Params -> SUBSET (1..Len(overlay'))]
      BY <1>11, <1>12 DEF IInv, TypeOK
    <2> QED
      BY <1>11, <1>12, <1>15, <2>1 DEF IInv, TypeOK, baseVars, Locations
  <1>17. /\ \A j \in 1..Len(overlay) : LiveSlot(j)' <=> LiveSlot(j)
         /\ LiveSlot(n)' /\ overlay'[n].id = kept /\ overlay'[n].deps = deps
    BY <1>10, <1>12 DEF LiveSlot
  <1>18. IdInv'
    <2>1. base' = base
      BY <1>11 DEF baseVars
    <2>2. ASSUME NEW j \in 1..Len(overlay'), LiveSlot(j)'
          PROVE  overlay'[j].id \in 1..Len(identity') /\ identity'[overlay'[j].id] = InOverlay(j)
      <3>1. CASE j = n
        BY <1>5, <1>15, <1>17, <3>1
      <3>2. CASE j \in 1..Len(overlay)
        <4>1. overlay'[j] = overlay[j] /\ LiveSlot(j)
          BY <1>12, <1>17, <2>2, <3>2
        <4>2. overlay[j].id # kept
          BY <1>3, <1>4, <3>2, <4>1, OneHolder
        <4>3. overlay[j].id \in 1..Len(identity) /\ identity[overlay[j].id] = InOverlay(j)
          BY <3>2, <4>1 DEF IInv, IdInv
        <4> QED
          BY <1>15, <4>1, <4>2, <4>3
      <3> QED
        BY <1>12, <3>1, <3>2
    <2>3. ASSUME NEW id \in 1..Len(identity)
          PROVE  Resolves(id)'
      <3>1. Resolves(id)
        BY DEF IInv, IdInv
      <3>2. CASE id = kept
        <4>1. identity'[id] = InOverlay(n) /\ InOverlay(n).at = n
          BY <1>15, <3>2 DEF InOverlay
        <4> QED
          BY <1>12, <1>17, <3>2, <4>1 DEF Resolves, InOverlay
      <3>3. CASE id # kept
        <4>1. identity'[id] = identity[id]
          BY <1>15, <3>3
        <4> QED
          BY <1>4, <1>12, <1>13, <1>17, <2>1, <3>1, <3>3, <4>1 DEF Resolves
      <3> QED
        BY <3>2, <3>3
    <2>4. ASSUME NEW q \in 1..Len(base), Visible(q)'
          PROVE  base[q].id \in 1..Len(identity') /\ identity'[base[q].id] = InPacked(q)
      <3>1. Visible(q) /\ q # pos
        BY <1>13, <2>4
      <3>2. base[q].id # kept
        BY <1>3, <1>4, <3>1, OneHolder
      <3> QED
        BY <1>15, <3>1, <3>2 DEF IInv, IdInv
    <2> QED
      BY <1>15, <2>1, <2>2, <2>3, <2>4 DEF IdInv, InOverlay, InPacked
  <1>19. ParamListsExact'
    BY <1>11, <1>12, <1>17, PushedLists
  <1> QED
    BY <1>12, <1>13, <1>14, <1>16, <1>18, <1>19 DEF IInv

\* update() of a cell that does not exist.
LEMMA UpdateCreateStep ==
    ASSUME IInv, NEW t \in Targets, NEW v \in Vars, NEW x \in Int, NEW deps \in SUBSET Params,
           UpdateCreate(t, v, x, deps)
    PROVE  IInv'
  <1>1. <<t, v>> \notin DOMAIN byCell /\ BasePosition(t, v) = 0
    BY DEF UpdateCreate
  <1>2. PICK n : n = Len(overlay) + 1
    OBVIOUS
  <1>3. PICK id : id = Len(identity) + 1
    OBVIOUS
  <1>4. n \in Nat /\ id \in Nat
    BY <1>2, <1>3, LenProperties DEF IInv, TypeOK
  <1>5. identity \in Seq(Locations) /\ InOverlay(n) \in Locations
    BY <1>4 DEF IInv, TypeOK, Locations, InOverlay
  <1>6. PICK cell \in OverlayCells :
            /\ cell = Cell(t, v, id, x, deps, FALSE) /\ cell.target = t /\ cell.var = v
            /\ cell.id = id /\ ~ cell.tombstone /\ cell.deps = deps
    <2> DEFINE cell == Cell(t, v, id, x, deps, FALSE)
    <2>1. /\ cell \in OverlayCells /\ cell.target = t /\ cell.var = v
          /\ cell.id = id /\ ~ cell.tombstone /\ cell.deps = deps
      BY <1>4 DEF Cell, OverlayCells
    <2> HIDE DEF cell
    <2> QED
      BY <2>1 DEF cell
  <1>7. /\ identity' = Append(identity, InOverlay(n))
        /\ byParam' = [p \in Params |-> IF p \in deps THEN byParam[p] \union {n} ELSE byParam[p]]
        /\ PushOverlay(cell)
        /\ UNCHANGED <<baseVars, shadowed, dead, indexed>>
    BY <1>2, <1>3, <1>6 DEF UpdateCreate, IndexParams, Allocate
  <1>8. /\ overlay' \in Seq(OverlayCells) /\ Len(overlay') = n /\ overlay'[n] = cell
        /\ \A j \in 1..Len(overlay) : overlay'[j] = overlay[j]
        /\ \A j \in 1..Len(overlay') : j \in 1..Len(overlay) \/ j = n
        /\ 1..Len(overlay) \subseteq 1..n /\ n \in 1..n /\ n \notin 1..Len(overlay)
        /\ DOMAIN byCell' = DOMAIN byCell \union {<<t, v>>}
        /\ byVar' \in [Vars -> Seq(Nat)] /\ byTarget' \in [Targets -> Seq(Nat)]
        /\ OverlayInv'
    <2>1. GrownBy(n, cell, t, v)
      BY <1>1, <1>2, <1>6, <1>7, PushedAt
    <2> QED
      BY <2>1 DEF GrownBy
  <1>9. BitInv' /\ \A q : Visible(q)' <=> Visible(q)
    BY <1>1, <1>7, <1>8, HideNone
  <1>10. SliceInv'
    BY <1>7, SameBase DEF IInv
  <1>11. /\ identity' \in Seq(Locations) /\ Len(identity') = id
         /\ identity'[id] = InOverlay(n)
         /\ \A i \in 1..Len(identity) : identity'[i] = identity[i]
         /\ \A i \in 1..Len(identity') : i \in 1..Len(identity) \/ i = id
         /\ 1..Len(identity) \subseteq 1..id /\ id \in 1..id
    BY <1>3, <1>4, <1>5, <1>7, ElementAppend
  <1>12. TypeOK'
    <2>1. byParam' \in [Params -> SUBSET (1..Len(overlay'))]
      BY <1>7, <1>8 DEF IInv, TypeOK
    <2> QED
      BY <1>7, <1>8, <1>11, <2>1 DEF IInv, TypeOK, baseVars, Locations
  <1>13. /\ \A j \in 1..Len(overlay) : LiveSlot(j)' <=> LiveSlot(j)
         /\ LiveSlot(n)' /\ overlay'[n].id = id /\ overlay'[n].deps = deps
    BY <1>6, <1>8 DEF LiveSlot
  <1>14. IdInv'
    <2>1. base' = base
      BY <1>7 DEF baseVars
    <2>2. ASSUME NEW j \in 1..Len(overlay'), LiveSlot(j)'
          PROVE  overlay'[j].id \in 1..Len(identity') /\ identity'[overlay'[j].id] = InOverlay(j)
      <3>1. CASE j = n
        BY <1>11, <1>13, <3>1
      <3>2. CASE j \in 1..Len(overlay)
        BY <1>8, <1>11, <1>13, <2>2, <3>2 DEF IInv, IdInv
      <3> QED
        BY <1>8, <3>1, <3>2
    <2>3. ASSUME NEW i \in 1..Len(identity')
          PROVE  Resolves(i)'
      <3>1. CASE i = id
        <4>1. identity'[i] = InOverlay(n) /\ InOverlay(n).at = n
          BY <1>11, <3>1 DEF InOverlay
        <4> QED
          BY <1>8, <1>13, <3>1, <4>1 DEF Resolves, InOverlay
      <3>2. CASE i \in 1..Len(identity)
        <4>1. Resolves(i) /\ identity'[i] = identity[i]
          BY <1>11, <3>2 DEF IInv, IdInv
        <4> QED
          BY <1>8, <1>9, <1>13, <2>1, <4>1 DEF Resolves
      <3> QED
        BY <1>11, <3>1, <3>2
    <2>4. ASSUME NEW q \in 1..Len(base), Visible(q)'
          PROVE  base[q].id \in 1..Len(identity') /\ identity'[base[q].id] = InPacked(q)
      BY <1>9, <1>11, <2>4 DEF IInv, IdInv
    <2> QED
      BY <2>1, <2>2, <2>3, <2>4 DEF IdInv, InOverlay, InPacked
  <1>15. ParamListsExact'
    BY <1>7, <1>8, <1>13, PushedLists
  <1> QED
    BY <1>8, <1>9, <1>10, <1>12, <1>14, <1>15 DEF IInv

\* remove() of a packed cell.
LEMMA RemovePackedStep ==
    ASSUME IInv, NEW t \in Targets, NEW v \in Vars, RemovePacked(t, v)
    PROVE  IInv'
  <1>1. PICK pos : pos = BasePosition(t, v)
    OBVIOUS
  <1>2. pos # 0 /\ <<t, v>> \notin DOMAIN byCell
    BY <1>1 DEF RemovePacked
  <1>3. pos \in PositionsOf(t) /\ pos \in 1..Len(base) /\ base[pos].var = v /\ Visible(pos)
    BY <1>1, <1>2, PositionFound DEF IInv
  <1>4. PICK gone : gone = base[pos].id
    OBVIOUS
  <1>5. gone \in 1..Len(identity) /\ gone \in Nat
    BY <1>3, <1>4 DEF IInv, IdInv
  <1>6. PICK n : n = Len(overlay) + 1
    OBVIOUS
  <1>7. identity \in Seq(Locations) /\ Gone \in Locations
    BY DEF IInv, TypeOK, Locations, Gone
  <1> DEFINE cell == Cell(t, v, gone, 0, {}, TRUE)
  <1>8. /\ cell \in OverlayCells /\ cell.target = t /\ cell.var = v /\ cell.tombstone = TRUE
    BY <1>5 DEF Cell, OverlayCells
  <1>9. /\ dead' = dead \union {pos}
        /\ identity' = [identity EXCEPT ![gone] = Gone]
        /\ PushOverlay(cell)
        /\ UNCHANGED <<baseVars, shadowed, byParam, indexed>>
    BY <1>1, <1>4 DEF RemovePacked
  <1> HIDE DEF cell
  <1>10. /\ overlay' \in Seq(OverlayCells) /\ Len(overlay') = n /\ overlay'[n] = cell
         /\ \A j \in 1..Len(overlay) : overlay'[j] = overlay[j]
         /\ \A j \in 1..Len(overlay') : j \in 1..Len(overlay) \/ j = n
         /\ 1..Len(overlay) \subseteq 1..n /\ n \in 1..n /\ n \notin 1..Len(overlay)
         /\ DOMAIN byCell' = DOMAIN byCell \union {<<t, v>>}
         /\ byVar' \in [Vars -> Seq(Nat)] /\ byTarget' \in [Targets -> Seq(Nat)]
         /\ OverlayInv'
    <2>1. GrownBy(n, cell, t, v)
      BY <1>2, <1>6, <1>8, <1>9, PushedAt
    <2> QED
      BY <2>1 DEF GrownBy
  <1>11. BitInv' /\ \A q : Visible(q)' <=> Visible(q) /\ q # pos
    BY <1>1, <1>2, <1>9, <1>10, HideOne
  <1>12. SliceInv'
    BY <1>9, SameBase DEF IInv
  <1>13. /\ identity' \in Seq(Locations) /\ Len(identity') = Len(identity)
         /\ \A id \in 1..Len(identity) : identity'[id] = IF id = gone THEN Gone ELSE identity[id]
    BY <1>5, <1>7, <1>9, ElementUpdate
  <1>14. TypeOK'
    <2>1. byParam' \in [Params -> SUBSET (1..Len(overlay'))]
      BY <1>9, <1>10 DEF IInv, TypeOK
    <2> QED
      BY <1>9, <1>10, <1>13, <2>1 DEF IInv, TypeOK, baseVars, Locations
  <1>15. (\A j \in 1..Len(overlay) : LiveSlot(j)' <=> LiveSlot(j)) /\ ~ LiveSlot(n)'
    BY <1>8, <1>10 DEF LiveSlot
  <1>16. IdInv'
    <2>1. base' = base
      BY <1>9 DEF baseVars
    <2>2. ASSUME NEW j \in 1..Len(overlay'), LiveSlot(j)'
          PROVE  overlay'[j].id \in 1..Len(identity') /\ identity'[overlay'[j].id] = InOverlay(j)
      <3>1. j \in 1..Len(overlay) /\ overlay'[j] = overlay[j] /\ LiveSlot(j)
        BY <1>10, <1>15, <2>2
      <3>2. overlay[j].id # gone
        BY <1>3, <1>4, <3>1, OneHolder
      <3>3. overlay[j].id \in 1..Len(identity) /\ identity[overlay[j].id] = InOverlay(j)
        BY <3>1 DEF IInv, IdInv
      <3> QED
        BY <1>13, <3>1, <3>2, <3>3
    <2>3. ASSUME NEW id \in 1..Len(identity)
          PROVE  Resolves(id)'
      <3>1. Resolves(id)
        BY DEF IInv, IdInv
      <3>2. CASE id = gone
        BY <1>13, <3>2 DEF Resolves
      <3>3. CASE id # gone
        <4>1. identity'[id] = identity[id]
          BY <1>13, <3>3
        <4> QED
          BY <1>4, <1>10, <1>11, <1>15, <2>1, <3>1, <3>3, <4>1 DEF Resolves
      <3> QED
        BY <3>2, <3>3
    <2>4. ASSUME NEW q \in 1..Len(base), Visible(q)'
          PROVE  base[q].id \in 1..Len(identity') /\ identity'[base[q].id] = InPacked(q)
      <3>1. Visible(q) /\ q # pos
        BY <1>11, <2>4
      <3>2. base[q].id # gone
        BY <1>3, <1>4, <3>1, OneHolder
      <3> QED
        BY <1>13, <3>1, <3>2 DEF IInv, IdInv
    <2> QED
      BY <1>13, <2>1, <2>2, <2>3, <2>4 DEF IdInv, InOverlay, InPacked
  <1>17. ParamListsExact'
    BY <1>9, <1>10, <1>15 DEF IInv, ParamListsExact, LiveSlot
  <1> QED
    BY <1>10, <1>11, <1>12, <1>14, <1>16, <1>17 DEF IInv

\* What build_constant_block() leaves, for a fresh target t: after b positions
\* and m identities, n more of each, all of t's slice.
BlockBuilt(t, block, value, b, m, n) ==
    /\ UNCHANGED <<shadowed, dead, overlayVars, indexed>>
    /\ byTarget[t] = <<>>
    /\ Len(base') = b + n /\ Len(identity') = m + n
    /\ \A i \in 1..b : base'[i] = base[i]
    /\ \A i \in 1..n : /\ base'[b + i].var = block[i] /\ base'[b + i].id = m + i
                      /\ base'[b + i].value = value[i]
    /\ \A i \in 1..m : identity'[i] = identity[i]
    /\ \A i \in 1..n : identity'[m + i] = InPacked(b + i)
    /\ PositionsOf(t)' = (b + 1)..(b + n) /\ PositionsOf(t) = {}
    /\ \A u \in Targets : u # t => PositionsOf(u)' = PositionsOf(u)
    /\ \A u \in Targets : PositionsOf(u) \subseteq 1..b
    /\ \A u \in Targets : directory'[u] \in 0..Len(slices')
    /\ \A q \in (b + 1)..(b + n) : q \notin 1..b /\ q - b \in 1..n /\ b + (q - b) = q

LEMMA BlockIsBuilt ==
    ASSUME IInv, NEW t \in Targets, NEW V \in SUBSET Vars, NEW block \in SortedBlocks(V),
           NEW value \in [DOMAIN block -> Int], BuildConstantBlock(t, block, value)
    PROVE  TypeOK' /\ BlockBuilt(t, block, value, Len(base), Len(identity), Len(block))
  <1>1. PICK n \in Nat : n = Len(block)
    BY BlockTyped
  <1>2. PICK b \in Nat : b = Len(base)
    BY LenProperties DEF IInv, TypeOK
  <1>3. PICK m \in Nat : m = Len(identity)
    BY LenProperties DEF IInv, TypeOK
  <1>4. PICK cells : cells = [k \in 1..n |-> [var |-> block[k], value |-> value[k], id |-> m + k]]
    OBVIOUS
  <1>5. PICK locs : locs = [k \in 1..n |-> InPacked(b + k)]
    OBVIOUS
  <1>6. /\ cells \in [1..n -> BaseCells]
        /\ \A k \in 1..n : cells[k].var = block[k] /\ cells[k].id = m + k /\ cells[k].value = value[k]
    <2>1. \A k \in 1..n : block[k] \in Vars /\ value[k] \in Int
      BY <1>1, BlockTyped
    <2> QED
      BY <1>4, <2>1 DEF BaseCells
  <1>7. locs \in [1..n -> Locations] /\ \A k \in 1..n : locs[k] = InPacked(b + k)
    BY <1>5 DEF Locations, InPacked
  <1>8. /\ identity' = identity \o locs
        /\ base' = base \o cells
        /\ slices' = Append(slices, [target |-> t, start |-> b + 1, len |-> n])
        /\ directory' = [directory EXCEPT ![t] = Len(slices) + 1]
        /\ directory[t] = 0 /\ byTarget[t] = <<>>
        /\ UNCHANGED <<shadowed, dead, overlayVars, indexed>>
    BY <1>1, <1>2, <1>3, <1>4, <1>5 DEF BuildConstantBlock
  <1>9. /\ base' \in Seq(BaseCells) /\ Len(base') = b + n
        /\ \A i \in 1..b : base'[i] = base[i]
        /\ \A i \in 1..n : base'[b + i] = cells[i]
        /\ \A j \in 1..(b + n) : j \notin 1..b => j - b \in 1..n
    <2>1. base \in Seq(BaseCells)
      BY DEF IInv, TypeOK
    <2> QED
      BY <1>2, <1>6, <1>8, <2>1, Extended
  <1>10. /\ identity' \in Seq(Locations) /\ Len(identity') = m + n
         /\ \A i \in 1..m : identity'[i] = identity[i]
         /\ \A i \in 1..n : identity'[m + i] = locs[i]
         /\ \A j \in 1..(m + n) : j \notin 1..m => j - m \in 1..n
    <2>1. identity \in Seq(Locations)
      BY DEF IInv, TypeOK, Locations
    <2>2. locs \in [1..n -> Locations] /\ identity' = identity \o locs
      BY <1>7, <1>8
    <2>3. /\ identity' \in Seq(Locations) /\ Len(identity') = m + n
          /\ \A i \in 1..m : identity'[i] = identity[i]
          /\ \A i \in 1..n : identity'[m + i] = locs[i]
      BY <1>3, <2>1, <2>2, Extended
    <2> QED
      BY <2>3
  <1>11. /\ slices' \in Seq(TargetSlices) /\ Len(slices') = Len(slices) + 1 /\ Len(slices) \in Nat
         /\ slices'[Len(slices) + 1] = [target |-> t, start |-> b + 1, len |-> n]
         /\ \A j \in 1..Len(slices) : slices'[j] = slices[j]
    <2>1. slices \in Seq(TargetSlices) /\ [target |-> t, start |-> b + 1, len |-> n] \in TargetSlices
      BY DEF IInv, TypeOK, TargetSlices
    <2> QED
      BY <1>8, <2>1, ElementAppend
  <1>12. TypeOK'
    <2>1. directory' \in [Targets -> Nat]
      BY <1>8, <1>11 DEF IInv, TypeOK
    <2> QED
      BY <1>8, <1>9, <1>10, <1>11, <2>1 DEF IInv, TypeOK, overlayVars, Locations
  <1>13. /\ PositionsOf(t)' = (b + 1)..(b + n)
         /\ PositionsOf(t) = {}
         /\ \A u \in Targets : u # t => PositionsOf(u)' = PositionsOf(u)
         /\ \A u \in Targets : directory'[u] \in 0..Len(slices')
    <2>1. \A u \in Targets : directory[u] \in 0..Len(slices)
      BY DEF IInv, SliceInv
    <2>2. /\ directory'[t] = Len(slices) + 1
          /\ \A u \in Targets : u # t => directory'[u] = directory[u]
      BY <1>8 DEF IInv, TypeOK
    <2>3. PositionsOf(t)' = (b + 1)..(b + n)
      BY <1>11, <2>2 DEF PositionsOf, SlicePositions
    <2>4. \A u \in Targets : u # t => PositionsOf(u)' = PositionsOf(u)
      BY <1>11, <2>1, <2>2 DEF PositionsOf
    <2> QED
      BY <1>8, <1>11, <2>1, <2>2, <2>3, <2>4 DEF PositionsOf
  <1>14. \A u \in Targets : PositionsOf(u) \subseteq 1..b
    BY <1>2 DEF IInv, SliceInv
  <1>15. \A q \in (b + 1)..(b + n) : q \notin 1..b /\ q - b \in 1..n /\ b + (q - b) = q
    OBVIOUS
  <1>16. \A i \in 1..n : /\ base'[b + i].var = block[i] /\ base'[b + i].id = m + i
                         /\ base'[b + i].value = value[i]
    BY <1>6, <1>9
  <1>17. \A i \in 1..n : identity'[m + i] = InPacked(b + i)
    BY <1>7, <1>10
  <1>18. BlockBuilt(t, block, value, b, m, n)
    BY <1>8, <1>9, <1>10, <1>13, <1>14, <1>15, <1>16, <1>17 DEF BlockBuilt
  <1> QED
    BY <1>1, <1>2, <1>3, <1>12, <1>18

\* build_constant_block() for a fresh target.
LEMMA BuildBlockStep ==
    ASSUME IInv, NEW t \in Targets, NEW V \in SUBSET Vars, NEW block \in SortedBlocks(V),
           NEW value \in [DOMAIN block -> Int], BuildConstantBlock(t, block, value)
    PROVE  IInv'
  <1>1. PICK n \in Nat : n = Len(block)
    BY BlockTyped
  <1>2. PICK b \in Nat : b = Len(base)
    BY LenProperties DEF IInv, TypeOK
  <1>3. PICK m \in Nat : m = Len(identity)
    BY LenProperties DEF IInv, TypeOK
  <1>4. TypeOK' /\ BlockBuilt(t, block, value, b, m, n)
    BY <1>1, <1>2, <1>3, BlockIsBuilt
  <1>5. /\ UNCHANGED <<shadowed, dead, overlayVars, indexed>>
        /\ byTarget[t] = <<>>
        /\ Len(base') = b + n /\ Len(identity') = m + n
        /\ \A i \in 1..b : base'[i] = base[i]
        /\ \A i \in 1..m : identity'[i] = identity[i]
        /\ \A i \in 1..n : identity'[m + i] = InPacked(b + i)
    BY <1>4 DEF BlockBuilt
  <1>6. /\ PositionsOf(t)' = (b + 1)..(b + n) /\ PositionsOf(t) = {}
        /\ \A u \in Targets : u # t => PositionsOf(u)' = PositionsOf(u)
        /\ \A u \in Targets : directory'[u] \in 0..Len(slices')
        /\ \A u \in Targets : PositionsOf(u) \subseteq 1..b
    BY <1>4 DEF BlockBuilt
  <1>7. \A q \in (b + 1)..(b + n) : /\ q \notin 1..b /\ q - b \in 1..n
                                    /\ base'[q].var = block[q - b] /\ base'[q].id = m + (q - b)
    <2> SUFFICES ASSUME NEW q \in (b + 1)..(b + n)
                 PROVE  /\ q \notin 1..b /\ q - b \in 1..n
                        /\ base'[q].var = block[q - b] /\ base'[q].id = m + (q - b)
      OBVIOUS
    <2>1. q \notin 1..b /\ q - b \in 1..n /\ b + (q - b) = q
      OBVIOUS
    <2>2. base'[b + (q - b)].var = block[q - b] /\ base'[b + (q - b)].id = m + (q - b)
      BY <1>4, <2>1 DEF BlockBuilt
    <2> QED
      BY <2>1, <2>2
  <1>8. SliceInv'
    <2>1. \A u \in Targets : PositionsOf(u)' \subseteq 1..Len(base')
      BY <1>5, <1>6
    <2>2. \A pos \in 1..Len(base') : \E u \in Targets : pos \in PositionsOf(u)'
      <3> SUFFICES ASSUME NEW pos \in 1..(b + n)
                   PROVE  \E u \in Targets : pos \in PositionsOf(u)'
        BY <1>5
      <3>1. CASE pos \in 1..b
        BY <1>2, <1>6, <3>1 DEF IInv, SliceInv
      <3>2. CASE pos \in (b + 1)..(b + n)
        BY <1>6, <3>2
      <3> QED
        BY <3>1, <3>2
    <2>3. \A u, w \in Targets : u # w => PositionsOf(u)' \cap PositionsOf(w)' = {}
      <3>1. \A u \in Targets : u # t => PositionsOf(u)' \cap PositionsOf(t)' = {}
        BY <1>6, <1>7
      <3>2. \A u, w \in Targets : u # w => PositionsOf(u) \cap PositionsOf(w) = {}
        BY DEF IInv, SliceInv
      <3> QED
        BY <1>6, <3>1, <3>2
    <2>4. ASSUME NEW u \in Targets, NEW p \in PositionsOf(u)', NEW q \in PositionsOf(u)',
                 base'[p].var = base'[q].var
          PROVE  p = q
      <3>1. CASE u = t
        <4>1. /\ p - b \in 1..n /\ q - b \in 1..n
              /\ base'[p].var = block[p - b] /\ base'[q].var = block[q - b]
          BY <1>6, <1>7, <3>1
        <4>2. p - b = q - b
          BY <1>1, <2>4, <4>1, BlockTyped
        <4> QED
          BY <1>6, <3>1, <4>2
      <3>2. CASE u # t
        <4>1. p \in PositionsOf(u) /\ q \in PositionsOf(u) /\ base'[p] = base[p] /\ base'[q] = base[q]
          BY <1>5, <1>6, <3>2
        <4> QED
          BY <2>4, <4>1 DEF IInv, SliceInv
      <3> QED
        BY <3>1, <3>2
    <2> QED
      BY <1>6, <2>1, <2>2, <2>3, <2>4 DEF SliceInv
  <1>9. OverlayInv'
    BY <1>5 DEF IInv, OverlayInv, OverlayKey, overlayVars
  <1>10. \A q : Visible(q)' <=> Visible(q)
    BY <1>5 DEF Visible
  <1>11. dead \subseteq 1..b /\ shadowed \subseteq 1..b /\ dead \cap shadowed = {}
    BY <1>2 DEF IInv, BitInv
  <1>12. BitInv'
    <2>1. byCell' = byCell
      BY <1>5 DEF overlayVars
    <2>2. \A v : <<t, v>> \notin DOMAIN byCell
      <3> SUFFICES ASSUME NEW v, <<t, v>> \in DOMAIN byCell PROVE FALSE
        OBVIOUS
      <3>1. byCell[<<t, v>>] \in 1..Len(overlay) /\ overlay[byCell[<<t, v>>]].target = t
        BY DEF IInv, OverlayInv, OverlayKey
      <3> QED
        BY <1>5, <3>1 DEF IInv, OverlayInv
    <2>3. ASSUME NEW u \in Targets, NEW q \in PositionsOf(u)'
          PROVE  Visible(q) <=> <<u, base'[q].var>> \notin DOMAIN byCell
      <3>1. CASE u = t
        <4>1. Visible(q)
          BY <1>6, <1>7, <1>11, <3>1 DEF Visible
        <4> QED
          BY <2>2, <3>1, <4>1
      <3>2. CASE u # t
        <4>1. q \in PositionsOf(u) /\ base'[q] = base[q]
          BY <1>5, <1>6, <3>2
        <4> QED
          BY <4>1 DEF IInv, BitInv
      <3> QED
        BY <3>1, <3>2
    <2>4. 1..b \subseteq 1..Len(base')
      BY <1>5
    <2> QED
      BY <1>5, <1>10, <1>11, <2>1, <2>3, <2>4 DEF BitInv
  <1>13. IdInv'
    <2>1. overlay' = overlay /\ \A j : LiveSlot(j)' <=> LiveSlot(j)
      BY <1>5 DEF overlayVars, LiveSlot
    <2>2. 1..m \subseteq 1..(m + n) /\ \A i \in 1..n : m + i \in 1..(m + n) /\ b + i \in 1..(b + n)
      OBVIOUS
    <2>3. ASSUME NEW pos \in 1..(b + n), Visible(pos)
          PROVE  base'[pos].id \in 1..(m + n) /\ identity'[base'[pos].id] = InPacked(pos)
      <3>1. CASE pos \in 1..b
        BY <1>2, <1>3, <1>5, <2>2, <2>3, <3>1 DEF IInv, IdInv
      <3>2. CASE pos \in (b + 1)..(b + n)
        <4>1. pos - b \in 1..n /\ base'[pos].id = m + (pos - b) /\ b + (pos - b) = pos
          BY <1>7, <3>2
        <4> QED
          BY <1>5, <2>2, <4>1
      <3> QED
        BY <3>1, <3>2
    <2>4. ASSUME NEW j \in 1..Len(overlay), LiveSlot(j)
          PROVE  overlay[j].id \in 1..(m + n) /\ identity'[overlay[j].id] = InOverlay(j)
      BY <1>3, <1>5, <2>2, <2>4 DEF IInv, IdInv
    <2>5. ASSUME NEW id \in 1..(m + n)
          PROVE  Resolves(id)'
      <3>1. CASE id \in 1..m
        <4>1. Resolves(id) /\ identity'[id] = identity[id]
          BY <1>3, <1>5, <3>1 DEF IInv, IdInv
        <4>2. \A pos \in 1..Len(base) : pos \in 1..Len(base') /\ base'[pos] = base[pos]
          BY <1>2, <1>5
        <4> QED
          BY <1>10, <2>1, <4>1, <4>2 DEF Resolves
      <3>2. CASE id \notin 1..m
        <4>1. PICK i \in 1..n : i = id - m
          BY <1>5, <3>2
        <4>2. id = m + i /\ b + i \in 1..(b + n) /\ b + i \notin 1..b
          BY <4>1
        <4>3. identity'[id] = InPacked(b + i) /\ InPacked(b + i).at = b + i
          BY <1>5, <4>1, <4>2 DEF InPacked
        <4>4. Visible(b + i)' /\ base'[b + i].id = id
          BY <1>5, <1>7, <1>10, <1>11, <4>1, <4>2 DEF Visible
        <4> QED
          BY <1>5, <4>2, <4>3, <4>4 DEF Resolves, InPacked
      <3> QED
        BY <3>1, <3>2
    <2> QED
      BY <1>5, <1>10, <2>1, <2>3, <2>4, <2>5 DEF IdInv, InOverlay, InPacked
  <1>14. ParamListsExact'
    BY <1>5 DEF IInv, ParamListsExact, overlayVars
  <1> QED
    BY <1>4, <1>8, <1>9, <1>12, <1>13, <1>14 DEF IInv

-----------------------------------------------------------------------------
\* Any call, with any values.
AnyCall ==
    \/ \E t \in Targets, V \in SUBSET Vars : \E block \in SortedBlocks(V) :
          \E value \in [DOMAIN block -> Int] : BuildConstantBlock(t, block, value)
    \/ \E t \in Targets, v \in Vars, x \in Int, deps \in SUBSET Params : Update(t, v, x, deps)
    \/ \E t \in Targets, v \in Vars : RemoveCell(t, v)
    \/ BuildVarIndex

LEMMA NextIsACall ==
    ASSUME NEW V \in SUBSET Vars, Calls(V, Exprs)
    PROVE  AnyCall \/ UNCHANGED vars
  <1>1. Constants(Exprs) \subseteq Int
    BY StoreAssumption DEF StoreAssumption, Constants
  <1>2. \A e \in Exprs : e.value \in Int /\ e.deps \in SUBSET Params
    BY StoreAssumption DEF StoreAssumption, Params
  <1>3. ASSUME NEW t \in Targets, NEW block \in SortedBlocks(V),
               NEW value \in [DOMAIN block -> Constants(Exprs)], BuildConstantBlock(t, block, value)
        PROVE  AnyCall
    <2>1. value \in [DOMAIN block -> Int]
      BY <1>1
    <2> QED
      BY <1>3, <2>1 DEF AnyCall
  <1>4. ASSUME NEW t \in Targets, NEW v \in V, NEW e \in Exprs, Update(t, v, e.value, e.deps)
        PROVE  AnyCall
    BY <1>2, <1>4 DEF AnyCall
  <1>5. ASSUME NEW t \in Targets, NEW v \in V, RemoveCell(t, v)
        PROVE  AnyCall
    BY <1>5 DEF AnyCall
  <1>6. CASE BuildVarIndex
    BY <1>6 DEF AnyCall
  <1>7. CASE Exhausted
    BY <1>7 DEF Exhausted
  <1> QED
    BY <1>3, <1>4, <1>5, <1>6, <1>7 DEF Calls

\* The variable index is no part of it.
LEMMA OnlyIndexed ==
    ASSUME IInv, indexed' \in Nat \union {NotBuilt},
           UNCHANGED <<identity, baseVars, shadowed, dead, overlay, byCell, byVar, byTarget, byParam>>
    PROVE  IInv'
  <1>1. TypeOK' /\ OverlayInv' /\ ParamListsExact'
    BY DEF IInv, TypeOK, OverlayInv, OverlayKey, ParamListsExact, baseVars
  <1>2. SliceInv'
    BY SameBase DEF IInv
  <1>3. BitInv'
    BY SameBase DEF IInv, BitInv, Visible
  <1>4. IdInv'
    BY DEF IInv, IdInv, Resolves, Visible, LiveSlot, baseVars, InOverlay, InPacked
  <1> QED
    BY <1>1, <1>2, <1>3, <1>4 DEF IInv

LEMMA CallIInv == IInv /\ AnyCall => IInv'
  <1> SUFFICES ASSUME IInv, AnyCall PROVE IInv'
    OBVIOUS
  <1>1. ASSUME NEW t \in Targets, NEW V \in SUBSET Vars, NEW block \in SortedBlocks(V),
               NEW value \in [DOMAIN block -> Int], BuildConstantBlock(t, block, value)
        PROVE  IInv'
    BY <1>1, BuildBlockStep
  <1>2. ASSUME NEW t \in Targets, NEW v \in Vars, NEW x \in Int, NEW deps \in SUBSET Params,
               Update(t, v, x, deps)
        PROVE  IInv'
    BY <1>2, UpdateOverlayStep, UpdateTombstoneStep, UpdatePackedStep, UpdateCreateStep DEF Update
  <1>3. ASSUME NEW t \in Targets, NEW v \in Vars, RemoveCell(t, v)
        PROVE  IInv'
    BY <1>3, RemoveOverlayStep, RemovePackedStep DEF RemoveCell
  <1>4. CASE BuildVarIndex
    <2>1. indexed' \in Nat
      BY <1>4, LenProperties DEF BuildVarIndex, IInv, TypeOK
    <2> QED
      BY <1>4, <2>1, OnlyIndexed DEF BuildVarIndex, overlayVars
  <1> QED
    BY <1>1, <1>2, <1>3, <1>4 DEF AnyCall

LEMMA Unchanged == IInv /\ UNCHANGED vars => IInv'
  <1> SUFFICES ASSUME IInv, UNCHANGED vars PROVE IInv'
    OBVIOUS
  <1>1. indexed' \in Nat \union {NotBuilt}
    BY DEF IInv, TypeOK, vars
  <1> QED
    BY <1>1, OnlyIndexed DEF vars, baseVars

\* Kernel B's invariant: the base's slices, the overlay's cell map, the two
\* bitsets, the identities and the parameter lists fit together after any
\* sequence of calls.
THEOREM KernelBInvariance == Spec => []IInv
  <1>1. IInv /\ [Next]_vars => IInv'
    BY NextIsACall, CallIInv, Unchanged DEF Next
  <1> QED
    BY <1>1, InitIInv, PTL DEF Spec

\* A live overlay cell is in the lists of exactly the parameters its current
\* expression depends on: reindex_overlay_params forgets none and leaves none.
THEOREM ParamListsStayExact == Spec => []ParamListsExact
  <1>1. IInv => ParamListsExact
    BY DEF IInv
  <1> QED
    BY <1>1, KernelBInvariance, PTL

-----------------------------------------------------------------------------
(***************************************************************************)
(* Lookups, identities and counts.                                         *)
(***************************************************************************)

\* What for_cell finds, and where.
LEMMA Found ==
    ASSUME IInv, NEW t \in Targets, NEW v \in Vars
    PROVE  /\ <<t, v>> \in DOMAIN byCell =>
                /\ byCell[<<t, v>>] \in 1..Len(overlay)
                /\ ~ LiveSlot(byCell[<<t, v>>]) => ForCell(t, v) = NoCell
                /\ LiveSlot(byCell[<<t, v>>]) =>
                      /\ ForCell(t, v) # NoCell
                      /\ ForCell(t, v).id = overlay[byCell[<<t, v>>]].id
                      /\ ForCell(t, v).value = overlay[byCell[<<t, v>>]].value
           /\ <<t, v>> \notin DOMAIN byCell =>
                /\ BasePosition(t, v) = 0 => ForCell(t, v) = NoCell
                /\ BasePosition(t, v) # 0 =>
                      /\ BasePosition(t, v) \in 1..Len(base) /\ Visible(BasePosition(t, v))
                      /\ ForCell(t, v) # NoCell
                      /\ ForCell(t, v).id = base[BasePosition(t, v)].id
                      /\ ForCell(t, v).value = base[BasePosition(t, v)].value
  <1>1. ASSUME <<t, v>> \in DOMAIN byCell
        PROVE  /\ byCell[<<t, v>>] \in 1..Len(overlay)
               /\ ~ LiveSlot(byCell[<<t, v>>]) => ForCell(t, v) = NoCell
               /\ LiveSlot(byCell[<<t, v>>]) =>
                      /\ ForCell(t, v) # NoCell
                      /\ ForCell(t, v).id = overlay[byCell[<<t, v>>]].id
                      /\ ForCell(t, v).value = overlay[byCell[<<t, v>>]].value
    <2>1. PICK oi \in 1..Len(overlay) : oi = byCell[<<t, v>>]
      BY <1>1 DEF IInv, OverlayInv
    <2>2. ForCell(t, v) = IF LiveSlot(oi) THEN [id |-> overlay[oi].id, value |-> overlay[oi].value]
                          ELSE NoCell
      BY <1>1, <2>1 DEF ForCell, LiveSlot
    <2>3. LiveSlot(oi) => overlay[oi].id # 0
      BY DEF IInv, IdInv
    <2>4. LiveSlot(oi) => ForCell(t, v).id = overlay[oi].id /\ ForCell(t, v).value = overlay[oi].value
      BY <2>2
    <2>5. NoCell.id = 0
      BY DEF NoCell
    <2> QED
      BY <2>1, <2>2, <2>3, <2>4, <2>5
  <1>2. ASSUME <<t, v>> \notin DOMAIN byCell
        PROVE  /\ BasePosition(t, v) = 0 => ForCell(t, v) = NoCell
               /\ BasePosition(t, v) # 0 =>
                      /\ BasePosition(t, v) \in 1..Len(base) /\ Visible(BasePosition(t, v))
                      /\ ForCell(t, v) # NoCell
                      /\ ForCell(t, v).id = base[BasePosition(t, v)].id
                      /\ ForCell(t, v).value = base[BasePosition(t, v)].value
    <2>1. PICK pos : pos = BasePosition(t, v)
      OBVIOUS
    <2>2. ForCell(t, v) = IF pos = 0 THEN NoCell ELSE [id |-> base[pos].id, value |-> base[pos].value]
      BY <1>2, <2>1 DEF ForCell
    <2>3. pos # 0 => pos \in 1..Len(base) /\ Visible(pos)
      BY <2>1, PositionFound DEF IInv
    <2>4. pos # 0 => base[pos].id # 0
      BY <2>3 DEF IInv, IdInv
    <2>5. pos # 0 => ForCell(t, v).id = base[pos].id /\ ForCell(t, v).value = base[pos].value
      BY <2>2
    <2>6. NoCell.id = 0
      BY DEF NoCell
    <2> QED
      BY <2>1, <2>2, <2>3, <2>4, <2>5, <2>6
  <1> QED
    BY <1>1, <1>2

IdOf(k) == ForCell(k[1], k[2]).id
PositionAt(k) == BasePosition(k[1], k[2])

\* A live cell is in the overlay or at a visible position, and its identity
\* says which.
LEMMA Held ==
    ASSUME IInv, NEW k \in LiveKeys
    PROVE  /\ IdOf(k) \in 1..Len(identity)
           /\ k \in DOMAIN byCell => /\ byCell[k] \in 1..Len(overlay) /\ LiveSlot(byCell[k])
                                    /\ overlay[byCell[k]].id = IdOf(k)
                                    /\ identity[IdOf(k)] = InOverlay(byCell[k])
           /\ k \notin DOMAIN byCell => /\ PositionAt(k) \in 1..Len(base) /\ Visible(PositionAt(k))
                                       /\ PositionAt(k) # 0
                                       /\ base[PositionAt(k)].id = IdOf(k)
                                       /\ identity[IdOf(k)] = InPacked(PositionAt(k))
  <1>1. PICK t \in Targets, v \in Vars : k = <<t, v>>
    BY DEF LiveKeys, Keys
  <1>2. k[1] = t /\ k[2] = v
    BY <1>1
  <1>3. ForCell(t, v) # NoCell /\ IdOf(k) = ForCell(t, v).id /\ PositionAt(k) = BasePosition(t, v)
    BY <1>2 DEF LiveKeys, IdOf, PositionAt
  <1>4. CASE k \in DOMAIN byCell
    <2>1. byCell[k] \in 1..Len(overlay) /\ LiveSlot(byCell[k]) /\ overlay[byCell[k]].id = IdOf(k)
      BY <1>1, <1>3, <1>4, Found
    <2> QED
      BY <1>4, <2>1 DEF IInv, IdInv
  <1>5. CASE k \notin DOMAIN byCell
    <2>1. /\ PositionAt(k) \in 1..Len(base) /\ Visible(PositionAt(k)) /\ PositionAt(k) # 0
          /\ base[PositionAt(k)].id = IdOf(k)
      BY <1>1, <1>3, <1>5, Found
    <2> QED
      BY <1>5, <2>1 DEF IInv, IdInv
  <1> QED
    BY <1>4, <1>5

\* Live data is some live cell's.
LEMMA SlotOfKey ==
    ASSUME IInv, NEW oi \in 1..Len(overlay), LiveSlot(oi)
    PROVE  /\ OverlayKey(oi) \in LiveKeys /\ OverlayKey(oi) \in DOMAIN byCell
           /\ byCell[OverlayKey(oi)] = oi
  <1>1. PICK t \in Targets, v \in Vars : OverlayKey(oi) = <<t, v>>
    BY SlotTyped DEF OverlayKey
  <1>2. <<t, v>> \in DOMAIN byCell /\ byCell[<<t, v>>] = oi
    BY <1>1 DEF IInv, OverlayInv
  <1>3. ForCell(t, v) # NoCell
    BY <1>2, Found
  <1> QED
    BY <1>1, <1>2, <1>3 DEF LiveKeys, Keys

LEMMA PositionOfKey ==
    ASSUME IInv, NEW pos \in 1..Len(base), Visible(pos)
    PROVE  \E k \in LiveKeys : k \notin DOMAIN byCell /\ PositionAt(k) = pos
  <1>1. PICK t \in Targets : pos \in PositionsOf(t)
    BY DEF IInv, SliceInv
  <1>2. PICK v \in Vars : v = base[pos].var
    <2>1. base[pos] \in BaseCells
      BY ElementOfSeq DEF IInv, TypeOK
    <2> QED
      BY <2>1 DEF BaseCells
  <1>3. BasePosition(t, v) = pos /\ pos # 0
    BY <1>1, <1>2, PositionFound DEF IInv
  <1>4. <<t, v>> \notin DOMAIN byCell
    BY <1>1, <1>2 DEF IInv, BitInv
  <1>5. ForCell(t, v) # NoCell
    BY <1>3, <1>4, Found
  <1>6. <<t, v>> \in LiveKeys
    BY <1>5 DEF LiveKeys, Keys
  <1>7. PositionAt(<<t, v>>) = pos
    BY <1>3 DEF PositionAt
  <1> QED
    BY <1>4, <1>6, <1>7

\* Where a cell is tells which cell it is.
LEMMA KeyOfData ==
    ASSUME IInv, NEW k \in LiveKeys, NEW l \in LiveKeys
    PROVE  /\ k \in DOMAIN byCell /\ l \in DOMAIN byCell /\ byCell[k] = byCell[l] => k = l
           /\ k \notin DOMAIN byCell /\ l \notin DOMAIN byCell /\ PositionAt(k) = PositionAt(l) => k = l
  <1>1. ASSUME k \in DOMAIN byCell, l \in DOMAIN byCell, byCell[k] = byCell[l]
        PROVE  k = l
    BY <1>1 DEF IInv, OverlayInv
  <1>2. ASSUME k \notin DOMAIN byCell, l \notin DOMAIN byCell, PositionAt(k) = PositionAt(l)
        PROVE  k = l
    <2>1. PICK t \in Targets, v \in Vars : k = <<t, v>>
      BY DEF LiveKeys, Keys
    <2>2. PICK u \in Targets, w \in Vars : l = <<u, w>>
      BY DEF LiveKeys, Keys
    <2>3. PositionAt(k) = BasePosition(t, v) /\ PositionAt(l) = BasePosition(u, w)
      BY <2>1, <2>2 DEF PositionAt
    <2>4. /\ BasePosition(t, v) \in PositionsOf(t) /\ base[BasePosition(t, v)].var = v
          /\ BasePosition(u, w) \in PositionsOf(u) /\ base[BasePosition(u, w)].var = w
      BY <1>2, <2>3, Held, PositionFound DEF IInv
    <2>5. t = u /\ v = w
      BY <1>2, <2>3, <2>4 DEF IInv, SliceInv
    <2> QED
      BY <2>1, <2>2, <2>5
  <1> QED
    BY <1>1, <1>2

LEMMA FirstNumbers ==
    ASSUME NEW n \in Nat
    PROVE  IsFiniteSet(1..n) /\ Cardinality(1..n) = n
  <1>1. 1 \in Int /\ n \in Int /\ (IF 1 > n THEN 0 ELSE n - 1 + 1) = n
    OBVIOUS
  <1> QED
    BY <1>1, FS_Interval, Zenon

LEMMA SameSize ==
    ASSUME NEW S, NEW T, IsFiniteSet(T), NEW f \in [S -> T],
           \A x, y \in S : f[x] = f[y] => x = y, \A y \in T : \E x \in S : f[x] = y
    PROVE  IsFiniteSet(S) /\ Cardinality(S) = Cardinality(T)
  <1>1. f \in Injection(S, T) /\ f \in Surjection(S, T)
    BY DEF Injection, IsInjective, Surjection
  <1> QED
    BY <1>1, FS_Injection

\* Identities: one to a cell, and the others are stale.
LEMMA IdentitiesOfIInv == IInv => IdentityAgrees
  <1> SUFFICES ASSUME IInv PROVE IdentityAgrees
    OBVIOUS
  <1> DEFINE ids == {ForCell(k[1], k[2]).id : k \in LiveKeys}
             f   == [k \in LiveKeys |-> IdOf(k)]
  <1>1. ids \subseteq 1..Len(identity)
    BY Held DEF IdOf
  <1>2. IsFiniteSet(ids)
    <2>1. Len(identity) \in Nat
      BY LenProperties DEF IInv, TypeOK
    <2> HIDE DEF ids
    <2> QED
      BY <1>1, <2>1, FirstNumbers, FS_Subset
  <1>3. ASSUME NEW k \in LiveKeys, NEW l \in LiveKeys, IdOf(k) = IdOf(l)
        PROVE  k = l
    <2>1. CASE k \in DOMAIN byCell /\ l \in DOMAIN byCell
      BY <1>3, <2>1, Held, OneHolder, KeyOfData
    <2>2. CASE k \notin DOMAIN byCell /\ l \notin DOMAIN byCell
      BY <1>3, <2>2, Held, OneHolder, KeyOfData
    <2>3. CASE k \in DOMAIN byCell /\ l \notin DOMAIN byCell
      BY <1>3, <2>3, Held, OneHolder
    <2>4. CASE k \notin DOMAIN byCell /\ l \in DOMAIN byCell
      BY <1>3, <2>4, Held, OneHolder
    <2> QED
      BY <2>1, <2>2, <2>3, <2>4
  <1>4. Cardinality(ids) = Cardinality(LiveKeys)
    <2>1. f \in [LiveKeys -> ids] /\ \A k \in LiveKeys : f[k] = IdOf(k)
      BY DEF IdOf
    <2>2. \A x \in ids : \E k \in LiveKeys : f[k] = x
      BY DEF IdOf
    <2>3. \A k, l \in LiveKeys : f[k] = f[l] => k = l
      BY <1>3, <2>1
    <2> HIDE DEF f, ids
    <2> QED
      BY <1>2, <2>1, <2>2, <2>3, SameSize
  <1>5. ASSUME NEW id \in 1..Len(identity)
        PROVE  id \in ids <=> Locate(id) # Gone
    <2>1. Locate(id) = identity[id]
      BY DEF Locate
    <2>2. ASSUME id \in ids
          PROVE  identity[id] # Gone
      <3>1. PICK k \in LiveKeys : id = IdOf(k)
        BY <2>2 DEF IdOf
      <3>2. identity[id] = InOverlay(byCell[k]) \/ identity[id] = InPacked(PositionAt(k))
        BY <3>1, Held
      <3>3. identity[id].place # "none"
        BY <3>2 DEF InOverlay, InPacked
      <3>4. Gone.place = "none"
        BY DEF Gone
      <3> QED
        BY <3>3, <3>4
    <2>3. ASSUME identity[id] # Gone
          PROVE  id \in ids
      <3>1. CASE \E pos \in 1..Len(base) : Visible(pos) /\ base[pos].id = id
        <4>1. PICK k \in LiveKeys : IdOf(k) = id
          BY <3>1, PositionOfKey, Held
        <4> QED
          BY <4>1 DEF IdOf
      <3>2. CASE \E oi \in 1..Len(overlay) : LiveSlot(oi) /\ overlay[oi].id = id
        <4>1. PICK k \in LiveKeys : IdOf(k) = id
          BY <3>2, SlotOfKey, Held
        <4> QED
          BY <4>1 DEF IdOf
      <3> QED
        BY <2>3, <3>1, <3>2 DEF IInv, IdInv, Resolves
    <2> QED
      BY <2>1, <2>2, <2>3
  <1>6. ASSUME NEW k \in LiveKeys
        PROVE  IF k \in DOMAIN byCell
                 THEN Locate(IdOf(k)) = InOverlay(byCell[k])
                 ELSE /\ Locate(IdOf(k)).place = "packed"
                      /\ base[Locate(IdOf(k)).at].id = IdOf(k) /\ base[Locate(IdOf(k)).at].var = k[2]
    <2>1. Locate(IdOf(k)) = identity[IdOf(k)]
      BY Held DEF Locate
    <2>2. CASE k \in DOMAIN byCell
      BY <2>1, <2>2, Held
    <2>3. CASE k \notin DOMAIN byCell
      <3>1. PICK pos : pos = PositionAt(k)
        OBVIOUS
      <3>2. base[pos].id = IdOf(k) /\ Locate(IdOf(k)) = InPacked(pos) /\ pos # 0
        BY <2>1, <2>3, <3>1, Held
      <3>3. Locate(IdOf(k)).place = "packed" /\ Locate(IdOf(k)).at = pos
        BY <3>2 DEF InPacked
      <3>4. base[pos].var = k[2]
        <4>1. k[1] \in Targets
          BY DEF LiveKeys, Keys
        <4> QED
          BY <3>1, <3>2, <4>1, PositionFound DEF IInv, PositionAt
      <3> QED
        BY <2>3, <3>2, <3>3, <3>4
    <2> QED
      BY <2>2, <2>3
  <1> QED
    BY <1>4, <1>5, <1>6 DEF IdentityAgrees, IdOf

\* len_live counts the live cells: those at visible positions, which are the
\* positions in neither bitset, and those in live slots.
LEMMA CountOfIInv == IInv => LenLiveExact
  <1> SUFFICES ASSUME IInv PROVE LenLiveExact
    OBVIOUS
  <1> DEFINE slotsLive == {oi \in 1..Len(overlay) : ~ overlay[oi].tombstone}
             shown      == {pos \in 1..Len(base) : Visible(pos)}
             inOverlay == {k \in LiveKeys : k \in DOMAIN byCell}
             inBase    == {k \in LiveKeys : k \notin DOMAIN byCell}
             f == [k \in inOverlay |-> byCell[k]]
             g == [k \in inBase |-> PositionAt(k)]
  <1>1. Len(base) \in Nat /\ Len(overlay) \in Nat
    BY LenProperties DEF IInv, TypeOK
  <1>2. IsFiniteSet(1..Len(base)) /\ Cardinality(1..Len(base)) = Len(base)
    BY <1>1, FirstNumbers
  <1>3. IsFiniteSet(1..Len(overlay))
    BY <1>1, FirstNumbers
  <1>4. IsFiniteSet(slotsLive) /\ IsFiniteSet(shown)
    BY <1>2, <1>3, FS_Subset
  <1>5. IsFiniteSet(inOverlay) /\ Cardinality(inOverlay) = Cardinality(slotsLive)
    <2>1. f \in [inOverlay -> slotsLive] /\ \A k \in inOverlay : f[k] = byCell[k]
      BY Held DEF LiveSlot
    <2>2. \A oi \in slotsLive : \E k \in inOverlay : f[k] = oi
      BY <2>1, SlotOfKey DEF LiveSlot
    <2>3. \A k, l \in inOverlay : f[k] = f[l] => k = l
      BY <2>1, KeyOfData
    <2> HIDE DEF f, inOverlay, slotsLive
    <2> QED
      BY <1>4, <2>1, <2>2, <2>3, SameSize
  <1>6. IsFiniteSet(inBase) /\ Cardinality(inBase) = Cardinality(shown)
    <2>1. g \in [inBase -> shown] /\ \A k \in inBase : g[k] = PositionAt(k)
      BY Held
    <2>2. \A pos \in shown : \E k \in inBase : g[k] = pos
      BY <2>1, PositionOfKey
    <2>3. \A k, l \in inBase : g[k] = g[l] => k = l
      BY <2>1, KeyOfData
    <2> HIDE DEF g, inBase, shown
    <2> QED
      BY <1>4, <2>1, <2>2, <2>3, SameSize
  <1>7. Cardinality(LiveKeys) = Cardinality(slotsLive) + Cardinality(shown)
    <2>1. LiveKeys = inOverlay \union inBase /\ inOverlay \cap inBase = {}
      OBVIOUS
    <2> HIDE DEF inOverlay, inBase, slotsLive, shown
    <2>2. Cardinality(LiveKeys) = Cardinality(inOverlay) + Cardinality(inBase) - Cardinality({})
      BY <1>5, <1>6, <2>1, FS_Union
    <2>3. Cardinality(slotsLive) \in Nat /\ Cardinality(shown) \in Nat /\ Cardinality({}) = 0
      BY <1>4, FS_CardinalityType, FS_EmptySet
    <2> QED
      BY <1>5, <1>6, <2>2, <2>3
  <1>8. Cardinality(shown) = Len(base) - (Cardinality(dead) + Cardinality(shadowed))
    <2>1. dead \subseteq 1..Len(base) /\ shadowed \subseteq 1..Len(base) /\ dead \cap shadowed = {}
      BY DEF IInv, BitInv
    <2>2. IsFiniteSet(dead) /\ IsFiniteSet(shadowed)
      BY <1>2, <2>1, FS_Subset
    <2>3. Cardinality(dead \union shadowed) = Cardinality(dead) + Cardinality(shadowed)
      <3>1. Cardinality(dead \union shadowed)
               = Cardinality(dead) + Cardinality(shadowed) - Cardinality(dead \cap shadowed)
        BY <2>2, FS_Union
      <3>2. Cardinality(dead \cap shadowed) = 0
        BY <2>1, FS_EmptySet
      <3>3. Cardinality(dead) \in Nat /\ Cardinality(shadowed) \in Nat
        BY <2>2, FS_CardinalityType
      <3> QED
        BY <3>1, <3>2, <3>3
    <2>4. shown = (1..Len(base)) \ (dead \union shadowed)
      BY DEF Visible
    <2>5. (1..Len(base)) \cap (dead \union shadowed) = dead \union shadowed
      BY <2>1
    <2> HIDE DEF shown
    <2> QED
      <3>1. Cardinality((1..Len(base)) \ (dead \union shadowed))
               = Cardinality(1..Len(base)) - Cardinality((1..Len(base)) \cap (dead \union shadowed))
        BY <1>2, FS_Difference
      <3> QED
        BY <1>2, <2>3, <2>4, <2>5, <3>1
  <1>9. /\ Cardinality(dead) \in Nat /\ Cardinality(shadowed) \in Nat
        /\ Cardinality(slotsLive) \in Nat
    <2>1. IsFiniteSet(dead) /\ IsFiniteSet(shadowed)
      BY <1>2, FS_Subset DEF IInv, BitInv
    <2> HIDE DEF slotsLive
    <2> QED
      BY <1>4, <2>1, FS_CardinalityType
  <1>10. LenLive = Len(base) + Cardinality(slotsLive) - Cardinality(dead) - Cardinality(shadowed)
    BY DEF LenLive
  <1> HIDE DEF slotsLive, shown
  <1> QED
    BY <1>1, <1>7, <1>8, <1>9, <1>10 DEF LenLiveExact

\* "CoeffId + generation semantics ... are preserved exactly": after any calls a
\* live cell's identity resolves to where its data is, two cells never share
\* one, and every other identity ever handed out is stale.
THEOREM IdentitiesAlwaysAgree == Spec => []IdentityAgrees
  BY IdentitiesOfIInv, KernelBInvariance, PTL

\* len_live's arithmetic over vectors and bitsets counts the live cells.
THEOREM LenLiveStaysExact == Spec => []LenLiveExact
  BY CountOfIInv, KernelBInvariance, PTL

-----------------------------------------------------------------------------
(***************************************************************************)
(* Iterations.                                                             *)
(***************************************************************************)
\* Numbers of a finite set have as many below them as they have places in it.
LEMMA Ranked ==
    ASSUME NEW S \in SUBSET Nat, IsFiniteSet(S)
    PROVE  LET rank == [x \in S |-> Cardinality({y \in S : y < x})]
           IN  /\ rank \in [S -> 0..(Cardinality(S) - 1)]
               /\ \A x, y \in S : rank[x] = rank[y] => x = y
               /\ \A n \in 0..(Cardinality(S) - 1) : \E x \in S : rank[x] = n
  <1> DEFINE below(x) == {y \in S : y < x}
             rank == [x \in S |-> Cardinality(below(x))]
             T == 0..(Cardinality(S) - 1)
  <1>1. Cardinality(S) \in Nat
    BY FS_CardinalityType
  <1>2. ASSUME NEW x \in S
        PROVE  /\ IsFiniteSet(below(x)) /\ Cardinality(below(x)) \in Nat
               /\ x \notin below(x)
               /\ Cardinality(below(x) \union {x}) = Cardinality(below(x)) + 1
    <2>1. below(x) \in SUBSET S /\ x \notin below(x)
      OBVIOUS
    <2> HIDE DEF below
    <2>2. IsFiniteSet(below(x)) /\ Cardinality(below(x)) \in Nat
      BY <2>1, FS_Subset, FS_CardinalityType
    <2> QED
      BY <2>1, <2>2, FS_AddElement
  <1>3. ASSUME NEW x \in S, NEW U, U \in SUBSET S, IsFiniteSet(U), below(x) \union {x} \subseteq U
        PROVE  Cardinality(below(x)) < Cardinality(U)
    <2>1. Cardinality(below(x) \union {x}) <= Cardinality(U)
      BY <1>3, FS_Subset
    <2>2. Cardinality(U) \in Nat
      BY <1>3, FS_CardinalityType
    <2> HIDE DEF below
    <2> QED
      BY <1>2, <2>1, <2>2
  <1>4. ASSUME NEW x \in S, NEW y \in S, x < y
        PROVE  rank[x] < rank[y]
    <2>0. \A z \in S : z < x => z < y
      <3> SUFFICES ASSUME NEW z \in S, z < x PROVE z < y
        OBVIOUS
      <3>1. x \in Nat /\ y \in Nat /\ z \in Nat
        OBVIOUS
      <3> QED
        BY <1>4, <3>1
    <2>1. below(x) \union {x} \subseteq below(y) /\ below(y) \in SUBSET S
      BY <1>4, <2>0
    <2> HIDE DEF below
    <2>2. Cardinality(below(x)) < Cardinality(below(y))
      BY <1>2, <1>3, <2>1
    <2> QED
      BY <2>2
  <1>5. rank \in [S -> T]
    <2> SUFFICES ASSUME NEW x \in S PROVE Cardinality(below(x)) \in T
      OBVIOUS
    <2>1. below(x) \union {x} \subseteq S
      OBVIOUS
    <2> HIDE DEF below
    <2>2. Cardinality(below(x)) < Cardinality(S)
      BY <1>3, <2>1
    <2>3. PICK c \in Nat : c = Cardinality(below(x))
      BY <1>2
    <2>4. c \in 0..(Cardinality(S) - 1)
      BY <1>1, <2>2, <2>3
    <2> QED
      BY <2>3, <2>4
  <1>6. \A x, y \in S : rank[x] = rank[y] => x = y
    <2> SUFFICES ASSUME NEW x \in S, NEW y \in S, rank[x] = rank[y] PROVE x = y
      OBVIOUS
    <2>1. x \in Nat /\ y \in Nat /\ rank[x] \in Int /\ rank[y] \in Int
      BY <1>5
    <2> HIDE DEF rank
    <2> QED
      BY <1>4, <2>1
  <1>7. \A n \in T : \E x \in S : rank[x] = n
    <2> HIDE DEF rank
    <2>1. rank \in Injection(S, T)
      BY <1>5, <1>6 DEF Injection, IsInjective
    <2>2. IsFiniteSet(T) /\ Cardinality(T) = Cardinality(S)
      <3>1. 0 \in Int /\ Cardinality(S) - 1 \in Int
        BY <1>1
      <3> QED
        BY <1>1, <3>1, FS_Interval
    <2>3. rank \in Surjection(S, T)
      BY <2>1, <2>2, FS_Injection
    <2> QED
      BY <2>3 DEF Surjection
  <1> QED
    BY <1>5, <1>6, <1>7

\* A loop meets every number of a set.
LEMMA AscendingMeetsAll ==
    ASSUME NEW S \in SUBSET Nat, IsFiniteSet(S)
    PROVE  /\ Cardinality(S) \in Nat
           /\ Ascending(S) \in [1..Cardinality(S) -> S] /\ Len(Ascending(S)) = Cardinality(S)
           /\ \A x \in S : \E n \in 1..Cardinality(S) : Ascending(S)[n] = x
  <1> DEFINE rank == [x \in S |-> Cardinality({y \in S : y < x})]
  <1>1. Cardinality(S) \in Nat
    BY FS_CardinalityType
  <1>2. /\ rank \in [S -> 0..(Cardinality(S) - 1)]
        /\ \A x, y \in S : rank[x] = rank[y] => x = y
        /\ \A n \in 0..(Cardinality(S) - 1) : \E x \in S : rank[x] = n
    BY Ranked
  <1>3. \A x \in S : Cardinality({y \in S : y < x}) = rank[x]
    OBVIOUS
  <1>8. /\ DOMAIN Ascending(S) = 1..Cardinality(S)
        /\ Ascending(S) = [n \in DOMAIN Ascending(S) |-> Ascending(S)[n]]
    <2> DEFINE pick(n) == CHOOSE x \in S : Cardinality({y \in S : y < x}) = n - 1
    <2>1. Ascending(S) = [n \in 1..Cardinality(S) |-> pick(n)]
      BY Zenon DEF Ascending
    <2> HIDE DEF pick
    <2> QED
      BY <2>1, Zenon
  <1>9. ASSUME NEW n \in 1..Cardinality(S)
        PROVE  Ascending(S)[n] = CHOOSE x \in S : Cardinality({y \in S : y < x}) = n - 1
    BY DEF Ascending
  <1> HIDE DEF rank
  <1>4. ASSUME NEW n \in 1..Cardinality(S)
        PROVE  Ascending(S)[n] \in S /\ rank[Ascending(S)[n]] = n - 1
    <2>1. n - 1 \in 0..(Cardinality(S) - 1)
      BY <1>1
    <2>2. \E x \in S : rank[x] = n - 1
      BY <1>2, <2>1
    <2>3. \E x \in S : Cardinality({y \in S : y < x}) = n - 1
      BY <1>3, <2>2
    <2> QED
      BY <1>3, <1>9, <2>3
  <1>5. Ascending(S) \in [1..Cardinality(S) -> S]
    BY <1>8, <1>4
  <1>6. Len(Ascending(S)) = Cardinality(S)
    BY <1>1, <1>5
  <1>7. ASSUME NEW x \in S
        PROVE  \E n \in 1..Cardinality(S) : Ascending(S)[n] = x
    <2>1. rank[x] \in 0..(Cardinality(S) - 1)
      BY <1>2
    <2>2. rank[x] + 1 \in 1..Cardinality(S) /\ (rank[x] + 1) - 1 = rank[x]
      BY <1>1, <2>1
    <2>3. Ascending(S)[rank[x] + 1] \in S /\ rank[Ascending(S)[rank[x] + 1]] = rank[x]
      BY <1>4, <2>2
    <2> QED
      BY <1>2, <2>2, <2>3
  <1> QED
    BY <1>1, <1>5, <1>6, <1>7

-----------------------------------------------------------------------------
\* The lists and the directory, after any call.
ViewInv == ListInv /\ DirectoryInv

\* A new slot is named where it belongs.
LEMMA NamedOnce ==
    ASSUME NEW list \in Seq(Nat), NEW spots, NEW n \in Nat, n \notin spots, NamesOnce(list, spots)
    PROVE  NamesOnce(Append(list, n), spots \union {n})
  <1>1. /\ Len(Append(list, n)) = Len(list) + 1 /\ Append(list, n)[Len(list) + 1] = n
        /\ \A j \in 1..Len(list) : Append(list, n)[j] = list[j]
        /\ \A j \in 1..(Len(list) + 1) : j \in 1..Len(list) \/ j = Len(list) + 1
        /\ Len(list) \in Nat
    BY ElementAppend
  <1>2. 1..Len(list) \subseteq 1..(Len(list) + 1) /\ Len(list) + 1 \in 1..(Len(list) + 1)
    BY <1>1
  <1> QED
    BY <1>1, <1>2 DEF NamesOnce

\* PushOverlay() keeps the lists.
LEMMA PushKeepsLists ==
    ASSUME IInv, ListInv, NEW cell \in OverlayCells, <<cell.target, cell.var>> \notin DOMAIN byCell,
           PushOverlay(cell)
    PROVE  ListInv'
  <1>1. PICK n \in Nat : n = Len(overlay) + 1
    BY LenProperties DEF IInv, TypeOK
  <1>2. /\ Len(overlay') = n /\ overlay'[n] = cell /\ n \notin 1..Len(overlay)
        /\ \A j \in 1..Len(overlay) : overlay'[j] = overlay[j]
        /\ \A j \in 1..n : j \in 1..Len(overlay) \/ j = n
        /\ 1..Len(overlay) \subseteq 1..n /\ n \in 1..n
    <2>1. overlay \in Seq(OverlayCells) /\ overlay' = Append(overlay, cell)
      BY DEF IInv, TypeOK, PushOverlay
    <2>2. /\ Len(overlay') = n /\ overlay'[n] = cell /\ n \notin 1..Len(overlay)
          /\ \A j \in 1..Len(overlay) : overlay'[j] = overlay[j]
          /\ \A j \in 1..n : j \in 1..Len(overlay) \/ j = n
          /\ Len(overlay) \in Nat
      BY <1>1, <2>1, ElementAppend
    <2>3. 1..Len(overlay) \subseteq 1..n /\ n \in 1..n
      BY <1>1, <2>2
    <2> QED
      BY <2>2, <2>3
  <1>3. /\ byTarget' = [byTarget EXCEPT ![cell.target] = Append(@, n)]
        /\ byVar' = [byVar EXCEPT ![cell.var] = Append(@, n)]
        /\ byTarget \in [Targets -> Seq(Nat)] /\ byVar \in [Vars -> Seq(Nat)]
        /\ cell.target \in Targets /\ cell.var \in Vars
    BY <1>1 DEF PushOverlay, IInv, TypeOK, OverlayCells
  <1>4. ASSUME NEW t \in Targets
        PROVE  NamesOnce(byTarget'[t], {oi \in 1..Len(overlay') : overlay'[oi].target = t})
    <2> DEFINE spots == {oi \in 1..Len(overlay) : overlay[oi].target = t}
               after == {oi \in 1..Len(overlay') : overlay'[oi].target = t}
    <2>1. NamesOnce(byTarget[t], spots) /\ n \notin spots
      BY <1>2 DEF ListInv
    <2>2. CASE t = cell.target
      <3>1. after = spots \union {n}
        BY <1>2, <2>2
      <3>2. byTarget'[t] = Append(byTarget[t], n) /\ byTarget[t] \in Seq(Nat)
        BY <1>3, <2>2
      <3> HIDE DEF spots, after
      <3>3. NamesOnce(Append(byTarget[t], n), spots \union {n})
        BY <2>1, <3>2, NamedOnce
      <3> QED
        BY <3>1, <3>2, <3>3 DEF after
    <2>3. CASE t # cell.target
      <3>1. after = spots
        BY <1>2, <2>3
      <3>2. byTarget'[t] = byTarget[t]
        BY <1>3, <2>3
      <3> HIDE DEF spots, after
      <3> QED
        BY <2>1, <3>1, <3>2 DEF after
    <2> QED
      BY <2>2, <2>3
  <1>5. ASSUME NEW v \in Vars
        PROVE  NamesOnce(byVar'[v], {oi \in 1..Len(overlay') : overlay'[oi].var = v})
    <2> DEFINE spots == {oi \in 1..Len(overlay) : overlay[oi].var = v}
               after == {oi \in 1..Len(overlay') : overlay'[oi].var = v}
    <2>1. NamesOnce(byVar[v], spots) /\ n \notin spots
      BY <1>2 DEF ListInv
    <2>2. CASE v = cell.var
      <3>1. after = spots \union {n}
        BY <1>2, <2>2
      <3>2. byVar'[v] = Append(byVar[v], n) /\ byVar[v] \in Seq(Nat)
        BY <1>3, <2>2
      <3> HIDE DEF spots, after
      <3>3. NamesOnce(Append(byVar[v], n), spots \union {n})
        BY <2>1, <3>2, NamedOnce
      <3> QED
        BY <3>1, <3>2, <3>3 DEF after
    <2>3. CASE v # cell.var
      <3>1. after = spots
        BY <1>2, <2>3
      <3>2. byVar'[v] = byVar[v]
        BY <1>3, <2>3
      <3> HIDE DEF spots, after
      <3> QED
        BY <2>1, <3>1, <3>2 DEF after
    <2> QED
      BY <2>2, <2>3
  <1> QED
    BY <1>4, <1>5 DEF ListInv

\* A slot that keeps its key stays in its lists.
LEMMA SameLists ==
    ASSUME IInv, ListInv, UNCHANGED <<byTarget, byVar>>, Len(overlay') = Len(overlay),
           \A j \in 1..Len(overlay) : overlay'[j].target = overlay[j].target /\ overlay'[j].var = overlay[j].var
    PROVE  ListInv'
  <1>1. ASSUME NEW t \in Targets
        PROVE  {oi \in 1..Len(overlay') : overlay'[oi].target = t} = {oi \in 1..Len(overlay) : overlay[oi].target = t}
    OBVIOUS
  <1>2. ASSUME NEW v \in Vars
        PROVE  {oi \in 1..Len(overlay') : overlay'[oi].var = v} = {oi \in 1..Len(overlay) : overlay[oi].var = v}
    OBVIOUS
  <1>3. byTarget' = byTarget /\ byVar' = byVar
    OBVIOUS
  <1>4. \A t \in Targets : NamesOnce(byTarget'[t], {oi \in 1..Len(overlay') : overlay'[oi].target = t})
    BY <1>1, <1>3 DEF ListInv
  <1>5. \A v \in Vars : NamesOnce(byVar'[v], {oi \in 1..Len(overlay') : overlay'[oi].var = v})
    BY <1>2, <1>3 DEF ListInv
  <1> QED
    BY <1>4, <1>5 DEF ListInv

LEMMA SameDirectory == DirectoryInv /\ UNCHANGED baseVars => DirectoryInv'
  BY DEF DirectoryInv, baseVars

LEMMA UpdateLists ==
    ASSUME IInv, ViewInv, NEW t \in Targets, NEW v \in Vars, NEW x \in Int,
           NEW deps \in SUBSET Params, Update(t, v, x, deps)
    PROVE  ViewInv'
  <1>1. DirectoryInv'
    BY SameDirectory DEF ViewInv, Update, UpdateOverlay, UpdateTombstone, UpdatePacked, UpdateCreate
  <1>2. CASE UpdateOverlay(t, v, x, deps)
    <2>1. PICK oi \in 1..Len(overlay) : oi = byCell[<<t, v>>]
      BY <1>2 DEF UpdateOverlay, IInv, OverlayInv
    <2> DEFINE cell == [overlay[oi] EXCEPT !.value = x, !.deps = deps]
    <2>2. cell \in OverlayCells /\ cell.target = overlay[oi].target /\ cell.var = overlay[oi].var
      BY SlotTyped DEF OverlayCells
    <2>3. overlay' = [overlay EXCEPT ![oi] = cell] /\ UNCHANGED <<byTarget, byVar>>
      BY <1>2, <2>1 DEF UpdateOverlay
    <2> HIDE DEF cell
    <2>4. /\ Len(overlay') = Len(overlay)
          /\ \A j \in 1..Len(overlay) : overlay'[j] = IF j = oi THEN cell ELSE overlay[j]
      BY <2>2, <2>3, ElementUpdate DEF IInv, TypeOK
    <2> QED
      BY <1>1, <2>2, <2>3, <2>4, SameLists DEF ViewInv
  <1>3. CASE UpdateTombstone(t, v, x, deps)
    <2>1. PICK oi \in 1..Len(overlay) : oi = byCell[<<t, v>>] /\ OverlayKey(oi) = <<t, v>>
      BY <1>3 DEF UpdateTombstone, IInv, OverlayInv
    <2>2. Len(identity) + 1 \in Nat
      BY LenProperties DEF IInv, TypeOK
    <2> DEFINE cell == Cell(t, v, Len(identity) + 1, x, deps, FALSE)
    <2>3. cell \in OverlayCells /\ cell.target = overlay[oi].target /\ cell.var = overlay[oi].var
      BY <2>1, <2>2 DEF Cell, OverlayCells, OverlayKey
    <2>4. overlay' = [overlay EXCEPT ![oi] = cell] /\ UNCHANGED <<byTarget, byVar>>
      BY <1>3, <2>1 DEF UpdateTombstone
    <2> HIDE DEF cell
    <2>5. /\ Len(overlay') = Len(overlay)
          /\ \A j \in 1..Len(overlay) : overlay'[j] = IF j = oi THEN cell ELSE overlay[j]
      BY <2>3, <2>4, ElementUpdate DEF IInv, TypeOK
    <2> QED
      BY <1>1, <2>3, <2>4, <2>5, SameLists DEF ViewInv
  <1>4. CASE UpdatePacked(t, v, x, deps)
    <2>1. base[BasePosition(t, v)].id \in Nat
      <3>1. BasePosition(t, v) \in 1..Len(base)
        BY <1>4, PositionFound DEF UpdatePacked, IInv
      <3>2. base[BasePosition(t, v)] \in BaseCells
        BY <3>1, ElementOfSeq DEF IInv, TypeOK
      <3> QED
        BY <3>2 DEF BaseCells
    <2> DEFINE cell == Cell(t, v, base[BasePosition(t, v)].id, x, deps, FALSE)
    <2>2. cell \in OverlayCells /\ cell.target = t /\ cell.var = v
      BY <2>1 DEF Cell, OverlayCells
    <2>3. <<t, v>> \notin DOMAIN byCell /\ PushOverlay(cell)
      BY <1>4 DEF UpdatePacked
    <2> HIDE DEF cell
    <2>4. <<cell.target, cell.var>> \notin DOMAIN byCell
      BY <2>2, <2>3
    <2> QED
      BY <1>1, <2>2, <2>3, <2>4, PushKeepsLists DEF ViewInv
  <1>5. CASE UpdateCreate(t, v, x, deps)
    <2>1. Len(identity) + 1 \in Nat
      BY LenProperties DEF IInv, TypeOK
    <2> DEFINE cell == Cell(t, v, Len(identity) + 1, x, deps, FALSE)
    <2>2. cell \in OverlayCells /\ cell.target = t /\ cell.var = v
      BY <2>1 DEF Cell, OverlayCells
    <2>3. <<t, v>> \notin DOMAIN byCell /\ PushOverlay(cell)
      BY <1>5 DEF UpdateCreate
    <2> HIDE DEF cell
    <2>4. <<cell.target, cell.var>> \notin DOMAIN byCell
      BY <2>2, <2>3
    <2> QED
      BY <1>1, <2>2, <2>3, <2>4, PushKeepsLists DEF ViewInv
  <1> QED
    BY <1>2, <1>3, <1>4, <1>5 DEF Update

LEMMA RemoveLists ==
    ASSUME IInv, ViewInv, NEW t \in Targets, NEW v \in Vars, RemoveCell(t, v)
    PROVE  ViewInv'
  <1>1. DirectoryInv'
    BY SameDirectory DEF ViewInv, RemoveCell, RemoveOverlay, RemovePacked
  <1>2. CASE RemoveOverlay(t, v)
    <2>1. PICK oi \in 1..Len(overlay) : oi = byCell[<<t, v>>]
      BY <1>2 DEF RemoveOverlay, IInv, OverlayInv
    <2> DEFINE cell == [overlay[oi] EXCEPT !.tombstone = TRUE]
    <2>2. cell \in OverlayCells /\ cell.target = overlay[oi].target /\ cell.var = overlay[oi].var
      BY SlotTyped DEF OverlayCells
    <2>3. overlay' = [overlay EXCEPT ![oi] = cell] /\ UNCHANGED <<byTarget, byVar>>
      BY <1>2, <2>1 DEF RemoveOverlay
    <2> HIDE DEF cell
    <2>4. /\ Len(overlay') = Len(overlay)
          /\ \A j \in 1..Len(overlay) : overlay'[j] = IF j = oi THEN cell ELSE overlay[j]
      BY <2>2, <2>3, ElementUpdate DEF IInv, TypeOK
    <2> QED
      BY <1>1, <2>2, <2>3, <2>4, SameLists DEF ViewInv
  <1>3. CASE RemovePacked(t, v)
    <2>1. base[BasePosition(t, v)].id \in Nat
      <3>1. BasePosition(t, v) \in 1..Len(base)
        BY <1>3, PositionFound DEF RemovePacked, IInv
      <3>2. base[BasePosition(t, v)] \in BaseCells
        BY <3>1, ElementOfSeq DEF IInv, TypeOK
      <3> QED
        BY <3>2 DEF BaseCells
    <2> DEFINE cell == Cell(t, v, base[BasePosition(t, v)].id, 0, {}, TRUE)
    <2>2. cell \in OverlayCells /\ cell.target = t /\ cell.var = v
      BY <2>1 DEF Cell, OverlayCells
    <2>3. <<t, v>> \notin DOMAIN byCell /\ PushOverlay(cell)
      BY <1>3 DEF RemovePacked
    <2> HIDE DEF cell
    <2>4. <<cell.target, cell.var>> \notin DOMAIN byCell
      BY <2>2, <2>3
    <2> QED
      BY <1>1, <2>2, <2>3, <2>4, PushKeepsLists DEF ViewInv
  <1> QED
    BY <1>2, <1>3 DEF RemoveCell

\* A fresh target's slice is the last one.
LEMMA BlockLists ==
    ASSUME IInv, ViewInv, NEW t \in Targets, NEW V \in SUBSET Vars, NEW block \in SortedBlocks(V),
           NEW value \in [DOMAIN block -> Int], BuildConstantBlock(t, block, value)
    PROVE  ViewInv'
  <1>1. ListInv'
    BY SameLists DEF ViewInv, BuildConstantBlock, overlayVars
  <1>2. PICK c : c = [target |-> t, start |-> Len(base) + 1, len |-> Len(block)]
    OBVIOUS
  <1>3. /\ slices' = Append(slices, c) /\ directory[t] = 0
        /\ directory' = [directory EXCEPT ![t] = Len(slices) + 1]
        /\ directory \in [Targets -> Nat] /\ slices \in Seq(TargetSlices)
    BY <1>2 DEF BuildConstantBlock, IInv, TypeOK
  <1>4. c \in TargetSlices /\ c.target = t
    <2>1. Len(base) + 1 \in Nat /\ Len(block) \in Nat
      BY LenProperties, BlockTyped DEF IInv, TypeOK
    <2> QED
      BY <1>2, <2>1 DEF TargetSlices
  <1>5. PICK s \in Nat : s = Len(slices)
    BY <1>3, LenProperties
  <1>6. /\ Len(slices') = s + 1 /\ slices'[s + 1] = c
        /\ \A j \in 1..s : slices'[j] = slices[j]
        /\ \A j \in 1..(s + 1) : j \in 1..s \/ j = s + 1
    BY <1>3, <1>4, <1>5, ElementAppend
  <1>7. /\ directory'[t] = s + 1 /\ \A u \in Targets : u # t => directory'[u] = directory[u]
        /\ \A u \in Targets : directory[u] \in 0..s
    BY <1>3, <1>5 DEF IInv, SliceInv
  <1>8. ASSUME NEW n \in 1..Len(slices')
        PROVE  directory'[slices'[n].target] = n
    <2>1. CASE n = s + 1
      BY <1>4, <1>6, <1>7, <2>1
    <2>2. CASE n \in 1..s
      <3>1. slices'[n] = slices[n] /\ directory[slices[n].target] = n /\ n # 0
        BY <1>5, <1>6, <2>2 DEF ViewInv, DirectoryInv
      <3>2. slices[n].target \in Targets
        <4>1. slices[n] \in TargetSlices
          BY <1>3, <1>5, <2>2, ElementOfSeq
        <4> QED
          BY <4>1 DEF TargetSlices
      <3>3. slices[n].target # t
        BY <1>3, <3>1
      <3> QED
        BY <1>7, <3>1, <3>2, <3>3
    <2> QED
      BY <1>6, <2>1, <2>2
  <1>9. ASSUME NEW u \in Targets, directory'[u] # 0
        PROVE  slices'[directory'[u]].target = u
    <2>1. CASE u = t
      BY <1>4, <1>6, <1>7, <2>1
    <2>2. CASE u # t
      <3>1. directory'[u] = directory[u] /\ directory[u] \in 1..s
        BY <1>7, <1>9, <2>2
      <3> QED
        BY <1>6, <1>9, <3>1 DEF ViewInv, DirectoryInv
    <2> QED
      BY <2>1, <2>2
  <1> QED
    BY <1>1, <1>8, <1>9 DEF ViewInv, DirectoryInv

LEMMA CallViewInv == IInv /\ ViewInv /\ AnyCall => ViewInv'
  <1> SUFFICES ASSUME IInv, ViewInv, AnyCall PROVE ViewInv'
    OBVIOUS
  <1>1. BuildVarIndex => ViewInv'
    BY SameLists, SameDirectory DEF BuildVarIndex, ViewInv, overlayVars
  <1> QED
    BY <1>1, BlockLists, UpdateLists, RemoveLists DEF AnyCall

LEMMA UnchangedViewInv == IInv /\ ViewInv /\ UNCHANGED vars => ViewInv'
  BY SameLists, SameDirectory DEF vars, ViewInv, baseVars

LEMMA InitViewInv == Init => ViewInv
  <1> SUFFICES ASSUME Init PROVE ViewInv
    OBVIOUS
  <1>1. Len(overlay) = 0 /\ Len(slices) = 0 /\ overlay = <<>> /\ slices = <<>>
    BY DEF Init
  <1>2. /\ \A t \in Targets : byTarget[t] = <<>> /\ directory[t] = 0
        /\ \A v \in Vars : byVar[v] = <<>>
    BY DEF Init
  <1>3. \A S : NamesOnce(<<>>, {oi \in 1..Len(overlay) : oi \in S})
    BY <1>1 DEF NamesOnce
  <1>4. ListInv
    BY <1>1, <1>2 DEF ListInv, NamesOnce
  <1> QED
    BY <1>1, <1>2, <1>4 DEF ViewInv, DirectoryInv

-----------------------------------------------------------------------------
(***************************************************************************)
(* Both iterations: a base part and an overlay part, each a listing.       *)
(***************************************************************************)
\* hits yields the cells of ks, in some order, each once.
Yields(hits, ks) ==
    /\ IsFiniteSet(ks) /\ Cardinality(ks) \in Nat
    /\ hits \in [1..Cardinality(ks) -> {Hit(k) : k \in ks}]
    /\ \A k \in ks : \E n \in 1..Cardinality(ks) : hits[n] = Hit(k)

\* hits is what a loop over the places P finds there, posOf the places of ks.
Loops(hits, ks, P, posOf) ==
    /\ P \in SUBSET Nat /\ IsFiniteSet(P)
    /\ posOf \in [ks -> P]
    /\ \A k, l \in ks : posOf[k] = posOf[l] => k = l
    /\ \A p \in P : \E k \in ks : posOf[k] = p
    /\ \E D : hits \in [1..Len(Ascending(P)) -> D]
    /\ \A k \in ks, n \in 1..Len(Ascending(P)) : Ascending(P)[n] = posOf[k] => hits[n] = Hit(k)

LEMMA LoopYields ==
    ASSUME NEW hits, NEW ks, NEW P, NEW posOf, Loops(hits, ks, P, posOf)
    PROVE  Yields(hits, ks)
  <1>0. /\ P \in SUBSET Nat /\ IsFiniteSet(P)
        /\ posOf \in [ks -> P]
        /\ \A k, l \in ks : posOf[k] = posOf[l] => k = l
        /\ \A p \in P : \E k \in ks : posOf[k] = p
    BY DEF Loops
  <1>1. /\ Cardinality(P) \in Nat /\ Len(Ascending(P)) = Cardinality(P)
        /\ Ascending(P) \in [1..Cardinality(P) -> P]
        /\ \A p \in P : \E n \in 1..Cardinality(P) : Ascending(P)[n] = p
    BY <1>0, AscendingMeetsAll
  <1>2. IsFiniteSet(ks) /\ Cardinality(ks) = Cardinality(P)
    BY <1>0, SameSize
  <1>3. /\ \E D : hits \in [1..Cardinality(P) -> D]
        /\ \A k \in ks, n \in 1..Cardinality(P) : Ascending(P)[n] = posOf[k] => hits[n] = Hit(k)
    BY <1>1 DEF Loops
  <1>4. ASSUME NEW n \in 1..Cardinality(P)
        PROVE  hits[n] \in {Hit(k) : k \in ks}
    <2>1. Ascending(P)[n] \in P
      BY <1>1
    <2>2. PICK k \in ks : posOf[k] = Ascending(P)[n]
      BY <1>0, <2>1
    <2>3. hits[n] = Hit(k)
      BY <1>3, <2>2
    <2> QED
      BY <2>3
  <1>5. hits \in [1..Cardinality(P) -> {Hit(k) : k \in ks}]
    BY <1>3, <1>4
  <1>6. ASSUME NEW k \in ks
        PROVE  \E n \in 1..Cardinality(P) : hits[n] = Hit(k)
    <2>1. PICK n \in 1..Cardinality(P) : Ascending(P)[n] = posOf[k]
      BY <1>0, <1>1
    <2> QED
      BY <1>3, <2>1
  <1> QED
    BY <1>1, <1>2, <1>5, <1>6 DEF Yields

\* Two parts of a listing.
LEMMA PartsList ==
    ASSUME NEW f, NEW g, NEW ks, NEW ls, Yields(f, ks), Yields(g, ls), ks \cap ls = {}
    PROVE  Lists(f \o g, ks \union ls)
  <1>12. PICK H : H = {Hit(k) : k \in ks \union ls}
    OBVIOUS
  <1>1. PICK m \in Nat : m = Cardinality(ks)
    BY DEF Yields
  <1>2. PICK n \in Nat : n = Cardinality(ls)
    BY DEF Yields
  <1>3. /\ {Hit(k) : k \in ks} \subseteq H /\ {Hit(k) : k \in ls} \subseteq H
    BY <1>12
  <1>4. /\ f \in [1..m -> {Hit(k) : k \in ks}] /\ g \in [1..n -> {Hit(k) : k \in ls}]
        /\ \A k \in ks : \E i \in 1..m : f[i] = Hit(k)
        /\ \A k \in ls : \E i \in 1..n : g[i] = Hit(k)
    BY <1>1, <1>2 DEF Yields
  <1>5. \A h : h \in H <=> \E k \in ks \union ls : h = Hit(k)
    BY <1>12
  <1>6. f \in [1..m -> H] /\ g \in [1..n -> H]
    BY <1>3, <1>4
  <1>7. f \in Seq(H) /\ Len(f) = m
    BY <1>6, SeqDef, LenProperties
  <1>8. /\ f \o g \in Seq(H) /\ Len(f \o g) = m + n
        /\ \A i \in 1..m : (f \o g)[i] = f[i]
        /\ \A i \in 1..n : (f \o g)[m + i] = g[i]
    <2>1. g \in Seq(H) /\ Len(g) = n
      BY <1>6, SeqDef, LenProperties
    <2>2. /\ f \o g \in Seq(H) /\ Len(f \o g) = Len(f) + Len(g)
          /\ \A i \in 1..(Len(f) + Len(g)) :
                (f \o g)[i] = IF i <= Len(f) THEN f[i] ELSE g[i - Len(f)]
      BY <1>7, <2>1, ConcatProperties
    <2>3. \A i \in 1..m : i \in 1..(m + n) /\ i <= m
      OBVIOUS
    <2>4. \A i \in 1..n : m + i \in 1..(m + n) /\ ~ (m + i <= m) /\ (m + i) - m = i
      OBVIOUS
    <2> QED
      BY <1>7, <2>1, <2>2, <2>3, <2>4
  <1>9. Cardinality(ks \union ls) = m + n
    <2>1. IsFiniteSet(ks) /\ IsFiniteSet(ls)
      BY DEF Yields
    <2> QED
      BY <1>1, <1>2, <2>1, FS_Union, FS_EmptySet
  <1>10. ToSet(f \o g) \subseteq H
    <2>1. DOMAIN (f \o g) = 1..(m + n) /\ \A i \in 1..(m + n) : (f \o g)[i] \in H
      BY <1>8, LenProperties, ElementOfSeq
    <2> QED
      BY <2>1 DEF ToSet
  <1>11. ASSUME NEW h \in H
         PROVE  h \in ToSet(f \o g)
    <2>1. PICK k \in ks \union ls : h = Hit(k)
      BY <1>5
    <2>2. DOMAIN (f \o g) = 1..(m + n)
      BY <1>8, LenProperties
    <2>3. \E i \in 1..(m + n) : (f \o g)[i] = h
      <3>1. CASE k \in ks
        <4>1. PICK i \in 1..m : f[i] = h
          BY <1>4, <2>1, <3>1
        <4>2. i \in 1..(m + n)
          OBVIOUS
        <4> QED
          BY <1>8, <4>1, <4>2
      <3>2. CASE k \in ls
        <4>1. PICK i \in 1..n : g[i] = h
          BY <1>4, <2>1, <3>2
        <4>2. m + i \in 1..(m + n)
          OBVIOUS
        <4> QED
          BY <1>8, <4>1, <4>2
      <3> QED
        BY <3>1, <3>2
    <2> QED
      BY <2>2, <2>3 DEF ToSet
  <1> QED
    BY <1>8, <1>9, <1>10, <1>11, <1>12 DEF Lists

\* A live cell as an iteration yields it.
LEMMA HitOf ==
    ASSUME IInv, NEW t \in Targets, NEW v \in Vars, <<t, v>> \in LiveKeys
    PROVE  /\ <<t, v>> \in DOMAIN byCell =>
                /\ byCell[<<t, v>>] \in 1..Len(overlay) /\ LiveSlot(byCell[<<t, v>>])
                /\ overlay[byCell[<<t, v>>]].target = t /\ overlay[byCell[<<t, v>>]].var = v
                /\ SlotHit(byCell[<<t, v>>]) = Hit(<<t, v>>)
           /\ <<t, v>> \notin DOMAIN byCell =>
                /\ PositionAt(<<t, v>>) \in PositionsOf(t) /\ Visible(PositionAt(<<t, v>>))
                /\ PositionAt(<<t, v>>) \in 1..Len(base)
                /\ base[PositionAt(<<t, v>>)].var = v
                /\ BaseHit(t, PositionAt(<<t, v>>)) = Hit(<<t, v>>)
  <1>1. /\ Hit(<<t, v>>) = [id |-> ForCell(t, v).id, target |-> t, var |-> v, value |-> ForCell(t, v).value]
        /\ PositionAt(<<t, v>>) = BasePosition(t, v)
    BY DEF Hit, PositionAt
  <1>2. ForCell(t, v) # NoCell
    BY DEF LiveKeys
  <1>3. ASSUME <<t, v>> \in DOMAIN byCell
        PROVE  /\ byCell[<<t, v>>] \in 1..Len(overlay) /\ LiveSlot(byCell[<<t, v>>])
               /\ overlay[byCell[<<t, v>>]].target = t /\ overlay[byCell[<<t, v>>]].var = v
               /\ SlotHit(byCell[<<t, v>>]) = Hit(<<t, v>>)
    <2>1. /\ byCell[<<t, v>>] \in 1..Len(overlay) /\ LiveSlot(byCell[<<t, v>>])
          /\ ForCell(t, v).id = overlay[byCell[<<t, v>>]].id
          /\ ForCell(t, v).value = overlay[byCell[<<t, v>>]].value
      BY <1>2, <1>3, Found
    <2>2. OverlayKey(byCell[<<t, v>>]) = <<t, v>>
      BY <1>3 DEF IInv, OverlayInv
    <2>3. overlay[byCell[<<t, v>>]].target = t /\ overlay[byCell[<<t, v>>]].var = v
      BY <2>2 DEF OverlayKey
    <2> QED
      BY <1>1, <2>1, <2>3 DEF SlotHit
  <1>4. ASSUME <<t, v>> \notin DOMAIN byCell
        PROVE  /\ PositionAt(<<t, v>>) \in PositionsOf(t) /\ Visible(PositionAt(<<t, v>>))
               /\ PositionAt(<<t, v>>) \in 1..Len(base)
               /\ base[PositionAt(<<t, v>>)].var = v
               /\ BaseHit(t, PositionAt(<<t, v>>)) = Hit(<<t, v>>)
    <2>1. BasePosition(t, v) # 0
      BY <1>2, <1>4, Found
    <2>2. /\ BasePosition(t, v) \in PositionsOf(t) /\ Visible(BasePosition(t, v))
          /\ BasePosition(t, v) \in 1..Len(base) /\ base[BasePosition(t, v)].var = v
      BY <2>1, PositionFound DEF IInv
    <2>3. /\ ForCell(t, v).id = base[BasePosition(t, v)].id
          /\ ForCell(t, v).value = base[BasePosition(t, v)].value
      BY <1>4, <2>1, Found
    <2> QED
      BY <1>1, <2>2, <2>3 DEF BaseHit
  <1> QED
    BY <1>3, <1>4

\* A list of slots yields the live cells among them.
LEMMA OverlayYields ==
    ASSUME IInv, NEW spots \in SUBSET (1..Len(overlay)), NEW list \in Seq(Nat), NamesOnce(list, spots)
    PROVE  Yields(OverlayHits(list), {k \in LiveKeys : k \in DOMAIN byCell /\ byCell[k] \in spots})
  <1> DEFINE ks == {k \in LiveKeys : k \in DOMAIN byCell /\ byCell[k] \in spots}
             P  == {n \in 1..Len(list) : ~ overlay[list[n]].tombstone}
             posOf == [k \in ks |-> CHOOSE n \in 1..Len(list) : list[n] = byCell[k]]
             hits == OverlayHits(list)
  <1>1. /\ \A n \in 1..Len(list) : list[n] \in spots
        /\ \A oi \in spots : \E n \in 1..Len(list) : list[n] = oi
        /\ \A m, n \in 1..Len(list) : list[m] = list[n] => m = n
    BY DEF NamesOnce
  <1>2. ASSUME NEW k \in LiveKeys, k \in DOMAIN byCell
        PROVE  LiveSlot(byCell[k]) /\ SlotHit(byCell[k]) = Hit(k)
    <2>1. PICK t \in Targets, v \in Vars : k = <<t, v>>
      BY DEF LiveKeys, Keys
    <2> QED
      BY <1>2, <2>1, HitOf
  <1>3. \A k \in ks : posOf[k] \in 1..Len(list) /\ list[posOf[k]] = byCell[k]
    BY <1>1
  <1>4. P \in SUBSET Nat /\ IsFiniteSet(P)
    <2>1. Len(list) \in Nat /\ P \subseteq 1..Len(list) /\ 1..Len(list) \subseteq Nat
      BY LenProperties
    <2> HIDE DEF P
    <2> QED
      BY <2>1, FirstNumbers, FS_Subset
  <1>5. \A n : n \in P <=> n \in 1..Len(list) /\ LiveSlot(list[n])
    BY DEF LiveSlot
  <1>6. \A k : k \in ks <=> k \in LiveKeys /\ k \in DOMAIN byCell /\ byCell[k] \in spots
    OBVIOUS
  <1>7. DOMAIN posOf = ks /\ posOf = [k \in DOMAIN posOf |-> posOf[k]]
    OBVIOUS
  <1>8. /\ DOMAIN hits = 1..Len(Ascending(P)) /\ hits = [n \in DOMAIN hits |-> hits[n]]
        /\ \A n \in 1..Len(Ascending(P)) : hits[n] = SlotHit(list[Ascending(P)[n]])
    BY DEF OverlayHits
  <1> HIDE DEF ks, P, posOf, hits
  <1>9. posOf \in [ks -> P]
    BY <1>2, <1>3, <1>5, <1>6, <1>7
  <1>10. \A k, l \in ks : posOf[k] = posOf[l] => k = l
    BY <1>3, <1>6, KeyOfData
  <1>11. ASSUME NEW p \in P
         PROVE  \E k \in ks : posOf[k] = p
    <2>1. PICK oi \in 1..Len(overlay) : oi = list[p] /\ LiveSlot(oi) /\ oi \in spots
      BY <1>1, <1>5
    <2>2. /\ OverlayKey(oi) \in LiveKeys /\ OverlayKey(oi) \in DOMAIN byCell
          /\ byCell[OverlayKey(oi)] = oi
      BY <2>1, SlotOfKey
    <2>3. OverlayKey(oi) \in ks
      BY <1>6, <2>1, <2>2
    <2>4. list[posOf[OverlayKey(oi)]] = list[p] /\ posOf[OverlayKey(oi)] \in 1..Len(list) /\ p \in 1..Len(list)
      BY <1>3, <1>5, <2>1, <2>2, <2>3
    <2> QED
      BY <1>1, <2>3, <2>4
  <1>12. \A k \in ks, n \in 1..Len(Ascending(P)) : Ascending(P)[n] = posOf[k] => hits[n] = Hit(k)
    BY <1>2, <1>3, <1>6, <1>8
  <1>13. \E D : hits \in [1..Len(Ascending(P)) -> D]
    <2>1. hits \in [1..Len(Ascending(P)) -> {hits[n] : n \in 1..Len(Ascending(P))}]
      BY <1>8
    <2> QED
      BY <2>1
  <1>14. Loops(hits, ks, P, posOf)
    BY <1>4, <1>9, <1>10, <1>11, <1>12, <1>13 DEF Loops
  <1> QED
    BY <1>14, LoopYields DEF hits, ks

\* The base part of iter_target.
LEMMA TargetBaseYields ==
    ASSUME IInv, NEW t \in Targets
    PROVE  LET visible == Ascending({pos \in PositionsOf(t) : Visible(pos)})
           IN  Yields([n \in 1..Len(visible) |-> BaseHit(t, visible[n])],
                      {k \in LiveKeys : k \notin DOMAIN byCell /\ k[1] = t})
  <1> DEFINE P    == {pos \in PositionsOf(t) : Visible(pos)}
             ks   == {k \in LiveKeys : k \notin DOMAIN byCell /\ k[1] = t}
             posOf   == [k \in ks |-> PositionAt(k)]
             hits == [n \in 1..Len(Ascending(P)) |-> BaseHit(t, Ascending(P)[n])]
  <1>1. ASSUME NEW k \in LiveKeys, k \notin DOMAIN byCell, k[1] = t
        PROVE  /\ PositionAt(k) \in PositionsOf(t) /\ Visible(PositionAt(k))
               /\ BaseHit(t, PositionAt(k)) = Hit(k)
    <2>1. PICK u \in Targets, v \in Vars : k = <<u, v>>
      BY DEF LiveKeys, Keys
    <2>2. u = t
      BY <1>1, <2>1
    <2> QED
      BY <1>1, <2>1, <2>2, HitOf
  <1>2. P \in SUBSET Nat /\ IsFiniteSet(P)
    <2>1. Len(base) \in Nat /\ P \subseteq 1..Len(base) /\ 1..Len(base) \subseteq Nat
      BY LenProperties DEF IInv, TypeOK, SliceInv
    <2> HIDE DEF P
    <2> QED
      BY <2>1, FirstNumbers, FS_Subset
  <1>3. /\ \A p : p \in P <=> p \in PositionsOf(t) /\ Visible(p)
        /\ \A k : k \in ks <=> k \in LiveKeys /\ k \notin DOMAIN byCell /\ k[1] = t
        /\ posOf \in [ks -> {PositionAt(k) : k \in ks}] /\ \A k \in ks : posOf[k] = PositionAt(k)
        /\ hits \in [1..Len(Ascending(P)) -> {BaseHit(t, p) : p \in {Ascending(P)[n] : n \in 1..Len(Ascending(P))}}]
        /\ \A n \in 1..Len(Ascending(P)) : hits[n] = BaseHit(t, Ascending(P)[n])
    OBVIOUS
  <1> HIDE DEF P, ks, posOf, hits
  <1>4. posOf \in [ks -> P]
    BY <1>1, <1>3
  <1>5. \A k, l \in ks : posOf[k] = posOf[l] => k = l
    BY <1>3, KeyOfData
  <1>6. ASSUME NEW p \in P
        PROVE  \E k \in ks : posOf[k] = p
    <2>1. p \in 1..Len(base) /\ p \in PositionsOf(t) /\ Visible(p)
      BY <1>3 DEF IInv, SliceInv
    <2>2. PICK k \in LiveKeys : k \notin DOMAIN byCell /\ PositionAt(k) = p
      BY <2>1, PositionOfKey
    <2>3. PICK u \in Targets, v \in Vars : k = <<u, v>>
      BY DEF LiveKeys, Keys
    <2>4. p \in PositionsOf(u)
      BY <2>2, <2>3, HitOf
    <2>5. k[1] = t
      BY <2>1, <2>3, <2>4 DEF IInv, SliceInv
    <2> QED
      BY <1>3, <2>2, <2>5
  <1>7. \A k \in ks, n \in 1..Len(Ascending(P)) : Ascending(P)[n] = posOf[k] => hits[n] = Hit(k)
    BY <1>1, <1>3
  <1>8. Loops(hits, ks, P, posOf)
    BY <1>2, <1>3, <1>4, <1>5, <1>6, <1>7 DEF Loops
  <1> QED
    BY <1>8, LoopYields DEF hits, ks, P

\* A position's slice is its target's.
LEMMA SliceOfPosition ==
    ASSUME IInv, DirectoryInv, NEW t \in Targets, NEW pos \in PositionsOf(t)
    PROVE  SliceOf(pos).target = t
  <1>1. directory[t] \in 1..Len(slices)
    <2>1. directory[t] # 0 /\ directory[t] \in 0..Len(slices)
      BY DEF PositionsOf, IInv, SliceInv
    <2> QED
      BY <2>1
  <1>2. pos \in SlicePositions(slices[directory[t]])
    BY <1>1 DEF PositionsOf
  <1>3. PICK n \in 1..Len(slices) : SliceOf(pos) = slices[n] /\ pos \in SlicePositions(slices[n])
    <2>1. \E s \in {slices[n] : n \in 1..Len(slices)} : pos \in SlicePositions(s)
      BY <1>1, <1>2
    <2>2. /\ SliceOf(pos) \in {slices[n] : n \in 1..Len(slices)}
          /\ pos \in SlicePositions(SliceOf(pos))
      BY <2>1 DEF SliceOf
    <2> QED
      BY <2>2
  <1>4. slices[n].target \in Targets
    <2>1. slices[n] \in TargetSlices
      BY ElementOfSeq DEF IInv, TypeOK
    <2> QED
      BY <2>1 DEF TargetSlices
  <1>5. directory[slices[n].target] = n /\ n # 0
    BY DEF DirectoryInv
  <1>6. pos \in PositionsOf(slices[n].target)
    BY <1>3, <1>5 DEF PositionsOf
  <1>7. slices[n].target = t
    BY <1>4, <1>6 DEF IInv, SliceInv
  <1> QED
    BY <1>3, <1>7

\* The base part of for_var.
LEMMA VarBaseYields ==
    ASSUME IInv, DirectoryInv, indexed = Len(base), NEW v \in Vars
    PROVE  LET covered == Ascending({pos \in 1..indexed : base[pos].var = v /\ Visible(pos)})
           IN  Yields([n \in 1..Len(covered) |-> BaseHit(SliceOf(covered[n]).target, covered[n])],
                      {k \in LiveKeys : k \notin DOMAIN byCell /\ k[2] = v})
  <1> DEFINE P    == {pos \in 1..indexed : base[pos].var = v /\ Visible(pos)}
             ks   == {k \in LiveKeys : k \notin DOMAIN byCell /\ k[2] = v}
             posOf   == [k \in ks |-> PositionAt(k)]
             hits == [n \in 1..Len(Ascending(P)) |->
                        BaseHit(SliceOf(Ascending(P)[n]).target, Ascending(P)[n])]
  <1>1. ASSUME NEW k \in LiveKeys, k \notin DOMAIN byCell
        PROVE  /\ PositionAt(k) \in 1..Len(base) /\ Visible(PositionAt(k))
               /\ base[PositionAt(k)].var = k[2]
               /\ BaseHit(SliceOf(PositionAt(k)).target, PositionAt(k)) = Hit(k)
    <2>1. PICK t \in Targets, w \in Vars : k = <<t, w>>
      BY DEF LiveKeys, Keys
    <2>2. /\ PositionAt(k) \in PositionsOf(t) /\ Visible(PositionAt(k)) /\ PositionAt(k) \in 1..Len(base)
          /\ base[PositionAt(k)].var = w /\ BaseHit(t, PositionAt(k)) = Hit(k)
      BY <1>1, <2>1, HitOf
    <2>3. SliceOf(PositionAt(k)).target = t
      BY <2>2, SliceOfPosition
    <2> QED
      BY <2>1, <2>2, <2>3
  <1>2. P \in SUBSET Nat /\ IsFiniteSet(P)
    <2>1. Len(base) \in Nat /\ P \subseteq 1..Len(base) /\ 1..Len(base) \subseteq Nat
      BY LenProperties DEF IInv, TypeOK
    <2> HIDE DEF P
    <2> QED
      BY <2>1, FirstNumbers, FS_Subset
  <1>3. /\ \A p : p \in P <=> p \in 1..Len(base) /\ base[p].var = v /\ Visible(p)
        /\ \A k : k \in ks <=> k \in LiveKeys /\ k \notin DOMAIN byCell /\ k[2] = v
        /\ posOf \in [ks -> {PositionAt(k) : k \in ks}] /\ \A k \in ks : posOf[k] = PositionAt(k)
        /\ hits \in [1..Len(Ascending(P)) -> {hits[n] : n \in 1..Len(Ascending(P))}]
        /\ \A n \in 1..Len(Ascending(P)) :
              hits[n] = BaseHit(SliceOf(Ascending(P)[n]).target, Ascending(P)[n])
    OBVIOUS
  <1> HIDE DEF P, ks, posOf, hits
  <1>4. posOf \in [ks -> P]
    BY <1>1, <1>3
  <1>5. \A k, l \in ks : posOf[k] = posOf[l] => k = l
    BY <1>3, KeyOfData
  <1>6. ASSUME NEW p \in P
        PROVE  \E k \in ks : posOf[k] = p
    <2>1. p \in 1..Len(base) /\ base[p].var = v /\ Visible(p)
      BY <1>3
    <2>2. PICK k \in LiveKeys : k \notin DOMAIN byCell /\ PositionAt(k) = p
      BY <2>1, PositionOfKey
    <2>3. k[2] = v
      BY <1>1, <2>1, <2>2
    <2> QED
      BY <1>3, <2>2, <2>3
  <1>7. \A k \in ks, n \in 1..Len(Ascending(P)) : Ascending(P)[n] = posOf[k] => hits[n] = Hit(k)
    BY <1>1, <1>3
  <1>8. Loops(hits, ks, P, posOf)
    BY <1>2, <1>3, <1>4, <1>5, <1>6, <1>7 DEF Loops
  <1> QED
    BY <1>8, LoopYields DEF hits, ks, P

\* iter_target lists the live cells of the target.
LEMMA TargetViewOfIInv == IInv /\ ViewInv => TargetViewAgrees
  <1> SUFFICES ASSUME IInv, ViewInv, NEW t \in Targets
               PROVE  Lists(IterTarget(t), {k \in LiveKeys : k[1] = t})
    BY DEF TargetViewAgrees
  <1> DEFINE unhidden == {k \in LiveKeys : k \notin DOMAIN byCell /\ k[1] = t}
             spots  == {oi \in 1..Len(overlay) : overlay[oi].target = t}
             others == {k \in LiveKeys : k \in DOMAIN byCell /\ byCell[k] \in spots}
             visible == Ascending({pos \in PositionsOf(t) : Visible(pos)})
             f == [n \in 1..Len(visible) |-> BaseHit(t, visible[n])]
  <1>1. Yields(f, unhidden)
    BY TargetBaseYields
  <1>2. Yields(OverlayHits(byTarget[t]), others)
    <2>1. byTarget[t] \in Seq(Nat) /\ NamesOnce(byTarget[t], spots) /\ spots \in SUBSET (1..Len(overlay))
      BY DEF IInv, TypeOK, ViewInv, ListInv
    <2> HIDE DEF spots
    <2> QED
      BY <2>1, OverlayYields
  <1>3. unhidden \cap others = {}
    OBVIOUS
  <1>4. unhidden \union others = {k \in LiveKeys : k[1] = t}
    <2>1. \A k \in LiveKeys : k \in DOMAIN byCell => (byCell[k] \in spots <=> k[1] = t)
      <3> SUFFICES ASSUME NEW k \in LiveKeys, k \in DOMAIN byCell
                   PROVE  byCell[k] \in spots <=> k[1] = t
        OBVIOUS
      <3>1. PICK u \in Targets, v \in Vars : k = <<u, v>>
        BY DEF LiveKeys, Keys
      <3>2. byCell[k] \in 1..Len(overlay) /\ overlay[byCell[k]].target = u
        BY <3>1, HitOf
      <3> QED
        BY <3>1, <3>2
    <2> QED
      BY <2>1
  <1>5. IterTarget(t) = f \o OverlayHits(byTarget[t])
    BY DEF IterTarget
  <1> HIDE DEF unhidden, others, f
  <1>6. Lists(f \o OverlayHits(byTarget[t]), unhidden \union others)
    BY <1>1, <1>2, <1>3, PartsList
  <1> QED
    BY <1>4, <1>5, <1>6

\* for_var lists the live cells of the variable.
LEMMA VarViewOfIInv == IInv /\ ViewInv => VarViewAgreesWhenIndexed
  <1> SUFFICES ASSUME IInv, ViewInv, indexed = Len(base), NEW v \in Vars
               PROVE  Lists(ForVar(v), {k \in LiveKeys : k[2] = v})
    BY DEF VarViewAgreesWhenIndexed
  <1> DEFINE unhidden == {k \in LiveKeys : k \notin DOMAIN byCell /\ k[2] = v}
             spots  == {oi \in 1..Len(overlay) : overlay[oi].var = v}
             others == {k \in LiveKeys : k \in DOMAIN byCell /\ byCell[k] \in spots}
             covered == Ascending({pos \in 1..indexed : base[pos].var = v /\ Visible(pos)})
             f == [n \in 1..Len(covered) |-> BaseHit(SliceOf(covered[n]).target, covered[n])]
  <1>1. Yields(f, unhidden)
    BY VarBaseYields DEF ViewInv
  <1>2. Yields(OverlayHits(byVar[v]), others)
    <2>1. byVar[v] \in Seq(Nat) /\ NamesOnce(byVar[v], spots) /\ spots \in SUBSET (1..Len(overlay))
      BY DEF IInv, TypeOK, ViewInv, ListInv
    <2> HIDE DEF spots
    <2> QED
      BY <2>1, OverlayYields
  <1>3. unhidden \cap others = {}
    OBVIOUS
  <1>4. unhidden \union others = {k \in LiveKeys : k[2] = v}
    <2>1. \A k \in LiveKeys : k \in DOMAIN byCell => (byCell[k] \in spots <=> k[2] = v)
      <3> SUFFICES ASSUME NEW k \in LiveKeys, k \in DOMAIN byCell
                   PROVE  byCell[k] \in spots <=> k[2] = v
        OBVIOUS
      <3>1. PICK u \in Targets, w \in Vars : k = <<u, w>>
        BY DEF LiveKeys, Keys
      <3>2. byCell[k] \in 1..Len(overlay) /\ overlay[byCell[k]].var = w
        BY <3>1, HitOf
      <3> QED
        BY <3>1, <3>2
    <2> QED
      BY <2>1
  <1>5. ForVar(v) = f \o OverlayHits(byVar[v])
    BY DEF ForVar
  <1> HIDE DEF unhidden, others, f
  <1>6. Lists(f \o OverlayHits(byVar[v]), unhidden \union others)
    BY <1>1, <1>2, <1>3, PartsList
  <1> QED
    BY <1>4, <1>5, <1>6

\* The overlay's lists and the directory are as the iterations need them.
THEOREM ViewInvariance == Spec => []ViewInv
  <1>1. IInv /\ ViewInv /\ [Next]_vars => ViewInv'
    BY NextIsACall, CallViewInv, UnchangedViewInv DEF Next
  <1> QED
    BY <1>1, KernelBInvariance, InitViewInv, PTL DEF Spec

\* iter_target yields each live cell of a target once, whatever was updated,
\* removed or added again before.
THEOREM TargetViewAlwaysAgrees == Spec => []TargetViewAgrees
  BY KernelBInvariance, ViewInvariance, TargetViewOfIInv, PTL

\* for_var yields each live cell of a variable once while the index covers the
\* base, whatever the overlay went through since it was built.
THEOREM VarViewAgreesWhileIndexed == Spec => []VarViewAgreesWhenIndexed
  BY KernelBInvariance, ViewInvariance, VarViewOfIInv, PTL

-----------------------------------------------------------------------------
(***************************************************************************)
(* Kernel B implements CoeffStore.                                         *)
(***************************************************************************)
Contract == INSTANCE CoeffStore WITH Values <- Int, cells <- Cells, minted <- Minted

\* What for_cell answers: from the overlay if it has the cell, else from the
\* visible position.
LookupView ==
    \A t \in Targets, v \in Vars :
        /\ <<t, v>> \in DOMAIN byCell =>
              /\ byCell[<<t, v>>] \in 1..Len(overlay)
              /\ <<t, v>> \in LiveKeys <=> LiveSlot(byCell[<<t, v>>])
              /\ <<t, v>> \in LiveKeys =>
                    /\ Cells[<<t, v>>].id = overlay[byCell[<<t, v>>]].id
                    /\ Cells[<<t, v>>].value = overlay[byCell[<<t, v>>]].value
        /\ <<t, v>> \notin DOMAIN byCell =>
              /\ <<t, v>> \in LiveKeys <=> BasePosition(t, v) # 0
              /\ <<t, v>> \in LiveKeys =>
                    /\ Cells[<<t, v>>].id = base[BasePosition(t, v)].id
                    /\ Cells[<<t, v>>].value = base[BasePosition(t, v)].value
        /\ BasePosition(t, v) # 0 => BasePosition(t, v) \in PositionsOf(t)
        /\ \A pos \in PositionsOf(t) : base[pos].var = v /\ Visible(pos) =>
              BasePosition(t, v) = pos /\ pos # 0
        /\ <<t, v>> \in LiveKeys => Cells[<<t, v>>].value \in Int

LEMMA ViewOfIInv == IInv => LookupView
  <1> SUFFICES ASSUME IInv, NEW t \in Targets, NEW v \in Vars
               PROVE  LookupView!(t, v)
    BY DEF LookupView
  <1>1. <<t, v>> \in LiveKeys <=> ForCell(t, v) # NoCell
    BY DEF LiveKeys, Keys
  <1>2. <<t, v>> \in LiveKeys => Cells[<<t, v>>] = ForCell(t, v)
    BY DEF Cells
  <1>3. \A oi \in 1..Len(overlay) : overlay[oi].value \in Int
    BY SlotTyped
  <1>4. \A pos \in 1..Len(base) : base[pos].value \in Int
    <2> SUFFICES ASSUME NEW pos \in 1..Len(base) PROVE base[pos].value \in Int
      OBVIOUS
    <2>1. base[pos] \in BaseCells
      BY ElementOfSeq DEF IInv, TypeOK
    <2> QED
      BY <2>1 DEF BaseCells
  <1>5. CASE <<t, v>> \in DOMAIN byCell
    BY <1>1, <1>2, <1>3, <1>5, Found, PositionFound DEF IInv
  <1>6. CASE <<t, v>> \notin DOMAIN byCell
    BY <1>1, <1>2, <1>4, <1>6, Found, PositionFound DEF IInv
  <1> QED
    BY <1>5, <1>6

\* A change that concerns one cell leaves what for_cell answers for the others.
LEMMA OthersStay ==
    ASSUME IInv, NEW t \in Targets, NEW v \in Vars, UNCHANGED baseVars,
           DOMAIN byCell' \ {<<t, v>>} = DOMAIN byCell \ {<<t, v>>},
           \A k \in DOMAIN byCell : byCell'[k] = byCell[k],
           \A j \in 1..Len(overlay) : OverlayKey(j) # <<t, v>> => overlay'[j] = overlay[j],
           \A q \in 1..Len(base) : q # BasePosition(t, v) => (Visible(q)' <=> Visible(q)),
           NEW u \in Targets, NEW w \in Vars, <<u, w>> # <<t, v>>
    PROVE  ForCell(u, w)' = ForCell(u, w)
  <1>1. base' = base /\ PositionsOf(u)' = PositionsOf(u)
    BY SameBase
  <1>2. ASSUME NEW pos \in PositionsOf(u), base[pos].var = w
        PROVE  Visible(pos)' <=> Visible(pos)
    <2>1. pos \in 1..Len(base) /\ pos # 0
      BY DEF IInv, SliceInv
    <2>2. pos # BasePosition(t, v)
      <3> SUFFICES ASSUME pos = BasePosition(t, v) PROVE FALSE
        OBVIOUS
      <3>1. pos \in PositionsOf(t) /\ base[pos].var = v
        BY <2>1, PositionFound DEF IInv
      <3> QED
        BY <1>2, <3>1 DEF IInv, SliceInv
    <2> QED
      BY <2>1, <2>2
  <1>3. Hits(u, w)' = Hits(u, w)
    BY <1>1, <1>2 DEF Hits
  <1>4. BasePosition(u, w)' = BasePosition(u, w)
    BY <1>3 DEF BasePosition
  <1>5. <<u, w>> \in DOMAIN byCell' <=> <<u, w>> \in DOMAIN byCell
    OBVIOUS
  <1>6. CASE <<u, w>> \in DOMAIN byCell
    <2>1. PICK oi \in 1..Len(overlay) : oi = byCell[<<u, w>>] /\ OverlayKey(oi) = <<u, w>>
      BY <1>6 DEF IInv, OverlayInv
    <2>2. overlay'[oi] = overlay[oi] /\ byCell'[<<u, w>>] = oi
      BY <1>6, <2>1
    <2> QED
      BY <1>5, <1>6, <2>1, <2>2 DEF ForCell
  <1>7. CASE <<u, w>> \notin DOMAIN byCell
    BY <1>1, <1>4, <1>5, <1>7 DEF ForCell
  <1> QED
    BY <1>6, <1>7

\* Steps of the contract, from what for_cell answers.
LEMMA OtherCells ==
    ASSUME NEW t \in Targets, NEW v \in Vars,
           \A u \in Targets, w \in Vars : <<u, w>> # <<t, v>> => ForCell(u, w)' = ForCell(u, w)
    PROVE  /\ LiveKeys' \ {<<t, v>>} = LiveKeys \ {<<t, v>>}
           /\ \A k \in LiveKeys \ {<<t, v>>} : Cells'[k] = Cells[k]
           /\ DOMAIN Cells = LiveKeys /\ DOMAIN Cells' = LiveKeys' /\ <<t, v>> \in Contract!Keys
  <1>1. ASSUME NEW k \in Keys, k # <<t, v>>
        PROVE  ForCell(k[1], k[2])' = ForCell(k[1], k[2])
    BY <1>1 DEF Keys
  <1>2. LiveKeys' \ {<<t, v>>} = LiveKeys \ {<<t, v>>}
    BY <1>1 DEF LiveKeys
  <1>3. ASSUME NEW k \in LiveKeys, k # <<t, v>>
        PROVE  Cells'[k] = Cells[k]
    <2>1. k \in Keys /\ k \in LiveKeys'
      BY <1>2, <1>3 DEF LiveKeys
    <2>2. Cells[k] = ForCell(k[1], k[2]) /\ Cells'[k] = ForCell(k[1], k[2])'
      BY <2>1 DEF Cells
    <2> QED
      BY <1>1, <1>3, <2>1, <2>2
  <1> QED
    BY <1>2, <1>3 DEF Cells, Contract!Keys

LEMMA PutOf ==
    ASSUME NEW t \in Targets, NEW v \in Vars,
           \A u \in Targets, w \in Vars : <<u, w>> # <<t, v>> => ForCell(u, w)' = ForCell(u, w),
           <<t, v>> \in LiveKeys', Cells'[<<t, v>>].value \in Int,
           \/ /\ <<t, v>> \in LiveKeys /\ Minted' = Minted
              /\ Cells'[<<t, v>>].id = Cells[<<t, v>>].id
           \/ /\ <<t, v>> \notin LiveKeys /\ Minted' = Minted + 1
              /\ Cells'[<<t, v>>].id = Minted + 1
    PROVE  Contract!Next
  <1> DEFINE k == <<t, v>>
  <1>1. /\ DOMAIN Cells' = DOMAIN Cells \union {k}
        /\ \A l \in DOMAIN Cells \ {k} : Cells'[l] = Cells[l]
        /\ k \in DOMAIN Cells <=> k \in LiveKeys
        /\ k \in Contract!Keys
    BY OtherCells
  <1> HIDE DEF k
  <1>2. CASE k \in LiveKeys /\ Minted' = Minted /\ Cells'[k].id = Cells[k].id
    <2>1. Contract!Put(k)
      BY <1>1, <1>2 DEF Contract!Put, Contract!Live, Contract!Become, k
    <2> QED
      BY <1>1, <2>1 DEF Contract!Next
  <1>3. CASE k \notin LiveKeys /\ Minted' = Minted + 1 /\ Cells'[k].id = Minted + 1
    <2>1. Contract!Put(k)
      BY <1>1, <1>3 DEF Contract!Put, Contract!Live, Contract!Become, k
    <2> QED
      BY <1>1, <2>1 DEF Contract!Next
  <1> QED
    BY <1>2, <1>3 DEF k

LEMMA RemoveOf ==
    ASSUME NEW t \in Targets, NEW v \in Vars,
           \A u \in Targets, w \in Vars : <<u, w>> # <<t, v>> => ForCell(u, w)' = ForCell(u, w),
           <<t, v>> \in LiveKeys, <<t, v>> \notin LiveKeys', Minted' = Minted
    PROVE  Contract!Next
  <1> DEFINE k == <<t, v>>
  <1>1. /\ DOMAIN Cells' = DOMAIN Cells \ {k}
        /\ \A l \in DOMAIN Cells \ {k} : Cells'[l] = Cells[l]
        /\ k \in DOMAIN Cells /\ k \in Contract!Keys
    BY OtherCells
  <1> HIDE DEF k
  <1>2. Contract!Remove(k)
    BY <1>1 DEF Contract!Remove, Contract!Live, Contract!Become
  <1> QED
    BY <1>1, <1>2 DEF Contract!Next

\* A slot rewritten in place, seen through for_cell.
LEMMA InPlaceView ==
    ASSUME IInv, LookupView, LookupView', NEW t \in Targets, NEW v \in Vars,
           <<t, v>> \in DOMAIN byCell, NEW oi, oi = byCell[<<t, v>>], NEW cell \in OverlayCells,
           overlay' = [overlay EXCEPT ![oi] = cell], UNCHANGED <<baseVars, shadowed, dead, byCell>>
    PROVE  /\ \A u \in Targets, w \in Vars : <<u, w>> # <<t, v>> => ForCell(u, w)' = ForCell(u, w)
           /\ <<t, v>> \in LiveKeys <=> ~ overlay[oi].tombstone
           /\ <<t, v>> \in LiveKeys => Cells[<<t, v>>].id = overlay[oi].id
           /\ <<t, v>> \in LiveKeys' <=> ~ cell.tombstone
           /\ <<t, v>> \in LiveKeys' => Cells'[<<t, v>>].id = cell.id /\ Cells'[<<t, v>>].value \in Int
  <1>1. oi \in 1..Len(overlay) /\ OverlayKey(oi) = <<t, v>>
    BY DEF IInv, OverlayInv
  <1>2. \A j \in 1..Len(overlay) : overlay'[j] = IF j = oi THEN cell ELSE overlay[j]
    BY <1>1, ElementUpdate DEF IInv, TypeOK
  <1>3. \A u \in Targets, w \in Vars : <<u, w>> # <<t, v>> => ForCell(u, w)' = ForCell(u, w)
    <2>1. \A q : Visible(q)' <=> Visible(q)
      BY DEF Visible
    <2>2. \A j \in 1..Len(overlay) : OverlayKey(j) # <<t, v>> => overlay'[j] = overlay[j]
      BY <1>1, <1>2
    <2>3. byCell' = byCell /\ UNCHANGED baseVars
      OBVIOUS
    <2> QED
      BY <2>1, <2>2, <2>3, OthersStay
  <1>4. /\ <<t, v>> \in LiveKeys <=> ~ overlay[oi].tombstone
        /\ <<t, v>> \in LiveKeys => Cells[<<t, v>>].id = overlay[oi].id
    BY DEF LookupView, LiveSlot
  <1>5. /\ <<t, v>> \in LiveKeys' <=> ~ overlay'[oi].tombstone
        /\ <<t, v>> \in LiveKeys' => Cells'[<<t, v>>].id = overlay'[oi].id /\ Cells'[<<t, v>>].value \in Int
    BY DEF LookupView, LiveSlot
  <1> QED
    BY <1>1, <1>2, <1>3, <1>4, <1>5

\* A slot added, seen through for_cell.
LEMMA PushView ==
    ASSUME IInv, LookupView, LookupView', NEW t \in Targets, NEW v \in Vars,
           <<t, v>> \notin DOMAIN byCell, NEW n, NEW cell, GrownBy(n, cell, t, v),
           UNCHANGED baseVars,
           \A q \in 1..Len(base) : q # BasePosition(t, v) => (Visible(q)' <=> Visible(q))
    PROVE  /\ \A u \in Targets, w \in Vars : <<u, w>> # <<t, v>> => ForCell(u, w)' = ForCell(u, w)
           /\ <<t, v>> \in LiveKeys <=> BasePosition(t, v) # 0
           /\ <<t, v>> \in LiveKeys => Cells[<<t, v>>].id = base[BasePosition(t, v)].id
           /\ <<t, v>> \in LiveKeys' <=> ~ cell.tombstone
           /\ <<t, v>> \in LiveKeys' => Cells'[<<t, v>>].id = cell.id /\ Cells'[<<t, v>>].value \in Int
  <1>1. /\ \A j \in 1..Len(overlay) : overlay'[j] = overlay[j]
        /\ DOMAIN byCell' = DOMAIN byCell \union {<<t, v>>} /\ byCell'[<<t, v>>] = n
        /\ \A k \in DOMAIN byCell : byCell'[k] = byCell[k]
        /\ overlay'[n] = cell
    BY DEF GrownBy
  <1>2. \A u \in Targets, w \in Vars : <<u, w>> # <<t, v>> => ForCell(u, w)' = ForCell(u, w)
    <2>1. DOMAIN byCell' \ {<<t, v>>} = DOMAIN byCell \ {<<t, v>>}
      BY <1>1
    <2> QED
      BY <1>1, <2>1, OthersStay
  <1>3. /\ <<t, v>> \in LiveKeys <=> BasePosition(t, v) # 0
        /\ <<t, v>> \in LiveKeys => Cells[<<t, v>>].id = base[BasePosition(t, v)].id
    BY DEF LookupView
  <1>4. /\ <<t, v>> \in LiveKeys' <=> ~ overlay'[n].tombstone
        /\ <<t, v>> \in LiveKeys' => Cells'[<<t, v>>].id = overlay'[n].id /\ Cells'[<<t, v>>].value \in Int
    BY <1>1 DEF LookupView, LiveSlot
  <1> QED
    BY <1>1, <1>2, <1>3, <1>4

\* update() is a Put.
LEMMA UpdateIsPut ==
    ASSUME IInv, LookupView, LookupView', NEW t \in Targets, NEW v \in Vars, NEW x \in Int,
           NEW deps \in SUBSET Params, Update(t, v, x, deps)
    PROVE  Contract!Next
  <1>1. CASE UpdateOverlay(t, v, x, deps)
    <2>1. PICK oi \in 1..Len(overlay) : oi = byCell[<<t, v>>] /\ ~ overlay[oi].tombstone
      BY <1>1 DEF UpdateOverlay, IInv, OverlayInv
    <2> DEFINE cell == [[overlay[oi] EXCEPT !.value = x] EXCEPT !.deps = deps]
    <2>2. cell \in OverlayCells /\ cell.id = overlay[oi].id /\ cell.tombstone = overlay[oi].tombstone
      BY SlotTyped DEF OverlayCells
    <2>3. /\ <<t, v>> \in DOMAIN byCell /\ overlay' = [overlay EXCEPT ![oi] = cell]
          /\ UNCHANGED <<baseVars, shadowed, dead, byCell>> /\ Minted' = Minted
      BY <1>1, <2>1 DEF UpdateOverlay, Minted
    <2> HIDE DEF cell
    <2>4. /\ \A u \in Targets, w \in Vars : <<u, w>> # <<t, v>> => ForCell(u, w)' = ForCell(u, w)
          /\ <<t, v>> \in LiveKeys <=> ~ overlay[oi].tombstone
          /\ <<t, v>> \in LiveKeys => Cells[<<t, v>>].id = overlay[oi].id
          /\ <<t, v>> \in LiveKeys' <=> ~ cell.tombstone
          /\ <<t, v>> \in LiveKeys' => Cells'[<<t, v>>].id = cell.id /\ Cells'[<<t, v>>].value \in Int
      BY <2>1, <2>2, <2>3, InPlaceView
    <2> QED
      BY <2>1, <2>2, <2>3, <2>4, PutOf
  <1>2. CASE UpdateTombstone(t, v, x, deps)
    <2>1. PICK oi \in 1..Len(overlay) : oi = byCell[<<t, v>>] /\ overlay[oi].tombstone
      BY <1>2 DEF UpdateTombstone, IInv, OverlayInv
    <2>2. identity \in Seq(Locations) /\ Len(identity) \in Nat /\ InOverlay(oi) \in Locations
      BY LenProperties DEF IInv, TypeOK, Locations, InOverlay
    <2>3. PICK cell \in OverlayCells : /\ cell = Cell(t, v, Len(identity) + 1, x, deps, FALSE)
                                       /\ cell.id = Minted + 1 /\ ~ cell.tombstone
      <3> DEFINE cell == Cell(t, v, Len(identity) + 1, x, deps, FALSE)
      <3>1. cell \in OverlayCells /\ cell.id = Minted + 1 /\ ~ cell.tombstone
        BY <2>2 DEF Cell, OverlayCells, Minted
      <3> HIDE DEF cell
      <3> QED
        BY <3>1 DEF cell
    <2>4. /\ <<t, v>> \in DOMAIN byCell /\ overlay' = [overlay EXCEPT ![oi] = cell]
          /\ UNCHANGED <<baseVars, shadowed, dead, byCell>> /\ identity' = Append(identity, InOverlay(oi))
      BY <1>2, <2>1, <2>3 DEF UpdateTombstone, Allocate
    <2>5. Minted' = Minted + 1
      BY <2>2, <2>4, ElementAppend DEF Minted
    <2>6. /\ \A u \in Targets, w \in Vars : <<u, w>> # <<t, v>> => ForCell(u, w)' = ForCell(u, w)
          /\ <<t, v>> \in LiveKeys <=> ~ overlay[oi].tombstone
          /\ <<t, v>> \in LiveKeys' <=> ~ cell.tombstone
          /\ <<t, v>> \in LiveKeys' => Cells'[<<t, v>>].id = cell.id /\ Cells'[<<t, v>>].value \in Int
      BY <2>1, <2>4, InPlaceView
    <2> QED
      BY <2>1, <2>3, <2>5, <2>6, PutOf
  <1>3. CASE UpdatePacked(t, v, x, deps)
    <2>1. PICK pos : pos = BasePosition(t, v)
      OBVIOUS
    <2>2. pos # 0 /\ <<t, v>> \notin DOMAIN byCell /\ base[pos].id \in 1..Len(identity)
      BY <1>3, <2>1, PositionFound DEF UpdatePacked, IInv, IdInv
    <2>3. PICK n : n = Len(overlay) + 1
      OBVIOUS
    <2>4. n \in Nat /\ base[pos].id \in Nat /\ identity \in Seq(Locations)
      BY <2>2, <2>3, LenProperties DEF IInv, TypeOK, Locations
    <2>5. PICK cell \in OverlayCells : /\ cell = Cell(t, v, base[pos].id, x, deps, FALSE)
                                       /\ cell.target = t /\ cell.var = v
                                       /\ cell.id = base[pos].id /\ ~ cell.tombstone
      <3> DEFINE cell == Cell(t, v, base[pos].id, x, deps, FALSE)
      <3>1. /\ cell \in OverlayCells /\ cell.target = t /\ cell.var = v
            /\ cell.id = base[pos].id /\ ~ cell.tombstone
        BY <2>4 DEF Cell, OverlayCells
      <3> HIDE DEF cell
      <3> QED
        BY <3>1 DEF cell
    <2>6. /\ PushOverlay(cell) /\ UNCHANGED baseVars
          /\ shadowed' = shadowed \union {pos} /\ dead' = dead
          /\ Len(identity') = Len(identity)
      <3>1. /\ PushOverlay(cell) /\ UNCHANGED baseVars
            /\ shadowed' = shadowed \union {pos} /\ dead' = dead
        BY <1>3, <2>1, <2>5 DEF UpdatePacked
      <3>2. PICK loc : identity' = [identity EXCEPT ![base[pos].id] = loc]
        BY <1>3, <2>1 DEF UpdatePacked
      <3> QED
        BY <2>4, <3>1, <3>2
    <2>7. GrownBy(n, cell, t, v)
      BY <2>2, <2>3, <2>5, <2>6, PushedAt
    <2>8. \A q \in 1..Len(base) : q # BasePosition(t, v) => (Visible(q)' <=> Visible(q))
      BY <2>1, <2>6 DEF Visible
    <2>9. /\ \A u \in Targets, w \in Vars : <<u, w>> # <<t, v>> => ForCell(u, w)' = ForCell(u, w)
          /\ <<t, v>> \in LiveKeys <=> BasePosition(t, v) # 0
          /\ <<t, v>> \in LiveKeys => Cells[<<t, v>>].id = base[BasePosition(t, v)].id
          /\ <<t, v>> \in LiveKeys' <=> ~ cell.tombstone
          /\ <<t, v>> \in LiveKeys' => Cells'[<<t, v>>].id = cell.id /\ Cells'[<<t, v>>].value \in Int
      BY <2>2, <2>6, <2>7, <2>8, PushView
    <2> QED
      BY <2>1, <2>2, <2>5, <2>6, <2>9, PutOf DEF Minted
  <1>4. CASE UpdateCreate(t, v, x, deps)
    <2>1. BasePosition(t, v) = 0 /\ <<t, v>> \notin DOMAIN byCell
      BY <1>4 DEF UpdateCreate
    <2>2. PICK n : n = Len(overlay) + 1
      OBVIOUS
    <2>3. n \in Nat /\ Len(identity) \in Nat /\ identity \in Seq(Locations) /\ InOverlay(n) \in Locations
      BY <2>2, LenProperties DEF IInv, TypeOK, Locations, InOverlay
    <2>4. PICK cell \in OverlayCells : /\ cell = Cell(t, v, Len(identity) + 1, x, deps, FALSE)
                                       /\ cell.target = t /\ cell.var = v
                                       /\ cell.id = Minted + 1 /\ ~ cell.tombstone
      <3> DEFINE cell == Cell(t, v, Len(identity) + 1, x, deps, FALSE)
      <3>1. /\ cell \in OverlayCells /\ cell.target = t /\ cell.var = v
            /\ cell.id = Minted + 1 /\ ~ cell.tombstone
        BY <2>3 DEF Cell, OverlayCells, Minted
      <3> HIDE DEF cell
      <3> QED
        BY <3>1 DEF cell
    <2>5. /\ PushOverlay(cell) /\ UNCHANGED <<baseVars, shadowed, dead>>
          /\ identity' = Append(identity, InOverlay(n))
      BY <1>4, <2>2, <2>4 DEF UpdateCreate, Allocate
    <2>6. Minted' = Minted + 1
      BY <2>3, <2>5, ElementAppend DEF Minted
    <2>7. GrownBy(n, cell, t, v)
      BY <2>1, <2>2, <2>4, <2>5, PushedAt
    <2>8. \A q \in 1..Len(base) : q # BasePosition(t, v) => (Visible(q)' <=> Visible(q))
      BY <2>5 DEF Visible
    <2>9. /\ \A u \in Targets, w \in Vars : <<u, w>> # <<t, v>> => ForCell(u, w)' = ForCell(u, w)
          /\ <<t, v>> \in LiveKeys <=> BasePosition(t, v) # 0
          /\ <<t, v>> \in LiveKeys' <=> ~ cell.tombstone
          /\ <<t, v>> \in LiveKeys' => Cells'[<<t, v>>].id = cell.id /\ Cells'[<<t, v>>].value \in Int
      BY <2>1, <2>5, <2>7, <2>8, PushView
    <2> QED
      BY <2>1, <2>4, <2>6, <2>9, PutOf
  <1> QED
    BY <1>1, <1>2, <1>3, <1>4 DEF Update

\* remove() is a Remove.
LEMMA RemoveIsRemove ==
    ASSUME IInv, LookupView, LookupView', NEW t \in Targets, NEW v \in Vars, RemoveCell(t, v)
    PROVE  Contract!Next
  <1>1. CASE RemoveOverlay(t, v)
    <2>1. PICK oi \in 1..Len(overlay) : oi = byCell[<<t, v>>] /\ LiveSlot(oi)
      BY <1>1 DEF RemoveOverlay, IInv, OverlayInv, LiveSlot
    <2> DEFINE cell == [overlay[oi] EXCEPT !.tombstone = TRUE]
    <2>2. cell \in OverlayCells /\ cell.tombstone
      BY SlotTyped DEF OverlayCells
    <2>3. /\ <<t, v>> \in DOMAIN byCell /\ overlay' = [overlay EXCEPT ![oi] = cell]
          /\ UNCHANGED <<baseVars, shadowed, dead, byCell>>
          /\ identity' = [identity EXCEPT ![overlay[oi].id] = Gone]
      BY <1>1, <2>1 DEF RemoveOverlay
    <2>4. Minted' = Minted
      <3>1. identity \in Seq(Locations) /\ Gone \in Locations /\ overlay[oi].id \in 1..Len(identity)
        BY <2>1 DEF IInv, TypeOK, IdInv, Locations, Gone
      <3> QED
        BY <2>3, <3>1, ElementUpdate DEF Minted
    <2> HIDE DEF cell
    <2>5. /\ \A u \in Targets, w \in Vars : <<u, w>> # <<t, v>> => ForCell(u, w)' = ForCell(u, w)
          /\ <<t, v>> \in LiveKeys <=> ~ overlay[oi].tombstone
          /\ <<t, v>> \in LiveKeys' <=> ~ cell.tombstone
      BY <2>1, <2>2, <2>3, InPlaceView
    <2> QED
      BY <2>1, <2>2, <2>4, <2>5, RemoveOf DEF LiveSlot
  <1>2. CASE RemovePacked(t, v)
    <2>1. PICK pos : pos = BasePosition(t, v)
      OBVIOUS
    <2>2. pos # 0 /\ <<t, v>> \notin DOMAIN byCell /\ base[pos].id \in 1..Len(identity)
      BY <1>2, <2>1, PositionFound DEF RemovePacked, IInv, IdInv
    <2>3. PICK n : n = Len(overlay) + 1
      OBVIOUS
    <2>4. base[pos].id \in Nat /\ identity \in Seq(Locations) /\ Gone \in Locations
      BY <2>2 DEF IInv, TypeOK, Locations, Gone
    <2>5. PICK cell \in OverlayCells : /\ cell = Cell(t, v, base[pos].id, 0, {}, TRUE)
                                       /\ cell.target = t /\ cell.var = v /\ cell.tombstone
      <3> DEFINE cell == Cell(t, v, base[pos].id, 0, {}, TRUE)
      <3>1. cell \in OverlayCells /\ cell.target = t /\ cell.var = v /\ cell.tombstone
        BY <2>4 DEF Cell, OverlayCells
      <3> HIDE DEF cell
      <3> QED
        BY <3>1 DEF cell
    <2>6. /\ PushOverlay(cell) /\ UNCHANGED baseVars
          /\ shadowed' = shadowed /\ dead' = dead \union {pos}
          /\ identity' = [identity EXCEPT ![base[pos].id] = Gone]
      BY <1>2, <2>1, <2>5 DEF RemovePacked
    <2>7. Minted' = Minted
      BY <2>2, <2>4, <2>6, ElementUpdate DEF Minted
    <2>8. GrownBy(n, cell, t, v)
      BY <2>2, <2>3, <2>5, <2>6, PushedAt
    <2>9. \A q \in 1..Len(base) : q # BasePosition(t, v) => (Visible(q)' <=> Visible(q))
      BY <2>1, <2>6 DEF Visible
    <2>10. /\ \A u \in Targets, w \in Vars : <<u, w>> # <<t, v>> => ForCell(u, w)' = ForCell(u, w)
           /\ <<t, v>> \in LiveKeys <=> BasePosition(t, v) # 0
           /\ <<t, v>> \in LiveKeys' <=> ~ cell.tombstone
      BY <2>2, <2>6, <2>8, <2>9, PushView
    <2> QED
      BY <2>1, <2>2, <2>5, <2>7, <2>10, RemoveOf
  <1> QED
    BY <1>1, <1>2 DEF RemoveCell

\* build_constant_block() is an AddBlock.
LEMMA BlockIsAddBlock ==
    ASSUME IInv, LookupView, LookupView', NEW t \in Targets, NEW V \in SUBSET Vars,
           NEW block \in SortedBlocks(V), NEW value \in [DOMAIN block -> Int],
           BuildConstantBlock(t, block, value)
    PROVE  Contract!Next
  <1>1. PICK n \in Nat : n = Len(block)
    BY BlockTyped
  <1>2. PICK b \in Nat : b = Len(base)
    BY LenProperties DEF IInv, TypeOK
  <1>3. PICK m \in Nat : m = Len(identity)
    BY LenProperties DEF IInv, TypeOK
  <1>4. BlockBuilt(t, block, value, b, m, n)
    BY <1>1, <1>2, <1>3, BlockIsBuilt
  <1>5. /\ overlay' = overlay /\ byCell' = byCell /\ \A q : Visible(q)' <=> Visible(q)
        /\ byTarget[t] = <<>>
        /\ Minted = m /\ Minted' = m + n
        /\ \A i \in 1..b : base'[i] = base[i]
        /\ \A i \in 1..n : base'[b + i].var = block[i] /\ base'[b + i].id = m + i
    BY <1>3, <1>4 DEF BlockBuilt, overlayVars, Visible, Minted
  <1>6. /\ PositionsOf(t)' = (b + 1)..(b + n) /\ PositionsOf(t) = {}
        /\ \A u \in Targets : u # t => PositionsOf(u)' = PositionsOf(u)
        /\ \A u \in Targets : PositionsOf(u) \subseteq 1..b
        /\ \A q \in (b + 1)..(b + n) : q \notin 1..b /\ q - b \in 1..n /\ b + (q - b) = q
    BY <1>4 DEF BlockBuilt
  <1>7. /\ \A i \in 1..n : block[i] \in Vars
        /\ \A i, j \in 1..n : block[i] = block[j] => i = j
    BY <1>1, BlockTyped
  <1>8. \A v : <<t, v>> \notin DOMAIN byCell
    <2> SUFFICES ASSUME NEW v, <<t, v>> \in DOMAIN byCell PROVE FALSE
      OBVIOUS
    <2>1. byCell[<<t, v>>] \in 1..Len(overlay) /\ overlay[byCell[<<t, v>>]].target = t
      BY DEF IInv, OverlayInv, OverlayKey
    <2> QED
      BY <1>5, <2>1 DEF IInv, OverlayInv
  <1> DEFINE new == {block[i] : i \in 1..n}
  <1>9. \A v \in Vars : <<t, v>> \notin LiveKeys
    BY <1>6, <1>8 DEF LookupView
  <1>10. ASSUME NEW i \in 1..n
         PROVE  /\ <<t, block[i]>> \in LiveKeys' /\ Cells'[<<t, block[i]>>].id = m + i
                /\ Cells'[<<t, block[i]>>].value \in Int
    <2>1. b + i \in (b + 1)..(b + n)
      OBVIOUS
    <2>2. Visible(b + i)'
      <3>1. dead \subseteq 1..b /\ shadowed \subseteq 1..b
        BY <1>2 DEF IInv, BitInv
      <3> QED
        BY <1>5, <1>6, <2>1, <3>1 DEF Visible
    <2>3. BasePosition(t, block[i])' = b + i /\ b + i # 0
      <3>1. block[i] \in Vars /\ base'[b + i].var = block[i] /\ b + i \in PositionsOf(t)'
        BY <1>5, <1>6, <1>7, <2>1
      <3>2. \A pos \in PositionsOf(t)' : base'[pos].var = block[i] /\ Visible(pos)'
                => BasePosition(t, block[i])' = pos /\ pos # 0
        BY <3>1 DEF LookupView
      <3> QED
        BY <2>2, <3>1, <3>2
    <2>4. <<t, block[i]>> \notin DOMAIN byCell'
      BY <1>5, <1>8
    <2>5. /\ <<t, block[i]>> \in LiveKeys'
          /\ Cells'[<<t, block[i]>>].id = base'[BasePosition(t, block[i])'].id
          /\ Cells'[<<t, block[i]>>].value \in Int
      BY <1>7, <2>3, <2>4 DEF LookupView
    <2> QED
      BY <1>5, <2>3, <2>5
  <1>11. ASSUME NEW v \in Vars, v \notin new
         PROVE  <<t, v>> \notin LiveKeys'
    <2>1. Hits(t, v)' = {}
      <3> SUFFICES ASSUME NEW q \in (b + 1)..(b + n) PROVE base'[q].var # v
        BY <1>6 DEF Hits
      <3>1. base'[q].var = block[q - b] /\ q - b \in 1..n
        BY <1>5, <1>6
      <3> QED
        BY <1>11, <3>1
    <2>2. BasePosition(t, v)' = 0
      BY <2>1 DEF BasePosition
    <2> QED
      BY <1>5, <1>8, <2>2 DEF LookupView
  <1>12. ASSUME NEW u \in Targets, NEW w \in Vars, u # t
         PROVE  ForCell(u, w)' = ForCell(u, w)
    <2>1. \A pos \in PositionsOf(u) : base'[pos] = base[pos]
      BY <1>5, <1>6
    <2>2. Hits(u, w)' = Hits(u, w)
      BY <1>5, <1>6, <1>12, <2>1 DEF Hits
    <2>3. BasePosition(u, w)' = BasePosition(u, w)
      BY <2>2 DEF BasePosition
    <2>4. BasePosition(u, w) # 0 => base'[BasePosition(u, w)] = base[BasePosition(u, w)]
      BY <2>1 DEF LookupView
    <2> QED
      BY <1>5, <2>3, <2>4 DEF ForCell
  <1> HIDE DEF new
  <1>13. LiveKeys' = LiveKeys \union ({t} \X new)
    <2>1. ASSUME NEW k \in Keys
          PROVE  k \in LiveKeys' <=> k \in LiveKeys \union ({t} \X new)
      <3>1. PICK u \in Targets, w \in Vars : k = <<u, w>>
        BY DEF Keys
      <3>2. CASE u = t
        <4>1. w \in new => k \in LiveKeys'
          BY <1>10, <3>1, <3>2 DEF new
        <4> QED
          BY <1>9, <1>11, <3>1, <3>2, <4>1
      <3>3. CASE u # t
        <4>1. k \in LiveKeys' <=> k \in LiveKeys
          BY <1>12, <3>1, <3>3 DEF LiveKeys
        <4> QED
          BY <3>1, <3>3, <4>1
      <3> QED
        BY <3>2, <3>3
    <2>2. LiveKeys \subseteq Keys /\ LiveKeys' \subseteq Keys /\ {t} \X new \subseteq Keys
      BY <1>7 DEF LiveKeys, Keys, new
    <2> QED
      BY <2>1, <2>2
  <1>14. ASSUME NEW k \in LiveKeys
         PROVE  Cells'[k] = Cells[k]
    <2>1. PICK u \in Targets, w \in Vars : k = <<u, w>>
      BY DEF LiveKeys, Keys
    <2>2. u # t
      BY <1>9, <2>1
    <2>3. Cells[k] = ForCell(u, w)
      BY <2>1 DEF Cells
    <2>4. Cells'[k] = ForCell(u, w)'
      BY <1>13, <2>1 DEF Cells
    <2> QED
      BY <1>12, <2>2, <2>3, <2>4
  <1>15. Contract!Cardinality(new) = n
    <2>1. IsFiniteSet(1..n) /\ Cardinality(1..n) = n
      BY FirstNumbers
    <2>2. block \in [1..n -> new] /\ \A v \in new : \E i \in 1..n : block[i] = v
      <3>1. block \in [1..n -> V]
        <4>1. Cardinality(V) \in Nat
          BY StoreAssumption, FS_Subset, FS_CardinalityType DEF StoreAssumption
        <4>2. PICK c \in 1..Cardinality(V) : block \in [1..c -> V]
          BY DEF SortedBlocks
        <4> QED
          BY <1>1, <4>1, <4>2, BlockTyped
      <3> QED
        BY <3>1 DEF new
    <2>3. block \in Bijection(1..n, new)
      BY <1>7, <2>2 DEF Bijection, Injection, Surjection, IsInjective
    <2>4. Cardinality(new) = n
      BY <2>1, <2>3, FS_Bijection DEF ExistsBijection
    <2> QED
      BY <2>4 DEF Contract!Cardinality, Contract!IsFiniteSet, Cardinality, IsFiniteSet
  <1>16. {Cells'[k].id : k \in {t} \X new} = (m + 1)..(m + n)
    <2>1. ASSUME NEW k \in {t} \X new
          PROVE  Cells'[k].id \in (m + 1)..(m + n)
      <3>1. PICK i \in 1..n : k = <<t, block[i]>>
        BY DEF new
      <3>2. m + i \in (m + 1)..(m + n)
        OBVIOUS
      <3> QED
        BY <1>10, <3>1, <3>2
    <2>2. ASSUME NEW id \in (m + 1)..(m + n)
          PROVE  \E k \in {t} \X new : Cells'[k].id = id
      <3>1. id - m \in 1..n /\ m + (id - m) = id
        OBVIOUS
      <3>2. Cells'[<<t, block[id - m]>>].id = id
        BY <1>10, <3>1
      <3>3. <<t, block[id - m]>> \in {t} \X new
        BY <3>1 DEF new
      <3> QED
        BY <3>2, <3>3
    <2> QED
      BY <2>1, <2>2
  <1>17. \A k \in {t} \X new : Cells'[k].value \in Int
    BY <1>10 DEF new
  <1>18. new \subseteq Vars /\ ({t} \X new) \cap LiveKeys = {}
    BY <1>7, <1>9 DEF new
  <1>19. DOMAIN Cells = LiveKeys /\ DOMAIN Cells' = LiveKeys'
    BY DEF Cells
  <1>20. Contract!AddBlock(t, new)
    BY <1>5, <1>13, <1>14, <1>15, <1>16, <1>17, <1>18, <1>19
       DEF Contract!AddBlock, Contract!Live, Contract!Become
  <1> QED
    BY <1>18, <1>20 DEF Contract!Next

LEMMA SameAnswers == UNCHANGED <<identity, baseVars, shadowed, dead, overlayVars>> => UNCHANGED Contract!vars
  <1> SUFFICES ASSUME UNCHANGED <<identity, baseVars, shadowed, dead, overlayVars>>
               PROVE  UNCHANGED Contract!vars
    OBVIOUS
  <1>1. /\ identity' = identity /\ base' = base /\ slices' = slices /\ directory' = directory
        /\ overlay' = overlay /\ byCell' = byCell
        /\ \A q : Visible(q)' <=> Visible(q)
    BY DEF baseVars, overlayVars, Visible
  <1>4. ASSUME NEW t, NEW v
        PROVE  ForCell(t, v)' = ForCell(t, v)
    <2>1. Hits(t, v)' = Hits(t, v)
      BY <1>1 DEF Hits, PositionsOf, SlicePositions
    <2>2. BasePosition(t, v)' = BasePosition(t, v)
      BY <2>1 DEF BasePosition
    <2> QED
      BY <1>1, <2>2 DEF ForCell
  <1>5. LiveKeys' = LiveKeys
    BY <1>4 DEF LiveKeys
  <1>6. Cells' = Cells
    BY <1>4, <1>5 DEF Cells
  <1> QED
    BY <1>1, <1>6 DEF Contract!vars, Minted

\* Every call is a step of the contract.
LEMMA CallImplements == IInv /\ LookupView /\ LookupView' /\ AnyCall => [Contract!Next]_Contract!vars
  <1> SUFFICES ASSUME IInv, LookupView, LookupView', AnyCall PROVE [Contract!Next]_Contract!vars
    OBVIOUS
  <1>1. BuildVarIndex => UNCHANGED Contract!vars
    BY SameAnswers DEF BuildVarIndex
  <1> QED
    BY <1>1, BlockIsAddBlock, UpdateIsPut, RemoveIsRemove DEF AnyCall

LEMMA InitImplements == Init => Contract!Init
  <1> SUFFICES ASSUME Init PROVE Contract!Init
    OBVIOUS
  <1>1. \A t \in Targets, v \in Vars : ForCell(t, v) = NoCell
    BY DEF Init, ForCell, BasePosition, Hits, PositionsOf
  <1>2. LiveKeys = {}
    BY <1>1 DEF LiveKeys, Keys
  <1> QED
    BY <1>2 DEF Init, Contract!Init, Cells, Minted

\* Seen through for_cell, kernel B is a coefficient store: an update keeps the
\* identity whether the cell is packed or in the overlay, no identity is handed
\* out twice, and a cell added again after its removal gets a new one.
THEOREM KernelBImplementsContract == Spec => Contract!Spec
  <1>1. IInv /\ LookupView /\ LookupView' /\ [Next]_vars => [Contract!Next]_Contract!vars
    <2>1. UNCHANGED vars => UNCHANGED Contract!vars
      BY SameAnswers DEF vars, baseVars, overlayVars
    <2> QED
      BY <2>1, NextIsACall, CallImplements DEF Next
  <1> QED
    BY <1>1, ViewOfIInv, InitImplements, KernelBInvariance, PTL DEF Spec, Contract!Spec

-----------------------------------------------------------------------------
(***************************************************************************)
(* What a call makes for_cell answer, for one who knows the cell is there. *)
(***************************************************************************)

\* After update() a cell answers the new value under the identity it had, from
\* the overlay; the other cells answer as before.
LEMMA UpdateShows ==
    ASSUME IInv, LookupView, LookupView', NEW t \in Targets, NEW v \in Vars, NEW x \in Int,
           NEW deps \in SUBSET Params, Update(t, v, x, deps), ForCell(t, v) # NoCell
    PROVE  /\ \A u \in Targets, w \in Vars : <<u, w>> # <<t, v>> => ForCell(u, w)' = ForCell(u, w)
           /\ ForCell(t, v)' = [id |-> ForCell(t, v).id, value |-> x]
           /\ <<t, v>> \in DOMAIN byCell' /\ DOMAIN byCell \subseteq DOMAIN byCell'
  <1>1. CASE UpdateOverlay(t, v, x, deps)
    <2>1. PICK oi \in 1..Len(overlay) : oi = byCell[<<t, v>>] /\ ~ overlay[oi].tombstone
      BY <1>1 DEF UpdateOverlay, IInv, OverlayInv
    <2> DEFINE cell == [[overlay[oi] EXCEPT !.value = x] EXCEPT !.deps = deps]
    <2>2. /\ cell \in OverlayCells /\ cell.id = overlay[oi].id /\ cell.value = x
          /\ cell.tombstone = overlay[oi].tombstone
      BY SlotTyped DEF OverlayCells
    <2>3. /\ <<t, v>> \in DOMAIN byCell /\ overlay' = [overlay EXCEPT ![oi] = cell]
          /\ UNCHANGED <<baseVars, shadowed, dead, byCell>>
      BY <1>1, <2>1 DEF UpdateOverlay
    <2> HIDE DEF cell
    <2>4. \A u \in Targets, w \in Vars : <<u, w>> # <<t, v>> => ForCell(u, w)' = ForCell(u, w)
      BY <2>1, <2>2, <2>3, InPlaceView
    <2>5. overlay'[oi] = cell
      BY <2>1, <2>2, <2>3, ElementUpdate DEF IInv, TypeOK
    <2>6. ForCell(t, v)' = [id |-> overlay[oi].id, value |-> x]
      BY <2>1, <2>2, <2>3, <2>5 DEF ForCell
    <2>7. ForCell(t, v).id = overlay[oi].id
      BY <2>1, <2>3, Found DEF LiveSlot
    <2> QED
      BY <2>3, <2>4, <2>6, <2>7
  <1>2. CASE UpdateTombstone(t, v, x, deps) \/ UpdateCreate(t, v, x, deps)
    BY <1>2, Found DEF UpdateTombstone, UpdateCreate, LiveSlot
  <1>3. CASE UpdatePacked(t, v, x, deps)
    <2>1. PICK pos : pos = BasePosition(t, v)
      OBVIOUS
    <2>2. pos # 0 /\ <<t, v>> \notin DOMAIN byCell
      BY <1>3, <2>1 DEF UpdatePacked
    <2>3. PICK n : n = Len(overlay) + 1
      OBVIOUS
    <2>4. base[pos].id \in Nat
      BY <2>1, <2>2, PositionFound DEF IInv, IdInv, TypeOK
    <2>5. PICK cell \in OverlayCells : /\ cell = Cell(t, v, base[pos].id, x, deps, FALSE)
                                       /\ cell.target = t /\ cell.var = v /\ cell.value = x
                                       /\ cell.id = base[pos].id /\ ~ cell.tombstone
      <3> DEFINE cell == Cell(t, v, base[pos].id, x, deps, FALSE)
      <3>1. /\ cell \in OverlayCells /\ cell.target = t /\ cell.var = v /\ cell.value = x
            /\ cell.id = base[pos].id /\ ~ cell.tombstone
        BY <2>4 DEF Cell, OverlayCells
      <3> HIDE DEF cell
      <3> QED
        BY <3>1 DEF cell
    <2>6. /\ PushOverlay(cell) /\ UNCHANGED baseVars
          /\ shadowed' = shadowed \union {pos} /\ dead' = dead
      BY <1>3, <2>1, <2>5 DEF UpdatePacked
    <2>7. GrownBy(n, cell, t, v)
      BY <2>2, <2>3, <2>5, <2>6, PushedAt
    <2>8. \A q \in 1..Len(base) : q # BasePosition(t, v) => (Visible(q)' <=> Visible(q))
      BY <2>1, <2>6 DEF Visible
    <2>9. \A u \in Targets, w \in Vars : <<u, w>> # <<t, v>> => ForCell(u, w)' = ForCell(u, w)
      BY <2>2, <2>6, <2>7, <2>8, PushView
    <2>10. /\ overlay'[n] = cell /\ byCell'[<<t, v>>] = n
           /\ DOMAIN byCell' = DOMAIN byCell \union {<<t, v>>}
      BY <2>7 DEF GrownBy
    <2>11. ForCell(t, v)' = [id |-> base[pos].id, value |-> x]
      BY <2>5, <2>10 DEF ForCell
    <2>12. ForCell(t, v).id = base[pos].id
      BY <2>1, <2>2, Found
    <2> QED
      BY <2>9, <2>10, <2>11, <2>12
  <1> QED
    BY <1>1, <1>2, <1>3 DEF Update

\* After remove() the cell is gone; the other cells answer as before.
LEMMA RemoveShows ==
    ASSUME IInv, LookupView, LookupView', NEW t \in Targets, NEW v \in Vars, RemoveCell(t, v)
    PROVE  /\ \A u \in Targets, w \in Vars : <<u, w>> # <<t, v>> => ForCell(u, w)' = ForCell(u, w)
           /\ ForCell(t, v)' = NoCell
           /\ DOMAIN byCell \subseteq DOMAIN byCell'
  <1>1. CASE RemoveOverlay(t, v)
    <2>1. PICK oi \in 1..Len(overlay) : oi = byCell[<<t, v>>]
      BY <1>1 DEF RemoveOverlay, IInv, OverlayInv
    <2> DEFINE cell == [overlay[oi] EXCEPT !.tombstone = TRUE]
    <2>2. cell \in OverlayCells /\ cell.tombstone
      BY SlotTyped DEF OverlayCells
    <2>3. /\ <<t, v>> \in DOMAIN byCell /\ overlay' = [overlay EXCEPT ![oi] = cell]
          /\ UNCHANGED <<baseVars, shadowed, dead, byCell>>
      BY <1>1, <2>1 DEF RemoveOverlay
    <2> HIDE DEF cell
    <2>4. \A u \in Targets, w \in Vars : <<u, w>> # <<t, v>> => ForCell(u, w)' = ForCell(u, w)
      BY <2>1, <2>2, <2>3, InPlaceView
    <2>5. overlay'[oi] = cell
      BY <2>1, <2>2, <2>3, ElementUpdate DEF IInv, TypeOK
    <2> QED
      BY <2>1, <2>2, <2>3, <2>4, <2>5 DEF ForCell
  <1>2. CASE RemovePacked(t, v)
    <2>1. PICK pos : pos = BasePosition(t, v)
      OBVIOUS
    <2>2. pos # 0 /\ <<t, v>> \notin DOMAIN byCell
      BY <1>2, <2>1 DEF RemovePacked
    <2>3. PICK n : n = Len(overlay) + 1
      OBVIOUS
    <2>4. base[pos].id \in Nat
      BY <2>1, <2>2, PositionFound DEF IInv, IdInv, TypeOK
    <2>5. PICK cell \in OverlayCells : /\ cell = Cell(t, v, base[pos].id, 0, {}, TRUE)
                                       /\ cell.target = t /\ cell.var = v /\ cell.tombstone
      <3> DEFINE cell == Cell(t, v, base[pos].id, 0, {}, TRUE)
      <3>1. cell \in OverlayCells /\ cell.target = t /\ cell.var = v /\ cell.tombstone
        BY <2>4 DEF Cell, OverlayCells
      <3> HIDE DEF cell
      <3> QED
        BY <3>1 DEF cell
    <2>6. /\ PushOverlay(cell) /\ UNCHANGED baseVars
          /\ shadowed' = shadowed /\ dead' = dead \union {pos}
      BY <1>2, <2>1, <2>5 DEF RemovePacked
    <2>7. GrownBy(n, cell, t, v)
      BY <2>2, <2>3, <2>5, <2>6, PushedAt
    <2>8. \A q \in 1..Len(base) : q # BasePosition(t, v) => (Visible(q)' <=> Visible(q))
      BY <2>1, <2>6 DEF Visible
    <2>9. \A u \in Targets, w \in Vars : <<u, w>> # <<t, v>> => ForCell(u, w)' = ForCell(u, w)
      BY <2>2, <2>6, <2>7, <2>8, PushView
    <2>10. /\ overlay'[n] = cell /\ byCell'[<<t, v>>] = n
           /\ DOMAIN byCell' = DOMAIN byCell \union {<<t, v>>}
      BY <2>7 DEF GrownBy
    <2> QED
      BY <2>5, <2>9, <2>10 DEF ForCell
  <1> QED
    BY <1>1, <1>2 DEF RemoveCell

\* The first block of a store: its cells answer their values under the first
\* identities, and no other cell answers.
LEMMA FirstBlockShows ==
    ASSUME IInv, LookupView', Init, NEW t \in Targets, NEW V \in SUBSET Vars, NEW block \in SortedBlocks(V),
           NEW value \in [DOMAIN block -> Int], BuildConstantBlock(t, block, value)
    PROVE  /\ \A i \in 1..Len(block) : ForCell(t, block[i])' = [id |-> i, value |-> value[i]]
           /\ \A u \in Targets, w \in Vars : u # t => ForCell(u, w)' = NoCell
           /\ DOMAIN byCell' = {} /\ indexed' = NotBuilt
  <1>1. PICK n \in Nat : n = Len(block)
    BY BlockTyped
  <1>2. Len(base) = 0 /\ Len(identity) = 0
    BY EmptySeq DEF Init
  <1>3. BlockBuilt(t, block, value, 0, 0, n)
    BY <1>1, <1>2, BlockIsBuilt
  <1>4. DOMAIN byCell' = {} /\ indexed' = NotBuilt /\ dead' = {} /\ shadowed' = {}
    BY <1>3 DEF BlockBuilt, overlayVars, Init
  <1>5. ASSUME NEW i \in 1..n
        PROVE  ForCell(t, block[i])' = [id |-> i, value |-> value[i]]
    <2>1. /\ base'[0 + i].var = block[i] /\ base'[0 + i].id = 0 + i /\ base'[0 + i].value = value[i]
          /\ PositionsOf(t)' = (0 + 1)..(0 + n)
      BY <1>3 DEF BlockBuilt
    <2>2. base'[i].var = block[i] /\ base'[i].id = i /\ base'[i].value = value[i] /\ i \in PositionsOf(t)'
      BY <2>1
    <2>3. block[i] \in Vars
      BY <1>1, BlockTyped
    <2>4. BasePosition(t, block[i])' = i /\ i # 0
      <3>1. \A pos \in PositionsOf(t)' :
               base'[pos].var = block[i] /\ Visible(pos)' => BasePosition(t, block[i])' = pos /\ pos # 0
        BY <2>3 DEF LookupView
      <3>2. Visible(i)'
        BY <1>4 DEF Visible
      <3> QED
        BY <2>2, <3>1, <3>2
    <2> QED
      BY <1>4, <2>2, <2>4 DEF ForCell
  <1>6. ASSUME NEW u \in Targets, NEW w \in Vars, u # t
        PROVE  ForCell(u, w)' = NoCell
    <2>1. PositionsOf(u)' = PositionsOf(u) /\ PositionsOf(u) \subseteq 1..0
      BY <1>3, <1>6 DEF BlockBuilt
    <2>2. PositionsOf(u)' = {}
      BY <2>1
    <2>3. BasePosition(u, w)' = 0
      BY <2>2 DEF BasePosition, Hits
    <2> QED
      BY <1>4, <2>3 DEF ForCell
  <1> QED
    BY <1>1, <1>4, <1>5, <1>6

P == INSTANCE CoefficientIndexProofs
    WITH MaxIds <- ArenaIds, byVar <- varIds, byTarget <- targetIds, byParam <- paramIds, byCell <- cellId

-----------------------------------------------------------------------------
(***************************************************************************)
(* The two instances of kernel A, StoreProto's and the one with proofs,    *)
(* are the same definitions.                                               *)
(***************************************************************************)
LEMMA SameAssumption == P!IndexAssumption
  <1>1. A!IsFiniteSet(Vars) <=> P!IsFiniteSet(Vars)
    BY DEF A!IsFiniteSet, P!IsFiniteSet
  <1> QED
    BY <1>1, IndexAssumption DEF A!IndexAssumption, P!IndexAssumption

LEMMA SameInit == A!Init <=> P!Init
  BY DEF A!Init, P!Init

LEMMA SameLookup ==
    /\ \A id : A!Get(id) = P!Get(id)
    /\ \A id : A!Valid(id) <=> P!Valid(id)
    /\ \A id : A!Valid(id)' <=> P!Valid(id)'
    /\ A!Handles = P!Handles
    /\ \A i : A!Id(i) = P!Id(i)
  BY DEF A!Get, P!Get, A!NoData, P!NoData, A!Valid, P!Valid, A!Handles, P!Handles, A!Id, P!Id

LEMMA SameRemove == \A id : A!Remove(id) <=> P!Remove(id)
  BY DEF A!Remove, P!Remove, A!Valid, P!Valid, A!Get, P!Get, A!NoData, P!NoData,
         A!Redepend, P!Redepend, A!Vacated, P!Vacated

LEMMA SameSetExpr == \A id, x, deps : A!SetExpr(id, x, deps) <=> P!SetExpr(id, x, deps)
  BY DEF A!SetExpr, P!SetExpr, A!Valid, P!Valid, A!Get, P!Get, A!NoData, P!NoData,
         A!Redepend, P!Redepend

LEMMA SameBlock ==
    \A t, block, value : A!AddConstantUniqueBlock(t, block, value) <=> P!AddConstantUniqueBlock(t, block, value)
  BY DEF A!AddConstantUniqueBlock, P!AddConstantUniqueBlock, A!Id, P!Id, A!Occupied, P!Occupied,
         A!Data, P!Data

LEMMA SameAdd ==
    /\ \A t, v, x, deps : A!AddCombine(t, v, x, deps) <=> P!AddCombine(t, v, x, deps)
    /\ \A t, v, x, deps : A!AddNew(t, v, x, deps) <=> P!AddNew(t, v, x, deps)
  BY DEF A!AddCombine, P!AddCombine, A!AddNew, P!AddNew, A!Valid, P!Valid, A!Get, P!Get,
         A!NoData, P!NoData, A!NextId, P!NextId, A!Redepend, P!Redepend, A!Id, P!Id,
         A!Occupied, P!Occupied, A!Data, P!Data

LEMMA SameCardinality == \A S : A!Cardinality(S) = P!Cardinality(S)
  BY DEF A!Cardinality, P!Cardinality, A!IsFiniteSet, P!IsFiniteSet

LEMMA SameBlocks == \A V : A!Blocks(V) = P!Blocks(V)
  BY SameCardinality DEF A!Blocks, P!Blocks

LEMMA SameIdle ==
    /\ \A id : A!Stale(id) <=> P!Stale(id)
    /\ A!Exhausted <=> P!Exhausted
  BY SameLookup DEF A!Stale, P!Stale, A!Exhausted, P!Exhausted, A!vars, P!vars

LEMMA SameCalls == \A V, X : A!Calls(V, X) <=> P!Calls(V, X)
  BY SameRemove, SameSetExpr, SameBlock, SameAdd, SameBlocks, SameIdle, SameLookup
     DEF A!Calls, P!Calls

LEMMA SameAgreement == A!IndexesAgree <=> P!IndexesAgree
  BY SameCardinality
     DEF A!IndexesAgree, P!IndexesAgree, A!Live, P!Live, A!Handles, P!Handles, A!Valid, P!Valid,
         A!Get, P!Get, A!NoData, P!NoData, A!Id, P!Id
-----------------------------------------------------------------------------
(***************************************************************************)
(* Every step of the program is a call of a kernel or leaves it alone.     *)
(***************************************************************************)

\* What the drivers need to stay within the contract of kernels A and B: a
\* target of theirs, variables of the workload, and indexes within it.
TargetInv ==
    /\ stage # "free" /\ kernel # "c" => target \in Targets
    /\ kernel = "c" => target = Objective
    /\ stage # "free" => work \in Workloads
    /\ stage \in {"build", "lookup", "iterate"} => at = 1
    /\ stage = "remove" => at \in 1..RemoveCount
    /\ stage = "update" => at \in 1..UpdateCount

LEMMA TargetsStay == TargetInv /\ [ProtoNext]_protoVars => TargetInv'
  <1> SUFFICES ASSUME TargetInv, [ProtoNext]_protoVars PROVE TargetInv'
    OBVIOUS
  <1>0. RemoveCount \in Nat \ {0} /\ UpdateCount \in Nat \ {0}
    BY WorkAssumption DEF WorkAssumption
  <1>1. CASE Build \/ LookUp \/ Iterate \/ Probe \/ Report
    <2>1. UNCHANGED <<kernel, at, target, work>> /\ stage # "free" /\ stage' # "free"
      BY <1>1 DEF Build, LookUp, Iterate, Probe, Report
    <2>2. /\ stage' \in {"build", "lookup", "iterate", "remove"} => at = 1
          /\ stage' # "update"
      BY <1>1 DEF Build, LookUp, Iterate, Probe, Report, TargetInv
    <2> QED
      BY <1>0, <2>1, <2>2 DEF TargetInv
  <1>2. CASE RemoveOne
    <2>1. UNCHANGED <<kernel, target, work>> /\ stage = "remove"
      BY <1>2 DEF RemoveOne, Loop
    <2>2. \/ stage' = "panicked"
          \/ stage' = "remove" /\ at # RemoveCount /\ at' = at + 1
          \/ stage' = "update" /\ at' = 1
      BY <1>2 DEF RemoveOne, Loop
    <2> QED
      BY <1>0, <2>1, <2>2 DEF TargetInv
  <1>3. CASE UpdateOne
    <2>1. UNCHANGED <<kernel, target, work>> /\ stage = "update"
      BY <1>3 DEF UpdateOne, Loop
    <2>2. \/ stage' \in {"probe", "report"}
          \/ stage' = "update" /\ at # UpdateCount /\ at' = at + 1
      BY <1>3 DEF UpdateOne, Loop
    <2> QED
      BY <1>0, <2>1, <2>2 DEF TargetInv
  <1>4. CASE Free \/ Ended \/ UNCHANGED protoVars
    BY <1>4 DEF Free, Ended, protoVars, driver, TargetInv
  <1> QED
    BY <1>1, <1>2, <1>3, <1>4 DEF ProtoNext

\* a block of all variables
LEMMA WholeBlock ==
    /\ AllVars \in P!Blocks(Vars)
    /\ DOMAIN AllVars = 1..Cardinality(Vars)
    /\ AllVals \in [DOMAIN AllVars -> Int]
  <1>0. Cardinality(Vars) \in Nat
    BY StoreAssumption, FS_CardinalityType DEF StoreAssumption
  <1>1. AllVars \in [1..Cardinality(Vars) -> Vars] /\ AllVals \in [1..Cardinality(Vars) -> Int]
    <2>1. \A k \in 1..Cardinality(Vars) : k \in Vars
      BY WorkAssumption DEF WorkAssumption
    <2>2. \A k \in 1..Cardinality(Vars) : BaseValue(k) \in Int
      BY <1>0 DEF BaseValue
    <2> QED
      BY <2>1, <2>2 DEF AllVars, AllVals
  <1>2. Cardinality(Vars) \in 1..Cardinality(Vars)
    BY <1>0, WorkAssumption DEF WorkAssumption
  <1>3. P!Cardinality(Vars) = Cardinality(Vars)
    BY DEF P!Cardinality, P!IsFiniteSet, Cardinality, IsFiniteSet
  <1>4. \A i, j \in 1..Cardinality(Vars) : i # j => AllVars[i] # AllVars[j]
    BY DEF AllVars
  <1> QED
    BY <1>1, <1>2, <1>3, <1>4 DEF P!Blocks

\* the expression of an update
LEMMA ExprTyped ==
    ASSUME NEW k, NEW v \in Vars
    PROVE  UpdateExpr(k, v).value \in Int /\ UpdateExpr(k, v).deps \in SUBSET Params
  <1>1. v \in Int
    BY StoreAssumption DEF StoreAssumption
  <1> QED
    BY <1>1 DEF UpdateExpr, BaseValue

CallOfA == \E V \in SUBSET Vars, X \in SUBSET Int : P!Calls(V, X)

LEMMA StepsOfA ==
    ASSUME P!IInv, TargetInv, [ProtoNext]_protoVars
    PROVE  CallOfA \/ UNCHANGED P!vars
  <1>1. UNCHANGED aVars => UNCHANGED P!vars
    BY DEF aVars, P!vars
  <1>2. P!Calls(Vars, Int) => CallOfA
    BY DEF CallOfA
  <1>3. CASE Build
    <2>1. CASE OnA
      <3>1. target \in Targets
        BY <1>3, <2>1 DEF Build, OnA, TargetInv
      <3>2. P!AddConstantUniqueBlock(target, AllVars, AllVals)
        BY <1>3, <2>1, SameBlock DEF Build, OnA, OnB, OnC
      <3> QED
        BY <1>2, <3>1, <3>2, WholeBlock DEF P!Calls
    <2> QED
      BY <1>1, <1>3, <2>1 DEF Build, OnB, OnC
  <1>4. CASE LookUp \/ Iterate \/ Report \/ Ended \/ UNCHANGED protoVars
    BY <1>1, <1>4 DEF LookUp, Iterate, Report, Ended, protoVars, stores
  <1>5. ASSUME NEW v, kernel = "a", Lookup(v) # NoCell
        PROVE  v \in Vars /\ A!Id(Lookup(v).id) \in P!Handles
    <2>1. <<target, v>> \in DOMAIN cellId /\ Lookup(v).id = cellId[<<target, v>>].index
      BY <1>5 DEF Lookup, A!ForCell, A!NoCell, NoCell
    <2>2. PICK i \in 1..Len(slots) : cellId[<<target, v>>] = P!Id(i)
      BY <2>1 DEF P!IInv, P!CellInv
    <2>3. A!Id(Lookup(v).id) = P!Id(i)
      BY <2>1, <2>2, SameLookup DEF P!Id
    <2>4. <<target, v>> \in P!Keys
      BY <2>1 DEF P!IInv, P!CellInv
    <2> QED
      BY <2>2, <2>3, <2>4 DEF P!Handles, P!Keys
  <1>6. CASE RemoveOne
    <2> DEFINE v == work.removes[at]
    <2>1. CASE kernel = "a" /\ Lookup(v) # NoCell
      <3>1. P!Remove(A!Id(Lookup(v).id))
        BY <1>6, <2>1, SameRemove DEF RemoveOne, OnB, OnC
      <3> QED
        BY <1>2, <1>5, <2>1, <3>1 DEF P!Calls
    <2> QED
      BY <1>1, <1>6, <2>1 DEF RemoveOne, OnA, OnB, OnC, stores
  <1>7. CASE UpdateOne
    <2> DEFINE v == work.updates[at]
               e == UpdateExpr(at, v)
    <2>1. CASE kernel = "a" /\ Lookup(v) # NoCell
      <3>1. P!SetExpr(A!Id(Lookup(v).id), e.value, e.deps)
        BY <1>7, <2>1, SameSetExpr DEF UpdateOne, OnB, OnC
      <3>2. e.value \in Int /\ e.deps \in SUBSET Params
        <4>1. v \in Vars
          BY <1>5, <2>1
        <4> HIDE DEF v
        <4> QED
          BY <4>1, ExprTyped
      <3>3. A!Id(Lookup(v).id) \in P!Handles
        BY <1>5, <2>1
      <3> HIDE DEF e, v
      <3> QED
        BY <1>2, <3>1, <3>2, <3>3 DEF P!Calls
    <2> QED
      BY <1>1, <1>7, <2>1 DEF UpdateOne, OnA, OnB, OnC
  <1>8. CASE Probe
    BY <1>1, <1>8 DEF Probe, OnB
  <1>9. CASE Free
    <2>1. CASE OnA
      <3>1. P!Calls(FreeVars, 0..MaxValue)
        BY <1>9, <2>1, SameCalls DEF Free, OnA, OnB, OnC
      <3>2. FreeVars \in SUBSET Vars /\ 0..MaxValue \in SUBSET Int
        BY WorkAssumption
      <3> QED
        BY <3>1, <3>2 DEF CallOfA
    <2> QED
      BY <1>1, <1>9, <2>1 DEF Free, OnB, OnC
  <1> QED
    BY <1>3, <1>4, <1>6, <1>7, <1>8, <1>9 DEF ProtoNext

-----------------------------------------------------------------------------
(***************************************************************************)
(* Kernel A under the program.                                             *)
(***************************************************************************)
LEMMA AInit == ProtoInit => P!IInv /\ TargetInv
  BY SameInit, P!InitIInv DEF ProtoInit, TargetInv, NothingSeen

LEMMA ANext == P!IInv /\ TargetInv /\ [ProtoNext]_protoVars => P!IInv'
  <1> SUFFICES ASSUME P!IInv, TargetInv, [ProtoNext]_protoVars PROVE P!IInv'
    OBVIOUS
  <1>1. CASE CallOfA
    BY <1>1, P!CallsIInv, SameAssumption DEF CallOfA
  <1>2. CASE UNCHANGED P!vars
    BY <1>2, P!Unchanged
  <1> QED
    BY <1>1, <1>2, StepsOfA

\* Kernel A's invariant, whatever store-proto does with it.
THEOREM AInvariance == ProtoSpec => [](P!IInv /\ TargetInv)
  BY AInit, ANext, TargetsStay, PTL DEF ProtoSpec

\* Whatever the workload, and whatever calls a free kernel takes, kernel A's
\* indexes by variable, target, parameter and cell list exactly the live ids,
\* and there is one id to a cell.
THEOREM IndexesNeverDiverge == ProtoSpec => []IndexesAgree
  <1>1. P!IInv => IndexesAgree
    BY P!AgreementOfIInv, SameAssumption, SameAgreement DEF IndexesAgree
  <1> QED
    BY <1>1, AInvariance, PTL

\* "Never reuses indices": in kernel A a removed coefficient's id is stale for
\* ever, however many coefficients are added after it.
THEOREM StaleIdsStayStale == ProtoSpec => StaleForGood
  <1>1. P!IInv /\ TargetInv /\ [ProtoNext]_protoVars
            => [\A id \in A!Handles : ~ A!Valid(id) => ~ A!Valid(id)']_A!vars
    <2> SUFFICES ASSUME P!IInv, TargetInv, [ProtoNext]_protoVars
                 PROVE  [\A id \in A!Handles : ~ A!Valid(id) => ~ A!Valid(id)']_A!vars
      OBVIOUS
    <2>1. CASE CallOfA
      <3>1. P!VacatedForGood
        BY <2>1, P!CallsNeverRefill, SameAssumption DEF CallOfA
      <3>2. \A id \in P!Handles : ~ P!Valid(id) => ~ P!Valid(id)'
        BY <3>1, P!StaleStep, SameAssumption
      <3> QED
        BY <3>2, SameLookup
    <2>2. CASE UNCHANGED P!vars
      BY <2>2 DEF P!vars, A!vars
    <2> QED
      BY <2>1, <2>2, StepsOfA
  <1> QED
    BY <1>1, AInvariance, PTL DEF ProtoSpec, StaleForGood, A!StaleForGood

-----------------------------------------------------------------------------
(***************************************************************************)
(* Kernel B under the program.                                             *)
(***************************************************************************)

\* What the workload asks of a cell at one index.
LEMMA WorkTyped ==
    ASSUME TargetInv, stage # "free"
    PROVE  /\ stage = "remove" => work.removes[at] \in Vars
           /\ stage = "update" => work.updates[at] \in Vars
  BY DEF TargetInv, Workloads

LEMMA WholeSortedBlock == AllVars \in SortedBlocks(Vars)
  <1>1. Cardinality(Vars) \in Nat
    BY StoreAssumption, FS_CardinalityType DEF StoreAssumption
  <1>2. Cardinality(Vars) \in 1..Cardinality(Vars)
    BY <1>1, WorkAssumption DEF WorkAssumption
  <1>3. AllVars \in [1..Cardinality(Vars) -> Vars]
    BY WorkAssumption DEF WorkAssumption, AllVars
  <1>4. \A i, j \in DOMAIN AllVars : i < j => AllVars[i] < AllVars[j]
    BY DEF AllVars
  <1> QED
    BY <1>2, <1>3, <1>4 DEF SortedBlocks

LEMMA StepsOfB ==
    ASSUME TargetInv, [ProtoNext]_protoVars
    PROVE  AnyCall \/ UNCHANGED vars
  <1>1. CASE Build
    <2>1. CASE OnB
      <3>1. target \in Targets
        BY <1>1, <2>1 DEF Build, OnB, TargetInv
      <3>2. BuildConstantBlock(target, AllVars, AllVals)
        BY <1>1, <2>1 DEF Build, OnA, OnB, OnC
      <3> QED
        BY <3>1, <3>2, WholeBlock, WholeSortedBlock DEF AnyCall
    <2> QED
      BY <1>1, <2>1 DEF Build, OnA, OnC
  <1>2. CASE LookUp \/ Iterate \/ Report \/ Ended \/ UNCHANGED protoVars
    BY <1>2 DEF LookUp, Iterate, Report, Ended, protoVars, stores
  <1>3. CASE RemoveOne
    <2>1. CASE kernel = "b" /\ Lookup(work.removes[at]) # NoCell
      <3>1. target \in Targets /\ work.removes[at] \in Vars
        BY <1>3, <2>1, WorkTyped DEF RemoveOne, TargetInv
      <3>2. RemoveCell(target, work.removes[at])
        BY <1>3, <2>1 DEF RemoveOne, OnA, OnC
      <3> QED
        BY <3>1, <3>2 DEF AnyCall
    <2> QED
      BY <1>3, <2>1 DEF RemoveOne, OnA, OnB, OnC, stores
  <1>4. CASE UpdateOne
    <2>1. CASE OnB
      <3>1. target \in Targets /\ work.updates[at] \in Vars
        BY <1>4, <2>1, WorkTyped DEF UpdateOne, OnB, TargetInv
      <3>2. Update(target, work.updates[at], UpdateExpr(at, work.updates[at]).value,
                   UpdateExpr(at, work.updates[at]).deps)
        BY <1>4, <2>1 DEF UpdateOne, OnA, OnB, OnC
      <3> QED
        BY <3>1, <3>2, ExprTyped DEF AnyCall
    <2> QED
      BY <1>4, <2>1 DEF UpdateOne, OnA, OnC
  <1>5. CASE Probe
    BY <1>5 DEF Probe, AnyCall
  <1>6. CASE Free
    <2>1. CASE OnB
      <3>1. Calls(FreeVars, Exprs)
        BY <1>6, <2>1 DEF Free, OnA, OnB, OnC
      <3> QED
        BY <3>1, NextIsACall, WorkAssumption DEF WorkAssumption
    <2> QED
      BY <1>6, <2>1 DEF Free, OnA, OnC
  <1> QED
    BY <1>1, <1>2, <1>3, <1>4, <1>5, <1>6 DEF ProtoNext

\* Kernel B's invariant, whatever store-proto does with it.
THEOREM BInvariance == ProtoSpec => [](IInv /\ TargetInv)
  <1>1. IInv /\ TargetInv /\ [ProtoNext]_protoVars => IInv'
    BY StepsOfB, CallIInv, Unchanged
  <1>2. ProtoInit => IInv /\ TargetInv
    BY InitIInv, AInit DEF ProtoInit
  <1> QED
    BY <1>1, <1>2, TargetsStay, PTL DEF ProtoSpec

\* Under any driver and any free calls, an identity of kernel B resolves to
\* its cell as long as the cell lives, wherever it moved, and to nothing after.
THEOREM IdentitiesAgreeUnderDrivers == ProtoSpec => []IdentityAgrees
  BY IdentitiesOfIInv, BInvariance, PTL

\* Under any driver and any free calls, len_live counts the live cells.
THEOREM LenLiveExactUnderDrivers == ProtoSpec => []LenLiveExact
  BY CountOfIInv, BInvariance, PTL

\* Under any driver and any free calls, a live overlay cell is listed under
\* exactly the parameters its current expression depends on.
THEOREM ParamListsExactUnderDrivers == ProtoSpec => []ParamListsExact
  <1>1. IInv => ParamListsExact
    BY DEF IInv
  <1> QED
    BY <1>1, BInvariance, PTL

\* Kernel B's lists and directory, whatever store-proto does with it.
THEOREM ViewInvarianceUnderDrivers == ProtoSpec => []ViewInv
  <1>1. IInv /\ TargetInv /\ ViewInv /\ [ProtoNext]_protoVars => ViewInv'
    BY StepsOfB, CallViewInv, UnchangedViewInv
  <1>2. ProtoInit => ViewInv
    BY InitViewInv DEF ProtoInit
  <1> QED
    BY <1>1, <1>2, BInvariance, PTL DEF ProtoSpec

\* Under any driver and any free calls, iter_target yields each live cell of a
\* target once.
THEOREM TargetViewUnderDrivers == ProtoSpec => []TargetViewAgrees
  BY TargetViewOfIInv, BInvariance, ViewInvarianceUnderDrivers, PTL

\* Under any driver and any free calls, for_var yields each live cell of a
\* variable once while no block was built after its index.
THEOREM VarViewUnderDrivers == ProtoSpec => []VarViewAgreesWhenIndexed
  BY VarViewOfIInv, BInvariance, ViewInvarianceUnderDrivers, PTL

-----------------------------------------------------------------------------
(***************************************************************************)
(* Kernel C under the program: a coefficient store of one target.          *)
(***************************************************************************)
D == INSTANCE CoeffStore
    WITH Targets <- {Objective}, Values <- Int, cells <- C!Cells, minted <- C!Minted

\* Any call, with any values.
CallOfC ==
    \/ \E block \in C!SortedBlocks :
          \E value \in [DOMAIN block -> Int] : C!BuildConstantBlock(Objective, block, value)
    \/ \E v \in Vars : C!RemoveCell(Objective, v)
    \/ \E v \in Vars, x \in Int : C!UpdateCell(Objective, v, x)

RawCells == [var : Vars, value : Int]

FoundInRun(v, p) ==
    /\ p # 0 => p \in C!Run /\ p \in 1..Len(packed) /\ packed[p].var = v /\ p \notin removed
    /\ \A pos \in C!Run : packed[pos].var = v /\ pos \notin removed => p = pos /\ pos # 0

\* position() is 0, or the one place in the run that has the variable and was
\* not removed.
LEMMA RawPosition ==
    ASSUME C!IInv, NEW v
    PROVE  FoundInRun(v, C!Position(v))
  <1> DEFINE hits == {pos \in C!Run : packed[pos].var = v /\ pos \notin removed}
  <1>1. C!Position(v) = IF hits = {} THEN 0 ELSE CHOOSE pos \in hits : TRUE
    BY DEF C!Position
  <1>2. hits # {} => C!Position(v) \in hits
    BY <1>1
  <1>3. hits = {} => C!Position(v) = 0
    BY <1>1
  <1>4. \A pos \in C!Run : pos \in 1..Len(packed) /\ pos # 0
    BY LenProperties DEF C!IInv, C!RunInv
  <1>5. \A i, j \in hits : i = j
    BY DEF C!IInv, C!RunInv
  <1>6. \A pos : pos \in hits <=> pos \in C!Run /\ packed[pos].var = v /\ pos \notin removed
    OBVIOUS
  <1> HIDE DEF hits
  <1>7. C!Position(v) # 0 => C!Position(v) \in hits
    BY <1>2, <1>3
  <1>8. \A pos \in hits : C!Position(v) = pos
    BY <1>2, <1>5
  <1>9. ASSUME C!Position(v) # 0
        PROVE  /\ C!Position(v) \in C!Run /\ C!Position(v) \in 1..Len(packed)
               /\ packed[C!Position(v)].var = v /\ C!Position(v) \notin removed
    <2>1. C!Position(v) \in hits
      BY <1>7, <1>9
    <2>2. C!Position(v) \in C!Run /\ packed[C!Position(v)].var = v /\ C!Position(v) \notin removed
      BY <1>6, <2>1
    <2> QED
      BY <1>4, <2>2
  <1>10. ASSUME NEW pos \in C!Run, packed[pos].var = v, pos \notin removed
         PROVE  C!Position(v) = pos /\ pos # 0
    BY <1>4, <1>6, <1>8, <1>10
  <1> QED
    BY <1>9, <1>10 DEF FoundInRun

LEMMA RawPositionAfter ==
    ASSUME C!IInv', NEW v
    PROVE  FoundInRun(v, C!Position(v))'
  BY RawPosition, PTL

\* What for_cell answers.
RawView ==
    /\ DOMAIN C!Cells \subseteq {Objective} \X Vars
    /\ \A v \in Vars :
          /\ <<Objective, v>> \in DOMAIN C!Cells <=> C!Position(v) # 0
          /\ <<Objective, v>> \in DOMAIN C!Cells =>
                /\ C!Cells[<<Objective, v>>] = C!ForCell(Objective, v)
                /\ C!Cells[<<Objective, v>>].id = C!Position(v)
                /\ C!Cells[<<Objective, v>>].value = packed[C!Position(v)].value
                /\ C!Cells[<<Objective, v>>].value \in Int

LEMMA RawViewed == C!IInv => RawView
  <1> SUFFICES ASSUME C!IInv PROVE RawView
    OBVIOUS
  <1> DEFINE live == {k \in {Objective} \X Vars : C!ForCell(k[1], k[2]) # C!NoCell}
  <1>1. DOMAIN C!Cells = live /\ \A k \in live : C!Cells[k] = C!ForCell(k[1], k[2])
    BY DEF C!Cells
  <1>2. ASSUME NEW v \in Vars
        PROVE  /\ C!Position(v) = 0 => C!ForCell(Objective, v) = C!NoCell
               /\ C!Position(v) # 0 =>
                    /\ C!ForCell(Objective, v) # C!NoCell
                    /\ C!ForCell(Objective, v).id = C!Position(v)
                    /\ C!ForCell(Objective, v).value = packed[C!Position(v)].value
                    /\ packed[C!Position(v)].value \in Int
    <2>1. C!Position(v) = 0 => C!ForCell(Objective, v) = C!NoCell
      BY DEF C!ForCell
    <2>2. ASSUME C!Position(v) # 0 PROVE packed[C!Position(v)].value \in Int
      <3>1. packed \in Seq(RawCells)
        BY DEF C!IInv, C!RunInv, RawCells
      <3>2. C!Position(v) \in 1..Len(packed)
        BY <2>2, RawPosition DEF FoundInRun
      <3>3. packed[C!Position(v)] \in RawCells
        BY <3>1, <3>2, ElementOfSeq
      <3> QED
        BY <3>3 DEF RawCells
    <2>3. C!Position(v) # 0 =>
             C!ForCell(Objective, v) = [id |-> C!Position(v), value |-> packed[C!Position(v)].value]
      BY DEF C!ForCell
    <2> QED
      BY <2>1, <2>2, <2>3 DEF C!NoCell
  <1>3. \A v \in Vars : <<Objective, v>> \in live <=> C!ForCell(Objective, v) # C!NoCell
    OBVIOUS
  <1>4. \A v \in Vars : <<Objective, v>> \in live =>
           C!Cells[<<Objective, v>>] = C!ForCell(Objective, v)
    BY <1>1
  <1> HIDE DEF live
  <1>5. live \subseteq {Objective} \X Vars
    BY DEF live
  <1> QED
    BY <1>1, <1>2, <1>3, <1>4, <1>5 DEF RawView

\* The one block, of a store that has nothing yet.
LEMMA RawBlockStep ==
    ASSUME C!IInv, NEW block \in C!SortedBlocks, NEW value \in [DOMAIN block -> Int],
           C!BuildConstantBlock(Objective, block, value)
    PROVE  /\ C!IInv'
           /\ packed = <<>> /\ removed' = {} /\ C!Run = {}
           /\ \E n \in Nat :
                 /\ block \in [1..n -> Vars] /\ Len(packed') = n /\ C!Run' = 1..n
                 /\ \A i, j \in 1..n : block[i] = block[j] => i = j
                 /\ \A i \in 1..n : packed'[i].var = block[i] /\ packed'[i].value = value[i]
  <1>1. packed = <<>> /\ Len(packed) = 0 /\ removed = {} /\ C!Run = {}
    <2>1. built = {} /\ packed = <<>>
      BY DEF C!BuildConstantBlock, C!IInv
    <2>2. 1..Len(packed) = {}
      BY <2>1
    <2> QED
      BY <2>1, <2>2 DEF C!IInv, C!RunInv
  <1>2. PICK n \in Nat :
           /\ block \in [1..n -> Vars] /\ Len(block) = n
           /\ \A i, j \in 1..n : block[i] = block[j] => i = j
    <2>1. PICK n \in 1..C!Cardinality(Vars) :
             /\ block \in [1..n -> Vars]
             /\ \A i, j \in DOMAIN block : i < j => block[i] < block[j]
      BY DEF C!SortedBlocks
    <2>2. n \in Nat
      <3>1. C!Cardinality(Vars) = Cardinality(Vars)
        BY DEF C!Cardinality, C!IsFiniteSet, Cardinality, IsFiniteSet
      <3>2. Cardinality(Vars) \in Nat
        BY StoreAssumption, FS_CardinalityType DEF StoreAssumption
      <3> QED
        BY <3>1, <3>2
    <2>3. Len(block) = n
      BY <2>1, <2>2
    <2>4. \A i \in 1..n : block[i] \in Int
      <3>1. Vars \subseteq Int
        BY StoreAssumption DEF StoreAssumption
      <3>2. \A i \in 1..n : block[i] \in Vars
        BY <2>1
      <3> QED
        BY <3>1, <3>2
    <2>5. ASSUME NEW i \in 1..n, NEW j \in 1..n, block[i] = block[j]
          PROVE  i = j
      BY <2>1, <2>2, <2>4, <2>5
    <2> QED
      BY <2>1, <2>2, <2>3, <2>5
  <1>3. PICK cells : cells = [k \in 1..n |-> [var |-> block[k], value |-> value[k]]]
    OBVIOUS
  <1>4. cells \in [1..n -> RawCells] /\ \A i \in 1..n : cells[i].var = block[i] /\ cells[i].value = value[i]
    BY <1>2, <1>3 DEF RawCells
  <1>5. packed' \in Seq(RawCells) /\ Len(packed') = n /\ \A i \in 1..n : packed'[i] = cells[i]
    <2>1. packed' = packed \o cells
      BY <1>2, <1>3 DEF C!BuildConstantBlock
    <2>2. packed \in Seq(RawCells)
      BY <1>1, EmptySeq
    <2>3. /\ packed' \in Seq(RawCells) /\ Len(packed') = Len(packed) + n
          /\ \A i \in 1..n : packed'[Len(packed) + i] = cells[i]
      BY <1>2, <1>4, <2>1, <2>2, Extended
    <2> QED
      BY <1>1, <1>2, <2>3
  <1>6. start' = 1 /\ len' = n /\ removed' = {} /\ built' = built \union {Objective}
    BY <1>1, <1>2 DEF C!BuildConstantBlock
  <1>7. C!Run' = 1..n
    BY <1>2, <1>6 DEF C!Run
  <1>8. \A i \in 1..n : packed'[i].var = block[i] /\ packed'[i].value = value[i]
    BY <1>4, <1>5
  <1>9. C!IInv'
    <2>1. C!RunInv'
      BY <1>2, <1>5, <1>6, <1>7, <1>8 DEF C!RunInv, RawCells
    <2>2. built \subseteq {Objective}
      BY DEF C!IInv
    <2> QED
      BY <1>6, <2>1, <2>2 DEF C!IInv
  <1> QED
    BY <1>1, <1>2, <1>5, <1>6, <1>7, <1>8, <1>9

LEMMA RawRemoveStep ==
    ASSUME C!IInv, NEW v \in Vars, C!RemoveCell(Objective, v)
    PROVE  C!IInv'
  <1>1. UNCHANGED <<packed, start, len, built>>
    BY DEF C!RemoveCell
  <1>2. removed' \subseteq 1..Len(packed)
    BY RawPosition DEF C!RemoveCell, C!IInv, FoundInRun
  <1>3. C!RunInv'
    BY <1>1 DEF C!IInv, C!RunInv, C!Run
  <1> QED
    BY <1>1, <1>2, <1>3 DEF C!IInv

\* What an update of a cell that is there does to the arrays.
LEMMA RawUpdated ==
    ASSUME C!IInv, NEW v \in Vars, NEW x \in Int, C!UpdateCell(Objective, v, x), C!Position(v) # 0
    PROVE  /\ packed' \in Seq(RawCells) /\ Len(packed') = Len(packed)
           /\ \A i \in 1..Len(packed) : packed'[i].var = packed[i].var
           /\ \A i \in 1..Len(packed) : i # C!Position(v) => packed'[i] = packed[i]
           /\ packed'[C!Position(v)].value = x
           /\ UNCHANGED <<start, len, removed, built>>
  <1>1. PICK p : p = C!Position(v) /\ p \in 1..Len(packed)
    BY RawPosition DEF FoundInRun
  <1>2. packed \in Seq(RawCells) /\ packed[p] \in RawCells
    <2>1. packed \in Seq(RawCells)
      BY DEF C!IInv, C!RunInv, RawCells
    <2> QED
      BY <1>1, <2>1, ElementOfSeq
  <1>3. PICK new : new = [packed[p] EXCEPT !.value = x]
    OBVIOUS
  <1>4. new \in RawCells /\ new.var = packed[p].var /\ new.value = x
    BY <1>2, <1>3 DEF RawCells
  <1>5. packed' = [packed EXCEPT ![p] = new]
    BY <1>1, <1>3 DEF C!UpdateCell
  <1>6. /\ packed' \in Seq(RawCells) /\ Len(packed') = Len(packed)
        /\ \A j \in 1..Len(packed) : packed'[j] = IF j = p THEN new ELSE packed[j]
    BY <1>1, <1>2, <1>4, <1>5, ElementUpdate
  <1> QED
    BY <1>1, <1>4, <1>6 DEF C!UpdateCell

LEMMA RawUpdateStep ==
    ASSUME C!IInv, NEW v \in Vars, NEW x \in Int, C!UpdateCell(Objective, v, x)
    PROVE  C!IInv'
  <1>1. CASE C!Position(v) = 0
    <2>1. UNCHANGED <<packed, start, len, removed, built>>
      BY <1>1 DEF C!UpdateCell
    <2> QED
      BY <2>1 DEF C!IInv, C!RunInv, C!Run
  <1>2. CASE C!Position(v) # 0
    <2>1. /\ packed' \in Seq(RawCells) /\ Len(packed') = Len(packed)
          /\ \A i \in 1..Len(packed) : packed'[i].var = packed[i].var
          /\ UNCHANGED <<start, len, removed, built>>
      BY <1>2, RawUpdated
    <2>2. C!RunInv'
      BY <2>1 DEF C!IInv, C!RunInv, C!Run, RawCells
    <2>3. built # {}
      BY DEF C!UpdateCell
    <2> QED
      BY <2>1, <2>2, <2>3 DEF C!IInv
  <1> QED
    BY <1>1, <1>2

LEMMA CallsOfCKeepIInv == C!IInv /\ CallOfC => C!IInv'
  BY RawBlockStep, RawRemoveStep, RawUpdateStep DEF CallOfC

\* The block is an AddBlock: its positions are the first identities.
LEMMA RawBlockIsAddBlock ==
    ASSUME C!IInv, RawView, RawView', NEW block \in C!SortedBlocks,
           NEW value \in [DOMAIN block -> Int], C!BuildConstantBlock(Objective, block, value)
    PROVE  D!Next
  <1>1. PICK n \in Nat :
           /\ block \in [1..n -> Vars] /\ Len(packed') = n /\ C!Run' = 1..n
           /\ \A i, j \in 1..n : block[i] = block[j] => i = j
           /\ \A i \in 1..n : packed'[i].var = block[i]
    BY RawBlockStep
  <1>2. C!IInv' /\ packed = <<>> /\ Len(packed) = 0 /\ removed' = {} /\ C!Run = {}
    BY RawBlockStep
  <1> DEFINE new == {block[i] : i \in 1..n}
  <1>3. new \subseteq Vars
    BY <1>1
  <1>4. DOMAIN C!Cells = {}
    <2>1. \A v \in Vars : C!Position(v) = 0
      BY <1>2, RawPosition DEF FoundInRun
    <2>2. \A v \in Vars : <<Objective, v>> \notin DOMAIN C!Cells
      BY <2>1 DEF RawView
    <2>3. DOMAIN C!Cells \subseteq {Objective} \X Vars
      BY DEF RawView
    <2>4. \A k \in {Objective} \X Vars : k \notin DOMAIN C!Cells
      BY <2>2
    <2> QED
      BY <2>3, <2>4
  <1>5. ASSUME NEW v
        PROVE  FoundInRun(v, C!Position(v))'
    BY <1>2, RawPositionAfter
  <1>6. ASSUME NEW i \in 1..n
        PROVE  C!Position(block[i])' = i /\ i # 0
    BY <1>1, <1>2, <1>5 DEF FoundInRun
  <1>7. ASSUME NEW v \in Vars, v \notin new
        PROVE  C!Position(v)' = 0
    <2>1. C!Position(v)' # 0 => C!Position(v)' \in 1..n /\ packed'[C!Position(v)'].var = v
      BY <1>1, <1>5 DEF FoundInRun
    <2> QED
      BY <1>1, <1>7, <2>1
  <1>8. ASSUME NEW i \in 1..n
        PROVE  /\ <<Objective, block[i]>> \in DOMAIN C!Cells'
               /\ C!Cells'[<<Objective, block[i]>>].id = i
               /\ C!Cells'[<<Objective, block[i]>>].value \in Int
    BY <1>1, <1>6 DEF RawView
  <1>9. Cardinality(new) = n
    <2>1. IsFiniteSet(1..n) /\ Cardinality(1..n) = n
      BY FirstNumbers
    <2>2. block \in [1..n -> new] /\ \A v \in new : \E i \in 1..n : block[i] = v
      BY <1>1
    <2>3. block \in Bijection(1..n, new)
      BY <1>1, <2>2 DEF Bijection, Injection, Surjection, IsInjective
    <2> QED
      BY <2>1, <2>3, FS_Bijection DEF ExistsBijection
  <1>10. DOMAIN C!Cells' = {Objective} \X new
    <2>1. DOMAIN C!Cells' \subseteq {Objective} \X Vars
      BY DEF RawView
    <2>2. \A v \in Vars \ new : <<Objective, v>> \notin DOMAIN C!Cells'
      BY <1>7 DEF RawView
    <2>3. \A v \in new : <<Objective, v>> \in DOMAIN C!Cells'
      BY <1>8
    <2> QED
      BY <1>3, <2>1, <2>2, <2>3
  <1>11. \A k \in {Objective} \X new : C!Cells'[k].value \in Int
    BY <1>8
  <1>12. {C!Cells'[k].id : k \in {Objective} \X new} = (0 + 1)..n
    <2>1. \A k \in {Objective} \X new : C!Cells'[k].id \in 1..n
      BY <1>8
    <2>2. ASSUME NEW i \in 1..n
          PROVE  \E k \in {Objective} \X new : C!Cells'[k].id = i
      BY <1>8
    <2> QED
      BY <2>1, <2>2
  <1>13. D!Cardinality(new) = n
    BY <1>9 DEF D!Cardinality, D!IsFiniteSet, Cardinality, IsFiniteSet
  <1> HIDE DEF new
  <1>14. C!Minted = 0 /\ C!Minted' = n
    BY <1>1, <1>2 DEF C!Minted
  <1>15. D!AddBlock(Objective, new)
    BY <1>1, <1>4, <1>10, <1>11, <1>12, <1>13, <1>14 DEF D!AddBlock, D!Live, D!Become
  <1> QED
    BY <1>3, <1>15 DEF D!Next

LEMMA RawSame == UNCHANGED C!vars => UNCHANGED D!vars
  <1> SUFFICES ASSUME UNCHANGED C!vars PROVE UNCHANGED D!vars
    OBVIOUS
  <1>1. packed' = packed /\ removed' = removed /\ C!Run' = C!Run
    BY DEF C!vars, C!Run
  <1>2. ASSUME NEW t, NEW v
        PROVE  C!ForCell(t, v)' = C!ForCell(t, v)
    <2>1. C!Position(v)' = C!Position(v)
      BY <1>1 DEF C!Position
    <2> QED
      BY <1>1, <2>1 DEF C!ForCell
  <1>3. C!Cells' = C!Cells
    BY <1>2 DEF C!Cells
  <1>4. C!Minted' = C!Minted
    BY <1>1 DEF C!Minted
  <1> QED
    BY <1>3, <1>4 DEF D!vars

\* Removal and update of a cell that the run does not have change nothing.
LEMMA RawMissStutters ==
    ASSUME NEW v, NEW x, C!Position(v) = 0, C!RemoveCell(Objective, v) \/ C!UpdateCell(Objective, v, x)
    PROVE  UNCHANGED D!vars
  <1>1. UNCHANGED <<packed, start, len, removed, built>>
    BY DEF C!RemoveCell, C!UpdateCell
  <1> QED
    BY <1>1, RawSame DEF C!vars

\* Cells at another position answer as before.
LEMMA RawOthersStay ==
    ASSUME C!IInv, RawView, C!IInv', RawView', NEW v \in Vars,
           Len(packed') = Len(packed), C!Run' = C!Run,
           \A i \in 1..Len(packed) : packed'[i].var = packed[i].var,
           \A i \in 1..Len(packed) : packed[i].var # v => packed'[i] = packed[i],
           \A i \in 1..Len(packed) : packed[i].var # v => (i \in removed' <=> i \in removed)
    PROVE  \A w \in Vars : w # v =>
              /\ C!Position(w)' = C!Position(w)
              /\ <<Objective, w>> \in DOMAIN C!Cells' <=> <<Objective, w>> \in DOMAIN C!Cells
              /\ <<Objective, w>> \in DOMAIN C!Cells => C!Cells'[<<Objective, w>>] = C!Cells[<<Objective, w>>]
  <1> SUFFICES ASSUME NEW w \in Vars, w # v
               PROVE  /\ C!Position(w)' = C!Position(w)
                      /\ <<Objective, w>> \in DOMAIN C!Cells' <=> <<Objective, w>> \in DOMAIN C!Cells
                      /\ <<Objective, w>> \in DOMAIN C!Cells =>
                            C!Cells'[<<Objective, w>>] = C!Cells[<<Objective, w>>]
    OBVIOUS
  <1>1. FoundInRun(w, C!Position(w)) /\ FoundInRun(w, C!Position(w))'
    BY RawPosition, RawPositionAfter
  <1>2. C!Run \subseteq 1..Len(packed)
    BY DEF C!IInv, C!RunInv
  <1>3. C!Position(w)' = C!Position(w)
    <2>1. CASE C!Position(w) # 0
      <3>1. /\ C!Position(w) \in C!Run' /\ packed'[C!Position(w)].var = w
            /\ C!Position(w) \notin removed'
        BY <1>1, <1>2, <2>1 DEF FoundInRun
      <3> QED
        BY <1>1, <3>1 DEF FoundInRun
    <2>2. CASE C!Position(w) = 0
      <3>1. \A pos \in C!Run' : ~ (packed'[pos].var = w /\ pos \notin removed')
        BY <1>1, <1>2, <2>2 DEF FoundInRun
      <3> QED
        BY <1>1, <2>2, <3>1 DEF FoundInRun
    <2> QED
      BY <2>1, <2>2
  <1>4. <<Objective, w>> \in DOMAIN C!Cells' <=> <<Objective, w>> \in DOMAIN C!Cells
    BY <1>3 DEF RawView
  <1>5. ASSUME <<Objective, w>> \in DOMAIN C!Cells
        PROVE  C!Cells'[<<Objective, w>>] = C!Cells[<<Objective, w>>]
    <2>1. C!Position(w) # 0
      BY <1>5 DEF RawView
    <2>2. packed'[C!Position(w)] = packed[C!Position(w)]
      BY <1>1, <2>1 DEF FoundInRun
    <2>3. C!ForCell(Objective, w)' = C!ForCell(Objective, w)
      BY <1>3, <2>1, <2>2 DEF C!ForCell
    <2> QED
      BY <1>4, <1>5, <2>3 DEF RawView
  <1> QED
    BY <1>3, <1>4, <1>5

LEMMA RawRemoveIsRemove ==
    ASSUME C!IInv, RawView, C!IInv', RawView', NEW v \in Vars, C!RemoveCell(Objective, v),
           C!Position(v) # 0
    PROVE  D!Next
  <1> DEFINE k == <<Objective, v>>
  <1>1. /\ packed' = packed /\ C!Run' = C!Run /\ removed' = removed \union {C!Position(v)}
    BY DEF C!RemoveCell, C!Run
  <1>2. FoundInRun(v, C!Position(v)) /\ FoundInRun(v, C!Position(v))'
    BY RawPosition, RawPositionAfter
  <1>3. C!Position(v)' = 0
    <2>1. \A pos \in C!Run : packed[pos].var = v => pos \in removed'
      BY <1>1, <1>2 DEF FoundInRun
    <2> QED
      BY <1>1, <1>2, <2>1 DEF FoundInRun
  <1>4. \A w \in Vars : w # v =>
           /\ <<Objective, w>> \in DOMAIN C!Cells' <=> <<Objective, w>> \in DOMAIN C!Cells
           /\ <<Objective, w>> \in DOMAIN C!Cells => C!Cells'[<<Objective, w>>] = C!Cells[<<Objective, w>>]
    <2>1. \A i \in 1..Len(packed) : packed[i].var # v => (i \in removed' <=> i \in removed)
      BY <1>1, <1>2 DEF FoundInRun
    <2> QED
      BY <1>1, <2>1, RawOthersStay
  <1>5. k \in DOMAIN C!Cells /\ k \notin DOMAIN C!Cells'
    BY <1>3 DEF RawView
  <1>6. DOMAIN C!Cells \subseteq {Objective} \X Vars /\ DOMAIN C!Cells' \subseteq {Objective} \X Vars
    BY DEF RawView
  <1>7. DOMAIN C!Cells' = DOMAIN C!Cells \ {k}
    BY <1>4, <1>5, <1>6
  <1>8. \A j \in DOMAIN C!Cells \ {k} : C!Cells'[j] = C!Cells[j]
    BY <1>4, <1>6
  <1>9. C!Minted' = C!Minted
    BY <1>1 DEF C!Minted
  <1> HIDE DEF k
  <1>10. D!Remove(k)
    BY <1>5, <1>7, <1>8, <1>9 DEF D!Remove, D!Live, D!Become
  <1>11. k \in D!Keys
    BY DEF k, D!Keys
  <1> QED
    BY <1>10, <1>11 DEF D!Next

LEMMA RawUpdateIsPut ==
    ASSUME C!IInv, RawView, C!IInv', RawView', NEW v \in Vars, NEW x \in Int,
           C!UpdateCell(Objective, v, x), C!Position(v) # 0
    PROVE  D!Next
  <1> DEFINE k == <<Objective, v>>
  <1>1. /\ Len(packed') = Len(packed)
        /\ \A i \in 1..Len(packed) : packed'[i].var = packed[i].var
        /\ \A i \in 1..Len(packed) : i # C!Position(v) => packed'[i] = packed[i]
        /\ removed' = removed /\ C!Run' = C!Run
    BY RawUpdated DEF C!Run
  <1>2. FoundInRun(v, C!Position(v)) /\ FoundInRun(v, C!Position(v))'
    BY RawPosition, RawPositionAfter
  <1>3. C!Position(v)' = C!Position(v)
    BY <1>1, <1>2 DEF FoundInRun
  <1>4. \A w \in Vars : w # v =>
           /\ <<Objective, w>> \in DOMAIN C!Cells' <=> <<Objective, w>> \in DOMAIN C!Cells
           /\ <<Objective, w>> \in DOMAIN C!Cells => C!Cells'[<<Objective, w>>] = C!Cells[<<Objective, w>>]
    <2>1. \A i \in 1..Len(packed) : packed[i].var # v => packed'[i] = packed[i]
      BY <1>1, <1>2 DEF FoundInRun
    <2> QED
      BY <1>1, <2>1, RawOthersStay
  <1>5. /\ k \in DOMAIN C!Cells /\ k \in DOMAIN C!Cells'
        /\ C!Cells'[k].id = C!Cells[k].id /\ C!Cells'[k].value \in Int
    BY <1>3 DEF RawView
  <1>6. DOMAIN C!Cells \subseteq {Objective} \X Vars /\ DOMAIN C!Cells' \subseteq {Objective} \X Vars
    BY DEF RawView
  <1>7. DOMAIN C!Cells' = DOMAIN C!Cells \union {k}
    BY <1>4, <1>5, <1>6
  <1>8. \A j \in DOMAIN C!Cells \ {k} : C!Cells'[j] = C!Cells[j]
    BY <1>4, <1>6
  <1>9. C!Minted' = C!Minted
    BY <1>1 DEF C!Minted
  <1> HIDE DEF k
  <1>10. D!Put(k)
    BY <1>5, <1>7, <1>8, <1>9 DEF D!Put, D!Live, D!Become
  <1>11. k \in D!Keys
    BY DEF k, D!Keys
  <1> QED
    BY <1>10, <1>11 DEF D!Next

\* Every call of kernel C is a step of the contract.
LEMMA CallOfCImplements ==
    C!IInv /\ RawView /\ C!IInv' /\ RawView' /\ CallOfC => [D!Next]_D!vars
  BY RawBlockIsAddBlock, RawRemoveIsRemove, RawUpdateIsPut, RawMissStutters DEF CallOfC

LEMMA StepsOfC ==
    ASSUME TargetInv, [ProtoNext]_protoVars
    PROVE  CallOfC \/ UNCHANGED C!vars
  <1>1. UNCHANGED cVars => UNCHANGED C!vars
    BY DEF cVars, C!vars
  <1>2. CASE Build
    <2>1. CASE OnC
      <3>1. C!BuildConstantBlock(Objective, AllVars, AllVals)
        BY <1>2, <2>1 DEF Build, OnA, OnB, OnC, TargetInv
      <3>2. AllVars \in C!SortedBlocks
        <4>1. C!Cardinality(Vars) = Cardinality(Vars)
          BY DEF C!Cardinality, C!IsFiniteSet, Cardinality, IsFiniteSet
        <4> QED
          BY <4>1, WholeSortedBlock DEF SortedBlocks, C!SortedBlocks
      <3> QED
        BY <3>1, <3>2, WholeBlock DEF CallOfC
    <2> QED
      BY <1>1, <1>2, <2>1 DEF Build, OnA, OnB
  <1>3. CASE LookUp \/ Iterate \/ Report \/ Ended \/ UNCHANGED protoVars
    BY <1>1, <1>3 DEF LookUp, Iterate, Report, Ended, protoVars, stores
  <1>4. CASE RemoveOne
    <2>1. CASE kernel = "c" /\ Lookup(work.removes[at]) # NoCell
      <3>1. target = Objective /\ work.removes[at] \in Vars
        BY <1>4, <2>1, WorkTyped DEF RemoveOne, TargetInv
      <3>2. C!RemoveCell(target, work.removes[at])
        BY <1>4, <2>1 DEF RemoveOne, OnA, OnB
      <3> QED
        BY <3>1, <3>2 DEF CallOfC
    <2> QED
      BY <1>1, <1>4, <2>1 DEF RemoveOne, OnA, OnB, OnC, stores
  <1>5. CASE UpdateOne
    <2>1. CASE OnC
      <3>1. target = Objective /\ work.updates[at] \in Vars
        BY <1>5, <2>1, WorkTyped DEF UpdateOne, OnC, TargetInv
      <3>2. C!UpdateCell(target, work.updates[at], UpdateExpr(at, work.updates[at]).value)
        BY <1>5, <2>1 DEF UpdateOne, OnA, OnB, OnC
      <3> QED
        BY <3>1, <3>2, ExprTyped DEF CallOfC
    <2> QED
      BY <1>1, <1>5, <2>1 DEF UpdateOne, OnA, OnB
  <1>6. CASE Probe
    BY <1>1, <1>6 DEF Probe, OnB
  <1>7. CASE Free
    <2>1. CASE OnC
      <3>1. C!Next
        BY <1>7, <2>1 DEF Free, OnA, OnB, OnC
      <3>2. ASSUME NEW block \in C!SortedBlocks, NEW value \in [DOMAIN block -> 1..2],
                   C!BuildConstantBlock(Objective, block, value)
            PROVE  CallOfC
        <4>1. value \in [DOMAIN block -> Int]
          OBVIOUS
        <4> QED
          BY <3>2, <4>1 DEF CallOfC
      <3>3. ASSUME NEW v \in Vars, NEW x \in 1..2, C!UpdateCell(Objective, v, x)
            PROVE  CallOfC
        BY <3>3 DEF CallOfC
      <3>4. ASSUME NEW v \in Vars, C!RemoveCell(Objective, v)
            PROVE  CallOfC
        BY <3>4 DEF CallOfC
      <3> QED
        BY <3>1, <3>2, <3>3, <3>4 DEF C!Next
    <2> QED
      BY <1>1, <1>7, <2>1 DEF Free, OnA, OnB
  <1> QED
    BY <1>2, <1>3, <1>4, <1>5, <1>6, <1>7 DEF ProtoNext

\* Kernel C's invariant, whatever store-proto does with it.
THEOREM CInvariance == ProtoSpec => [](C!IInv /\ TargetInv)
  <1>1. ProtoInit => C!IInv /\ TargetInv
    <2>1. C!Init => C!IInv
      <3> SUFFICES ASSUME C!Init PROVE C!IInv
        OBVIOUS
      <3>1. packed = <<>> /\ start = 1 /\ len = 0 /\ removed = {} /\ built = {}
        BY DEF C!Init
      <3>2. C!Run = {}
        BY <3>1 DEF C!Run
      <3> QED
        BY <3>1, <3>2, EmptySeq DEF C!IInv, C!RunInv
    <2> QED
      BY <2>1, AInit DEF ProtoInit
  <1>2. UNCHANGED C!vars /\ C!IInv => C!IInv'
    BY DEF C!vars, C!IInv, C!RunInv, C!Run
  <1>3. C!IInv /\ TargetInv /\ [ProtoNext]_protoVars => C!IInv'
    BY <1>2, StepsOfC, CallsOfCKeepIInv
  <1> QED
    BY <1>1, <1>3, TargetsStay, PTL DEF ProtoSpec

-----------------------------------------------------------------------------
(***************************************************************************)
(* Whichever kernel is driven: a step of its contract, which speaks of its *)
(* own targets, is a step of the program's, which speaks of all.           *)
(***************************************************************************)
LEMMA SameCells == A!Cells = P!Cells /\ A!Minted = P!Minted
  BY DEF A!Cells, P!Cells, A!Minted, P!Minted, A!ForCell, P!ForCell, A!Get, P!Get, A!NoData,
         P!NoData, A!NoCell, P!NoCell

LEMMA SameCellsAfter == A!Cells' = P!Cells' /\ A!Minted' = P!Minted'
  BY DEF A!Cells, P!Cells, A!Minted, P!Minted, A!ForCell, P!ForCell, A!Get, P!Get, A!NoData,
         P!NoData, A!NoCell, P!NoCell

\* every step of the program, to kernel A
LEMMA ACallImplements ==
    ASSUME P!IInv, TargetInv, P!CellsView, P!CellsView', [ProtoNext]_protoVars
    PROVE  [P!Contract!Next]_P!Contract!vars
  <1>1. CASE CallOfA
    BY <1>1, P!CallsImplement, SameAssumption DEF CallOfA
  <1>2. CASE UNCHANGED P!vars
    BY <1>2 DEF P!vars, P!Contract!vars, P!Cells, P!Minted, P!ForCell, P!Get
  <1> QED
    BY <1>1, <1>2, StepsOfA

LEMMA RawInit == C!Init => D!Init
  <1> SUFFICES ASSUME C!Init PROVE D!Init
    OBVIOUS
  <1>1. packed = <<>> /\ start = 1 /\ len = 0
    BY DEF C!Init
  <1>2. C!Run = {}
    BY <1>1 DEF C!Run
  <1>3. \A t, v : C!ForCell(t, v) = C!NoCell
    BY <1>2 DEF C!ForCell, C!Position
  <1>4. C!Cells = [k \in {} |-> 0]
    BY <1>3 DEF C!Cells
  <1> QED
    BY <1>1, <1>4 DEF D!Init, C!Minted

LEMMA LiftA ==
    ASSUME kernel = "a", kernel' = "a", [P!Contract!Next]_P!Contract!vars
    PROVE  [Store!Next]_Store!vars
  <1>1. A!Cells = P!Cells /\ A!Cells' = P!Cells' /\ A!Minted = P!Minted /\ A!Minted' = P!Minted'
    BY SameCells, SameCellsAfter
  <1>2. UNCHANGED P!Contract!vars => UNCHANGED Store!vars
    BY <1>1 DEF P!Contract!vars, Store!vars
  <1>3. ASSUME NEW k \in P!Contract!Keys, P!Contract!Put(k) PROVE Store!Next
    <2>1. Store!Put(k)
      BY <1>1, <1>3 DEF P!Contract!Put, P!Contract!Live, P!Contract!Become,
                        Store!Put, Store!Live, Store!Become
    <2> QED
      BY <2>1 DEF Store!Next, Store!Keys, P!Contract!Keys
  <1>4. ASSUME NEW k \in P!Contract!Keys, P!Contract!Remove(k) PROVE Store!Next
    <2>1. Store!Remove(k)
      BY <1>1, <1>4 DEF P!Contract!Remove, P!Contract!Live, P!Contract!Become,
                        Store!Remove, Store!Live, Store!Become
    <2> QED
      BY <2>1 DEF Store!Next, Store!Keys, P!Contract!Keys
  <1>5. ASSUME NEW t \in Targets, NEW block \in SUBSET Vars, P!Contract!AddBlock(t, block)
        PROVE  Store!Next
    <2>1. P!Contract!Cardinality(block) = Store!Cardinality(block)
      BY DEF P!Contract!Cardinality, P!Contract!IsFiniteSet, Store!Cardinality, Store!IsFiniteSet
    <2>2. Store!AddBlock(t, block)
      BY <1>1, <1>5, <2>1 DEF P!Contract!AddBlock, P!Contract!Live, P!Contract!Become,
                              Store!AddBlock, Store!Live, Store!Become
    <2> QED
      BY <2>2 DEF Store!Next
  <1> QED
    BY <1>2, <1>3, <1>4, <1>5 DEF P!Contract!Next

LEMMA LiftB ==
    ASSUME kernel = "b", kernel' = "b", [Contract!Next]_Contract!vars
    PROVE  [Store!Next]_Store!vars
  <1>1. UNCHANGED Contract!vars => UNCHANGED Store!vars
    BY DEF Contract!vars, Store!vars
  <1>2. ASSUME NEW k \in Contract!Keys, Contract!Put(k) PROVE Store!Next
    <2>1. Store!Put(k)
      BY <1>2 DEF Contract!Put, Contract!Live, Contract!Become,
                        Store!Put, Store!Live, Store!Become
    <2> QED
      BY <2>1 DEF Store!Next, Store!Keys, Contract!Keys
  <1>3. ASSUME NEW k \in Contract!Keys, Contract!Remove(k) PROVE Store!Next
    <2>1. Store!Remove(k)
      BY <1>3 DEF Contract!Remove, Contract!Live, Contract!Become,
                        Store!Remove, Store!Live, Store!Become
    <2> QED
      BY <2>1 DEF Store!Next, Store!Keys, Contract!Keys
  <1>4. ASSUME NEW t \in Targets, NEW block \in SUBSET Vars, Contract!AddBlock(t, block)
        PROVE  Store!Next
    <2>1. Contract!Cardinality(block) = Store!Cardinality(block)
      BY DEF Contract!Cardinality, Contract!IsFiniteSet, Store!Cardinality, Store!IsFiniteSet
    <2>2. Store!AddBlock(t, block)
      BY <1>4, <2>1 DEF Contract!AddBlock, Contract!Live, Contract!Become,
                              Store!AddBlock, Store!Live, Store!Become
    <2> QED
      BY <2>2 DEF Store!Next
  <1> QED
    BY <1>1, <1>2, <1>3, <1>4 DEF Contract!Next

LEMMA LiftC ==
    ASSUME kernel = "c", kernel' = "c", [D!Next]_D!vars
    PROVE  [Store!Next]_Store!vars
  <1>1. UNCHANGED D!vars => UNCHANGED Store!vars
    BY DEF D!vars, Store!vars
  <1>2. ASSUME NEW k \in D!Keys, D!Put(k) PROVE Store!Next
    <2>1. Store!Put(k)
      BY <1>2 DEF D!Put, D!Live, D!Become,
                        Store!Put, Store!Live, Store!Become
    <2> QED
      BY <2>1 DEF Store!Next, Store!Keys, D!Keys
  <1>3. ASSUME NEW k \in D!Keys, D!Remove(k) PROVE Store!Next
    <2>1. Store!Remove(k)
      BY <1>3 DEF D!Remove, D!Live, D!Become,
                        Store!Remove, Store!Live, Store!Become
    <2> QED
      BY <2>1 DEF Store!Next, Store!Keys, D!Keys
  <1>4. ASSUME NEW t \in {Objective}, NEW block \in SUBSET Vars, D!AddBlock(t, block)
        PROVE  Store!Next
    <2>1. D!Cardinality(block) = Store!Cardinality(block)
      BY DEF D!Cardinality, D!IsFiniteSet, Store!Cardinality, Store!IsFiniteSet
    <2>2. Store!AddBlock(t, block)
      BY <1>4, <2>1 DEF D!AddBlock, D!Live, D!Become,
                              Store!AddBlock, Store!Live, Store!Become
    <2> QED
      BY <2>2 DEF Store!Next
  <1> QED
    BY <1>1, <1>2, <1>3, <1>4 DEF D!Next

KernelInv == kernel \in {"a", "b", "c"}

LEMMA KernelStays == [ProtoNext]_protoVars => kernel' = kernel
  BY DEF ProtoNext, Build, LookUp, Iterate, RemoveOne, UpdateOne, Loop, Probe, Report, Ended, Free,
         protoVars, driver

\* Seen through for_cell, whichever kernel is driven and whatever it is asked,
\* the program keeps a coefficient store's promise: updates keep the identity, no
\* identity is handed out twice, and a cell added again after its removal gets a
\* new one.  This is what makes the measurements of the kernels comparable.
THEOREM EveryKernelImplementsCoeffStore == ProtoSpec => ImplementsCoeffStore
  <1> DEFINE I == P!IInv /\ IInv /\ C!IInv /\ TargetInv /\ KernelInv
             View == P!CellsView /\ LookupView /\ RawView
  <1>1. ProtoSpec => []I
    <2>1. ProtoInit => KernelInv
      BY DEF ProtoInit, KernelInv
    <2>2. KernelInv /\ [ProtoNext]_protoVars => KernelInv'
      BY KernelStays DEF KernelInv
    <2>3. ProtoSpec => []KernelInv
      BY <2>1, <2>2, PTL DEF ProtoSpec
    <2> QED
      BY <2>3, AInvariance, BInvariance, CInvariance, PTL
  <1>2. I => View
    BY P!CellsViewed, SameAssumption, ViewOfIInv, RawViewed
  <1>3. ProtoInit => Store!Init
    <2> SUFFICES ASSUME ProtoInit PROVE Store!Init
      OBVIOUS
    <2>1. P!Contract!Init
      BY SameInit, P!InitImplements DEF ProtoInit
    <2>2. Contract!Init
      BY InitImplements DEF ProtoInit
    <2>3. D!Init
      BY RawInit DEF ProtoInit
    <2>4. A!Cells = P!Cells /\ A!Minted = P!Minted
      BY SameCells
    <2> QED
      BY <2>1, <2>2, <2>3, <2>4 DEF P!Contract!Init, Contract!Init, D!Init, Store!Init
  <1>4. I /\ I' /\ View /\ View' /\ [ProtoNext]_protoVars => [Store!Next]_Store!vars
    <2> SUFFICES ASSUME I, I', View, View', [ProtoNext]_protoVars PROVE [Store!Next]_Store!vars
      OBVIOUS
    <2>1. kernel' = kernel
      BY KernelStays
    <2>2. CASE kernel = "a"
      <3>1. [P!Contract!Next]_P!Contract!vars
        BY ACallImplements
      <3> QED
        BY <2>1, <2>2, <3>1, LiftA
    <2>3. CASE kernel = "b"
      <3>1. [Contract!Next]_Contract!vars
        <4>1. UNCHANGED vars => UNCHANGED Contract!vars
          BY SameAnswers DEF vars, baseVars, overlayVars
        <4> QED
          BY <4>1, StepsOfB, CallImplements
      <3> QED
        BY <2>1, <2>3, <3>1, LiftB
    <2>4. CASE kernel = "c"
      <3>1. [D!Next]_D!vars
        BY StepsOfC, CallOfCImplements, RawSame
      <3> QED
        BY <2>1, <2>4, <3>1, LiftC
    <2> QED
      BY <2>2, <2>3, <2>4 DEF KernelInv
  <1> QED
    BY <1>1, <1>2, <1>3, <1>4, PTL DEF ProtoSpec, ImplementsCoeffStore, Store!Spec

\* What holds at 0 and passes from every number to the next holds of them all.
LEMMA SetInduction ==
    ASSUME NEW S, 0 \in S, \A n \in Nat : n \in S => n + 1 \in S
    PROVE  \A n \in Nat : n \in S
  <1> DEFINE T == Nat \ S
  <1> SUFFICES ASSUME T # {} PROVE FALSE
    OBVIOUS
  <1>1. PICK x \in T : \A y \in T : ~ (<<y, x>> \in OpToRel(<, Nat))
    <2>1. T \subseteq Nat
      OBVIOUS
    <2> HIDE DEF T
    <2> QED
      BY <2>1, NatLessThanWellFounded, WFMin
  <1>2. x \in Nat /\ x # 0 /\ x - 1 \in Nat
    OBVIOUS
  <1>3. x - 1 \in T
    BY <1>2
  <1>4. <<x - 1, x>> \in OpToRel(<, Nat)
    BY <1>2 DEF OpToRel
  <1> QED
    BY <1>1, <1>3, <1>4

\* g holds the partial sums of the first n values of s.
PartialSums(g, s, n) ==
    /\ g \in [0..n -> Int]
    /\ g[0] = 0
    /\ \A k \in 1..n : g[k] = g[k - 1] + s[k]

\* Every vector of integers has its partial sums.
LEMMA PartialSumsExist ==
    ASSUME NEW m \in Nat, NEW s \in [1..m -> Int]
    PROVE  \A n \in 0..m : \E g : PartialSums(g, s, n)
  <1> DEFINE S == {n \in Nat : n <= m => \E g : PartialSums(g, s, n)}
  <1>1. 0 \in S
    <2>1. PartialSums([k \in 0..0 |-> 0], s, 0)
      BY DEF PartialSums
    <2> QED
      BY <2>1
  <1>2. ASSUME NEW n \in Nat, n \in S PROVE n + 1 \in S
    <2> SUFFICES ASSUME n + 1 <= m PROVE \E g : PartialSums(g, s, n + 1)
      OBVIOUS
    <2>1. PICK g : PartialSums(g, s, n)
      BY <1>2
    <2> DEFINE h == [k \in 0..(n + 1) |-> IF k = n + 1 THEN g[n] + s[n + 1] ELSE g[k]]
    <2>2. g[n] \in Int /\ s[n + 1] \in Int
      BY <2>1 DEF PartialSums
    <2>3. h \in [0..(n + 1) -> Int] /\ h[0] = 0
      BY <2>1, <2>2 DEF PartialSums
    <2>4. \A k \in 1..(n + 1) : h[k] = h[k - 1] + s[k]
      BY <2>1, <2>2 DEF PartialSums
    <2> QED
      BY <2>3, <2>4 DEF PartialSums
  <1>3. \A n \in Nat : n \in S
    <2> HIDE DEF S
    <2> QED
      BY <1>1, <1>2, SetInduction
  <1> QED
    BY <1>3

\* The last of the partial sums is the sum.
LEMMA SumIsLast ==
    ASSUME NEW m \in Nat, NEW s \in [1..m -> Int], NEW g, PartialSums(g, s, m)
    PROVE  SumOf(s) = g[m]
  <1> DEFINE F(f) == [n \in 0..m |-> IF n = 0 THEN 0 ELSE f[n - 1] + s[n]]
             f0 == CHOOSE f : f = F(f)
  <1>1. Len(s) = m
    OBVIOUS
  <1>2. SumOf(s) = f0[m]
    BY <1>1 DEF SumOf
  <1>3. g = F(g)
    <2>1. g = [n \in 0..m |-> g[n]]
      BY DEF PartialSums
    <2>2. \A n \in 0..m : g[n] = IF n = 0 THEN 0 ELSE g[n - 1] + s[n]
      BY DEF PartialSums
    <2> QED
      BY <2>1, <2>2
  <1>4. f0 = F(f0)
    BY <1>3
  <1> HIDE DEF f0
  <1>5. \A n \in 0..m : f0[n] = IF n = 0 THEN 0 ELSE f0[n - 1] + s[n]
    BY <1>4
  <1> DEFINE S == {n \in Nat : n <= m => f0[n] \in Int /\ f0[n] = g[n]}
  <1>6. 0 \in S
    BY <1>5 DEF PartialSums
  <1>7. ASSUME NEW n \in Nat, n \in S PROVE n + 1 \in S
    <2> SUFFICES ASSUME n + 1 <= m PROVE f0[n + 1] \in Int /\ f0[n + 1] = g[n + 1]
      OBVIOUS
    <2>1. f0[n] \in Int /\ f0[n] = g[n]
      BY <1>7
    <2>2. n + 1 \in 0..m /\ n + 1 \in 1..m /\ n + 1 # 0 /\ (n + 1) - 1 = n
      OBVIOUS
    <2>3. f0[n + 1] = f0[n] + s[n + 1]
      BY <1>5, <2>2
    <2>4. g[n + 1] = g[n] + s[n + 1] /\ s[n + 1] \in Int
      BY <2>2 DEF PartialSums
    <2> QED
      BY <2>1, <2>3, <2>4
  <1>8. \A n \in Nat : n \in S
    <2> HIDE DEF S
    <2> QED
      BY <1>6, <1>7, SetInduction
  <1> QED
    BY <1>2, <1>8

\* The sum of nothing.
LEMMA SumOfNone ==
    ASSUME NEW s \in [1..0 -> Int]
    PROVE  SumOf(s) = 0
  <1>1. PartialSums([k \in 0..0 |-> 0], s, 0)
    BY DEF PartialSums
  <1> QED
    BY <1>1, SumIsLast

\* A sum is that of all values but the last, and the last.
LEMMA SumOneMore ==
    ASSUME NEW n \in Nat, NEW s \in [1..(n + 1) -> Int]
    PROVE  /\ [k \in 1..n |-> s[k]] \in [1..n -> Int]
           /\ SumOf(s) = SumOf([k \in 1..n |-> s[k]]) + s[n + 1]
           /\ SumOf(s) \in Int /\ SumOf([k \in 1..n |-> s[k]]) \in Int
  <1> DEFINE r == [k \in 1..n |-> s[k]]
  <1>1. PICK g : PartialSums(g, s, n + 1)
    BY PartialSumsExist
  <1>2. r \in [1..n -> Int]
    OBVIOUS
  <1>3. PartialSums([k \in 0..n |-> g[k]], r, n)
    BY <1>1 DEF PartialSums
  <1>4. SumOf(s) = g[n + 1]
    BY <1>1, SumIsLast
  <1>5. SumOf(r) = g[n]
    <2> HIDE DEF r
    <2>1. SumOf(r) = [k \in 0..n |-> g[k]][n]
      BY <1>2, <1>3, SumIsLast
    <2> QED
      BY <2>1
  <1>6. g[n + 1] = g[n] + s[n + 1] /\ g[n + 1] \in Int /\ g[n] \in Int
    BY <1>1 DEF PartialSums
  <1> QED
    BY <1>2, <1>4, <1>5, <1>6

\* A sum of integers is one.
LEMMA SumIsInt ==
    ASSUME NEW n \in Nat, NEW s \in [1..n -> Int]
    PROVE  SumOf(s) \in Int
  <1>1. CASE n = 0
    <2>1. s \in [1..0 -> Int]
      BY <1>1
    <2>2. SumOf(s) = 0
      BY <2>1, SumOfNone, Zenon
    <2> QED
      BY <2>2
  <1>2. CASE n # 0
    <2>1. n - 1 \in Nat /\ n = (n - 1) + 1
      BY <1>2
    <2>2. PICK m \in Nat : n = m + 1
      BY <2>1
    <2> QED
      BY <2>2, SumOneMore
  <1> QED
    BY <1>1, <1>2

\* One value replaced by another.
Replaces(n) ==
    \A s \in [1..n -> Int] : \A j \in 1..n, x \in Int : SumOf([s EXCEPT ![j] = x]) = SumOf(s) - s[j] + x

\* The step of SumReplaced.
LEMMA ReplacesOneMore ==
    ASSUME NEW n \in Nat, Replaces(n)
    PROVE  Replaces(n + 1)
  <1> DEFINE N == 1..(n + 1)
  <1> SUFFICES ASSUME NEW s \in [N -> Int], NEW j \in N, NEW x \in Int
               PROVE  SumOf([s EXCEPT ![j] = x]) = SumOf(s) - s[j] + x
    BY DEF Replaces
  <1> DEFINE t == [s EXCEPT ![j] = x]
             r == [k \in 1..n |-> s[k]]
             u == [k \in 1..n |-> t[k]]
  <1>0. n + 1 \in N /\ 1..n \subseteq N /\ \A k \in N : k # n + 1 => k \in 1..n
    OBVIOUS
  <1>1. t \in [N -> Int] /\ s[j] \in Int /\ s[n + 1] \in Int /\ \A k \in N : t[k] = IF k = j THEN x ELSE s[k]
    BY <1>0
  <1>2. SumOf(s) = SumOf(r) + s[n + 1] /\ SumOf(r) \in Int /\ r \in [1..n -> Int]
    BY SumOneMore
  <1>3. SumOf(t) = SumOf(u) + t[n + 1] /\ SumOf(u) \in Int /\ u \in [1..n -> Int]
    <2> HIDE DEF t
    <2> QED
      BY <1>1, SumOneMore
  <1>4. CASE j = n + 1
    <2>1. u = r
      <3> HIDE DEF t
      <3>1. \A k \in 1..n : t[k] = s[k]
        BY <1>0, <1>1, <1>4
      <3> QED
        BY <3>1
    <2>2. t[n + 1] = x
      BY <1>1, <1>4
    <2>3. SumOf(t) = SumOf(s) - s[j] + x
      <3> HIDE DEF u, r, t
      <3> QED
        BY <1>1, <1>2, <1>3, <1>4, <2>1, <2>2
    <2> QED
      BY <2>3
  <1>5. CASE j # n + 1
    <2>1. j \in 1..n /\ t[n + 1] = s[n + 1]
      BY <1>0, <1>1, <1>5
    <2>2. u = [r EXCEPT ![j] = x]
      <3>1. \A k \in 1..n : u[k] = [r EXCEPT ![j] = x][k]
        <4> HIDE DEF t
        <4> QED
          BY <1>0, <1>1, <2>1
      <3>2. [r EXCEPT ![j] = x] \in [1..n -> Int]
        BY <1>2
      <3> HIDE DEF u, r
      <3> QED
        BY <1>3, <3>1, <3>2
    <2>3. r[j] = s[j]
      BY <2>1
    <2>4. SumOf([r EXCEPT ![j] = x]) = SumOf(r) - r[j] + x
      <3> HIDE DEF r
      <3> QED
        BY <1>2, <2>1 DEF Replaces
    <2>5. SumOf(t) = SumOf(s) - s[j] + x
      <3> HIDE DEF u, r, t
      <3> QED
        BY <1>1, <1>2, <1>3, <2>1, <2>2, <2>3, <2>4
    <2> QED
      BY <2>5
  <1> QED
    BY <1>4, <1>5

\* A sum after one of its terms is replaced.
LEMMA SumReplaced == \A n \in Nat : Replaces(n)
  <1> DEFINE S == {n \in Nat : Replaces(n)}
  <1>1. 0 \in S
    BY DEF Replaces
  <1>2. \A n \in Nat : n \in S => n + 1 \in S
    BY ReplacesOneMore
  <1>3. \A n \in Nat : n \in S
    <2> HIDE DEF S
    <2> QED
      BY <1>1, <1>2, SetInduction
  <1> QED
    BY <1>3

\* The order of the values does not matter.
Orders(n) == {p \in [1..n -> 1..n] : /\ \A i, j \in 1..n : p[i] = p[j] => i = j
                                     /\ \A j \in 1..n : \E i \in 1..n : p[i] = j}
Reorders(n) ==
    \A s \in [1..n -> Int], p \in Orders(n) : SumOf([k \in 1..n |-> s[p[k]]]) = SumOf(s)

\* With the last in its place, the others are an order of their own.
LEMMA OrderOfOthers ==
    ASSUME NEW n \in Nat, NEW p \in Orders(n + 1), NEW j \in 1..(n + 1), p[j] = n + 1
    PROVE  /\ [k \in 1..n |-> IF k = j THEN p[n + 1] ELSE p[k]] \in Orders(n)
           /\ j # n + 1 => j \in 1..n /\ p[n + 1] \in 1..n
  <1> DEFINE N == 1..(n + 1)
             q == [k \in 1..n |-> IF k = j THEN p[n + 1] ELSE p[k]]
  <1>0. n + 1 \in N /\ 1..n \subseteq N /\ (\A k \in N : k # n + 1 => k \in 1..n) /\ n + 1 \notin 1..n
    OBVIOUS
  <1>1. /\ p \in [N -> N]
        /\ \A a, b \in N : p[a] = p[b] => a = b
        /\ \A b \in N : \E a \in N : p[a] = b
    BY DEF Orders
  <1> HIDE DEF N
  <1>2. \A k \in 1..n : (IF k = j THEN p[n + 1] ELSE p[k]) \in 1..n
    BY <1>0, <1>1
  <1>3. q \in [1..n -> 1..n]
    BY <1>2
  <1>4. \A a, b \in 1..n : q[a] = q[b] => a = b
    BY <1>0, <1>1
  <1>5. ASSUME NEW b \in 1..n PROVE \E a \in 1..n : q[a] = b
    <2>1. PICK a \in N : p[a] = b
      BY <1>0, <1>1
    <2>2. CASE a = n + 1
      <3>1. j # n + 1
        BY <1>0, <2>1, <2>2
      <3>2. j \in 1..n
        BY <1>0, <3>1 DEF N
      <3> QED
        BY <2>1, <2>2, <3>2
    <2>3. CASE a # n + 1
      <3>1. a \in 1..n /\ a # j
        BY <1>0, <2>1, <2>3
      <3> QED
        BY <2>1, <3>1
    <2> QED
      BY <2>2, <2>3
  <1>6. j # n + 1 => j \in 1..n /\ p[n + 1] \in 1..n
    BY <1>0, <1>1 DEF N
  <1> QED
    BY <1>3, <1>4, <1>5, <1>6 DEF Orders

\* The step of SumReordered: the last term is put in its place first.
LEMMA ReordersOneMore ==
    ASSUME NEW n \in Nat, Reorders(n)
    PROVE  Reorders(n + 1)
  <1> DEFINE N == 1..(n + 1)
  <1> SUFFICES ASSUME NEW s \in [N -> Int], NEW p \in Orders(n + 1)
               PROVE  SumOf([k \in N |-> s[p[k]]]) = SumOf(s)
    BY DEF Reorders
  <1>0. n + 1 \in N /\ 1..n \subseteq N
    OBVIOUS
  <1>1. p \in [N -> N] /\ \A b \in N : \E a \in N : p[a] = b
    BY DEF Orders
  <1>2. PICK j \in N : p[j] = n + 1
    BY <1>0, <1>1
  <1> DEFINE t == [k \in N |-> s[p[k]]]
             r == [k \in 1..n |-> s[k]]
             u == [k \in 1..n |-> t[k]]
             q == [k \in 1..n |-> IF k = j THEN p[n + 1] ELSE p[k]]
             w == [k \in 1..n |-> r[q[k]]]
  <1>3. q \in Orders(n) /\ (j # n + 1 => j \in 1..n /\ p[n + 1] \in 1..n)
    BY <1>2, OrderOfOthers
  <1>4. q \in [1..n -> 1..n]
    <2> HIDE DEF q
    <2> QED
      BY <1>3 DEF Orders
  <1>5. t \in [N -> Int]
    BY <1>1
  <1>6. SumOf(s) = SumOf(r) + s[n + 1] /\ SumOf(r) \in Int /\ r \in [1..n -> Int] /\ s[n + 1] \in Int
    BY SumOneMore
  <1>7. SumOf(t) = SumOf(u) + t[n + 1] /\ SumOf(u) \in Int /\ u \in [1..n -> Int]
    <2> HIDE DEF t
    <2> QED
      BY <1>5, SumOneMore
  <1>8. SumOf(w) = SumOf(r)
    <2> HIDE DEF r, q
    <2> QED
      BY <1>3, <1>6 DEF Reorders
  <1>9. t[n + 1] = s[p[n + 1]] /\ s[p[n + 1]] \in Int
    BY <1>0, <1>1
  <1>10. \A k \in 1..n : w[k] = s[q[k]]
    BY <1>4
  <1>11. CASE j = n + 1
    <2>1. \A k \in 1..n : u[k] = s[p[k]] /\ q[k] = p[k]
      BY <1>0, <1>11
    <2>2. u = w
      <3>1. \A k \in 1..n : u[k] = w[k]
        <4> HIDE DEF u, w, q
        <4> QED
          BY <1>10, <2>1
      <3> HIDE DEF r, t, q
      <3> QED
        BY <3>1
    <2>3. SumOf(t) = SumOf(s)
      <3> HIDE DEF u, w, r, t, q
      <3> QED
        BY <1>2, <1>6, <1>7, <1>8, <1>9, <1>11, <2>2
    <2> QED
      BY <2>3
  <1>12. CASE j # n + 1
    <2>1. j \in 1..n /\ u[j] = s[n + 1]
      BY <1>0, <1>2, <1>3, <1>12
    <2>2. \A k \in 1..n : u[k] = s[p[k]] /\ q[k] = IF k = j THEN p[n + 1] ELSE p[k]
      BY <1>0
    <2> HIDE DEF q, t
    <2>3. w = [u EXCEPT ![j] = s[p[n + 1]]]
      <3>1. w = [k \in 1..n |-> w[k]] /\ \A k \in 1..n : w[k] = [u EXCEPT ![j] = s[p[n + 1]]][k]
        <4> HIDE DEF u, r
        <4> QED
          BY <1>7, <1>10, <2>2
      <3>2. [u EXCEPT ![j] = s[p[n + 1]]] = [k \in 1..n |-> [u EXCEPT ![j] = s[p[n + 1]]][k]]
        <4> HIDE DEF u
        <4> QED
          BY <1>7
      <3> HIDE DEF w, u
      <3> QED
        BY <3>1, <3>2
    <2>4. SumOf([u EXCEPT ![j] = s[p[n + 1]]]) = SumOf(u) - u[j] + s[p[n + 1]]
      <3> HIDE DEF u
      <3> QED
        BY <1>7, <1>9, <2>1, SumReplaced DEF Replaces
    <2>5. SumOf(t) = SumOf(s)
      <3> HIDE DEF u, w, r
      <3> QED
        BY <1>6, <1>7, <1>8, <1>9, <2>1, <2>3, <2>4
    <2> QED
      BY <2>5 DEF t
  <1> QED
    BY <1>11, <1>12

\* The order of the terms does not matter to their sum.
LEMMA SumReordered == \A n \in Nat : Reorders(n)
  <1> DEFINE S == {n \in Nat : Reorders(n)}
  <1>1. 0 \in S
    <2> SUFFICES ASSUME NEW s \in [1..0 -> Int], NEW p \in Orders(0)
                 PROVE  SumOf([k \in 1..0 |-> s[p[k]]]) = SumOf(s)
      BY DEF Reorders
    <2>1. [k \in 1..0 |-> s[p[k]]] \in [1..0 -> Int]
      OBVIOUS
    <2> QED
      BY <2>1, SumOfNone
  <1>2. \A n \in Nat : n \in S => n + 1 \in S
    BY ReordersOneMore
  <1>3. \A n \in Nat : n \in S
    <2> HIDE DEF S
    <2> QED
      BY <1>1, <1>2, SetInduction
  <1> QED
    BY <1>3

\* A sum of ones and zeros counts the ones.
LEMMA SumCounts ==
    \A n \in Nat : \A s \in [1..n -> {0, 1}] : SumOf(s) = Cardinality({k \in 1..n : s[k] = 1})
  <1> DEFINE Ones(s, n) == {k \in 1..n : s[k] = 1}
             S == {n \in Nat : \A s \in [1..n -> {0, 1}] : SumOf(s) = Cardinality(Ones(s, n))}
  <1>1. 0 \in S
    <2> SUFFICES ASSUME NEW s \in [1..0 -> {0, 1}] PROVE SumOf(s) = Cardinality(Ones(s, 0))
      OBVIOUS
    <2>1. s \in [1..0 -> Int] /\ Ones(s, 0) = {}
      OBVIOUS
    <2> QED
      BY <2>1, SumOfNone, FS_EmptySet
  <1>2. ASSUME NEW n \in Nat, n \in S PROVE n + 1 \in S
    <2> SUFFICES ASSUME NEW s \in [1..(n + 1) -> {0, 1}]
                 PROVE  SumOf(s) = Cardinality(Ones(s, n + 1))
      OBVIOUS
    <2> DEFINE r == [k \in 1..n |-> s[k]]
    <2>1. s \in [1..(n + 1) -> Int] /\ r \in [1..n -> {0, 1}]
      OBVIOUS
    <2>2. SumOf(s) = SumOf(r) + s[n + 1]
      BY <2>1, SumOneMore
    <2>3. SumOf(r) = Cardinality(Ones(r, n)) /\ Ones(r, n) = Ones(s, n)
      <3>1. Ones(r, n) = Ones(s, n)
        OBVIOUS
      <3> HIDE DEF r
      <3> QED
        BY <1>2, <2>1, <3>1
    <2>4. IsFiniteSet(Ones(s, n)) /\ Cardinality(Ones(s, n)) \in Nat /\ n + 1 \notin Ones(s, n)
      <3>1. IsFiniteSet(1..n)
        BY FS_Interval
      <3>2. IsFiniteSet(Ones(s, n))
        BY <3>1, FS_Subset
      <3> QED
        BY <3>2, FS_CardinalityType
    <2>5. CASE s[n + 1] = 1
      <3>1. Ones(s, n + 1) = Ones(s, n) \union {n + 1}
        BY <2>5
      <3>2. Cardinality(Ones(s, n + 1)) = Cardinality(Ones(s, n)) + 1
        <4> HIDE DEF Ones
        <4> QED
          BY <2>4, <3>1, FS_AddElement
      <3> HIDE DEF r, Ones
      <3> QED
        BY <2>2, <2>3, <2>5, <3>2
    <2>6. CASE s[n + 1] # 1
      <3>1. Ones(s, n + 1) = Ones(s, n) /\ s[n + 1] = 0
        BY <2>6
      <3> HIDE DEF r, Ones
      <3> QED
        BY <2>2, <2>3, <2>4, <3>1
    <2> QED
      BY <2>5, <2>6
  <1>3. \A n \in Nat : n \in S
    <2> HIDE DEF S
    <2> QED
      BY <1>1, <1>2, SetInduction
  <1> QED
    BY <1>3

-----------------------------------------------------------------------------
(***************************************************************************)
(* The drivers: what each cell answers while the driver goes on, and what  *)
(* its assertions add up.                                                  *)
(***************************************************************************)

\* The workload of a driver: lookups, and removals and updates of different cells.
LEMMA WorkShape ==
    ASSUME work \in Workloads
    PROVE  /\ work.lookups \in [1..LookupCount -> Vars]
           /\ work.removes \in [1..RemoveCount -> Vars] /\ work.updates \in [1..UpdateCount -> Vars]
           /\ \A i, j \in 1..RemoveCount : work.removes[i] = work.removes[j] => i = j
           /\ \A i, j \in 1..UpdateCount : work.updates[i] = work.updates[j] => i = j
           /\ \A i \in 1..RemoveCount, j \in 1..UpdateCount : work.removes[i] # work.updates[j]
  <1>1. RemoveCount \in Nat /\ UpdateCount \in Nat
    BY WorkAssumption DEF WorkAssumption
  <1>2. PICK r \in [1..RemoveCount -> Vars], u \in [1..UpdateCount -> Vars] :
            r = work.removes /\ u = work.updates /\ IsInjective(r \o u)
    BY DEF Workloads
  <1>3. work.lookups \in [1..LookupCount -> Vars]
    BY DEF Workloads
  <1>4. r \in Seq(Vars) /\ u \in Seq(Vars) /\ Len(r) = RemoveCount /\ Len(u) = UpdateCount
    BY <1>1
  <1> DEFINE all == r \o u
             N == 1..(RemoveCount + UpdateCount)
  <1>5. /\ all \in Seq(Vars) /\ Len(all) = RemoveCount + UpdateCount
        /\ \A i \in N : all[i] = IF i <= RemoveCount THEN r[i] ELSE u[i - RemoveCount]
    BY <1>1, <1>4, ConcatProperties
  <1>6. DOMAIN all = N
    BY <1>5, LenProperties
  <1>7. \A i, j \in N : all[i] = all[j] => i = j
    BY <1>2, <1>6 DEF IsInjective
  <1>8. /\ \A i \in 1..RemoveCount : i \in N /\ all[i] = r[i]
        /\ \A i \in 1..UpdateCount : RemoveCount + i \in N /\ all[RemoveCount + i] = u[i]
    BY <1>1, <1>5
  <1> HIDE DEF all, N
  <1>9. \A i, j \in 1..RemoveCount : r[i] = r[j] => i = j
    BY <1>7, <1>8
  <1>10. \A i, j \in 1..UpdateCount : u[i] = u[j] => RemoveCount + i = RemoveCount + j
    BY <1>7, <1>8
  <1>11. \A i \in 1..RemoveCount, j \in 1..UpdateCount : r[i] = u[j] => i = RemoveCount + j
    BY <1>7, <1>8
  <1>12. \A i, j \in 1..UpdateCount : u[i] = u[j] => i = j
    BY <1>1, <1>10
  <1>13. \A i \in 1..RemoveCount, j \in 1..UpdateCount : r[i] # u[j]
    BY <1>1, <1>11
  <1> QED
    BY <1>2, <1>3, <1>9, <1>12, <1>13

\* How many removals and updates are made.
Removals == IF stage \in {"lookup", "iterate"} THEN 0
            ELSE IF stage = "remove" THEN at - 1 ELSE RemoveCount
Updates  == IF stage = "update" THEN at - 1
            ELSE IF stage \in {"probe", "report", "done"} THEN UpdateCount ELSE 0

Dropped(v, r) == \E i \in 1..r : work.removes[i] = v
Changed(v, u) == \E i \in 1..u : work.updates[i] = v

\* What for_cell answers after r removals and u updates: nothing, or the cell
\* under the identity the block gave it.
Expected(v, r, u) ==
    IF Dropped(v, r) THEN NoCell
    ELSE [id |-> v,
          value |-> IF Changed(v, u)
                      THEN UpdateExpr(CHOOSE i \in 1..UpdateCount : work.updates[i] = v, v).value
                      ELSE BaseValue(v)]
AnswersAre(r, u) == \A v \in Vars : Lookup(v) = Expected(v, r, u)

\* The sizes of a workload.
LEMMA SizeOfVars ==
    /\ Cardinality(Vars) \in Nat /\ Vars = 1..Cardinality(Vars)
    /\ RemoveCount \in Nat /\ RemoveCount # 0 /\ UpdateCount \in Nat /\ UpdateCount # 0
    /\ LookupCount \in Nat /\ LookupCount # 0
    /\ \A v \in Vars : v \in Nat /\ v # 0
    /\ \A v \in Vars : BaseValue(v) \in Int
  <1>1. Cardinality(Vars) \in Nat
    BY StoreAssumption, FS_CardinalityType DEF StoreAssumption
  <1> QED
    BY <1>1, WorkAssumption DEF WorkAssumption, BaseValue

\* Lookups of kernels A and C answer alike.
LEMMA LookupOf ==
    /\ kernel = "a" => \A v : Lookup(v) = P!ForCell(target, v)
    /\ kernel = "b" => \A v : Lookup(v) = ForCell(target, v)
    /\ kernel = "c" => \A v : Lookup(v) = C!ForCell(target, v)
    /\ NoCell = A!NoCell /\ NoCell = P!NoCell /\ NoCell = C!NoCell
    /\ NoCell.id = 0 /\ NoCell.value = 0
  BY DEF Lookup, A!ForCell, P!ForCell, A!Get, P!Get, A!NoData, P!NoData, A!NoCell, P!NoCell,
         C!NoCell, NoCell

\* A removal, and an update, of a cell that nothing was done to yet.
LEMMA RemovalAnswers ==
    ASSUME work \in Workloads, NEW i \in 1..RemoveCount, AnswersAre(i - 1, 0),
           work' = work, Lookup(work.removes[i])' = NoCell,
           \A w \in Vars : w # work.removes[i] => Lookup(w)' = Lookup(w)
    PROVE  AnswersAre(i, 0)'
  <1> DEFINE v == work.removes[i]
  <1>1. \A w : Dropped(w, i) <=> Dropped(w, i - 1) \/ w = v
    <2>1. \A j \in 1..i : j \in 1..(i - 1) \/ j = i
      BY SizeOfVars
    <2>2. 1..(i - 1) \subseteq 1..i /\ i \in 1..i
      BY SizeOfVars
    <2> QED
      BY <2>1, <2>2 DEF Dropped
  <1>2. \A w, r : Dropped(w, r)' <=> Dropped(w, r)
    BY DEF Dropped
  <1>3. \A w : Changed(w, 0)' <=> Changed(w, 0)
    BY DEF Changed
  <1>4. ASSUME NEW w \in Vars PROVE Lookup(w)' = Expected(w, i, 0)'
    <2>1. CASE w = v
      BY <1>1, <1>2, <2>1 DEF Expected
    <2>2. CASE w # v
      <3>1. Lookup(w)' = Expected(w, i - 1, 0)
        BY <2>2 DEF AnswersAre
      <3>2. Expected(w, i, 0)' = Expected(w, i - 1, 0)
        BY <1>1, <1>2, <1>3, <2>2 DEF Expected, UpdateExpr, Changed
      <3> QED
        BY <3>1, <3>2
    <2> QED
      BY <2>1, <2>2
  <1> QED
    BY <1>4 DEF AnswersAre

\* The same for an update.
LEMMA UpdateAnswers ==
    ASSUME work \in Workloads, NEW i \in 1..UpdateCount, AnswersAre(RemoveCount, i - 1),
           work' = work,
           Lookup(work.updates[i])' = [id |-> work.updates[i], value |-> UpdateExpr(i, work.updates[i]).value],
           \A w \in Vars : w # work.updates[i] => Lookup(w)' = Lookup(w)
    PROVE  AnswersAre(RemoveCount, i)'
  <1> DEFINE v == work.updates[i]
  <1>1. \A w : Changed(w, i) <=> Changed(w, i - 1) \/ w = v
    <2>1. \A j \in 1..i : j \in 1..(i - 1) \/ j = i
      BY SizeOfVars
    <2>2. 1..(i - 1) \subseteq 1..i /\ i \in 1..i
      BY SizeOfVars
    <2> QED
      BY <2>1, <2>2 DEF Changed
  <1>2. \A w, r : (Dropped(w, r)' <=> Dropped(w, r)) /\ (Changed(w, r)' <=> Changed(w, r))
    BY DEF Dropped, Changed
  <1>3. ASSUME NEW w \in Vars PROVE Lookup(w)' = Expected(w, RemoveCount, i)'
    <2>1. CASE w = v
      <3>1. ~ Dropped(w, RemoveCount)
        BY <2>1, WorkShape DEF Dropped
      <3>2. i = CHOOSE j \in 1..UpdateCount : work.updates[j] = w
        BY <2>1, WorkShape
      <3>3. Expected(w, RemoveCount, i)' = [id |-> w, value |-> UpdateExpr(i, w).value]
        BY <1>1, <1>2, <2>1, <3>1, <3>2 DEF Expected, UpdateExpr
      <3> QED
        BY <2>1, <3>3
    <2>2. CASE w # v
      <3>1. Lookup(w)' = Expected(w, RemoveCount, i - 1)
        BY <2>2 DEF AnswersAre
      <3>2. Expected(w, RemoveCount, i)' = Expected(w, RemoveCount, i - 1)
        BY <1>1, <1>2, <2>2 DEF Expected, UpdateExpr
      <3> QED
        BY <3>1, <3>2
    <2> QED
      BY <2>1, <2>2
  <1> QED
    BY <1>3 DEF AnswersAre

-----------------------------------------------------------------------------
\* What a call makes kernel C answer (for A and B: SetExprShows, UpdateShows,
\* RemoveShows and FirstBlockShows of their modules).
LEMMA RawAnswer ==
    ASSUME RawView, NEW v \in Vars
    PROVE  /\ C!Position(v) = 0 <=> C!ForCell(Objective, v) = C!NoCell
           /\ C!Position(v) # 0 =>
                C!ForCell(Objective, v) = [id |-> C!Position(v), value |-> packed[C!Position(v)].value]
  <1>1. <<Objective, v>> \in DOMAIN C!Cells <=> C!ForCell(Objective, v) # C!NoCell
    BY DEF C!Cells
  <1> QED
    BY <1>1 DEF RawView, C!ForCell

\* An update of a cell of kernel C changes its value only.
LEMMA RawUpdateShows ==
    ASSUME C!IInv, RawView, C!IInv', RawView', NEW v \in Vars, NEW x \in Int,
           C!UpdateCell(Objective, v, x), C!ForCell(Objective, v) # C!NoCell
    PROVE  /\ \A w \in Vars : w # v => C!ForCell(Objective, w)' = C!ForCell(Objective, w)
           /\ C!ForCell(Objective, v)' = [id |-> C!ForCell(Objective, v).id, value |-> x]
  <1>0. C!Position(v) # 0
    BY RawAnswer
  <1>1. /\ Len(packed') = Len(packed)
        /\ \A i \in 1..Len(packed) : packed'[i].var = packed[i].var
        /\ \A i \in 1..Len(packed) : i # C!Position(v) => packed'[i] = packed[i]
        /\ packed'[C!Position(v)].value = x
        /\ removed' = removed /\ C!Run' = C!Run
    BY <1>0, RawUpdated DEF C!Run
  <1>2. FoundInRun(v, C!Position(v)) /\ FoundInRun(v, C!Position(v))'
    BY RawPosition, RawPositionAfter
  <1>3. C!Position(v)' = C!Position(v)
    BY <1>0, <1>1, <1>2 DEF FoundInRun
  <1>4. ASSUME NEW w \in Vars, w # v
        PROVE  C!ForCell(Objective, w)' = C!ForCell(Objective, w)
    <2>1. \A i \in 1..Len(packed) : packed[i].var # v => packed'[i] = packed[i]
      BY <1>0, <1>1, <1>2 DEF FoundInRun
    <2>2. C!Position(w)' = C!Position(w)
      BY <1>1, <1>4, <2>1, RawOthersStay
    <2>3. C!Position(w) # 0 => packed'[C!Position(w)] = packed[C!Position(w)]
      BY <1>4, <2>1, RawPosition DEF FoundInRun
    <2> QED
      BY <2>2, <2>3 DEF C!ForCell
  <1>5. C!ForCell(Objective, v)' = [id |-> C!Position(v), value |-> x]
    BY <1>0, <1>1, <1>3 DEF C!ForCell
  <1>6. C!ForCell(Objective, v).id = C!Position(v)
    BY <1>0 DEF C!ForCell
  <1> QED
    BY <1>4, <1>5, <1>6

\* A removal makes one cell of kernel C answer nothing.
LEMMA RawRemoveShows ==
    ASSUME C!IInv, RawView, C!IInv', RawView', NEW v \in Vars, C!RemoveCell(Objective, v),
           C!ForCell(Objective, v) # C!NoCell
    PROVE  /\ \A w \in Vars : w # v => C!ForCell(Objective, w)' = C!ForCell(Objective, w)
           /\ C!ForCell(Objective, v)' = C!NoCell
  <1>0. C!Position(v) # 0
    BY RawAnswer
  <1>1. packed' = packed /\ C!Run' = C!Run /\ removed' = removed \union {C!Position(v)}
    BY <1>0 DEF C!RemoveCell, C!Run
  <1>2. FoundInRun(v, C!Position(v)) /\ FoundInRun(v, C!Position(v))'
    BY RawPosition, RawPositionAfter
  <1>3. C!Position(v)' = 0
    <2>1. \A pos \in C!Run : packed[pos].var = v => pos \in removed'
      BY <1>1, <1>2 DEF FoundInRun
    <2> QED
      BY <1>1, <1>2, <2>1 DEF FoundInRun
  <1>4. ASSUME NEW w \in Vars, w # v
        PROVE  C!ForCell(Objective, w)' = C!ForCell(Objective, w)
    <2>1. \A i \in 1..Len(packed) : packed[i].var # v => (i \in removed' <=> i \in removed)
      BY <1>0, <1>1, <1>2 DEF FoundInRun
    <2>2. C!Position(w)' = C!Position(w)
      BY <1>1, <1>4, <2>1, RawOthersStay
    <2> QED
      BY <1>1, <2>2 DEF C!ForCell
  <1> QED
    BY <1>3, <1>4 DEF C!ForCell

\* The block makes every cell of kernel C answer its value.
LEMMA RawBlockShows ==
    ASSUME C!IInv, NEW block \in C!SortedBlocks, NEW value \in [DOMAIN block -> Int],
           C!BuildConstantBlock(Objective, block, value)
    PROVE  \A i \in 1..Len(block) : C!ForCell(Objective, block[i])' = [id |-> i, value |-> value[i]]
  <1>1. PICK n \in Nat :
           /\ block \in [1..n -> Vars] /\ Len(packed') = n /\ C!Run' = 1..n
           /\ \A i \in 1..n : packed'[i].var = block[i] /\ packed'[i].value = value[i]
    BY RawBlockStep
  <1>2. C!IInv' /\ removed' = {} /\ Len(block) = n
    BY <1>1, RawBlockStep
  <1>3. ASSUME NEW i \in 1..n
        PROVE  C!ForCell(Objective, block[i])' = [id |-> i, value |-> value[i]]
    <2>1. FoundInRun(block[i], C!Position(block[i]))'
      BY <1>2, RawPositionAfter
    <2>2. C!Position(block[i])' = i /\ i # 0
      BY <1>1, <1>2, <2>1 DEF FoundInRun
    <2> QED
      BY <1>1, <2>2 DEF C!ForCell
  <1> QED
    BY <1>2, <1>3

\* (kernel B) iter_target answers a sequence.
LEMMA PartsJoin ==
    ASSUME NEW f, NEW g, NEW ks, NEW ls, Yields(f, ks), Yields(g, ls)
    PROVE  DOMAIN (f \o g) = 1..Len(f \o g)
  <1> DEFINE S == {Hit(k) : k \in ks} \union {Hit(k) : k \in ls}
  <1>1. f \in Seq(S) /\ g \in Seq(S)
    <2>1. PICK m \in Nat : f \in [1..m -> {Hit(k) : k \in ks}]
      BY DEF Yields
    <2>2. PICK n \in Nat : g \in [1..n -> {Hit(k) : k \in ls}]
      BY DEF Yields
    <2>3. f \in [1..m -> S] /\ g \in [1..n -> S]
      BY <2>1, <2>2
    <2> HIDE DEF S
    <2> QED
      BY <2>3, SeqDef
  <1> HIDE DEF S
  <1>2. f \o g \in Seq(S)
    BY <1>1, ConcatProperties
  <1> QED
    BY <1>2, LenProperties

\* iter_target is one sequence.
LEMMA TargetHitsJoin ==
    ASSUME IInv, ViewInv, NEW t \in Targets
    PROVE  DOMAIN IterTarget(t) = 1..Len(IterTarget(t))
  <1> DEFINE visible == Ascending({pos \in PositionsOf(t) : Visible(pos)})
             f == [n \in 1..Len(visible) |-> BaseHit(t, visible[n])]
             slots_ == {oi \in 1..Len(overlay) : overlay[oi].target = t}
  <1>1. \E ks : Yields(f, ks)
    BY TargetBaseYields
  <1>2. \E ks : Yields(OverlayHits(byTarget[t]), ks)
    <2>1. byTarget[t] \in Seq(Nat) /\ NamesOnce(byTarget[t], slots_) /\ slots_ \in SUBSET (1..Len(overlay))
      BY DEF IInv, TypeOK, ViewInv, ListInv
    <2> HIDE DEF slots_
    <2> QED
      BY <2>1, OverlayYields
  <1>3. IterTarget(t) = f \o OverlayHits(byTarget[t])
    BY DEF IterTarget
  <1> HIDE DEF f
  <1> QED
    BY <1>1, <1>2, <1>3, PartsJoin

-----------------------------------------------------------------------------
(***************************************************************************)
(* What the iterations of the drivers meet: each live cell once.           *)
(***************************************************************************)
LiveVars == {v \in Vars : Lookup(v) # NoCell}

\* Walk is the values of the live cells, in the order q.
Walks(q) ==
    /\ IsFiniteSet(LiveVars)
    /\ q \in [1..Cardinality(LiveVars) -> LiveVars]
    /\ \A v \in LiveVars : \E k \in 1..Cardinality(LiveVars) : q[k] = v
    /\ Walk = [k \in 1..Cardinality(LiveVars) |-> Lookup(q[k]).value]

\* The live cells of the target are finitely many.
LEMMA LiveVarsAreFew == IsFiniteSet(LiveVars) /\ Cardinality(LiveVars) \in Nat
  <1>1. IsFiniteSet(Vars)
    BY StoreAssumption DEF StoreAssumption
  <1>2. LiveVars \subseteq Vars
    BY DEF LiveVars
  <1> QED
    BY <1>1, <1>2, FS_Subset, FS_CardinalityType

\* A loop over S meets each of its elements, and S has one to a live variable.
LoopsOver(S, w, loop) ==
    /\ w \in [S -> LiveVars] /\ \A x, y \in S : w[x] = w[y] => x = y
    /\ \A v \in LiveVars : \E x \in S : w[x] = v
    /\ loop \in [1..Cardinality(S) -> S] /\ \A x \in S : \E k \in 1..Cardinality(S) : loop[k] = x
    /\ Walk = [k \in 1..Cardinality(S) |-> Lookup(w[loop[k]]).value]

\* Such a loop is a walk over the live cells.
LEMMA LoopWalks ==
    ASSUME NEW S, NEW w, NEW loop, LoopsOver(S, w, loop)
    PROVE  \E q : Walks(q)
  <1> USE DEF LoopsOver
  <1> DEFINE q == [k \in 1..Cardinality(S) |-> w[loop[k]]]
  <1>1. IsFiniteSet(LiveVars) /\ Cardinality(S) = Cardinality(LiveVars)
    BY LiveVarsAreFew, SameSize
  <1>2. q \in [1..Cardinality(S) -> LiveVars]
    OBVIOUS
  <1>3. \A v \in LiveVars : \E k \in 1..Cardinality(S) : q[k] = v
    <2> SUFFICES ASSUME NEW v \in LiveVars PROVE \E k \in 1..Cardinality(S) : q[k] = v
      OBVIOUS
    <2>1. PICK x \in S : w[x] = v
      OBVIOUS
    <2>2. PICK k \in 1..Cardinality(S) : loop[k] = x
      OBVIOUS
    <2> QED
      BY <2>1, <2>2
  <1>4. Walk = [k \in 1..Cardinality(S) |-> Lookup(q[k]).value]
    <2>1. \A k \in 1..Cardinality(S) : Lookup(q[k]).value = Lookup(w[loop[k]]).value
      OBVIOUS
    <2> HIDE DEF q
    <2> QED
      BY <2>1
  <1> HIDE DEF q
  <1>5. Walks(q)
    BY <1>1, <1>2, <1>3, <1>4 DEF Walks
  <1> QED
    BY <1>5

\* The order of positions is the same in kernels B and C.
LEMMA SameAscending == \A S : C!Ascending(S) = Ascending(S)
  BY DEF C!Ascending, Ascending, C!Cardinality, C!IsFiniteSet, Cardinality, IsFiniteSet

\* iter_live of kernel C
LEMMA WalkOfC ==
    ASSUME kernel = "c", target = Objective, C!IInv, RawView
    PROVE  \E q : Walks(q)
  <1> DEFINE S == {pos \in C!Run : pos \notin removed}
             w == [pos \in S |-> packed[pos].var]
  <1>1. packed \in Seq(RawCells) /\ C!Run \subseteq 1..Len(packed) /\ Len(packed) \in Nat
    BY LenProperties DEF C!IInv, C!RunInv, RawCells
  <1>2. S \in SUBSET Nat /\ IsFiniteSet(S)
    <2>1. S \subseteq 1..Len(packed)
      BY <1>1
    <2>2. IsFiniteSet(1..Len(packed)) /\ 1..Len(packed) \subseteq Nat
      BY <1>1, FS_Interval
    <2> HIDE DEF S
    <2> QED
      BY <2>1, <2>2, FS_Subset
  <1>3. ASSUME NEW v \in Vars
        PROVE  /\ Lookup(v) = C!ForCell(Objective, v) /\ FoundInRun(v, C!Position(v))
               /\ C!Position(v) = 0 <=> Lookup(v) = NoCell
               /\ C!Position(v) # 0 => Lookup(v).value = packed[C!Position(v)].value
    BY RawAnswer, RawPosition, LookupOf
  <1>4. ASSUME NEW pos \in S
        PROVE  /\ packed[pos].var \in LiveVars /\ Lookup(packed[pos].var).value = packed[pos].value
    <2>1. packed[pos] \in RawCells
      BY <1>1, ElementOfSeq
    <2>2. packed[pos].var \in Vars
      BY <2>1 DEF RawCells
    <2>3. C!Position(packed[pos].var) = pos /\ pos # 0
      BY <1>3, <2>2 DEF FoundInRun
    <2> QED
      BY <1>3, <2>2, <2>3 DEF LiveVars
  <1>5. w \in [S -> LiveVars]
    BY <1>4
  <1>6. \A x, y \in S : w[x] = w[y] => x = y
    BY DEF C!IInv, C!RunInv
  <1>7. ASSUME NEW v \in LiveVars PROVE \E x \in S : w[x] = v
    <2>1. v \in Vars /\ Lookup(v) # NoCell
      BY DEF LiveVars
    <2>2. C!Position(v) \in S /\ packed[C!Position(v)].var = v
      BY <1>3, <2>1 DEF FoundInRun
    <2> QED
      BY <2>2
  <1> DEFINE loop == Ascending(S)
             m == Cardinality(S)
  <1>8. loop \in [1..m -> S] /\ Len(loop) = m /\ (\A x \in S : \E k \in 1..m : loop[k] = x) /\ m \in Nat
    <2> HIDE DEF S
    <2> QED
      BY <1>2, AscendingMeetsAll
  <1>9. C!IterLive = C!CellsAt(loop)
    BY SameAscending DEF C!IterLive
  <1>10. Walk = [k \in 1..m |-> packed[loop[k]].value]
    <2> HIDE DEF loop, m, S
    <2> DEFINE cells == C!IterLive
    <2>1. cells = [n \in 1..m |-> [id |-> loop[n], var |-> packed[loop[n]].var,
                                   value |-> packed[loop[n]].value]]
      BY <1>8, <1>9 DEF C!CellsAt
    <2>2. Len(cells) = m /\ \A k \in 1..m : cells[k].value = packed[loop[k]].value
      BY <1>8, <2>1
    <2>3. Walk = [n \in 1..Len(cells) |-> cells[n].value]
      BY DEF Walk, CellsMet
    <2> HIDE DEF cells
    <2> QED
      BY <2>2, <2>3
  <1>11. \A k \in 1..m : packed[loop[k]].value = Lookup(w[loop[k]]).value
    <2> HIDE DEF loop, m
    <2> QED
      BY <1>4, <1>8
  <1> HIDE DEF loop, m, S, w
  <1>12. Walk = [k \in 1..m |-> Lookup(w[loop[k]]).value]
    BY <1>10, <1>11
  <1>13. /\ loop \in [1..Cardinality(S) -> S] /\ \A x \in S : \E k \in 1..Cardinality(S) : loop[k] = x
         /\ Walk = [k \in 1..Cardinality(S) |-> Lookup(w[loop[k]]).value]
    BY <1>8, <1>12 DEF m
  <1>14. LoopsOver(S, w, loop)
    BY <1>5, <1>6, <1>7, <1>13 DEF LoopsOver
  <1> QED
    BY <1>14, LoopWalks

\* for_objective of kernel A, and get of each id
LEMMA WalkOfA ==
    ASSUME kernel = "a", target \in Targets, P!IInv
    PROVE  \E q : Walks(q)
  <1> DEFINE S == targetIds[target]
             w == [id \in S |-> slots[id.index].data.var]
  <1>1. ASSUME NEW id \in S
        PROVE  \E i \in 1..Len(slots) : /\ id = P!Id(i) /\ id.index = i /\ P!Occ(i)
                                        /\ slots[i].data.target = target
                                        /\ slots[i].data.var \in Vars
                                        /\ P!Get(id) = slots[i].data
    <2>1. S \in SUBSET P!Handles
      BY DEF P!IInv, P!ListInv
    <2>2. PICK i \in 1..Len(slots) : id = P!Id(i)
      BY <2>1 DEF P!Handles
    <2>3. P!Occ(i) /\ slots[i].data.target = target
      BY <2>2 DEF P!IInv, P!ListInv
    <2>4. P!Get(id) = slots[i].data
      BY <2>2, <2>3, P!GetOfId, SameAssumption DEF P!IInv
    <2>5. slots[i].data.var \in Vars
      BY <2>3 DEF P!IInv, P!ArenaInv, P!Entries
    <2> QED
      BY <2>2, <2>3, <2>4, <2>5 DEF P!Id
  <1>2. ASSUME NEW i \in 1..Len(slots), P!Occ(i), slots[i].data.target = target
        PROVE  P!Id(i) \in S
    BY <1>2 DEF P!IInv, P!ListInv
  <1>3. ASSUME NEW i \in 1..Len(slots), P!Occ(i), slots[i].data.target = target
        PROVE  /\ <<target, slots[i].data.var>> \in DOMAIN cellId
               /\ cellId[<<target, slots[i].data.var>>] = P!Id(i)
               /\ Lookup(slots[i].data.var).value = slots[i].data.value
               /\ Lookup(slots[i].data.var).id = i
    <2>1. /\ <<target, slots[i].data.var>> \in DOMAIN cellId
          /\ cellId[<<target, slots[i].data.var>>] = P!Id(i)
      BY <1>3 DEF P!IInv, P!CellInv, P!Cell
    <2>2. P!Get(P!Id(i)) = slots[i].data
      BY <1>3, P!GetOfId, SameAssumption DEF P!IInv
    <2>3. P!ForCell(target, slots[i].data.var) = [id |-> P!Id(i).index, value |-> slots[i].data.value]
      BY <2>1, <2>2 DEF P!ForCell
    <2> QED
      BY <2>1, <2>3, LookupOf DEF P!Id
  <1>4. ASSUME NEW id \in S
        PROVE  /\ slots[id.index].data.var \in LiveVars
               /\ A!Get(id).value = Lookup(slots[id.index].data.var).value
    <2>1. PICK i \in 1..Len(slots) : /\ id = P!Id(i) /\ id.index = i /\ P!Occ(i)
                                     /\ slots[i].data.target = target /\ slots[i].data.var \in Vars
                                     /\ P!Get(id) = slots[i].data
      BY <1>1
    <2>2. Lookup(slots[i].data.var).value = slots[i].data.value /\ Lookup(slots[i].data.var).id = i
      BY <1>3, <2>1
    <2>3. Lookup(slots[i].data.var) # NoCell
      BY <2>2, LookupOf
    <2> QED
      BY <2>1, <2>2, <2>3, SameLookup DEF LiveVars
  <1>5. w \in [S -> LiveVars]
    BY <1>4
  <1>6. ASSUME NEW x \in S, NEW y \in S, w[x] = w[y] PROVE x = y
    <2>1. PICK i \in 1..Len(slots) : x = P!Id(i) /\ x.index = i /\ P!Occ(i) /\ slots[i].data.target = target
      BY <1>1
    <2>2. PICK j \in 1..Len(slots) : y = P!Id(j) /\ y.index = j /\ P!Occ(j) /\ slots[j].data.target = target
      BY <1>1
    <2>3. slots[i].data.var = slots[j].data.var
      BY <1>6, <2>1, <2>2
    <2> QED
      BY <1>3, <2>1, <2>2, <2>3
  <1>7. ASSUME NEW v \in LiveVars PROVE \E x \in S : w[x] = v
    <2>1. v \in Vars /\ Lookup(v) # NoCell
      BY DEF LiveVars
    <2>2. <<target, v>> \in DOMAIN cellId
      BY <2>1, LookupOf DEF P!ForCell
    <2>3. PICK i \in 1..Len(slots) : P!Occ(i) /\ P!Cell(i) = <<target, v>>
      BY <2>2 DEF P!IInv, P!CellInv
    <2>4. slots[i].data.target = target /\ slots[i].data.var = v
      BY <2>3 DEF P!Cell
    <2>5. P!Id(i) \in S /\ P!Id(i).index = i
      BY <1>2, <2>3, <2>4 DEF P!Id
    <2> QED
      BY <2>4, <2>5
  <1> DEFINE loop == SetToSeq(S)
             m == Cardinality(S)
  <1> HIDE DEF S, w
  <1>8. IsFiniteSet(S) /\ m \in Nat
    BY <1>5, <1>6, <1>7, LiveVarsAreFew, SameSize, FS_CardinalityType
  <1>9. loop \in [1..m -> S] /\ IsInjective(loop)
    <2>1. ExistsBijection(1..m, S)
      BY <1>8, FS_CardinalityType
    <2>2. \E f \in [1..m -> S] : IsInjective(f)
      BY <2>1 DEF ExistsBijection, Bijection, Injection
    <2> QED
      BY <2>2 DEF SetToSeq
  <1> HIDE DEF loop
  <1>10. \A x \in S : \E k \in 1..m : loop[k] = x
    <2>1. loop \in Injection(1..m, S)
      BY <1>9 DEF Injection
    <2>2. Cardinality(1..m) = Cardinality(S)
      BY <1>8, FirstNumbers
    <2>3. loop \in Surjection(1..m, S)
      BY <1>8, <2>1, <2>2, FS_Injection
    <2> QED
      BY <2>3 DEF Surjection
  <1>11. Walk = [k \in 1..m |-> A!Get(loop[k]).value]
    <2> DEFINE cells == [n \in 1..m |-> A!Get(loop[n])]
    <2>1. Walk = [n \in 1..Len(cells) |-> cells[n].value]
      <3>1. cells = CellsMet
        BY DEF S, loop, CellsMet
      <3> HIDE DEF cells
      <3> QED
        BY <3>1 DEF Walk
    <2>2. Len(cells) = m /\ \A k \in 1..m : cells[k].value = A!Get(loop[k]).value
      BY <1>8
    <2> HIDE DEF cells
    <2> QED
      BY <2>1, <2>2
  <1>12. \A k \in 1..m : A!Get(loop[k]).value = Lookup(w[loop[k]]).value
    BY <1>4, <1>9 DEF w
  <1>13. /\ loop \in [1..Cardinality(S) -> S] /\ \A x \in S : \E k \in 1..Cardinality(S) : loop[k] = x
         /\ Walk = [k \in 1..Cardinality(S) |-> Lookup(w[loop[k]]).value]
    BY <1>9, <1>10, <1>11, <1>12
  <1>14. LoopsOver(S, w, loop)
    BY <1>5, <1>6, <1>7, <1>13 DEF LoopsOver
  <1> QED
    BY <1>14, LoopWalks

\* iter_target of kernel B
LEMMA WalkOfB ==
    ASSUME kernel = "b", target \in Targets, IInv, ViewInv
    PROVE  \E q : Walks(q)
  <1> DEFINE hits == IterTarget(target)
             ks == {k \in LiveKeys : k[1] = target}
             m == Cardinality(LiveVars)
  <1>1. Lists(hits, ks) /\ DOMAIN hits = 1..Len(hits)
    BY TargetViewOfIInv, TargetHitsJoin DEF TargetViewAgrees
  <1>2. \A v \in Vars : v \in LiveVars <=> <<target, v>> \in LiveKeys
    BY LookupOf DEF LiveVars, LiveKeys, Keys
  <1>3. \A k \in ks : k[2] \in LiveVars /\ k = <<target, k[2]>>
    BY <1>2 DEF LiveKeys, Keys
  <1>4. Cardinality(ks) = m
    <2> DEFINE f == [k \in ks |-> k[2]]
    <2>1. f \in [ks -> LiveVars]
      BY <1>3
    <2>2. ASSUME NEW x \in ks, NEW y \in ks, f[x] = f[y] PROVE x = y
      BY <1>3, <2>2
    <2>3. \A v \in LiveVars : \E x \in ks : f[x] = v
      <3> SUFFICES ASSUME NEW v \in LiveVars PROVE \E x \in ks : f[x] = v
        OBVIOUS
      <3>1. <<target, v>> \in ks
        BY <1>2 DEF LiveVars
      <3>2. f[<<target, v>>] = v
        BY <3>1
      <3> QED
        BY <3>1, <3>2
    <2> HIDE DEF f, ks
    <2> QED
      BY <2>1, <2>2, <2>3, LiveVarsAreFew, SameSize
  <1>5. Len(hits) = m /\ ToSet(hits) = {Hit(k) : k \in ks}
    BY <1>1, <1>4 DEF Lists
  <1>6. ASSUME NEW n \in 1..m
        PROVE  hits[n].var \in LiveVars /\ hits[n].value = Lookup(hits[n].var).value
    <2>1. hits[n] \in ToSet(hits)
      BY <1>1, <1>5 DEF ToSet
    <2>2. PICK k \in ks : hits[n] = Hit(k)
      BY <1>5, <2>1
    <2>3. Hit(k).var = k[2] /\ Hit(k).value = ForCell(target, k[2]).value
      BY <1>3 DEF Hit
    <2> QED
      BY <1>3, <2>2, <2>3, LookupOf
  <1>7. ASSUME NEW v \in LiveVars
        PROVE  \E n \in 1..m : hits[n].var = v
    <2>1. <<target, v>> \in ks
      BY <1>2 DEF LiveVars
    <2>2. Hit(<<target, v>>) \in ToSet(hits)
      BY <1>5, <2>1
    <2>3. PICK n \in 1..m : hits[n] = Hit(<<target, v>>)
      BY <1>1, <1>5, <2>2 DEF ToSet
    <2> QED
      BY <2>3 DEF Hit
  <1>8. Walk = [n \in 1..m |-> hits[n].value]
    BY <1>5 DEF Walk, CellsMet
  <1> DEFINE q == [n \in 1..m |-> hits[n].var]
  <1> HIDE DEF hits
  <1>9. q \in [1..m -> LiveVars] /\ \A v \in LiveVars : \E k \in 1..m : q[k] = v
    BY <1>6, <1>7
  <1>10. Walk = [n \in 1..m |-> Lookup(q[n]).value]
    <2>1. \A n \in 1..m : hits[n].value = Lookup(q[n]).value
      BY <1>6
    <2> HIDE DEF q
    <2> QED
      BY <1>8, <2>1
  <1> HIDE DEF q
  <1>11. Walks(q)
    BY <1>9, <1>10, LiveVarsAreFew DEF Walks
  <1> QED
    BY <1>11

-----------------------------------------------------------------------------
(***************************************************************************)
(* The invariant of a driver: every cell answers what the workload has     *)
(* made of it so far, and the counters hold what the workload promises.    *)
(***************************************************************************)
StageAnswers == \A v \in Vars : Lookup(v) = Expected(v, Removals, Updates)

\* Only the driven target has cells; kernel B's overlay is empty until the first
\* mutation and holds the first updated cell from then on, and for_var's index
\* covers the whole base once it is there.
OwnCells ==
    /\ kernel = "a" => DOMAIN cellId \subseteq {target} \X Vars
    /\ kernel = "b" =>
          /\ \A u \in Targets, w \in Vars : u # target => ForCell(u, w) = NoCell
          /\ stage \in {"lookup", "iterate"} => DOMAIN byCell = {}
          /\ Updates >= 1 => <<target, work.updates[1]>> \in DOMAIN byCell
          /\ indexed = IF stage \in {"report", "done"} THEN Len(base) ELSE NotBuilt

FoundValues == [n \in 1..LookupCount |-> BaseValue(work.lookups[n])]
EachValue   == [v \in 1..Cardinality(Vars) |-> BaseValue(v)]

Counters ==
    /\ stage \notin {"lookup"} => seen.found = LookupCount /\ seen.sum = SumOf(FoundValues)
    /\ stage \notin {"lookup", "iterate"} =>
          seen.count = Cardinality(Vars) /\ seen.total = SumOf(EachValue) /\ seen.pre = work.updates[1]

DriverInv ==
    /\ stage \in {"free", "build", "lookup", "iterate", "remove", "update", "probe", "report", "done"}
    /\ DOMAIN seen = {"found", "sum", "count", "total", "pre"}
    /\ stage = "build" => A!Init /\ Init /\ C!Init
    /\ stage \notin {"free", "build"} => StageAnswers /\ OwnCells /\ Counters

\* What holds of the three kernels anyway.
StoresInv == P!IInv /\ IInv /\ ViewInv /\ C!IInv /\ TargetInv /\ KernelInv

\* What the stores answer, from their invariants.
LEMMA StoresSeen == StoresInv => LookupView /\ RawView
  BY ViewOfIInv, RawViewed DEF StoresInv

\* The same after a step.
LEMMA StoresSeenAfter == StoresInv' => LookupView' /\ RawView'
  BY StoresSeen, PTL

\* The answers after a step, from the counts after it.
LEMMA AnswersNext ==
    ASSUME NEW r, NEW u, Removals' = r, Updates' = u, AnswersAre(r, u)'
    PROVE  StageAnswers'
  BY DEF StageAnswers, AnswersAre, Expected, Dropped, Changed

\* The answers, from the counts.
LEMMA AnswersNow ==
    ASSUME NEW r, NEW u, Removals = r, Updates = u, StageAnswers
    PROVE  AnswersAre(r, u)
  BY DEF StageAnswers, AnswersAre


\* Lookups, with the target as a constant.
LEMMA LookupAt ==
    ASSUME NEW t, t = target
    PROVE  /\ kernel = "a" => \A v : Lookup(v) = P!ForCell(t, v)
           /\ kernel = "b" => \A v : Lookup(v) = ForCell(t, v)
           /\ kernel = "c" => \A v : Lookup(v) = C!ForCell(t, v)
  BY LookupOf

\* The same after a step.
LEMMA LookupAtAfter ==
    ASSUME NEW t, t = target'
    PROVE  /\ kernel' = "a" => \A v : Lookup(v)' = P!ForCell(t, v)'
           /\ kernel' = "b" => \A v : Lookup(v)' = ForCell(t, v)'
           /\ kernel' = "c" => \A v : Lookup(v)' = C!ForCell(t, v)'
  BY DEF Lookup, A!ForCell, P!ForCell, A!Get, P!Get, A!NoData, P!NoData, A!NoCell, P!NoCell,
         ForCell, BasePosition, Hits, PositionsOf, C!ForCell

\* What a mutation of the cell of v leaves as it was.
OthersKept(v) ==
    /\ \A w \in Vars : w # v => Lookup(w)' = Lookup(w)
    /\ kernel = "a" => DOMAIN cellId' \subseteq DOMAIN cellId
    /\ kernel = "b" =>
          /\ \A u \in Targets, w \in Vars : u # target => ForCell(u, w)' = ForCell(u, w)
          /\ DOMAIN byCell \subseteq DOMAIN byCell'
          /\ indexed' = indexed /\ base' = base

\* A removal by drive_a takes away one cell.
LEMMA RemovalEffectOnA ==
    ASSUME StoresInv, StoresInv', RemoveOne, NEW v \in Vars, v = work.removes[at], Lookup(v) # NoCell,
           kernel = "a"
    PROVE  OthersKept(v) /\ Lookup(v)' = NoCell
  <1>1. kernel' = "a" /\ target' = target
    BY DEF RemoveOne, Loop
  <1>2. PICK t : t = target
    OBVIOUS
  <1>3. /\ P!IInv /\ P!IInv' /\ P!IndexAssumption
    BY SameAssumption DEF StoresInv
  <1>4. \A w : Lookup(w) = P!ForCell(t, w) /\ Lookup(w)' = P!ForCell(t, w)'
    BY <1>1, <1>2, LookupAt, LookupAtAfter
  <1>5. P!ForCell(t, v) # P!NoCell /\ P!NoCell = NoCell
    BY <1>4, LookupOf
  <1>6. P!Remove(P!Id(P!ForCell(t, v).id))
    <2>1. A!Remove(A!Id(Lookup(v).id))
      BY DEF RemoveOne, OnA, OnB, OnC
    <2> QED
      BY <1>4, <2>1, SameRemove, SameLookup
  <1>7. /\ \A u, w : <<u, w>> # <<t, v>> => P!ForCell(u, w)' = P!ForCell(u, w)
        /\ P!ForCell(t, v)' = P!NoCell
        /\ DOMAIN cellId' \subseteq DOMAIN cellId
    BY <1>3, <1>5, <1>6, P!RemoveShows
  <1> QED
    BY <1>4, <1>5, <1>7 DEF OthersKept

\* A removal by drive_b takes away one cell.
LEMMA RemovalEffectOnB ==
    ASSUME StoresInv, StoresInv', RemoveOne, NEW v \in Vars, v = work.removes[at], Lookup(v) # NoCell,
           kernel = "b"
    PROVE  OthersKept(v) /\ Lookup(v)' = NoCell
  <1>1. kernel' = "b" /\ target' = target
    BY DEF RemoveOne, Loop
  <1>2. PICK t \in Targets : t = target
    BY DEF StoresInv, TargetInv, RemoveOne
  <1>3. \A w : Lookup(w) = ForCell(t, w) /\ Lookup(w)' = ForCell(t, w)'
    BY <1>1, <1>2, LookupAt, LookupAtAfter
  <1>4. IInv /\ LookupView /\ LookupView'
    BY StoresSeen, StoresSeenAfter DEF StoresInv
  <1>5. RemoveCell(t, v)
    BY <1>2 DEF RemoveOne, OnA, OnB, OnC
  <1>6. /\ \A u \in Targets, w \in Vars : <<u, w>> # <<t, v>> => ForCell(u, w)' = ForCell(u, w)
        /\ ForCell(t, v)' = NoCell
        /\ DOMAIN byCell \subseteq DOMAIN byCell'
    BY <1>4, <1>5, RemoveShows
  <1>7. indexed' = indexed /\ base' = base
    BY <1>5 DEF RemoveCell, RemoveOverlay, RemovePacked, baseVars
  <1>8. \A w \in Vars : w # v => Lookup(w)' = Lookup(w)
    BY <1>2, <1>3, <1>6
  <1>9. \A u \in Targets, w \in Vars : u # target => ForCell(u, w)' = ForCell(u, w)
    BY <1>2, <1>6
  <1> QED
    BY <1>3, <1>6, <1>7, <1>8, <1>9 DEF OthersKept

\* A removal by drive_c takes away one cell.
LEMMA RemovalEffectOnC ==
    ASSUME StoresInv, StoresInv', RemoveOne, NEW v \in Vars, v = work.removes[at], Lookup(v) # NoCell,
           kernel = "c"
    PROVE  OthersKept(v) /\ Lookup(v)' = NoCell
  <1>1. kernel' = "c" /\ target' = target /\ target = Objective
    BY DEF RemoveOne, Loop, StoresInv, TargetInv
  <1>2. PICK t : t = target
    OBVIOUS
  <1>3. \A w : Lookup(w) = C!ForCell(t, w) /\ Lookup(w)' = C!ForCell(t, w)'
    BY <1>1, <1>2, LookupAt, LookupAtAfter
  <1>4. C!IInv /\ RawView /\ C!IInv' /\ RawView' /\ t = Objective
    BY <1>1, <1>2, StoresSeen, StoresSeenAfter DEF StoresInv
  <1>5. C!RemoveCell(Objective, v) /\ C!ForCell(Objective, v) # C!NoCell
    <2>1. C!RemoveCell(target, v)
      BY DEF RemoveOne, OnA, OnB, OnC
    <2> QED
      BY <1>1, <1>3, <1>4, <2>1, LookupOf
  <1>6. /\ \A w \in Vars : w # v => C!ForCell(Objective, w)' = C!ForCell(Objective, w)
        /\ C!ForCell(Objective, v)' = C!NoCell
    BY <1>4, <1>5, RawRemoveShows
  <1>7. C!ForCell(t, v)' = C!NoCell /\ \A w \in Vars : w # v => C!ForCell(t, w)' = C!ForCell(t, w)
    BY <1>4, <1>6 DEF C!ForCell
  <1> QED
    BY <1>3, <1>7, LookupOf DEF OthersKept

\* A removal takes away one cell, whichever kernel is driven.
LEMMA RemovalEffect ==
    ASSUME StoresInv, StoresInv', RemoveOne, NEW v \in Vars, v = work.removes[at], Lookup(v) # NoCell
    PROVE  OthersKept(v) /\ Lookup(v)' = NoCell
  BY RemovalEffectOnA, RemovalEffectOnB, RemovalEffectOnC DEF StoresInv, KernelInv

\* What an update leaves the cell of v with.
Updated(v, x) ==
    /\ OthersKept(v)
    /\ Lookup(v)' = [id |-> Lookup(v).id, value |-> x]
    /\ kernel = "b" => <<target, v>> \in DOMAIN byCell'

\* set_expr of kernel A, seen through for_cell.
LEMMA SetExprSeen ==
    ASSUME P!IInv, P!IInv', P!IndexAssumption, NEW t, NEW v, NEW x \in Int, NEW deps \in SUBSET Params,
           P!ForCell(t, v) # P!NoCell, P!SetExpr(P!Id(P!ForCell(t, v).id), x, deps)
    PROVE  /\ \A w : w # v => P!ForCell(t, w)' = P!ForCell(t, w)
           /\ P!ForCell(t, v)' = [id |-> P!ForCell(t, v).id, value |-> x]
           /\ cellId' = cellId
  <1>1. P!ForCell(t, v)' = [id |-> P!ForCell(t, v).id, value |-> x]
    BY P!SetExprShows
  <1>2. \A u, w : <<u, w>> # <<t, v>> => P!ForCell(u, w)' = P!ForCell(u, w)
    BY P!SetExprShows
  <1>3. cellId' = cellId
    BY DEF P!SetExpr
  <1> QED
    BY <1>1, <1>2, <1>3

\* An update by drive_a changes the value of one cell.
LEMMA UpdateEffectOnA ==
    ASSUME StoresInv, StoresInv', UpdateOne, NEW v \in Vars, v = work.updates[at], Lookup(v) # NoCell,
           NEW x \in Int, x = UpdateExpr(at, v).value, kernel = "a"
    PROVE  Updated(v, x)
  <1>1. kernel' = "a" /\ target' = target
    BY DEF UpdateOne, Loop
  <1>2. PICK t : t = target
    OBVIOUS
  <1>3. P!IInv /\ P!IInv' /\ P!IndexAssumption
    BY SameAssumption DEF StoresInv
  <1>4. \A w : Lookup(w) = P!ForCell(t, w) /\ Lookup(w)' = P!ForCell(t, w)'
    BY <1>1, <1>2, LookupAt, LookupAtAfter
  <1>5. P!ForCell(t, v) # P!NoCell /\ P!NoCell = NoCell
    BY <1>4, LookupOf
  <1>6. PICK deps \in SUBSET Params : deps = UpdateExpr(at, v).deps
    BY ExprTyped
  <1>7. P!SetExpr(P!Id(P!ForCell(t, v).id), x, deps)
    <2>1. A!SetExpr(A!Id(Lookup(v).id), x, deps)
      BY <1>6 DEF UpdateOne, OnA, OnB, OnC
    <2> QED
      BY <1>4, <2>1, SameSetExpr, SameLookup
  <1>8. /\ \A w : w # v => P!ForCell(t, w)' = P!ForCell(t, w)
        /\ P!ForCell(t, v)' = [id |-> P!ForCell(t, v).id, value |-> x]
        /\ cellId' = cellId
    BY <1>3, <1>5, <1>6, <1>7, SetExprSeen
  <1> QED
    BY <1>4, <1>8 DEF OthersKept, Updated

\* An update by drive_b changes the value of one cell, now in the overlay.
LEMMA UpdateEffectOnB ==
    ASSUME StoresInv, StoresInv', UpdateOne, NEW v \in Vars, v = work.updates[at], Lookup(v) # NoCell,
           NEW x \in Int, x = UpdateExpr(at, v).value, kernel = "b"
    PROVE  Updated(v, x)
  <1>1. kernel' = "b" /\ target' = target
    BY DEF UpdateOne, Loop
  <1>2. PICK t \in Targets : t = target
    BY DEF TargetInv, UpdateOne, StoresInv
  <1>3. \A w : Lookup(w) = ForCell(t, w) /\ Lookup(w)' = ForCell(t, w)'
    BY <1>1, <1>2, LookupAt, LookupAtAfter
  <1>4. IInv /\ LookupView /\ LookupView'
    BY StoresSeen, StoresSeenAfter DEF StoresInv
  <1>6. PICK deps \in SUBSET Params : deps = UpdateExpr(at, v).deps
    BY ExprTyped
  <1>5. Update(t, v, x, deps) /\ ForCell(t, v) # NoCell
    BY <1>2, <1>3, <1>6 DEF UpdateOne, OnA, OnB, OnC
  <1>7. /\ \A u \in Targets, w \in Vars : <<u, w>> # <<t, v>> => ForCell(u, w)' = ForCell(u, w)
        /\ ForCell(t, v)' = [id |-> ForCell(t, v).id, value |-> x]
        /\ <<t, v>> \in DOMAIN byCell' /\ DOMAIN byCell \subseteq DOMAIN byCell'
    BY <1>4, <1>5, UpdateShows
  <1>8. indexed' = indexed /\ base' = base
    BY <1>5 DEF Update, UpdateOverlay, UpdateTombstone, UpdatePacked, UpdateCreate, baseVars
  <1>9. \A w \in Vars : w # v => Lookup(w)' = Lookup(w)
    BY <1>2, <1>3, <1>7
  <1>10. \A u \in Targets, w \in Vars : u # target => ForCell(u, w)' = ForCell(u, w)
    BY <1>2, <1>7
  <1> QED
    BY <1>2, <1>3, <1>7, <1>8, <1>9, <1>10 DEF OthersKept, Updated

\* An update by drive_c changes the value of one cell.
LEMMA UpdateEffectOnC ==
    ASSUME StoresInv, StoresInv', UpdateOne, NEW v \in Vars, v = work.updates[at], Lookup(v) # NoCell,
           NEW x \in Int, x = UpdateExpr(at, v).value, kernel = "c"
    PROVE  Updated(v, x)
  <1>1. kernel' = "c" /\ target' = target /\ target = Objective
    BY DEF UpdateOne, Loop, StoresInv, TargetInv
  <1>2. PICK t : t = target
    OBVIOUS
  <1>3. \A w : Lookup(w) = C!ForCell(t, w) /\ Lookup(w)' = C!ForCell(t, w)'
    BY <1>1, <1>2, LookupAt, LookupAtAfter
  <1>4. C!IInv /\ RawView /\ C!IInv' /\ RawView' /\ t = Objective
    BY <1>1, <1>2, StoresSeen, StoresSeenAfter DEF StoresInv
  <1>5. C!UpdateCell(Objective, v, x) /\ C!ForCell(Objective, v) # C!NoCell
    <2>1. C!UpdateCell(target, v, x)
      BY DEF UpdateOne, OnA, OnB, OnC
    <2> QED
      BY <1>1, <1>3, <1>4, <2>1, LookupOf
  <1>6. /\ \A w \in Vars : w # v => C!ForCell(Objective, w)' = C!ForCell(Objective, w)
        /\ C!ForCell(Objective, v)' = [id |-> C!ForCell(Objective, v).id, value |-> x]
    BY <1>4, <1>5, RawUpdateShows
  <1>7. /\ \A w \in Vars : w # v => C!ForCell(t, w)' = C!ForCell(t, w)
        /\ C!ForCell(t, v)' = [id |-> C!ForCell(t, v).id, value |-> x]
    BY <1>4, <1>6 DEF C!ForCell
  <1> QED
    BY <1>3, <1>7 DEF OthersKept, Updated

\* An update changes the value of one cell, whichever kernel is driven.
LEMMA UpdateEffect ==
    ASSUME StoresInv, StoresInv', UpdateOne, NEW v \in Vars, v = work.updates[at], Lookup(v) # NoCell,
           NEW x \in Int, x = UpdateExpr(at, v).value
    PROVE  Updated(v, x)
  BY UpdateEffectOnA, UpdateEffectOnB, UpdateEffectOnC DEF StoresInv, KernelInv

\* A step that leaves every cell as it is.
LEMMA KeptAnswers ==
    ASSUME NEW r, NEW u, AnswersAre(r, u), work' = work, \A v \in Vars : Lookup(v)' = Lookup(v)
    PROVE  AnswersAre(r, u)'
  <1>1. \A w : (Dropped(w, r)' <=> Dropped(w, r)) /\ (Changed(w, u)' <=> Changed(w, u))
    BY DEF Dropped, Changed
  <1>2. \A w \in Vars : Expected(w, r, u)' = Expected(w, r, u)
    BY <1>1 DEF Expected, UpdateExpr
  <1> QED
    BY <1>2 DEF AnswersAre

\* What a step that leaves the stores leaves of their answers.
LEMMA KeptStores ==
    ASSUME UNCHANGED <<kernel, target, stores>>
    PROVE  /\ \A v : Lookup(v)' = Lookup(v)
           /\ \A u, w : ForCell(u, w)' = ForCell(u, w)
           /\ cellId' = cellId /\ byCell' = byCell /\ base' = base /\ indexed' = indexed
  <1>1. UNCHANGED <<vars, aVars, cVars>>
    BY DEF stores
  <1>2. \A u, w : ForCell(u, w)' = ForCell(u, w)
    BY <1>1 DEF vars, ForCell, BasePosition, Hits, PositionsOf, SlicePositions, Visible
  <1>3. \A v : Lookup(v)' = Lookup(v)
    <2>1. PICK t : t = target
      OBVIOUS
    <2>2. \A v : A!ForCell(t, v)' = A!ForCell(t, v)
      BY <1>1 DEF aVars, A!ForCell, A!Get, A!Valid
    <2>3. \A v : C!ForCell(t, v)' = C!ForCell(t, v)
      BY <1>1 DEF cVars, C!ForCell, C!Position, C!Run
    <2> QED
      BY <1>2, <2>1, <2>2, <2>3 DEF Lookup
  <1> QED
    BY <1>1, <1>2, <1>3 DEF vars, aVars

\* Before its turn comes, a cell to be removed, or updated, is there.
LEMMA ToRemove ==
    ASSUME work \in Workloads, NEW i \in 1..RemoveCount, AnswersAre(i - 1, 0)
    PROVE  work.removes[i] \in Vars /\ Lookup(work.removes[i]) # NoCell
  <1> DEFINE v == work.removes[i]
  <1>1. v \in Vars
    BY WorkShape
  <1>2. ~ Dropped(v, i - 1)
    BY WorkShape, SizeOfVars DEF Dropped
  <1>3. Lookup(v).id = v
    BY <1>1, <1>2 DEF AnswersAre, Expected
  <1> QED
    BY <1>1, <1>3, SizeOfVars, LookupOf

\* The same for an update.
LEMMA ToUpdate ==
    ASSUME work \in Workloads, NEW i \in 1..UpdateCount, NEW u, AnswersAre(RemoveCount, u)
    PROVE  /\ work.updates[i] \in Vars /\ Lookup(work.updates[i]) # NoCell
           /\ Lookup(work.updates[i]).id = work.updates[i]
  <1> DEFINE v == work.updates[i]
  <1>1. v \in Vars
    BY WorkShape
  <1>2. ~ Dropped(v, RemoveCount)
    BY WorkShape, SizeOfVars DEF Dropped
  <1>3. Lookup(v).id = v
    BY <1>1, <1>2 DEF AnswersAre, Expected
  <1> QED
    BY <1>1, <1>3, SizeOfVars, LookupOf

\* Removals, updates and probes leave the counters.
LEMMA CountersKept ==
    ASSUME Counters, work' = work, seen' = seen, stage \notin {"lookup", "iterate"},
           stage' \notin {"lookup", "iterate"}
    PROVE  Counters'
  BY DEF Counters, FoundValues, EachValue

\* No removal of a driver misses, and the cells answer what they should after
\* it.
LEMMA RemoveOneStep ==
    ASSUME DriverInv, StoresInv, StoresInv', RemoveOne
    PROVE  DriverInv' /\ stage' # "panicked"
  <1>0. stage = "remove" /\ StageAnswers /\ OwnCells /\ Counters /\ work \in Workloads
    BY DEF DriverInv, RemoveOne, StoresInv, TargetInv
  <1>1. PICK i \in 1..RemoveCount : i = at
    BY <1>0 DEF StoresInv, TargetInv
  <1>2. Removals = i - 1 /\ Updates = 0
    BY <1>0, <1>1 DEF Removals, Updates
  <1>3. AnswersAre(i - 1, 0)
    BY <1>0, <1>2, AnswersNow
  <1>4. PICK v \in Vars : v = work.removes[i] /\ Lookup(v) # NoCell
    BY <1>0, <1>3, ToRemove
  <1>5. OthersKept(v) /\ Lookup(v)' = NoCell
    BY <1>1, <1>4, RemovalEffect
  <1>6. /\ UNCHANGED <<kernel, target, work, seen>>
        /\ \/ at = RemoveCount /\ stage' = "update" /\ at' = 1
           \/ at # RemoveCount /\ stage' = "remove" /\ at' = at + 1
    BY <1>0, <1>1, <1>4 DEF RemoveOne, Loop
  <1>7. AnswersAre(i, 0)'
    BY <1>0, <1>3, <1>4, <1>5, <1>6, RemovalAnswers DEF OthersKept
  <1>8. Removals' = i /\ Updates' = 0
    BY <1>1, <1>6, SizeOfVars DEF Removals, Updates
  <1>9. StageAnswers'
    BY <1>7, <1>8, AnswersNext
  <1>10. OwnCells'
    <2>1. stage' \in {"remove", "update"}
      BY <1>6
    <2>2. kernel = "a" => DOMAIN cellId' \subseteq {target'} \X Vars
      BY <1>0, <1>5, <1>6 DEF OwnCells, OthersKept
    <2>3. kernel = "b" => \A u \in Targets, w \in Vars : u # target => ForCell(u, w)' = NoCell
      BY <1>0, <1>5 DEF OwnCells, OthersKept
    <2>4. kernel = "b" => indexed' = NotBuilt
      BY <1>0, <1>5 DEF OwnCells, OthersKept
    <2> QED
      BY <1>6, <1>8, <2>1, <2>2, <2>3, <2>4 DEF OwnCells
  <1>11. Counters'
    BY <1>0, <1>6, CountersKept
  <1> QED
    BY <1>6, <1>9, <1>10, <1>11 DEF DriverInv

\* The same for an update.
LEMMA UpdateOneStep ==
    ASSUME DriverInv, StoresInv, StoresInv', UpdateOne
    PROVE  DriverInv' /\ stage' # "panicked"
  <1>0. stage = "update" /\ StageAnswers /\ OwnCells /\ Counters /\ work \in Workloads
    BY DEF DriverInv, UpdateOne, StoresInv, TargetInv
  <1>1. PICK i \in 1..UpdateCount : i = at
    BY <1>0 DEF StoresInv, TargetInv
  <1>2. Removals = RemoveCount /\ Updates = i - 1
    BY <1>0, <1>1 DEF Removals, Updates
  <1>3. AnswersAre(RemoveCount, i - 1)
    BY <1>0, <1>2, AnswersNow
  <1>4. PICK v \in Vars : v = work.updates[i] /\ Lookup(v) # NoCell /\ Lookup(v).id = v
    BY <1>0, <1>3, ToUpdate
  <1>5. PICK x \in Int : x = UpdateExpr(i, v).value
    BY ExprTyped
  <1>6. Updated(v, x)
    BY <1>1, <1>4, <1>5, UpdateEffect
  <1>7. /\ UNCHANGED <<kernel, target, work, seen>>
        /\ \/ at = UpdateCount /\ stage' = (IF kernel = "b" THEN "probe" ELSE "report") /\ at' = 1
           \/ at # UpdateCount /\ stage' = "update" /\ at' = at + 1
    BY <1>0, <1>1 DEF UpdateOne, Loop
  <1>8. AnswersAre(RemoveCount, i)'
    BY <1>0, <1>3, <1>4, <1>5, <1>6, <1>7, UpdateAnswers DEF Updated, OthersKept
  <1>9. Removals' = RemoveCount /\ Updates' = i
    BY <1>1, <1>7, SizeOfVars DEF Removals, Updates
  <1>10. StageAnswers'
    BY <1>8, <1>9, AnswersNext
  <1>11. OwnCells'
    <2>1. /\ stage' \in {"update", "probe", "report"}
          /\ kernel = "b" => stage' # "report"
      BY <1>7
    <2>2. kernel = "a" => DOMAIN cellId' \subseteq {target'} \X Vars
      BY <1>0, <1>6, <1>7 DEF OwnCells, OthersKept, Updated
    <2>3. kernel = "b" => \A u \in Targets, w \in Vars : u # target => ForCell(u, w)' = NoCell
      BY <1>0, <1>6 DEF OwnCells, OthersKept, Updated
    <2>4. kernel = "b" => indexed' = NotBuilt
      BY <1>0, <1>6 DEF OwnCells, OthersKept, Updated
    <2>5. kernel = "b" => <<target, work.updates[1]>> \in DOMAIN byCell'
      <3>1. CASE i = 1
        BY <1>4, <1>6, <3>1 DEF Updated
      <3>2. CASE i # 1
        <4>1. Updates >= 1
          BY <1>2, <3>2, SizeOfVars
        <4> QED
          BY <1>0, <1>6, <4>1 DEF OwnCells, OthersKept, Updated
      <3> QED
        BY <3>1, <3>2
    <2> QED
      BY <1>7, <2>1, <2>2, <2>3, <2>4, <2>5 DEF OwnCells
  <1>12. Counters'
    BY <1>0, <1>7, CountersKept
  <1> QED
    BY <1>7, <1>10, <1>11, <1>12 DEF DriverInv

\* Building the variable index changes no answer.
LEMMA ProbeStep ==
    ASSUME DriverInv, StoresInv, StoresInv', Probe
    PROVE  DriverInv' /\ stage' # "panicked"
  <1>0. stage = "probe" /\ kernel = "b" /\ StageAnswers /\ OwnCells /\ Counters /\ work \in Workloads
    BY DEF DriverInv, Probe, OnB, StoresInv, TargetInv
  <1>1. indexed = NotBuilt
    BY <1>0 DEF OwnCells
  <1>2. /\ BuildVarIndex /\ UNCHANGED <<kernel, target, work, seen>> /\ stage' = "report"
    BY <1>1 DEF Probe
  <1>3. \A u, w : ForCell(u, w)' = ForCell(u, w)
    BY <1>2 DEF BuildVarIndex, baseVars, overlayVars, ForCell, BasePosition, Hits, PositionsOf,
                SlicePositions, Visible
  <1>4. \A v : Lookup(v)' = Lookup(v)
    <2>1. PICK t : t = target
      OBVIOUS
    <2>2. \A w : Lookup(w) = ForCell(t, w) /\ Lookup(w)' = ForCell(t, w)'
      BY <1>0, <1>2, <2>1, LookupAt, LookupAtAfter
    <2> QED
      BY <1>3, <2>2
  <1>5. /\ Removals = RemoveCount /\ Updates = UpdateCount
        /\ Removals' = RemoveCount /\ Updates' = UpdateCount
    BY <1>0, <1>2 DEF Removals, Updates
  <1>6. AnswersAre(RemoveCount, UpdateCount)
    BY <1>0, <1>5, AnswersNow
  <1>7. AnswersAre(RemoveCount, UpdateCount)'
    BY <1>2, <1>4, <1>6, KeptAnswers
  <1>8. StageAnswers'
    BY <1>5, <1>7, AnswersNext
  <1>9. OwnCells'
    <2>1. indexed' = Len(base') /\ byCell' = byCell
      BY <1>2 DEF BuildVarIndex, baseVars, overlayVars
    <2>2. \A u \in Targets, w \in Vars : u # target => ForCell(u, w)' = NoCell
      BY <1>0, <1>3 DEF OwnCells
    <2>3. <<target, work.updates[1]>> \in DOMAIN byCell
      BY <1>0, <1>5, SizeOfVars DEF OwnCells
    <2> QED
      BY <1>0, <1>2, <2>1, <2>2, <2>3 DEF OwnCells
  <1>10. Counters'
    BY <1>0, <1>2, CountersKept
  <1> QED
    BY <1>2, <1>8, <1>9, <1>10 DEF DriverInv

\* Each cell as the block made it.
LEMMA AsBuilt ==
    ASSUME NEW v
    PROVE  /\ Expected(v, 0, 0) = [id |-> v, value |-> BaseValue(v)]
           /\ Expected(v, 0, 0)' = [id |-> v, value |-> BaseValue(v)]
  BY DEF Expected, Dropped, Changed

\* The block of the drivers is one of kernel C too, and has each variable at
\* its number.
LEMMA WholeBlockRaw ==
    /\ AllVars \in C!SortedBlocks
    /\ Len(AllVars) = Cardinality(Vars)
    /\ \A v \in Vars : v \in 1..Len(AllVars) /\ AllVars[v] = v /\ AllVals[v] = BaseValue(v)
  <1>1. AllVars \in SortedBlocks(Vars) /\ C!Cardinality(Vars) = Cardinality(Vars)
    BY WholeSortedBlock DEF C!Cardinality, C!IsFiniteSet, Cardinality, IsFiniteSet
  <1>2. AllVars \in C!SortedBlocks
    BY <1>1 DEF C!SortedBlocks, SortedBlocks
  <1>3. Len(AllVars) = Cardinality(Vars)
    BY SizeOfVars DEF AllVars
  <1>4. \A v \in Vars : v \in 1..Cardinality(Vars)
    BY SizeOfVars
  <1> QED
    BY <1>2, <1>3, <1>4 DEF AllVars, AllVals

\* What the drivers' block makes the stores answer.
BlockShown ==
    /\ \A v \in Vars : Lookup(v)' = [id |-> v, value |-> BaseValue(v)]
    /\ kernel = "a" => DOMAIN cellId' \subseteq {target} \X Vars
    /\ kernel = "b" => /\ \A u \in Targets, w \in Vars : u # target => ForCell(u, w)' = NoCell
                       /\ DOMAIN byCell' = {} /\ indexed' = NotBuilt

\* The block of drive_a.
LEMMA BuildEffectOnA ==
    ASSUME DriverInv, StoresInv, StoresInv', Build, kernel = "a"
    PROVE  BlockShown
  <1>1. kernel' = "a" /\ target' = target
    BY DEF Build
  <1>2. PICK t \in Targets : t = target
    BY DEF StoresInv, TargetInv, Build
  <1>3. P!Init /\ P!IndexAssumption
    BY SameInit, SameAssumption DEF DriverInv, Build
  <1>4. P!AddConstantUniqueBlock(t, AllVars, AllVals)
    BY <1>2, SameBlock DEF Build, OnA, OnB, OnC
  <1>5. \A w : Lookup(w)' = P!ForCell(t, w)'
    BY <1>1, <1>2, LookupAtAfter
  <1>6. /\ \A i \in 1..Len(AllVars) : P!ForCell(t, AllVars[i])' = [id |-> i, value |-> AllVals[i]]
        /\ DOMAIN cellId' \subseteq {t} \X Vars
    <2>1. AllVars \in P!Blocks(Vars) /\ AllVals \in [DOMAIN AllVars -> Int] /\ Vars \in SUBSET Vars
      BY WholeBlock
    <2> QED
      BY <1>3, <1>4, <2>1, P!FirstBlockShows
  <1>7. ASSUME NEW v \in Vars PROVE P!ForCell(t, v)' = [id |-> v, value |-> BaseValue(v)]
    <2>1. v \in 1..Len(AllVars) /\ AllVars[v] = v /\ AllVals[v] = BaseValue(v)
      BY WholeBlockRaw
    <2>2. P!ForCell(t, AllVars[v])' = [id |-> v, value |-> AllVals[v]]
      BY <1>6, <2>1
    <2> QED
      BY <2>1, <2>2
  <1> QED
    BY <1>2, <1>5, <1>6, <1>7 DEF BlockShown

\* The block of drive_b.
LEMMA BuildEffectOnB ==
    ASSUME DriverInv, StoresInv, StoresInv', Build, kernel = "b"
    PROVE  BlockShown
  <1>1. kernel' = "b" /\ target' = target
    BY DEF Build
  <1>2. PICK t \in Targets : t = target
    BY DEF StoresInv, TargetInv, Build
  <1>3. Init /\ IInv /\ LookupView'
    BY StoresSeenAfter DEF DriverInv, Build, StoresInv
  <1>4. BuildConstantBlock(t, AllVars, AllVals)
    BY <1>2 DEF Build, OnA, OnB, OnC
  <1>5. \A w : Lookup(w)' = ForCell(t, w)'
    BY <1>1, <1>2, LookupAtAfter
  <1>6. /\ \A i \in 1..Len(AllVars) : ForCell(t, AllVars[i])' = [id |-> i, value |-> AllVals[i]]
        /\ \A u \in Targets, w \in Vars : u # t => ForCell(u, w)' = NoCell
        /\ DOMAIN byCell' = {} /\ indexed' = NotBuilt
    <2>1. AllVars \in SortedBlocks(Vars) /\ AllVals \in [DOMAIN AllVars -> Int] /\ Vars \in SUBSET Vars
      BY WholeBlock, WholeSortedBlock
    <2> QED
      BY <1>3, <1>4, <2>1, FirstBlockShows
  <1>7. ASSUME NEW v \in Vars PROVE ForCell(t, v)' = [id |-> v, value |-> BaseValue(v)]
    <2>1. v \in 1..Len(AllVars) /\ AllVars[v] = v /\ AllVals[v] = BaseValue(v)
      BY WholeBlockRaw
    <2>2. ForCell(t, AllVars[v])' = [id |-> v, value |-> AllVals[v]]
      BY <1>6, <2>1
    <2> QED
      BY <2>1, <2>2
  <1> QED
    BY <1>2, <1>5, <1>6, <1>7 DEF BlockShown

\* The block of drive_c.
LEMMA BuildEffectOnC ==
    ASSUME DriverInv, StoresInv, StoresInv', Build, kernel = "c"
    PROVE  BlockShown
  <1>1. kernel' = "c" /\ target' = target
    BY DEF Build
  <1>2. PICK t : t = target /\ t = Objective
    BY DEF StoresInv, TargetInv
  <1>3. C!IInv
    BY DEF StoresInv
  <1>4. C!BuildConstantBlock(Objective, AllVars, AllVals)
    BY <1>2 DEF Build, OnA, OnB, OnC
  <1>5. \A w : Lookup(w)' = C!ForCell(t, w)'
    BY <1>1, <1>2, LookupAtAfter
  <1>6. \A i \in 1..Len(AllVars) : C!ForCell(Objective, AllVars[i])' = [id |-> i, value |-> AllVals[i]]
    <2>1. AllVars \in C!SortedBlocks /\ AllVals \in [DOMAIN AllVars -> Int]
      BY WholeBlock, WholeBlockRaw
    <2> QED
      BY <1>3, <1>4, <2>1, RawBlockShows
  <1>7. ASSUME NEW v \in Vars PROVE C!ForCell(Objective, v)' = [id |-> v, value |-> BaseValue(v)]
    <2>1. v \in 1..Len(AllVars) /\ AllVars[v] = v /\ AllVals[v] = BaseValue(v)
      BY WholeBlockRaw
    <2>2. C!ForCell(Objective, AllVars[v])' = [id |-> v, value |-> AllVals[v]]
      BY <1>6, <2>1
    <2> QED
      BY <2>1, <2>2
  <1>8. \A v \in Vars : C!ForCell(t, v)' = [id |-> v, value |-> BaseValue(v)]
    BY <1>7 DEF C!ForCell
  <1> QED
    BY <1>5, <1>8 DEF BlockShown

\* After the block every cell answers its value.
LEMMA BuildStep ==
    ASSUME DriverInv, StoresInv, StoresInv', Build
    PROVE  DriverInv' /\ stage' # "panicked"
  <1>1. BlockShown
    BY BuildEffectOnA, BuildEffectOnB, BuildEffectOnC DEF StoresInv, KernelInv
  <1>2. stage' = "lookup" /\ UNCHANGED <<kernel, at, target, work, seen>>
    BY DEF Build
  <1>3. Removals' = 0 /\ Updates' = 0
    BY <1>2 DEF Removals, Updates
  <1>4. AnswersAre(0, 0)'
    <2>1. \A v \in Vars : Lookup(v)' = Expected(v, 0, 0)'
      BY <1>1, AsBuilt DEF BlockShown
    <2> QED
      BY <2>1 DEF AnswersAre
  <1>5. StageAnswers'
    BY <1>3, <1>4, AnswersNext
  <1>6. OwnCells'
    BY <1>1, <1>2, <1>3 DEF OwnCells, BlockShown
  <1>7. Counters'
    BY <1>2 DEF Counters
  <1> QED
    BY <1>2, <1>5, <1>6, <1>7 DEF DriverInv

\* A step that leaves the stores, before the first removal.
LEMMA StillAsBuilt ==
    ASSUME DriverInv, stage \in {"lookup", "iterate"}, UNCHANGED <<kernel, target, work, stores>>,
           stage' \in {"iterate", "remove"}, stage' = "remove" => at' = 1
    PROVE  StageAnswers' /\ OwnCells' /\ AnswersAre(0, 0)
  <1>1. StageAnswers /\ OwnCells
    BY DEF DriverInv
  <1>2. Removals = 0 /\ Updates = 0 /\ Removals' = 0 /\ Updates' = 0
    BY DEF Removals, Updates
  <1>3. AnswersAre(0, 0)
    BY <1>1, <1>2, AnswersNow
  <1>4. AnswersAre(0, 0)'
    BY <1>3, KeptAnswers, KeptStores
  <1>5. StageAnswers'
    BY <1>2, <1>4, AnswersNext
  <1>6. OwnCells'
    BY <1>1, <1>2, KeptStores DEF OwnCells
  <1> QED
    BY <1>3, <1>5, <1>6

\* Every lookup hits, and their sum is that of the workload.
LEMMA LookUpStep ==
    ASSUME DriverInv, StoresInv, LookUp
    PROVE  DriverInv' /\ stage' # "panicked"
  <1>1. stage = "lookup" /\ stage' = "iterate" /\ UNCHANGED <<kernel, at, target, work, stores>>
    BY DEF LookUp
  <1>2. StageAnswers' /\ OwnCells' /\ AnswersAre(0, 0)
    BY <1>1, StillAsBuilt
  <1>3. work.lookups \in [1..LookupCount -> Vars]
    BY <1>1, WorkShape DEF StoresInv, TargetInv
  <1>4. ASSUME NEW n \in 1..LookupCount
        PROVE  Lookup(work.lookups[n]) # NoCell /\ Lookup(work.lookups[n]).value = BaseValue(work.lookups[n])
    <2>1. PICK v \in Vars : v = work.lookups[n]
      BY <1>3
    <2>2. Lookup(v) = [id |-> v, value |-> BaseValue(v)]
      BY <1>2, AsBuilt DEF AnswersAre
    <2> QED
      BY <2>1, <2>2, SizeOfVars, LookupOf
  <1> DEFINE found == {n \in 1..LookupCount : Lookup(work.lookups[n]) # NoCell}
             met(n) == IF n \in found THEN Lookup(work.lookups[n]).value ELSE 0
  <1>5. seen' = [seen EXCEPT !.found = Cardinality(found),
                             !.sum = SumOf([n \in 1..LookupCount |-> met(n)])]
    BY DEF LookUp
  <1>6. found = 1..LookupCount
    BY <1>4
  <1>7. Cardinality(found) = LookupCount
    BY <1>6, FirstNumbers, SizeOfVars
  <1>8. [n \in 1..LookupCount |-> met(n)] = FoundValues
    BY <1>4, <1>6 DEF FoundValues
  <1> HIDE DEF found, met
  <1>9. seen'.found = LookupCount /\ seen'.sum = SumOf(FoundValues) /\ DOMAIN seen' = DOMAIN seen
    BY <1>5, <1>7, <1>8 DEF DriverInv
  <1>10. FoundValues' = FoundValues
    BY <1>1 DEF FoundValues
  <1>11. Counters'
    BY <1>1, <1>9, <1>10 DEF Counters
  <1> QED
    BY <1>1, <1>2, <1>9, <1>11 DEF DriverInv

\* The iteration of whichever kernel is driven is a walk.
LEMMA EveryWalk ==
    ASSUME StoresInv, stage # "free"
    PROVE  \E q : Walks(q)
  <1>1. kernel \in {"a", "b", "c"}
    BY DEF StoresInv, KernelInv
  <1>2. CASE kernel = "a"
    BY <1>2, WalkOfA DEF StoresInv, TargetInv
  <1>3. CASE kernel = "b"
    BY <1>3, WalkOfB DEF StoresInv, TargetInv
  <1>4. CASE kernel = "c"
    BY <1>4, WalkOfC, StoresSeen DEF StoresInv, TargetInv
  <1> QED
    BY <1>1, <1>2, <1>3, <1>4

\* A cell that answers, as an identity of kernel B.
LEMMA WhereItIs ==
    ASSUME IInv, kernel = "b", target \in Targets, NEW v \in Vars, Lookup(v) # NoCell
    PROVE  IF <<target, v>> \in DOMAIN byCell THEN Locate(Lookup(v).id).place = "overlay"
                                              ELSE Locate(Lookup(v).id).place = "packed"
  <1> DEFINE k == <<target, v>>
  <1>1. k \in LiveKeys /\ Lookup(v) = ForCell(k[1], k[2])
    BY LookupOf DEF LiveKeys, Keys
  <1>2. IF k \in DOMAIN byCell THEN Locate(ForCell(k[1], k[2]).id) = InOverlay(byCell[k])
                               ELSE Locate(ForCell(k[1], k[2]).id).place = "packed"
    BY <1>1, IdentitiesOfIInv DEF IdentityAgrees
  <1> HIDE DEF k
  <1>3. IF k \in DOMAIN byCell THEN Locate(Lookup(v).id).place = "overlay"
                               ELSE Locate(Lookup(v).id).place = "packed"
    BY <1>1, <1>2 DEF InOverlay
  <1> QED
    BY <1>3 DEF k

\* Before the first removal an iteration meets every value once.
LEMMA FirstWalk ==
    ASSUME StoresInv, stage # "free", AnswersAre(0, 0)
    PROVE  Len(Walk) = Cardinality(Vars) /\ SumOf(Walk) = SumOf(EachValue)
  <1>1. PICK n \in Nat : n = Cardinality(Vars) /\ Vars = 1..n
    BY SizeOfVars
  <1>2. ASSUME NEW v \in Vars PROVE Lookup(v) = [id |-> v, value |-> BaseValue(v)]
    <2>1. Lookup(v) = Expected(v, 0, 0)
      BY DEF AnswersAre
    <2> QED
      BY <2>1, AsBuilt
  <1>3. LiveVars = 1..n
    <2>1. \A v \in Vars : v # 0 /\ NoCell.id = 0
      BY SizeOfVars, LookupOf
    <2>2. \A v \in Vars : Lookup(v).id = v
      BY <1>2
    <2>3. \A v \in Vars : Lookup(v) # NoCell
      BY <2>1, <2>2
    <2> QED
      BY <1>1, <2>3 DEF LiveVars
  <1>4. PICK q : Walks(q)
    BY EveryWalk
  <1>5. /\ q \in [1..n -> 1..n] /\ \A j \in 1..n : \E i \in 1..n : q[i] = j
        /\ Walk = [k \in 1..n |-> Lookup(q[k]).value]
    BY <1>1, <1>3, <1>4 DEF Walks
  <1>6. q \in Orders(n)
    <2>1. q \in Surjection(1..n, 1..n)
      BY <1>5 DEF Surjection
    <2>2. IsFiniteSet(1..n)
      BY FirstNumbers
    <2>3. q \in Injection(1..n, 1..n)
      BY <2>1, <2>2, FS_SurjSameCardinalityImpliesInj
    <2> QED
      BY <1>5, <2>3 DEF Injection, IsInjective, Orders
  <1>7. EachValue = [v \in 1..n |-> BaseValue(v)]
    BY <1>1 DEF EachValue
  <1>8. EachValue \in [1..n -> Int]
    <2>1. \A v \in 1..n : BaseValue(v) \in Int
      BY <1>1, SizeOfVars
    <2> QED
      BY <1>7, <2>1, Zenon
  <1>9. Walk = [k \in 1..n |-> EachValue[q[k]]]
    <2>1. ASSUME NEW k \in 1..n PROVE Lookup(q[k]).value = EachValue[q[k]]
      <3>1. PICK v \in 1..n : v = q[k]
        BY <1>5
      <3>2. Lookup(v).value = BaseValue(v)
        <4>1. v \in Vars
          BY <1>1
        <4>2. Lookup(v) = [id |-> v, value |-> BaseValue(v)]
          BY <1>2, <4>1
        <4> QED
          BY <4>2
      <3>3. EachValue[v] = BaseValue(v)
        BY <1>7, Zenon
      <3> QED
        BY <3>1, <3>2, <3>3
    <2> QED
      BY <1>5, <2>1
  <1>10. SumOf([k \in 1..n |-> EachValue[q[k]]]) = SumOf(EachValue)
    BY <1>6, <1>8, SumReordered DEF Reorders
  <1>11. Len(Walk) = n
    BY <1>5
  <1> QED
    BY <1>1, <1>9, <1>10, <1>11

\* The iteration counts every cell, adds up every value, and finds the first
\* updated cell in the base.
LEMMA IterateStep ==
    ASSUME DriverInv, StoresInv, Iterate
    PROVE  DriverInv' /\ stage' # "panicked"
  <1>1. stage = "iterate" /\ UNCHANGED <<kernel, at, target, work, stores>> /\ work \in Workloads
    BY DEF Iterate, StoresInv, TargetInv
  <1>2. AnswersAre(0, 0) /\ at = 1
    <2>1. StageAnswers /\ Removals = 0 /\ Updates = 0
      BY <1>1 DEF DriverInv, Removals, Updates
    <2> QED
      BY <1>1, <2>1, AnswersNow DEF StoresInv, TargetInv
  <1>3. PICK v \in Vars : v = work.updates[1]
    BY <1>1, WorkShape, SizeOfVars
  <1>4. Lookup(v) = [id |-> v, value |-> BaseValue(v)] /\ Lookup(v) # NoCell
    <2>1. Lookup(v) = [id |-> v, value |-> BaseValue(v)]
      BY <1>2, AsBuilt DEF AnswersAre
    <2> QED
      BY <2>1, SizeOfVars, LookupOf
  <1>5. kernel = "b" => Locate(Lookup(v).id).place = "packed"
    <2> SUFFICES ASSUME kernel = "b" PROVE Locate(Lookup(v).id).place = "packed"
      OBVIOUS
    <2>1. DOMAIN byCell = {} /\ target \in Targets /\ IInv
      BY <1>1 DEF DriverInv, OwnCells, StoresInv, TargetInv
    <2> QED
      BY <1>4, <2>1, WhereItIs
  <1>6. stage' = "remove"
    BY <1>3, <1>5 DEF Iterate
  <1>7. Len(Walk) = Cardinality(Vars) /\ SumOf(Walk) = SumOf(EachValue)
    BY <1>1, <1>2, FirstWalk
  <1>8. /\ seen' = [seen EXCEPT !.count = Len(Walk), !.total = SumOf(Walk), !.pre = v]
        /\ DOMAIN seen = {"found", "sum", "count", "total", "pre"}
    BY <1>3, <1>4 DEF Iterate, DriverInv
  <1>9. /\ seen'.found = seen.found /\ seen'.sum = seen.sum /\ DOMAIN seen' = DOMAIN seen
        /\ seen'.count = Cardinality(Vars) /\ seen'.total = SumOf(EachValue) /\ seen'.pre = work.updates[1]
    BY <1>3, <1>7, <1>8
  <1>10. seen.found = LookupCount /\ seen.sum = SumOf(FoundValues)
    BY <1>1 DEF DriverInv, Counters
  <1>11. Counters'
    <2>1. FoundValues' = FoundValues /\ EachValue' = EachValue
      BY <1>1 DEF FoundValues, EachValue
    <2> QED
      BY <1>1, <1>6, <1>9, <1>10, <2>1 DEF Counters
  <1>12. StageAnswers' /\ OwnCells'
    BY <1>1, <1>2, <1>6, StillAsBuilt
  <1> QED
    BY <1>6, <1>9, <1>11, <1>12 DEF DriverInv

\* The removed cells, and the cells left at the end.
LEMMA RemovedSet ==
    ASSUME work \in Workloads
    PROVE  /\ \A v : v \in ToSet(work.removes) <=> Dropped(v, RemoveCount)
           /\ \A v : v \in ToSet(work.updates) <=> Changed(v, UpdateCount)
           /\ ToSet(work.removes) \subseteq Vars
           /\ Cardinality(ToSet(work.removes)) = RemoveCount
  <1> DEFINE R == ToSet(work.removes)
             f == [i \in 1..RemoveCount |-> work.removes[i]]
  <1>1. DOMAIN work.removes = 1..RemoveCount /\ DOMAIN work.updates = 1..UpdateCount
    BY WorkShape
  <1>2. \A v : v \in R <=> \E i \in 1..RemoveCount : work.removes[i] = v
    BY <1>1 DEF ToSet
  <1>3. \A v : v \in ToSet(work.updates) <=> \E i \in 1..UpdateCount : work.updates[i] = v
    BY <1>1 DEF ToSet
  <1>4. ASSUME NEW v \in R PROVE v \in Vars
    <2>1. PICK i \in 1..RemoveCount : work.removes[i] = v
      BY <1>2
    <2>2. work.removes \in [1..RemoveCount -> Vars]
      BY WorkShape
    <2> QED
      BY <2>1, <2>2
  <1>5. IsFiniteSet(R)
    BY <1>4, StoreAssumption, FS_Subset DEF StoreAssumption
  <1>6. /\ f \in [1..RemoveCount -> R] /\ \A i, j \in 1..RemoveCount : f[i] = f[j] => i = j
        /\ \A v \in R : \E i \in 1..RemoveCount : f[i] = v
    BY <1>2, WorkShape
  <1> HIDE DEF f, R
  <1>7. Cardinality(1..RemoveCount) = Cardinality(R)
    BY <1>5, <1>6, SameSize
  <1>8. Cardinality(R) = RemoveCount
    BY <1>7, FirstNumbers, SizeOfVars
  <1> QED
    BY <1>2, <1>3, <1>4, <1>8 DEF R, Dropped, Changed

\* What a driver that is through left the cells with.
LEMMA AtEnd ==
    ASSUME DriverInv, StoresInv, stage \in {"report", "done"}
    PROVE  /\ work \in Workloads /\ AnswersAre(RemoveCount, UpdateCount) /\ OwnCells /\ Counters
           /\ \A v \in Vars : Lookup(v) = NoCell <=> v \in ToSet(work.removes)
           /\ Cardinality(LiveVars) = Cardinality(Vars) - RemoveCount
  <1>1. work \in Workloads /\ StageAnswers /\ OwnCells /\ Counters
    BY DEF DriverInv, StoresInv, TargetInv
  <1>2. Removals = RemoveCount /\ Updates = UpdateCount
    BY DEF Removals, Updates
  <1>3. AnswersAre(RemoveCount, UpdateCount)
    BY <1>1, <1>2, AnswersNow
  <1>4. ASSUME NEW v \in Vars PROVE Lookup(v) = NoCell <=> v \in ToSet(work.removes)
    <2>1. Lookup(v) = Expected(v, RemoveCount, UpdateCount)
      BY <1>3 DEF AnswersAre
    <2>2. CASE Dropped(v, RemoveCount)
      BY <1>1, <2>1, <2>2, RemovedSet DEF Expected
    <2>3. CASE ~ Dropped(v, RemoveCount)
      <3>1. Lookup(v).id = v
        BY <2>1, <2>3 DEF Expected
      <3>2. Lookup(v) # NoCell
        BY <3>1, SizeOfVars, LookupOf
      <3> QED
        BY <1>1, <2>3, <3>2, RemovedSet
    <2> QED
      BY <2>2, <2>3
  <1>5. LiveVars = Vars \ ToSet(work.removes)
    BY <1>4 DEF LiveVars
  <1>6. IsFiniteSet(Vars)
    BY StoreAssumption DEF StoreAssumption
  <1>7. Vars \cap ToSet(work.removes) = ToSet(work.removes)
    BY <1>1, RemovedSet
  <1>8. Cardinality(LiveVars) = Cardinality(Vars) - Cardinality(Vars \cap ToSet(work.removes))
    BY <1>5, <1>6, FS_Difference
  <1> QED
    BY <1>1, <1>3, <1>4, <1>7, <1>8, RemovedSet

\* Kernel A's count is the number of cells that answer.
LEMMA CountOfA ==
    ASSUME StoresInv, kernel = "a", DOMAIN cellId \subseteq {target} \X Vars
    PROVE  count = Cardinality(LiveVars)
  <1> DEFINE S == DOMAIN cellId
             f == [k \in S |-> k[2]]
  <1>1. P!IInv /\ \A v : Lookup(v) = P!ForCell(target, v)
    BY LookupOf DEF StoresInv
  <1>2. \A k \in S : k = <<target, k[2]>> /\ k[2] \in Vars
    OBVIOUS
  <1>3. ASSUME NEW v \in Vars PROVE <<target, v>> \in S <=> Lookup(v) # NoCell
    <2>1. CASE <<target, v>> \in S
      <3>1. PICK i \in 1..Len(slots) : cellId[<<target, v>>] = P!Id(i)
        BY <1>1, <2>1 DEF P!IInv, P!CellInv
      <3>2. P!ForCell(target, v).id = i /\ i # 0
        BY <2>1, <3>1 DEF P!ForCell, P!Id
      <3> QED
        BY <1>1, <2>1, <3>2, LookupOf
    <2>2. CASE <<target, v>> \notin S
      BY <1>1, <2>2, LookupOf DEF P!ForCell
    <2> QED
      BY <2>1, <2>2
  <1>4. f \in [S -> LiveVars] /\ \A x, y \in S : f[x] = f[y] => x = y
    <2>1. \A k \in S : k[2] \in LiveVars
      BY <1>2, <1>3 DEF LiveVars
    <2>2. f \in [S -> LiveVars]
      BY <2>1
    <2>3. ASSUME NEW x \in S, NEW y \in S, f[x] = f[y] PROVE x = y
      BY <1>2, <2>3
    <2> QED
      BY <2>2, <2>3
  <1>5. \A v \in LiveVars : \E x \in S : f[x] = v
    <2> SUFFICES ASSUME NEW v \in LiveVars PROVE \E x \in S : f[x] = v
      OBVIOUS
    <2>1. <<target, v>> \in S
      BY <1>3 DEF LiveVars
    <2>2. f[<<target, v>>] = v
      BY <2>1
    <2> QED
      BY <2>1, <2>2
  <1> HIDE DEF f, S
  <1>6. Cardinality(S) = Cardinality(LiveVars)
    BY <1>4, <1>5, LiveVarsAreFew, SameSize
  <1>7. count = P!Cardinality(DOMAIN cellId)
    BY <1>1 DEF P!IInv, P!CountInv
  <1>8. P!Cardinality(DOMAIN cellId) = Cardinality(DOMAIN cellId)
    BY DEF P!Cardinality, P!IsFiniteSet, Cardinality, IsFiniteSet
  <1> QED
    BY <1>6, <1>7, <1>8 DEF S

\* The live cells are those not removed, by iter_live and iter_target as by
\* count.
LEMMA LiveAtEnd ==
    ASSUME DriverInv, StoresInv, stage \in {"report", "done"}
    PROVE  LiveAfter = Cardinality(Vars) - RemoveCount
  <1>1. Cardinality(LiveVars) = Cardinality(Vars) - RemoveCount /\ OwnCells
    BY AtEnd
  <1>2. CASE kernel = "a"
    BY <1>1, <1>2, CountOfA DEF OwnCells, LiveAfter
  <1>3. CASE kernel # "a"
    <2>1. PICK q : Walks(q)
      BY EveryWalk
    <2>2. Cardinality(LiveVars) \in Nat
      BY LiveVarsAreFew
    <2>3. Len(Walk) = Cardinality(LiveVars)
      BY <2>1, <2>2 DEF Walks
    <2> QED
      BY <1>1, <1>3, <2>3 DEF LiveAfter
  <1> QED
    BY <1>2, <1>3

\* for_var at the end: one cell of each variable that is left, none of the others.
LEMMA HitsOfVar ==
    ASSUME DriverInv, StoresInv, stage \in {"report", "done"}, kernel = "b", NEW v \in Vars
    PROVE  Len(ForVar(v)) = IF v \in ToSet(work.removes) THEN 0 ELSE 1
  <1>1. OwnCells /\ (Lookup(v) = NoCell <=> v \in ToSet(work.removes))
    BY AtEnd
  <1>2. indexed = Len(base) /\ \A u \in Targets, w \in Vars : u # target => ForCell(u, w) = NoCell
    BY <1>1 DEF OwnCells
  <1>3. Len(ForVar(v)) = Cardinality({k \in LiveKeys : k[2] = v})
    BY <1>2, VarViewOfIInv DEF StoresInv, VarViewAgreesWhenIndexed, Lists
  <1>4. target \in Targets /\ Lookup(v) = ForCell(target, v)
    BY LookupOf DEF StoresInv, TargetInv
  <1>5. \A k \in LiveKeys : k[2] = v => k = <<target, v>>
    BY <1>2 DEF LiveKeys, Keys
  <1>6. <<target, v>> \in LiveKeys <=> Lookup(v) # NoCell
    BY <1>4 DEF LiveKeys, Keys
  <1>7. {k \in LiveKeys : k[2] = v} = IF Lookup(v) = NoCell THEN {} ELSE {<<target, v>>}
    BY <1>5, <1>6
  <1> QED
    BY <1>1, <1>3, <1>7, FS_EmptySet, FS_Singleton

\* drive_b's for_var hits are the samples that were not removed.
LEMMA HitsAtEnd ==
    ASSUME DriverInv, StoresInv, stage \in {"report", "done"}, kernel = "b"
    PROVE  VarHits = Cardinality({n \in Sample : work.lookups[n] \notin ToSet(work.removes)})
  <1> DEFINE s == [n \in 1..LookupCount |-> IF n \in Sample THEN Len(ForVar(work.lookups[n])) ELSE 0]
  <1>1. work.lookups \in [1..LookupCount -> Vars]
    BY AtEnd, WorkShape
  <1>2. ASSUME NEW n \in 1..LookupCount
        PROVE  s[n] = IF n \in Sample /\ work.lookups[n] \notin ToSet(work.removes) THEN 1 ELSE 0
    <2>1. work.lookups[n] \in Vars
      BY <1>1
    <2>2. Len(ForVar(work.lookups[n])) = IF work.lookups[n] \in ToSet(work.removes) THEN 0 ELSE 1
      BY <2>1, HitsOfVar
    <2> QED
      BY <2>2
  <1>3. VarHits = SumOf(s)
    BY DEF VarHits
  <1>4. DOMAIN s = 1..LookupCount /\ s = [n \in 1..LookupCount |-> s[n]]
    OBVIOUS
  <1> HIDE DEF s
  <1>5. s \in [1..LookupCount -> {0, 1}]
    BY <1>2, <1>4
  <1>6. SumOf(s) = Cardinality({n \in 1..LookupCount : s[n] = 1})
    BY <1>5, SizeOfVars, SumCounts
  <1>7. Sample \subseteq 1..LookupCount
    BY DEF Sample
  <1>8. {n \in 1..LookupCount : s[n] = 1} = {n \in Sample : work.lookups[n] \notin ToSet(work.removes)}
    <2>1. \A n \in 1..LookupCount : s[n] = 1 <=> n \in Sample /\ work.lookups[n] \notin ToSet(work.removes)
      BY <1>2
    <2> QED
      BY <1>7, <2>1, Zenon
  <1> QED
    BY <1>3, <1>6, <1>8

\* drive_b's last assertions: the first updated and the first removed cell.
LEMMA FirstUpdated ==
    ASSUME DriverInv, StoresInv, stage \in {"report", "done"}, kernel = "b"
    PROVE  /\ Lookup(work.updates[1]).value = UpdateExpr(1, work.updates[1]).value
           /\ Lookup(work.updates[1]).id = seen.pre
           /\ Locate(Lookup(work.updates[1]).id).place = "overlay"
           /\ Lookup(work.removes[1]) = NoCell
  <1>1. /\ work \in Workloads /\ AnswersAre(RemoveCount, UpdateCount) /\ OwnCells /\ Counters
        /\ \A v \in Vars : Lookup(v) = NoCell <=> v \in ToSet(work.removes)
    BY AtEnd
  <1>2. 1 \in 1..UpdateCount /\ 1 \in 1..RemoveCount
    BY SizeOfVars
  <1>3. PICK v \in Vars : v = work.updates[1] /\ Lookup(v) # NoCell /\ Lookup(v).id = v
    BY <1>1, <1>2, ToUpdate
  <1>4. Changed(v, UpdateCount) /\ 1 = CHOOSE i \in 1..UpdateCount : work.updates[i] = v
    BY <1>1, <1>2, <1>3, WorkShape DEF Changed
  <1>5. ~ Dropped(v, RemoveCount)
    BY <1>1, <1>3, RemovedSet
  <1>6. Lookup(v).value = UpdateExpr(1, v).value
    <2>1. Lookup(v) = Expected(v, RemoveCount, UpdateCount)
      BY <1>1 DEF AnswersAre
    <2>2. Lookup(v) = [id |-> v, value |-> UpdateExpr(1, v).value]
      BY <1>4, <1>5, <2>1 DEF Expected
    <2> QED
      BY <2>2
  <1>7. seen.pre = v
    BY <1>1, <1>3 DEF Counters
  <1>8. <<target, v>> \in DOMAIN byCell
    <2>1. Updates >= 1
      BY SizeOfVars DEF Updates
    <2> QED
      BY <1>1, <1>3, <2>1 DEF OwnCells
  <1>9. Locate(Lookup(v).id).place = "overlay"
    <2>1. IInv /\ target \in Targets
      BY DEF StoresInv, TargetInv
    <2> QED
      BY <1>3, <1>8, <2>1, WhereItIs
  <1>10. Lookup(work.removes[1]) = NoCell
    <2>1. PICK w \in Vars : w = work.removes[1]
      BY <1>1, <1>2, WorkShape
    <2>2. Dropped(w, RemoveCount)
      BY <1>2, <2>1 DEF Dropped
    <2> QED
      BY <1>1, <2>1, <2>2, RemovedSet
  <1> QED
    BY <1>3, <1>6, <1>7, <1>9, <1>10

\* No assertion at the end of a driver fails.
LEMMA AssertionsHold ==
    ASSUME DriverInv, StoresInv, stage \in {"report", "done"}
    PROVE  Assertions
  <1>1. seen.found = LookupCount /\ seen.count = Cardinality(Vars)
    BY DEF DriverInv, Counters
  <1>2. LiveAfter = Cardinality(Vars) - RemoveCount
    BY LiveAtEnd
  <1>3. CASE kernel = "b"
    BY <1>1, <1>2, <1>3, HitsAtEnd, FirstUpdated DEF Assertions
  <1>4. CASE kernel # "b"
    BY <1>1, <1>2, <1>4 DEF Assertions
  <1> QED
    BY <1>3, <1>4

\* The report ends the driver.
LEMMA ReportStep ==
    ASSUME DriverInv, StoresInv, Report
    PROVE  DriverInv' /\ stage' # "panicked"
  <1>1. stage = "report" /\ UNCHANGED <<kernel, at, target, work, seen, stores>>
    BY DEF Report
  <1>2. stage' = "done"
    BY <1>1, AssertionsHold DEF Report
  <1>3. AnswersAre(RemoveCount, UpdateCount) /\ OwnCells /\ Counters
    BY <1>1, AtEnd
  <1>4. AnswersAre(RemoveCount, UpdateCount)'
    BY <1>1, <1>3, KeptAnswers, KeptStores
  <1>5. /\ Updates = UpdateCount /\ Removals' = RemoveCount /\ Updates' = UpdateCount
    BY <1>1, <1>2 DEF Removals, Updates
  <1>6. StageAnswers'
    BY <1>4, <1>5, AnswersNext
  <1>7. OwnCells'
    BY <1>1, <1>2, <1>3, <1>5, KeptStores DEF OwnCells
  <1>8. Counters'
    BY <1>1, <1>2, <1>3, CountersKept
  <1> QED
    BY <1>1, <1>2, <1>6, <1>7, <1>8 DEF DriverInv

\* An idle step.
LEMMA IdleStep ==
    ASSUME DriverInv, UNCHANGED protoVars
    PROVE  DriverInv'
  <1>1. UNCHANGED <<kernel, stage, at, target, work, seen, stores, vars, aVars, cVars>>
    BY DEF protoVars, driver, stores
  <1>2. stage = "build" => A!Init' /\ Init' /\ C!Init'
    BY <1>1 DEF DriverInv, aVars, vars, cVars, A!Init, Init, C!Init
  <1>3. CASE stage \in {"free", "build"}
    BY <1>1, <1>2, <1>3 DEF DriverInv
  <1>4. CASE stage \notin {"free", "build"}
    <2>1. StageAnswers /\ OwnCells /\ Counters
      BY <1>4 DEF DriverInv
    <2>2. PICK r, u : r = Removals /\ u = Updates
      OBVIOUS
    <2>3. Removals' = r /\ Updates' = u
      BY <1>1, <2>2 DEF Removals, Updates
    <2>4. AnswersAre(r, u)
      BY <2>1, <2>2, AnswersNow
    <2>5. AnswersAre(r, u)'
      BY <1>1, <2>4, KeptAnswers, KeptStores
    <2>6. StageAnswers'
      BY <2>3, <2>5, AnswersNext
    <2>7. OwnCells'
      BY <1>1, <2>1, <2>2, <2>3, KeptStores DEF OwnCells
    <2>8. Counters'
      BY <1>1, <2>1 DEF Counters, FoundValues, EachValue
    <2> QED
      BY <1>1, <1>4, <2>6, <2>7, <2>8 DEF DriverInv
  <1> QED
    BY <1>3, <1>4

\* Every step of the program keeps the invariant of its driver.
LEMMA DriverNext ==
    ASSUME DriverInv, StoresInv, StoresInv', [ProtoNext]_protoVars
    PROVE  DriverInv'
  <1>1. CASE Free
    BY <1>1 DEF Free, driver, DriverInv
  <1>2. CASE Ended
    BY <1>2, IdleStep DEF Ended
  <1> QED
    BY <1>1, <1>2, BuildStep, LookUpStep, IterateStep, RemoveOneStep, UpdateOneStep, ProbeStep,
       ReportStep, IdleStep DEF ProtoNext

\* It holds when the program starts.
LEMMA DriverInit == ProtoInit => DriverInv /\ KernelInv
  BY DEF ProtoInit, DriverInv, NothingSeen, KernelInv

\* What the drivers leave, in the words of the property.
LEMMA DriversOfInv ==
    ASSUME DriverInv, StoresInv
    PROVE  DriversAgree
  <1>1. stage # "panicked"
    BY DEF DriverInv
  <1>2. ASSUME stage = "done"
        PROVE  /\ seen.found = LookupCount
               /\ seen.sum + seen.total =
                     SumOf([n \in 1..LookupCount |-> BaseValue(work.lookups[n])])
                     + SumOf([v \in 1..Cardinality(Vars) |-> BaseValue(v)])
               /\ LiveAfter = Cardinality(Vars) - RemoveCount
               /\ \A v \in Vars : Lookup(v).value = FinalValue(v)
    <2>1. /\ work \in Workloads /\ AnswersAre(RemoveCount, UpdateCount) /\ Counters
      BY <1>2, AtEnd
    <2>2. seen.found = LookupCount /\ seen.sum = SumOf(FoundValues) /\ seen.total = SumOf(EachValue)
      BY <1>2, <2>1 DEF Counters
    <2>3. LiveAfter = Cardinality(Vars) - RemoveCount
      BY <1>2, LiveAtEnd
    <2>4. ASSUME NEW v \in Vars PROVE Lookup(v).value = FinalValue(v)
      <3>1. Lookup(v) = Expected(v, RemoveCount, UpdateCount)
        BY <2>1 DEF AnswersAre
      <3>2. /\ v \in ToSet(work.removes) <=> Dropped(v, RemoveCount)
            /\ v \in ToSet(work.updates) <=> Changed(v, UpdateCount)
        BY <2>1, RemovedSet
      <3>3. CASE Dropped(v, RemoveCount)
        <4>1. v \notin ToSet(work.updates)
          BY <2>1, <3>2, <3>3, WorkShape DEF Dropped, Changed
        <4> QED
          BY <3>1, <3>2, <3>3, <4>1 DEF Expected, FinalValue
      <3>4. CASE ~ Dropped(v, RemoveCount) /\ Changed(v, UpdateCount)
        BY <3>1, <3>2, <3>4 DEF Expected, FinalValue
      <3>5. CASE ~ Dropped(v, RemoveCount) /\ ~ Changed(v, UpdateCount)
        BY <3>1, <3>2, <3>5 DEF Expected, FinalValue
      <3> QED
        BY <3>3, <3>4, <3>5
    <2> QED
      BY <2>2, <2>3, <2>4 DEF FoundValues, EachValue
  <1> QED
    BY <1>1, <1>2 DEF DriversAgree

\* The whole of store-proto's invariant, its drivers included.
THEOREM DriverInvariance == ProtoSpec => [](StoresInv /\ DriverInv)
  <1>1. ProtoSpec => []StoresInv
    <2>1. ProtoInit => KernelInv
      BY DriverInit
    <2>2. KernelInv /\ [ProtoNext]_protoVars => KernelInv'
      BY KernelStays DEF KernelInv
    <2> QED
      BY <2>1, <2>2, AInvariance, BInvariance, ViewInvarianceUnderDrivers, CInvariance, PTL
         DEF ProtoSpec, StoresInv
  <1>2. ProtoInit => DriverInv
    BY DriverInit
  <1>3. DriverInv /\ StoresInv /\ StoresInv' /\ [ProtoNext]_protoVars => DriverInv'
    BY DriverNext
  <1> QED
    BY <1>1, <1>2, <1>3, PTL DEF ProtoSpec

\* Whichever kernel is driven, whatever the number of variables, the workload
\* and the order it draws, no assertion of a driver fails, and it ends with the
\* checksum, the counts and the values of the workload.
THEOREM DriversAlwaysAgree == ProtoSpec => []DriversAgree
  <1>1. StoresInv /\ DriverInv => DriversAgree
    BY DriversOfInv
  <1> QED
    BY <1>1, DriverInvariance, PTL
===============================================================================
