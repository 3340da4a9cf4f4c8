---------------------------- MODULE PackedStore ----------------------------
(***************************************************************************)
(* Kernel B (rust-store-proto/src/kernel_b.rs): an append-only packed base *)
(* of constant coefficients, one sorted slice per target, under a sparse   *)
(* overlay that shadows updated cells and keeps tombstones for removed     *)
(* ones, an arena of identities, and a variable index over the base that   *)
(* is built on the first for_var.                                          *)
(*                                                                         *)
(* Positions, overlay slots and identities count from 1.  A bitset is the  *)
(* set of its bits, the HashMap of lists is a function to sequences, and   *)
(* an expression is the set of parameters it depends on.  The arena never  *)
(* reuses an index and bumps its generation once, so an identity is an     *)
(* index, and it is stale when its slot is empty.                          *)
(***************************************************************************)
EXTENDS Integers, FiniteSets, Sequences, SequencesExt

CONSTANTS Targets, Vars,
          Exprs,    \* the expressions in use: [value, deps]; constant without deps
          MaxIds    \* bound on the identities allocated

ASSUME StoreAssumption ==
    /\ Vars \subseteq Nat /\ IsFiniteSet(Vars)
    /\ \A e \in Exprs : e.value \in Int
    /\ MaxIds \in Nat

Params == UNION {e.deps : e \in Exprs}
Constants(E) == {e.value : e \in {x \in E : x.deps = {}}}

NoCell   == [id |-> 0, value |-> 0]   \* Option::None of a lookup
Gone     == [place |-> "none", at |-> 0]   \* an arena slot without data
NotBuilt == -1                          \* var_index is None

VARIABLES
    identity,   \* the arena: a location per allocated identity
    base,       \* base_vars, base_values and base_ids, as records
    slices,     \* target_slices
    directory,  \* target_directory: the last slice of a target, or 0
    shadowed,   \* positions whose cell lives in the overlay
    dead,       \* positions whose cell was removed
    overlay,    \* the overlay cells
    byCell,     \* overlay_by_cell: a partial function from keys to slots
    byVar,      \* overlay_by_var
    byTarget,   \* overlay_by_target
    byParam,    \* overlay_by_param
    indexed     \* the length of the base var_index was built over, or NotBuilt

baseVars    == <<base, slices, directory>>
overlayVars == <<overlay, byCell, byVar, byTarget, byParam>>
vars == <<identity, base, slices, directory, shadowed, dead, overlay, byCell,
          byVar, byTarget, byParam, indexed>>

Keys == Targets \X Vars

Init ==
    /\ identity = <<>>
    /\ base = <<>>
    /\ slices = <<>>
    /\ directory = [t \in Targets |-> 0]
    /\ shadowed = {}
    /\ dead = {}
    /\ overlay = <<>>
    /\ byCell = [k \in {} |-> 0]
    /\ byVar = [v \in Vars |-> <<>>]
    /\ byTarget = [t \in Targets |-> <<>>]
    /\ byParam = [p \in Params |-> {}]
    /\ indexed = NotBuilt

-----------------------------------------------------------------------------
(***************************************************************************)
(* Lookups.                                                                *)
(***************************************************************************)
SlicePositions(s) == s.start..(s.start + s.len - 1)
PositionsOf(t) == IF directory[t] = 0 THEN {} ELSE SlicePositions(slices[directory[t]])
Visible(pos) == pos \notin dead /\ pos \notin shadowed

\* base_position: binary search in the target's slice, 0 when there is none
Hits(t, v) == {pos \in PositionsOf(t) : base[pos].var = v /\ Visible(pos)}
BasePosition(t, v) == IF Hits(t, v) = {} THEN 0 ELSE CHOOSE pos \in Hits(t, v) : TRUE

\* for_cell: the overlay decides first, tombstones included
ForCell(t, v) ==
    IF <<t, v>> \in DOMAIN byCell
      THEN LET cell == overlay[byCell[<<t, v>>]]
           IN  IF cell.tombstone THEN NoCell ELSE [id |-> cell.id, value |-> cell.value]
      ELSE LET pos == BasePosition(t, v)
           IN  IF pos = 0 THEN NoCell ELSE [id |-> base[pos].id, value |-> base[pos].value]

\* the numbers of a set in order, as a loop over a vector meets them
Ascending(S) ==
    [n \in 1..Cardinality(S) |-> CHOOSE x \in S : Cardinality({y \in S : y < x}) = n - 1]

SlotHit(oi) ==
    [id |-> overlay[oi].id, target |-> overlay[oi].target, var |-> overlay[oi].var,
     value |-> overlay[oi].value]

\* the live cells a list of overlay slots names, in its order
OverlayHits(list) ==
    LET live == Ascending({n \in 1..Len(list) : ~ overlay[list[n]].tombstone})
    IN  [n \in 1..Len(live) |-> SlotHit(list[live[n]])]

BaseHit(t, pos) ==
    [id |-> base[pos].id, target |-> t, var |-> base[pos].var, value |-> base[pos].value]

\* Fault: the base part of the iteration skips removed cells only.
IterTargetShadowed(t) ==
    LET visible == Ascending({pos \in PositionsOf(t) : pos \notin dead})
    IN  [n \in 1..Len(visible) |-> BaseHit(t, visible[n])] \o OverlayHits(byTarget[t])

\* iter_target: the visible base cells of the slice, then the overlay's
IterTarget(t) ==
    LET visible == Ascending({pos \in PositionsOf(t) : Visible(pos)})
    IN  [n \in 1..Len(visible) |-> BaseHit(t, visible[n])] \o OverlayHits(byTarget[t])

\* for_var on the index as it is: positions the index covers, each mapped back
\* to its target by the slice that holds it, then the overlay's
SliceOf(pos) == CHOOSE s \in {slices[n] : n \in 1..Len(slices)} : pos \in SlicePositions(s)
ForVar(v) ==
    LET covered == Ascending({pos \in 1..indexed : base[pos].var = v /\ Visible(pos)})
    IN  [n \in 1..Len(covered) |-> BaseHit(SliceOf(covered[n]).target, covered[n])]
        \o OverlayHits(byVar[v])

\* Fault: a shadowed cell is counted in the base and in the overlay.
LenLiveTwice ==
    Len(base) + Cardinality({oi \in 1..Len(overlay) : ~ overlay[oi].tombstone})
    - Cardinality(dead)

\* len_live
LenLive ==
    Len(base) + Cardinality({oi \in 1..Len(overlay) : ~ overlay[oi].tombstone})
    - Cardinality(dead) - Cardinality(shadowed)

\* locate
Locate(id) == IF id \in 1..Len(identity) THEN identity[id] ELSE Gone

-----------------------------------------------------------------------------
(***************************************************************************)
(* Mutations.                                                              *)
(***************************************************************************)
Allocate(loc) == identity' = Append(identity, loc)
InPacked(pos) == [place |-> "packed", at |-> pos]
InOverlay(oi) == [place |-> "overlay", at |-> oi]

\* a caller's block: variables "sorted ascending", hence "unique"
SortedBlocks(V) ==
    {s \in UNION {[1..n -> V] : n \in 1..Cardinality(V)} :
        \A i, j \in DOMAIN s : i < j => s[i] < s[j]}

\* build_constant_block, under its caller contract: a fresh target
BuildConstantBlock(t, block, value) ==
    LET n == Len(block)
    IN  /\ directory[t] = 0 /\ byTarget[t] = <<>>
        /\ Len(identity) + n <= MaxIds
        /\ identity' = identity \o
              [k \in 1..n |-> InPacked(Len(base) + k)]
        /\ base' = base \o
              [k \in 1..n |-> [var |-> block[k], value |-> value[k], id |-> Len(identity) + k]]
        /\ slices' = Append(slices, [target |-> t, start |-> Len(base) + 1, len |-> n])
        /\ directory' = [directory EXCEPT ![t] = Len(slices) + 1]
        /\ UNCHANGED <<shadowed, dead, overlayVars, indexed>>

\* Fault: the variable's delta list is forgotten.
PushOverlayUnlisted(cell) ==
    LET oi == Len(overlay) + 1
    IN  /\ overlay' = Append(overlay, cell)
        /\ byCell' = [k \in DOMAIN byCell \union {<<cell.target, cell.var>>} |->
                         IF k = <<cell.target, cell.var>> THEN oi ELSE byCell[k]]
        /\ UNCHANGED byVar
        /\ byTarget' = [byTarget EXCEPT ![cell.target] = Append(@, oi)]

\* a new overlay slot joins the cell map and the variable and target lists
PushOverlay(cell) ==
    LET oi == Len(overlay) + 1
    IN  /\ overlay' = Append(overlay, cell)
        /\ byCell' = [k \in DOMAIN byCell \union {<<cell.target, cell.var>>} |->
                         IF k = <<cell.target, cell.var>> THEN oi ELSE byCell[k]]
        /\ byVar' = [byVar EXCEPT ![cell.var] = Append(@, oi)]
        /\ byTarget' = [byTarget EXCEPT ![cell.target] = Append(@, oi)]

Cell(t, v, id, x, deps, gone) ==
    [target |-> t, var |-> v, id |-> id, value |-> x, deps |-> deps, tombstone |-> gone]

\* index_overlay_cell's parameter lists, for a slot that is in none
IndexParams(oi, deps) ==
    byParam' = [p \in Params |-> IF p \in deps THEN byParam[p] \union {oi} ELSE byParam[p]]

\* Fault: the slot stays in the lists of the replaced expression.
ReindexParamsAddOnly(oi, deps) == IndexParams(oi, deps)

\* reindex_overlay_params: out of every list, into those of the new expression
ReindexParams(oi, deps) ==
    byParam' = [p \in Params |-> IF p \in deps THEN byParam[p] \union {oi} ELSE byParam[p] \ {oi}]

\* update of a cell that is in the overlay, live: its identity is kept
UpdateOverlay(t, v, x, deps) ==
    /\ <<t, v>> \in DOMAIN byCell
    /\ LET oi == byCell[<<t, v>>]
       IN  /\ ~ overlay[oi].tombstone
           /\ overlay' = [overlay EXCEPT ![oi].value = x, ![oi].deps = deps]
           /\ ReindexParams(oi, deps)
    /\ UNCHANGED <<identity, baseVars, shadowed, dead, byCell, byVar, byTarget, indexed>>

\* Fault: the slot is reused under the identity it had.
UpdateTombstoneSameId(t, v, x, deps) ==
    /\ <<t, v>> \in DOMAIN byCell
    /\ LET oi == byCell[<<t, v>>]
       IN  /\ overlay[oi].tombstone
           /\ identity' = [identity EXCEPT ![overlay[oi].id] = InOverlay(oi)]
           /\ overlay' = [overlay EXCEPT ![oi] = Cell(t, v, overlay[oi].id, x, deps, FALSE)]
           /\ ReindexParams(oi, deps)
    /\ UNCHANGED <<baseVars, shadowed, dead, byCell, byVar, byTarget, indexed>>

\* update of a tombstone: the slot is reused under a fresh identity
UpdateTombstone(t, v, x, deps) ==
    /\ <<t, v>> \in DOMAIN byCell
    /\ Len(identity) < MaxIds
    /\ LET oi == byCell[<<t, v>>]
       IN  /\ overlay[oi].tombstone
           /\ Allocate(InOverlay(oi))
           /\ overlay' = [overlay EXCEPT ![oi] = Cell(t, v, Len(identity) + 1, x, deps, FALSE)]
           /\ ReindexParams(oi, deps)
    /\ UNCHANGED <<baseVars, shadowed, dead, byCell, byVar, byTarget, indexed>>

\* update of a packed cell: shadowed, and kept in the overlay under its identity
UpdatePacked(t, v, x, deps) ==
    /\ <<t, v>> \notin DOMAIN byCell
    /\ BasePosition(t, v) # 0
    /\ LET pos == BasePosition(t, v)
           id  == base[pos].id
           oi  == Len(overlay) + 1
       IN  /\ shadowed' = shadowed \union {pos}
           /\ identity' = [identity EXCEPT ![id] = IF @ = Gone THEN Gone ELSE InOverlay(oi)]
           /\ PushOverlay(Cell(t, v, id, x, deps, FALSE))
           /\ IndexParams(oi, deps)
    /\ UNCHANGED <<baseVars, dead, indexed>>

\* update of a cell that does not exist: created in the overlay
UpdateCreate(t, v, x, deps) ==
    /\ <<t, v>> \notin DOMAIN byCell
    /\ BasePosition(t, v) = 0
    /\ Len(identity) < MaxIds
    /\ LET oi == Len(overlay) + 1
       IN  /\ Allocate(InOverlay(oi))
           /\ PushOverlay(Cell(t, v, Len(identity) + 1, x, deps, FALSE))
           /\ IndexParams(oi, deps)
    /\ UNCHANGED <<baseVars, shadowed, dead, indexed>>

\* remove of a live overlay cell: a tombstone, and the identity goes stale
RemoveOverlay(t, v) ==
    /\ <<t, v>> \in DOMAIN byCell
    /\ LET oi == byCell[<<t, v>>]
       IN  /\ ~ overlay[oi].tombstone
           /\ overlay' = [overlay EXCEPT ![oi].tombstone = TRUE]
           /\ identity' = [identity EXCEPT ![overlay[oi].id] = Gone]
    /\ UNCHANGED <<baseVars, shadowed, dead, byCell, byVar, byTarget, byParam, indexed>>

\* Fault: the identity of a removed packed cell keeps resolving.
RemovePackedLive(t, v) ==
    /\ <<t, v>> \notin DOMAIN byCell
    /\ BasePosition(t, v) # 0
    /\ LET pos == BasePosition(t, v)
       IN  /\ dead' = dead \union {pos}
           /\ PushOverlay(Cell(t, v, base[pos].id, 0, {}, TRUE))
    /\ UNCHANGED <<identity, baseVars, shadowed, byParam, indexed>>

\* remove of a packed cell: a dead bit, a stale identity and a tombstone record
RemovePacked(t, v) ==
    /\ <<t, v>> \notin DOMAIN byCell
    /\ BasePosition(t, v) # 0
    /\ LET pos == BasePosition(t, v)
       IN  /\ dead' = dead \union {pos}
           /\ identity' = [identity EXCEPT ![base[pos].id] = Gone]
           /\ PushOverlay(Cell(t, v, base[pos].id, 0, {}, TRUE))
    /\ UNCHANGED <<baseVars, shadowed, byParam, indexed>>

\* for_var's side effect: the index is built once, over the base as it is then
BuildVarIndex ==
    /\ indexed = NotBuilt
    /\ indexed' = Len(base)
    /\ UNCHANGED <<identity, baseVars, shadowed, dead, overlayVars>>

\* every identity of the bound is allocated
Exhausted == Len(identity) = MaxIds /\ UNCHANGED vars

Update(t, v, x, deps) ==
    \/ UpdateOverlay(t, v, x, deps)
    \/ UpdateTombstone(t, v, x, deps)
    \/ UpdatePacked(t, v, x, deps)
    \/ UpdateCreate(t, v, x, deps)

RemoveCell(t, v) == RemoveOverlay(t, v) \/ RemovePacked(t, v)

\* any call, about variables of V and with expressions of E
Calls(V, E) ==
    \/ \E t \in Targets, block \in SortedBlocks(V) :
          \E value \in [DOMAIN block -> Constants(E)] : BuildConstantBlock(t, block, value)
    \/ \E t \in Targets, v \in V, e \in E : Update(t, v, e.value, e.deps)
    \/ \E t \in Targets, v \in V : RemoveCell(t, v)
    \/ BuildVarIndex
    \/ Exhausted

Next == Calls(Vars, Exprs)

Spec == Init /\ [][Next]_vars

-----------------------------------------------------------------------------
(***************************************************************************)
(* Properties.                                                             *)
(***************************************************************************)

LiveKeys == {k \in Keys : ForCell(k[1], k[2]) # NoCell}
Hit(k) == LET cell == ForCell(k[1], k[2])
          IN  [id |-> cell.id, target |-> k[1], var |-> k[2], value |-> cell.value]

\* hits is a listing of the live cells with keys in ks: each of them once
Lists(hits, ks) == /\ Len(hits) = Cardinality(ks)
                   /\ ToSet(hits) = {Hit(k) : k \in ks}

\* Target iteration and the cell lookup agree: iter_target yields each live
\* cell of the target exactly once, shadowed, dead and re-added cells included.
TargetViewAgrees ==
    \A t \in Targets : Lists(IterTarget(t), {k \in LiveKeys : k[1] = t})

\* "CoeffId + generation semantics ... are preserved exactly": a live cell's
\* identity resolves to where its data is, two cells never share one, and
\* every other identity ever handed out is stale.
IdentityAgrees ==
    LET ids == {ForCell(k[1], k[2]).id : k \in LiveKeys}
    IN  /\ Cardinality(ids) = Cardinality(LiveKeys)
        /\ \A id \in 1..Len(identity) : id \in ids <=> Locate(id) # Gone
        /\ \A k \in LiveKeys :
              LET cell == ForCell(k[1], k[2])
                  loc  == Locate(cell.id)
              IN  IF k \in DOMAIN byCell
                    THEN loc = InOverlay(byCell[k])
                    ELSE /\ loc.place = "packed"
                         /\ base[loc.at].id = cell.id /\ base[loc.at].var = k[2]

\* len_live's arithmetic over vectors and bitsets counts the live cells: no
\* position is subtracted twice, no tombstone counted.
LenLiveExact == LenLive = Cardinality(LiveKeys)

\* A live overlay cell is in the list of exactly the parameters its current
\* expression depends on (tombstones may linger in theirs).
ParamListsExact ==
    \A oi \in 1..Len(overlay) : ~ overlay[oi].tombstone =>
        \A p \in Params : oi \in byParam[p] <=> p \in overlay[oi].deps

\* for_var agrees with the cell lookup as long as no block is built after the
\* index: overlay mutations maintain their delta lists.
VarViewAgreesWhenIndexed ==
    indexed = Len(base) =>
        \A v \in Vars : Lists(ForVar(v), {k \in LiveKeys : k[2] = v})

(***************************************************************************)
(* The inductive invariant behind identities, parameter lists and counts   *)
(* (proved in StoreProtoProofs).                                           *)
(***************************************************************************)
BaseCells    == [var : Vars, value : Int, id : Nat]
OverlayCells == [target : Targets, var : Vars, id : Nat, value : Int, deps : SUBSET Params,
                 tombstone : BOOLEAN]
TargetSlices == [target : Targets, start : Nat, len : Nat]

TypeOK ==
    /\ base \in Seq(BaseCells) /\ overlay \in Seq(OverlayCells)
    /\ slices \in Seq(TargetSlices) /\ directory \in [Targets -> Nat]
    /\ identity \in Seq([place : {"none", "packed", "overlay"}, at : Nat])
    /\ byVar \in [Vars -> Seq(Nat)] /\ byTarget \in [Targets -> Seq(Nat)]
    /\ byParam \in [Params -> SUBSET (1..Len(overlay))]
    /\ indexed \in Nat \union {NotBuilt}

\* Each position is of one target's slice, which has a variable once.
SliceInv ==
    /\ \A t \in Targets : directory[t] \in 0..Len(slices) /\ PositionsOf(t) \subseteq 1..Len(base)
    /\ \A pos \in 1..Len(base) : \E t \in Targets : pos \in PositionsOf(t)
    /\ \A t, u \in Targets : t # u => PositionsOf(t) \cap PositionsOf(u) = {}
    /\ \A t \in Targets : \A p, q \in PositionsOf(t) : base[p].var = base[q].var => p = q

OverlayKey(oi) == <<overlay[oi].target, overlay[oi].var>>
LiveSlot(oi)   == ~ overlay[oi].tombstone

\* The cell map is a bijection between its keys and the overlay's slots.
OverlayInv ==
    /\ DOMAIN byCell \subseteq Keys
    /\ \A k \in DOMAIN byCell : byCell[k] \in 1..Len(overlay) /\ OverlayKey(byCell[k]) = k
    /\ \A oi \in 1..Len(overlay) :
          /\ OverlayKey(oi) \in DOMAIN byCell /\ byCell[OverlayKey(oi)] = oi
          /\ byTarget[overlay[oi].target] # <<>>

\* A position is hidden by one bitset exactly when the overlay has its cell.
BitInv ==
    /\ dead \subseteq 1..Len(base) /\ shadowed \subseteq 1..Len(base)
    /\ dead \cap shadowed = {}
    /\ \A t \in Targets : \A pos \in PositionsOf(t) :
          Visible(pos) <=> <<t, base[pos].var>> \notin DOMAIN byCell

\* An identity is stale, or resolves to live data that carries it.
Resolves(id) ==
    LET loc == identity[id]
    IN  \/ loc = Gone
        \/ loc = InPacked(loc.at) /\ loc.at \in 1..Len(base)
           /\ Visible(loc.at) /\ base[loc.at].id = id
        \/ loc = InOverlay(loc.at) /\ loc.at \in 1..Len(overlay)
           /\ LiveSlot(loc.at) /\ overlay[loc.at].id = id

\* Live data and identities point at each other.
IdInv ==
    /\ \A pos \in 1..Len(base) : Visible(pos) =>
          base[pos].id \in 1..Len(identity) /\ identity[base[pos].id] = InPacked(pos)
    /\ \A oi \in 1..Len(overlay) : LiveSlot(oi) =>
          overlay[oi].id \in 1..Len(identity) /\ identity[overlay[oi].id] = InOverlay(oi)
    /\ \A id \in 1..Len(identity) : Resolves(id)

IInv == TypeOK /\ SliceInv /\ OverlayInv /\ BitInv /\ IdInv /\ ParamListsExact

(***************************************************************************)
(* What the two iterations rest on besides IInv.                           *)
(***************************************************************************)
\* A target's and a variable's list names the slots that are its own, once each.
NamesOnce(list, slots) ==
    /\ \A n \in 1..Len(list) : list[n] \in slots
    /\ \A oi \in slots : \E n \in 1..Len(list) : list[n] = oi
    /\ \A m, n \in 1..Len(list) : list[m] = list[n] => m = n
ListInv ==
    /\ \A t \in Targets : NamesOnce(byTarget[t], {oi \in 1..Len(overlay) : overlay[oi].target = t})
    /\ \A v \in Vars : NamesOnce(byVar[v], {oi \in 1..Len(overlay) : overlay[oi].var = v})

\* A slice is the one of its target in the directory.
DirectoryInv ==
    /\ \A n \in 1..Len(slices) : directory[slices[n].target] = n
    /\ \A t \in Targets : directory[t] # 0 => slices[directory[t]].target = t

\* What a caller of for_cell sees, for module CoeffStore.
Cells  == [k \in LiveKeys |-> ForCell(k[1], k[2])]
Minted == Len(identity)
=============================================================================
