---------------------------- MODULE PopulateProofs ----------------------------
(***************************************************************************)
(* Proofs about Populate for every size of a point, every number of        *)
(* periods and every width of a row.                                       *)
(***************************************************************************)
EXTENDS Populate, FiniteSetTheorems, SequenceTheorems, WellFoundedInduction, TLAPS

-----------------------------------------------------------------------------
(***************************************************************************)
(* What a child has built so far: of each phase that it has run, what its  *)
(* builder adds in it.                                                     *)
(***************************************************************************)
AllPhases == {"variables", "parameters", "constraints", "objective", "update"}

\* what may be left of an arm's phases
Left(a) ==
    IF "param_bess" \in Offers(a)
      THEN {<<"variables", "parameters", "objective">>, <<"parameters", "objective">>,
            <<"objective">>, <<>>}
    ELSE IF a = "forensic_probe"
      THEN {<<"variables", "parameters", "constraints", "objective">>,
            <<"parameters", "constraints", "objective">>, <<"constraints", "objective">>,
            <<"objective">>, <<>>}
    ELSE IF a \in Retaining
      THEN {<<"variables", "parameters", "constraints", "objective", "update">>,
            <<"parameters", "constraints", "objective", "update">>,
            <<"constraints", "objective", "update">>, <<"objective", "update">>, <<"update">>, <<>>}
    ELSE {<<"variables", "constraints", "objective">>, <<"constraints", "objective">>,
          <<"objective">>, <<>>}

Pending(phase) == \E n \in DOMAIN todo : todo[n] = phase

ChildInv ==
    /\ point \in Points
    /\ status \in {"idle", "building", "ok", "error"}
    /\ status # "idle" => /\ arm \in Arms /\ point.workload \in Offers(arm)
                          /\ point.variant # "canonical" => arm \in VariantArms
    /\ model = Model(model.columns, model.rows, model.objective, model.sense, model.params)
    /\ status \in {"building", "ok"} => todo \in Left(arm)
    /\ status = "ok" => todo = <<>>

\* the arms whose parameters change after the objective is there
Revised(a) == a \in Retaining \/ a = "forensic_probe"

InstalledInv ==
    status \in {"building", "ok"} =>
        /\ ~ Pending("variables") => model.columns = Built.columns
        /\ "param_bess" \in Offers(arm) => model.rows = <<>>
        /\ "param_bess" \notin Offers(arm) /\ ~ Pending("constraints") => model.rows = Built.rows
        /\ ~ Pending("objective") => model.objective = Built.objective /\ model.sense = Built.sense
        /\ ~ Pending("objective") /\ ~ Revised(arm) => model.params = Built.params

\* The steps that belong to one child leave its builder alone.
LEMMA SameBuilder == UNCHANGED <<point, arm, csr, cycle>> => Built' = Built
  BY DEF Built

LEMMA PhasesAreLeft == \A a : Phases(a) \in Left(a)
  BY DEF Phases, Left

LEMMA ChildInit == Init => ChildInv /\ InstalledInv
  BY DEF Init, ChildInv, InstalledInv, Empty, Model

LEMMA PrepareChild ==
    ASSUME ChildInv, NEW a \in Arms, Prepare(a)
    PROVE  ChildInv' /\ InstalledInv'
  <1>1. todo' \in Left(a)
    BY PhasesAreLeft DEF Prepare
  <1>2. ChildInv'
    BY <1>1 DEF ChildInv, Prepare, Empty, Model
  <1>3. /\ \E n \in DOMAIN Phases(a) : Phases(a)[n] = "variables"
        /\ \E n \in DOMAIN Phases(a) : Phases(a)[n] = "objective"
        /\ "param_bess" \in Offers(a) \/ \E n \in DOMAIN Phases(a) : Phases(a)[n] = "constraints"
    <2>1. "param_bess" \in Offers(a) => Phases(a) = <<"variables", "parameters", "objective">>
      BY DEF Phases
    <2>2. "param_bess" \notin Offers(a) =>
            \/ Phases(a) = <<"variables", "parameters", "constraints", "objective">>
            \/ Phases(a) = <<"variables", "parameters", "constraints", "objective", "update">>
            \/ Phases(a) = <<"variables", "constraints", "objective">>
      BY DEF Phases
    <2> HIDE DEF Phases
    <2>3. CASE "param_bess" \in Offers(a)
      <3>1. 1 \in DOMAIN Phases(a) /\ 3 \in DOMAIN Phases(a)
            /\ Phases(a)[1] = "variables" /\ Phases(a)[3] = "objective"
        BY <2>1, <2>3
      <3> QED
        BY <2>3, <3>1
    <2>4. CASE Phases(a) = <<"variables", "parameters", "constraints", "objective">>
      <3>1. /\ {1, 3, 4} \subseteq DOMAIN Phases(a) /\ Phases(a)[1] = "variables"
            /\ Phases(a)[3] = "constraints" /\ Phases(a)[4] = "objective"
        BY <2>4
      <3> QED
        BY <3>1
    <2>5. CASE Phases(a) = <<"variables", "parameters", "constraints", "objective", "update">>
      <3>1. /\ {1, 3, 4} \subseteq DOMAIN Phases(a) /\ Phases(a)[1] = "variables"
            /\ Phases(a)[3] = "constraints" /\ Phases(a)[4] = "objective"
        BY <2>5
      <3> QED
        BY <3>1
    <2>6. CASE Phases(a) = <<"variables", "constraints", "objective">>
      <3>1. /\ {1, 2, 3} \subseteq DOMAIN Phases(a) /\ Phases(a)[1] = "variables"
            /\ Phases(a)[2] = "constraints" /\ Phases(a)[3] = "objective"
        BY <2>6
      <3> QED
        BY <3>1
    <2> QED
      BY <2>2, <2>3, <2>4, <2>5, <2>6
  <1>4. arm' = a /\ todo' = Phases(a) /\ model' = Empty
    BY DEF Prepare
  <1>5. Pending("variables")' /\ Pending("objective")'
        /\ ("param_bess" \in Offers(a) \/ Pending("constraints")')
    BY <1>3, <1>4 DEF Pending
  <1>6. model'.rows = <<>>
    BY <1>4 DEF Empty, Model
  <1> QED
    BY <1>2, <1>4, <1>5, <1>6 DEF InstalledInv

\* One phase: what is left of the phases, and what it adds.
LEMMA OnePhase ==
    ASSUME NEW a, todo \in Left(a), todo # <<>>
    PROVE  /\ Tail(todo) \in Left(a) /\ Head(todo) \in AllPhases
           /\ \A phase : Pending(phase) => phase = Head(todo) \/ \E n \in DOMAIN Tail(todo) : Tail(todo)[n] = phase
           /\ \A phase : (\E n \in DOMAIN Tail(todo) : Tail(todo)[n] = phase) => Pending(phase)
  <1>1. Tail(todo) \in Left(a) /\ Head(todo) \in AllPhases /\ todo \in Seq(AllPhases)
    <2>1. CASE "param_bess" \in Offers(a)
      <3>1. \/ todo = <<"variables", "parameters", "objective">>
            \/ todo = <<"parameters", "objective">>
            \/ todo = <<"objective">>
        BY <2>1 DEF Left
      <3>2. /\ todo \in Seq(AllPhases) /\ Head(todo) \in AllPhases
            /\ Tail(todo) \in {<<"parameters", "objective">>, <<"objective">>, <<>>}
        <4>1. CASE todo = <<"variables", "parameters", "objective">>
          BY <4>1 DEF AllPhases
        <4>2. CASE todo = <<"parameters", "objective">>
          BY <4>2 DEF AllPhases
        <4>3. CASE todo = <<"objective">>
          BY <4>3 DEF AllPhases
        <4> QED
          BY <3>1, <4>1, <4>2, <4>3
      <3> QED
        BY <2>1, <3>2 DEF Left
    <2>2. CASE "param_bess" \notin Offers(a) /\ a = "forensic_probe"
      <3>1. \/ todo = <<"variables", "parameters", "constraints", "objective">>
            \/ todo = <<"parameters", "constraints", "objective">>
            \/ todo = <<"constraints", "objective">>
            \/ todo = <<"objective">>
        BY <2>2 DEF Left
      <3>2. /\ todo \in Seq(AllPhases) /\ Head(todo) \in AllPhases
            /\ Tail(todo) \in {<<"parameters", "constraints", "objective">>,
                               <<"constraints", "objective">>, <<"objective">>, <<>>}
        <4>1. CASE todo = <<"variables", "parameters", "constraints", "objective">>
          BY <4>1 DEF AllPhases
        <4>2. CASE todo = <<"parameters", "constraints", "objective">>
          BY <4>2 DEF AllPhases
        <4>3. CASE todo = <<"constraints", "objective">>
          BY <4>3 DEF AllPhases
        <4>4. CASE todo = <<"objective">>
          BY <4>4 DEF AllPhases
        <4> QED
          BY <3>1, <4>1, <4>2, <4>3, <4>4
      <3> QED
        BY <2>2, <3>2 DEF Left
    <2>3. CASE "param_bess" \notin Offers(a) /\ a # "forensic_probe" /\ a \in Retaining
      <3>1. \/ todo = <<"variables", "parameters", "constraints", "objective", "update">>
            \/ todo = <<"parameters", "constraints", "objective", "update">>
            \/ todo = <<"constraints", "objective", "update">>
            \/ todo = <<"objective", "update">>
            \/ todo = <<"update">>
        BY <2>3 DEF Left
      <3>2. /\ todo \in Seq(AllPhases) /\ Head(todo) \in AllPhases
            /\ Tail(todo) \in {<<"parameters", "constraints", "objective", "update">>,
                               <<"constraints", "objective", "update">>, <<"objective", "update">>,
                               <<"update">>, <<>>}
        <4>1. CASE todo = <<"variables", "parameters", "constraints", "objective", "update">>
          BY <4>1 DEF AllPhases
        <4>2. CASE todo = <<"parameters", "constraints", "objective", "update">>
          BY <4>2 DEF AllPhases
        <4>3. CASE todo = <<"constraints", "objective", "update">>
          BY <4>3 DEF AllPhases
        <4>4. CASE todo = <<"objective", "update">>
          BY <4>4 DEF AllPhases
        <4>5. CASE todo = <<"update">>
          BY <4>5 DEF AllPhases
        <4> QED
          BY <3>1, <4>1, <4>2, <4>3, <4>4, <4>5
      <3> QED
        BY <2>3, <3>2 DEF Left
    <2>4. CASE "param_bess" \notin Offers(a) /\ a # "forensic_probe" /\ a \notin Retaining
      <3>1. \/ todo = <<"variables", "constraints", "objective">>
            \/ todo = <<"constraints", "objective">>
            \/ todo = <<"objective">>
        BY <2>4 DEF Left
      <3>2. /\ todo \in Seq(AllPhases) /\ Head(todo) \in AllPhases
            /\ Tail(todo) \in {<<"constraints", "objective">>, <<"objective">>, <<>>}
        <4>1. CASE todo = <<"variables", "constraints", "objective">>
          BY <4>1 DEF AllPhases
        <4>2. CASE todo = <<"constraints", "objective">>
          BY <4>2 DEF AllPhases
        <4>3. CASE todo = <<"objective">>
          BY <4>3 DEF AllPhases
        <4> QED
          BY <3>1, <4>1, <4>2, <4>3
      <3> QED
        BY <2>4, <3>2 DEF Left
    <2> QED
      BY <2>1, <2>2, <2>3, <2>4
  <1>2. todo \in Seq(AllPhases)
    BY <1>1
  <1>3. Len(todo) \in Nat /\ DOMAIN todo = 1..Len(todo) /\ Len(todo) # 0
    BY <1>2
  <1>4. /\ Head(todo) = todo[1] /\ DOMAIN Tail(todo) = 1..(Len(todo) - 1)
        /\ \A n \in 1..(Len(todo) - 1) : Tail(todo)[n] = todo[n + 1]
    BY <1>2, <1>3
  <1>5. ASSUME NEW phase, Pending(phase)
        PROVE  phase = Head(todo) \/ \E n \in DOMAIN Tail(todo) : Tail(todo)[n] = phase
    <2>1. PICK n \in DOMAIN todo : todo[n] = phase
      BY <1>5 DEF Pending
    <2>2. CASE n = 1
      BY <1>4, <2>1, <2>2
    <2>3. CASE n # 1
      <3>1. n - 1 \in 1..(Len(todo) - 1) /\ (n - 1) + 1 = n
        BY <1>3, <2>1, <2>3
      <3> QED
        BY <1>4, <2>1, <3>1
    <2> QED
      BY <2>2, <2>3
  <1>6. ASSUME NEW phase, NEW n \in DOMAIN Tail(todo), Tail(todo)[n] = phase
        PROVE  Pending(phase)
    <2>1. n + 1 \in DOMAIN todo /\ todo[n + 1] = phase
      BY <1>3, <1>4, <1>6
    <2> QED
      BY <2>1 DEF Pending
  <1> QED
    BY <1>1, <1>5, <1>6

\* After a phase only the later ones are pending.
LEMMA PendingAfter ==
    ASSUME NEW a, todo \in Left(a), todo # <<>>, todo' = Tail(todo), NEW phase
    PROVE  Pending(phase) => Pending(phase)' \/ phase = Head(todo)
  BY OnePhase DEF Pending

\* No phase but its own changes a part of the model.
LEMMA PhaseInstalls ==
    ASSUME model = Model(model.columns, model.rows, model.objective, model.sense, model.params),
           NEW phase \in AllPhases
    PROVE  LET m == Install(phase)
           IN  /\ m = Model(m.columns, m.rows, m.objective, m.sense, m.params)
               /\ m.columns = IF phase = "variables" THEN Built.columns ELSE model.columns
               /\ m.rows = IF phase = "constraints" THEN Built.rows ELSE model.rows
               /\ m.objective = IF phase = "objective" THEN Built.objective ELSE model.objective
               /\ m.sense = IF phase = "objective" THEN Built.sense ELSE model.sense
               /\ m.params = IF phase \in {"parameters", "objective"} THEN Built.params
                             ELSE IF phase = "update" THEN Updated(point.size, cycle, model.params)
                             ELSE model.params
  BY DEF Install, Model, AllPhases

LEMMA NoRowsWithParam ==
    ASSUME NEW a, "param_bess" \in Offers(a), todo \in Left(a), todo # <<>>
    PROVE  Head(todo) # "constraints"
  BY DEF Left

LEMMA UpdatesAreOfRetaining ==
    ASSUME NEW a, todo \in Left(a), todo # <<>>, Head(todo) = "update"
    PROVE  Revised(a)
  BY DEF Left, Revised

LEMMA RunPhaseChild ==
    ASSUME ChildInv, InstalledInv, RunPhase
    PROVE  ChildInv' /\ InstalledInv'
  <1> DEFINE ph == Head(todo)
  <1>1. todo \in Left(arm) /\ todo # <<>> /\ todo' = Tail(todo) /\ model' = Install(ph)
        /\ status = "building" /\ status' = status /\ arm' = arm /\ point' = point
    BY DEF ChildInv, RunPhase
  <1>2. Tail(todo) \in Left(arm) /\ ph \in AllPhases
    BY <1>1, OnePhase
  <1>3. Built' = Built
    BY SameBuilder DEF RunPhase
  <1>4. /\ model' = Model(model'.columns, model'.rows, model'.objective, model'.sense, model'.params)
        /\ model'.columns = IF ph = "variables" THEN Built.columns ELSE model.columns
        /\ model'.rows = IF ph = "constraints" THEN Built.rows ELSE model.rows
        /\ model'.objective = IF ph = "objective" THEN Built.objective ELSE model.objective
        /\ model'.sense = IF ph = "objective" THEN Built.sense ELSE model.sense
        /\ ph = "objective" => model'.params = Built.params
        /\ ph = "parameters" => model'.params = Built.params
        /\ ph \notin {"objective", "parameters", "update"} => model'.params = model.params
    BY <1>1, <1>2, PhaseInstalls DEF ChildInv
  <1>5. ChildInv'
    BY <1>1, <1>2, <1>4 DEF ChildInv
  <1>6. \A phase : Pending(phase) => Pending(phase)' \/ phase = ph
    BY <1>1, PendingAfter
  <1>7. "param_bess" \in Offers(arm) => ph # "constraints"
    BY <1>1, NoRowsWithParam
  <1>8. ph = "update" => Revised(arm)
    BY <1>1, UpdatesAreOfRetaining
  <1> HIDE DEF ph
  <1>9. ~ Pending("objective")' /\ ~ Revised(arm) => model'.params = Built.params
    BY <1>1, <1>4, <1>6, <1>8 DEF InstalledInv
  <1> QED
    BY <1>1, <1>3, <1>4, <1>5, <1>6, <1>7, <1>9 DEF InstalledInv

LEMMA OtherSteps ==
    ASSUME ChildInv, InstalledInv, PhaseRaises \/ Report \/ RaisePrices \/ NextChild \/ UNCHANGED vars
    PROVE  ChildInv' /\ InstalledInv'
  <1>1. CASE PhaseRaises
    <2>1. status' = "error"
      BY <1>1 DEF PhaseRaises
    <2> QED
      BY <1>1, <2>1 DEF ChildInv, InstalledInv, PhaseRaises
  <1>2. CASE Report
    <2>1. Built' = Built
      BY <1>2, SameBuilder DEF Report
    <2>2. \A phase : Pending(phase)' <=> Pending(phase)
      BY <1>2 DEF Report, Pending
    <2> QED
      BY <1>2, <2>1, <2>2 DEF ChildInv, InstalledInv, Report
  <1>3. CASE RaisePrices
    <2>1. Built' = Built
      BY <1>3, SameBuilder DEF RaisePrices
    <2>2. \A phase : Pending(phase)' <=> Pending(phase)
      BY <1>3 DEF RaisePrices, Pending
    <2>3. /\ model'.columns = model.columns /\ model'.rows = model.rows
          /\ model'.objective = model.objective /\ model'.sense = model.sense
          /\ model' = Model(model'.columns, model'.rows, model'.objective, model'.sense, model'.params)
      BY <1>3 DEF ChildInv, RaisePrices, Model
    <2>4. ChildInv'
      BY <1>3, <2>3 DEF ChildInv, RaisePrices
    <2>5. Revised(arm) /\ UNCHANGED <<point, arm, status>>
      BY <1>3 DEF RaisePrices, Revised
    <2> QED
      BY <2>1, <2>2, <2>3, <2>4, <2>5 DEF InstalledInv
  <1>4. CASE NextChild
    BY <1>4 DEF ChildInv, InstalledInv, NextChild, Empty, Model
  <1>5. CASE UNCHANGED vars
    <2>1. Built' = Built
      BY <1>5, SameBuilder DEF vars
    <2>2. \A phase : Pending(phase)' <=> Pending(phase)
      BY <1>5 DEF vars, Pending
    <2> QED
      BY <1>5, <2>1, <2>2 DEF ChildInv, InstalledInv, vars
  <1> QED
    BY <1>1, <1>2, <1>3, <1>4, <1>5

\* Only the arms of persist_bench have a next cycle; those that keep their model
\* have built it for every forecast.
LEMMA PlanningPoint ==
    ASSUME NEW a \in Arms, "planning" \in Offers(a)
    PROVE  a \in PlanningArms /\ "param_bess" \notin Offers(a) /\ a # "forensic_probe"
  BY DEF Arms, Offers, PlanningArms

LEMMA NextCycleChild ==
    ASSUME ChildInv, InstalledInv, NextCycle
    PROVE  ChildInv' /\ InstalledInv'
  <1>1. /\ status = "ok" /\ status' = "building" /\ point.workload = "planning"
        /\ arm' = arm /\ point' = point /\ arm \in Arms /\ todo = <<>>
    BY DEF NextCycle, ChildInv
  <1>2. arm \in PlanningArms /\ "param_bess" \notin Offers(arm) /\ arm # "forensic_probe"
    BY <1>1, PlanningPoint DEF ChildInv
  <1>3. CASE arm \in Retaining
    <2>1. todo' = <<"update">> /\ model' = model
      BY <1>3 DEF NextCycle
    <2>2. todo' \in Left(arm)
      BY <1>2, <1>3, <2>1 DEF Left
    <2>3. Built' = Built
      <3>1. Built = PlanOf(arm, point.size, cycle) /\ Built' = PlanOf(arm, point.size, cycle')
        <4>1. /\ Built = CASE point.workload = "planning" -> PlanOf(arm, point.size, cycle)
              /\ Built' = CASE point.workload = "planning" -> PlanOf(arm, point.size, cycle')
          BY <1>1 DEF Built
        <4> QED
          BY <1>1, <4>1
      <3>2. arm # "pyomo_rebuild" /\ arm # "pulp_rebuild"
        BY <1>3 DEF Retaining
      <3>3. \A k : PlanOf(arm, point.size, k) = PlanBuild(point.size)
        BY <1>3, <3>2 DEF PlanOf
      <3> QED
        BY <3>1, <3>3
    <2>4. \A phase : ~ Pending(phase)
      BY <1>1 DEF Pending
    <2>5. ChildInv'
      BY <1>1, <2>1, <2>2 DEF ChildInv
    <2> QED
      BY <1>1, <1>2, <2>1, <2>3, <2>4, <2>5 DEF InstalledInv
  <1>4. CASE arm \notin Retaining
    <2>1. todo' = Phases(arm) /\ model' = Empty
      BY <1>4 DEF NextCycle
    <2>2. todo' = <<"variables", "constraints", "objective">>
      BY <1>2, <1>4, <2>1 DEF Phases
    <2>3. todo' \in Left(arm)
      BY <2>1, PhasesAreLeft
    <2>4. ChildInv'
      BY <1>1, <2>1, <2>3 DEF ChildInv, Empty, Model
    <2>5. /\ {1, 2, 3} \subseteq DOMAIN todo' /\ todo'[1] = "variables"
          /\ todo'[2] = "constraints" /\ todo'[3] = "objective"
      BY <2>2
    <2>6. Pending("variables")' /\ Pending("constraints")' /\ Pending("objective")'
      BY <2>5 DEF Pending
    <2> QED
      BY <1>1, <1>2, <2>4, <2>6 DEF InstalledInv
  <1> QED
    BY <1>3, <1>4

THEOREM BuildInvariance == Spec => [](ChildInv /\ InstalledInv)
  <1>1. ChildInv /\ InstalledInv /\ [Next]_vars => (ChildInv /\ InstalledInv)'
    BY PrepareChild, RunPhaseChild, OtherSteps, NextCycleChild DEF Next
  <1> QED
    BY <1>1, ChildInit, PTL DEF Spec

-----------------------------------------------------------------------------
(***************************************************************************)
(* The layout of build_param_bess_bulk.                                    *)
(***************************************************************************)
LEMMA SizeOfPoint == ChildInv => point.size \in Nat \ {0} /\ T \in Nat \ {0}
  BY PointsAssumption, WorkloadAssumption DEF ChildInv, PointsAssumption, WorkloadAssumption, T

\* f is a sequence of m items.
Items(f, m) == f = [k \in 1..m |-> f[k]]

\* h is f and then g.
Join(h, f, m, g, n) ==
    /\ Items(h, m + n) /\ DOMAIN h = 1..(m + n) /\ Len(h) = m + n
    /\ \A k \in 1..m : h[k] = f[k]
    /\ \A k \in 1..n : h[m + k] = g[k]
    /\ \A k \in (m + 1)..(m + n) : h[k] = g[k - m]

LEMMA Joined ==
    ASSUME NEW m \in Nat, NEW n \in Nat, NEW f, NEW g, Items(f, m), Items(g, n)
    PROVE  Join(f \o g, f, m, g, n)
  <1> DEFINE h == f \o g
  <1> DEFINE S == {f[k] : k \in 1..m} \cup {g[k] : k \in 1..n}
  <1>1. f \in Seq(S) /\ g \in Seq(S) /\ Len(f) = m /\ Len(g) = n
    <2>1. f \in [1..m -> S] /\ g \in [1..n -> S]
      BY DEF Items
    <2> HIDE DEF S
    <2> QED
      BY <2>1, SeqDef
  <1> HIDE DEF S
  <1>2. /\ f \o g \in Seq(S) /\ Len(f \o g) = m + n
        /\ \A k \in 1..(m + n) : (f \o g)[k] = IF k <= m THEN f[k] ELSE g[k - m]
    BY <1>1, ConcatProperties
  <1>3. \A k \in 1..(m + n) : h[k] = IF k <= m THEN f[k] ELSE g[k - m]
    BY <1>2
  <1>4. DOMAIN h = 1..(m + n) /\ Len(h) = m + n /\ h \in Seq(S)
    BY <1>2, LenProperties
  <1>5. Items(h, m + n)
    BY <1>4, SeqDef DEF Items
  <1>6. \A k \in 1..n : m + k \in 1..(m + n) /\ ~ (m + k <= m) /\ (m + k) - m = k
    OBVIOUS
  <1>7. \A k \in (m + 1)..(m + n) : k \in 1..(m + n) /\ ~ (k <= m)
    OBVIOUS
  <1>8. \A k \in 1..m : k \in 1..(m + n) /\ k <= m
    OBVIOUS
  <1> HIDE DEF h
  <1>9. Join(h, f, m, g, n)
    BY <1>3, <1>4, <1>5, <1>6, <1>7, <1>8 DEF Join
  <1> QED
    BY <1>9 DEF h

\* The first m terms are the charges', the others the discharges'.
ChargesThenDischarges(o, m) ==
    /\ DOMAIN o = 1..(m + m)
    /\ \A i \in 1..m : o[i].coef = -1 /\ o[i].param = i
    /\ \A i \in (m + 1)..(m + m) : o[i].coef = 1 /\ o[i].param = i - m

LEMMA BulkParamTerms ==
    ASSUME NEW b \in Nat \ {0}
    PROVE  b * T \in Nat /\ ChargesThenDischarges(BuildParamBessBulk(b).objective, b * T)
  <1> DEFINE m == b * T
             o == BuildParamBessBulk(b).objective
             charge == Handles(ParamColumns(b), "charge")
             discharge == Handles(ParamColumns(b), "discharge")
             first == [k \in 1..m |-> [col |-> charge[k - 1], coef |-> -1, param |-> k - 1 + 1]]
             second == [k \in 1..m |-> [col |-> discharge[k - 1], coef |-> 1, param |-> k - 1 + 1]]
  <1>1. m \in Nat
    BY WorkloadAssumption DEF WorkloadAssumption, T
  <1>2. o = first \o second
    BY DEF BuildParamBessBulk, Model, For
  <1> HIDE DEF m, o
  <1>3. Items(first, m) /\ Items(second, m)
    BY <1>1 DEF Items
  <1>4. /\ \A i \in 1..m : first[i].coef = -1 /\ first[i].param = i
        /\ \A i \in 1..m : second[i].coef = 1 /\ second[i].param = i
    BY <1>1
  <1> HIDE DEF first, second
  <1>j. Join(o, first, m, second, m)
    BY <1>1, <1>2, <1>3, Joined
  <1>5. /\ DOMAIN o = 1..(m + m)
        /\ \A i \in 1..m : o[i] = first[i]
        /\ \A i \in (m + 1)..(m + m) : o[i] = second[i - m]
    BY <1>j DEF Join
  <1>6. \A i \in (m + 1)..(m + m) : i - m \in 1..m
    BY <1>1
  <1>7. ChargesThenDischarges(o, m)
    BY <1>4, <1>5, <1>6 DEF ChargesThenDischarges
  <1> QED
    BY <1>1, <1>7 DEF m, o

\* The layout that build_param_bess_bulk hands over is a true witness of its
\* cells, for every number of batteries and of periods.
THEOREM LayoutWitnessIsAlwaysTrue == Spec => []LayoutWitnessIsTrue
  <1>1. ASSUME ChildInv, InstalledInv PROVE LayoutWitnessIsTrue
    <2> SUFFICES ASSUME status = "ok", arm = "roml_core_bulk_param" PROVE LayoutWitnessIsTrue
      BY DEF LayoutWitnessIsTrue
    <2> DEFINE b == point.size
               m == b * T
               low == [offset |-> 0, length |-> m, scale |-> -1]
               high == [offset |-> m, length |-> m, scale |-> 1]
    <2>1. b \in Nat \ {0} /\ T \in Nat \ {0}
      BY <1>1, SizeOfPoint
    <2>2. point.workload = "param_bess"
      <3>1. "roml_core_bulk_param" \notin PlanningArms
        BY DEF PlanningArms
      <3> QED
        BY <1>1, <3>1 DEF ChildInv, Offers
    <2>3. Built = BuildParamBessBulk(b)
      <3>1. Built = ParamOf(arm, b)
        BY <2>2 DEF Built
      <3> QED
        BY <3>1 DEF ParamOf
    <2>4. model.objective = BuildParamBessBulk(b).objective
      <3>1. ~ Pending("objective")
        BY <1>1 DEF ChildInv, Pending
      <3> QED
        BY <1>1, <2>3, <3>1 DEF InstalledInv
    <2>m. m = b * T
      OBVIOUS
    <2>6. ParamLayout(b) = {low, high}
      BY DEF ParamLayout
    <2> HIDE DEF m
    <2>5. m \in Nat /\ ChargesThenDischarges(model.objective, m)
      BY <2>1, <2>4, <2>m, BulkParamTerms
    <2> USE DEF ChargesThenDischarges
    <2>7. ASSUME NEW i \in 1..(m + m)
          PROVE  \E holder \in {low, high} :
                    /\ {block \in {low, high} : i > block.offset /\ i <= block.offset + block.length} = {holder}
                    /\ model.objective[i].coef = holder.scale
                    /\ model.objective[i].param = i - holder.offset
      <3>1. CASE i <= m
        <4>1. {block \in {low, high} : i > block.offset /\ i <= block.offset + block.length} = {low}
          BY <2>5, <3>1
        <4>2. i \in 1..m /\ i - low.offset = i
          BY <2>5, <3>1
        <4> QED
          BY <2>5, <4>1, <4>2
      <3>2. CASE i > m
        <4>1. {block \in {low, high} : i > block.offset /\ i <= block.offset + block.length} = {high}
          BY <2>5, <3>2
        <4>2. i \in (m + 1)..(2 * m)
          BY <2>5, <3>2
        <4> QED
          BY <2>5, <4>1, <4>2
      <3> QED
        BY <2>5, <3>1, <3>2
    <2> HIDE DEF low, high
    <2>8. ASSUME NEW i \in 1..(m + m),
                 NEW holding, holding = {block \in {low, high} : i > block.offset /\ i <= block.offset + block.length}
          PROVE  /\ Cardinality(holding) = 1
                 /\ \A block \in holding : /\ model.objective[i].coef = block.scale
                                           /\ model.objective[i].param = i - block.offset
      BY <2>7, <2>8, FS_Singleton
    <2> QED
      BY <2>5, <2>6, <2>8 DEF LayoutWitnessIsTrue
  <1> QED
    BY <1>1, BuildInvariance, PTL

-----------------------------------------------------------------------------
(***************************************************************************)
(* Places: in a grid, in a flat vector, and of a family's columns.         *)
(***************************************************************************)
LEMMA DivMod ==
    ASSUME NEW w \in Nat \ {0}, NEW k \in Nat
    PROVE  k \div w \in Nat /\ k % w \in 0..(w - 1) /\ (k \div w) * w + (k % w) = k
  OBVIOUS

LEMMA AtPlace ==
    ASSUME NEW w \in Nat \ {0}, NEW q \in Nat, NEW r \in 0..(w - 1)
    PROVE  q * w + r \in Nat /\ (q * w + r) \div w = q /\ (q * w + r) % w = r
  OBVIOUS

LEMMA RowOfPlace ==
    ASSUME NEW w \in Nat \ {0}, NEW n \in Nat, NEW k \in 0..(n * w - 1)
    PROVE  k \in Nat /\ k \div w \in 0..(n - 1) /\ k % w \in 0..(w - 1)
  OBVIOUS

LEMMA PlaceInGrid ==
    ASSUME NEW w \in Nat \ {0}, NEW n \in Nat, NEW q \in 0..(n - 1), NEW r \in 0..(w - 1)
    PROVE  q * w + r \in 0..(n * w - 1)
  OBVIOUS

LEMMA IntervalSize ==
    ASSUME NEW a \in Int, NEW n \in Nat
    PROVE  IsFiniteSet(a..(a + n - 1)) /\ Cardinality(a..(a + n - 1)) = n
  <1>1. a + n - 1 \in Int
    OBVIOUS
  <1>2. /\ IsFiniteSet(a..(a + n - 1))
        /\ Cardinality(a..(a + n - 1)) = IF a > a + n - 1 THEN 0 ELSE (a + n - 1) - a + 1
    BY <1>1, FS_Interval
  <1> QED
    BY <1>2

\* The columns of a family that lie together are numbered from the first one.
Lies(cols, family, from, m) ==
    {c \in 0..(Len(cols) - 1) : cols[c + 1].name[1] = family} = from..(from + m - 1)

LEMMA HandlesOfFamily ==
    ASSUME NEW cols, NEW family, NEW from \in Nat, NEW m \in Nat, Lies(cols, family, from, m)
    PROVE  Handles(cols, family) = [i \in 0..(m - 1) |-> from + i]
  <1> DEFINE pushed == {c \in 0..(Len(cols) - 1) : cols[c + 1].name[1] = family}
             rank(c) == Cardinality({d \in pushed : d < c})
  <1>1. pushed = from..(from + m - 1)
    BY DEF Lies
  <1>2. Handles(cols, family) = [i \in 0..(Cardinality(pushed) - 1) |-> CHOOSE c \in pushed : rank(c) = i]
    BY DEF Handles
  <1> HIDE DEF pushed
  <1>3. Cardinality(pushed) = m
    BY <1>1, IntervalSize
  <1>4. ASSUME NEW c \in pushed PROVE rank(c) = c - from
    <2>1. c - from \in Nat /\ from + (c - from) - 1 = c - 1
      BY <1>1
    <2>2. {d \in pushed : d < c} = from..(c - 1)
      BY <1>1
    <2>3. Cardinality(from..(from + (c - from) - 1)) = c - from
      BY <2>1, IntervalSize
    <2> QED
      BY <2>1, <2>2, <2>3
  <1> HIDE DEF rank
  <1>5. ASSUME NEW i \in 0..(m - 1) PROVE (CHOOSE c \in pushed : rank(c) = i) = from + i
    <2> DEFINE chosen == CHOOSE c \in pushed : rank(c) = i
    <2>1. from + i \in pushed /\ rank(from + i) = i
      BY <1>1, <1>4
    <2>2. chosen \in pushed /\ rank(chosen) = i
      BY <2>1
    <2> HIDE DEF chosen
    <2>3. chosen = from + i
      BY <1>1, <1>4, <2>2
    <2> QED
      BY <2>3 DEF chosen
  <1> QED
    BY <1>2, <1>3, <1>5

\* A block of columns, by place.
IsBlock(c, family, n, t, ub) ==
    /\ Items(c, n)
    /\ \A k \in 1..n : /\ c[k] = Column(<<family, (k - 1) \div t, (k - 1) % t>>, ub)
                       /\ c[k].name[1] = family /\ c[k].ub = ub

LEMMA BlockAt ==
    ASSUME NEW family, NEW b, NEW t, NEW ub
    PROVE  IsBlock(Block(family, b, t, ub), family, b * t, t, ub)
  BY DEF IsBlock, Items, Block, Grid, For, Column

\* Where the families of a battery's columns begin.
LEMMA ChargeHandles ==
    ASSUME NEW b \in Nat \ {0}, NEW m, m = b * T
    PROVE  /\ m \in Nat /\ b * (T + 1) \in Nat
           /\ Items(BessColumns(b), m + m + b * (T + 1))
           /\ Len(BessColumns(b)) = m + m + b * (T + 1)
           /\ Handles(BessColumns(b), "charge") = [i \in 0..(m - 1) |-> i]
           /\ Handles(BessColumns(b), "discharge") = [i \in 0..(m - 1) |-> m + i]
           /\ Handles(BessColumns(b), "energy") = [i \in 0..(b * (T + 1) - 1) |-> m + m + i]
  <1> DEFINE e == b * (T + 1)
             ch == Block("charge", b, T, Power)
             di == Block("discharge", b, T, Power)
             en == Block("energy", b, T + 1, Energy)
             cd == ch \o di
             cols == BessColumns(b)
  <1>1. m \in Nat /\ T \in Nat \ {0} /\ T + 1 \in Nat \ {0} /\ e \in Nat
    BY WorkloadAssumption DEF WorkloadAssumption, T
  <1>b. /\ IsBlock(ch, "charge", m, T, Power) /\ IsBlock(di, "discharge", m, T, Power)
        /\ IsBlock(en, "energy", e, T + 1, Energy)
    BY BlockAt
  <1>4. cols = cd \o en
    BY DEF BessColumns
  <1> HIDE DEF e, ch, di, en, cols
  <1>2. Items(ch, m) /\ Items(di, m) /\ Items(en, e)
    BY <1>b DEF IsBlock
  <1>3. /\ \A k \in 1..m : ch[k].name[1] = "charge" /\ di[k].name[1] = "discharge"
        /\ \A k \in 1..e : en[k].name[1] = "energy"
    BY <1>b DEF IsBlock
  <1>5. Join(cd, ch, m, di, m)
    BY <1>1, <1>2, Joined
  <1> HIDE DEF cd
  <1>6. Join(cols, cd, m + m, en, e)
    <2>1. Items(cd, m + m) /\ m + m \in Nat
      BY <1>1, <1>5 DEF Join
    <2> QED
      BY <1>1, <1>2, <1>4, <2>1, Joined
  <1>7. /\ \A k \in 1..m : cols[k].name[1] = "charge"
        /\ \A k \in (m + 1)..(m + m) : cols[k].name[1] = "discharge"
        /\ \A k \in (m + m + 1)..(m + m + e) : cols[k].name[1] = "energy"
    <2>1. ASSUME NEW k \in 1..m PROVE cols[k].name[1] = "charge"
      <3>1. k \in 1..(m + m)
        BY <1>1
      <3>2. cols[k] = cd[k] /\ cd[k] = ch[k]
        BY <1>5, <1>6, <3>1 DEF Join
      <3> QED
        BY <1>3, <3>2
    <2>2. ASSUME NEW k \in (m + 1)..(m + m) PROVE cols[k].name[1] = "discharge"
      <3>1. k \in 1..(m + m) /\ k - m \in 1..m
        BY <1>1
      <3> QED
        BY <1>3, <1>5, <1>6, <3>1 DEF Join
    <2>3. ASSUME NEW k \in (m + m + 1)..(m + m + e) PROVE cols[k].name[1] = "energy"
      <3>1. k - (m + m) \in 1..e
        BY <1>1
      <3> QED
        BY <1>3, <1>6, <3>1 DEF Join
    <2> QED
      BY <2>1, <2>2, <2>3
  <1>8. Len(cols) = m + m + e /\ Items(cols, m + m + e)
    BY <1>6 DEF Join
  <1>9. Lies(cols, "charge", 0, m) /\ Lies(cols, "discharge", m, m) /\ Lies(cols, "energy", m + m, e)
    <2>1. \A c \in 0..(m + m + e - 1) :
            /\ c \in 0..(m - 1) => c + 1 \in 1..m
            /\ c \in m..(m + m - 1) => c + 1 \in (m + 1)..(m + m)
            /\ c \in (m + m)..(m + m + e - 1) => c + 1 \in (m + m + 1)..(m + m + e)
            /\ c \in 0..(m - 1) \/ c \in m..(m + m - 1) \/ c \in (m + m)..(m + m + e - 1)
      BY <1>1
    <2>2. \A c \in 0..(m + m + e - 1) :
            /\ cols[c + 1].name[1] = "charge" <=> c \in 0..(m - 1)
            /\ cols[c + 1].name[1] = "discharge" <=> c \in m..(m + m - 1)
            /\ cols[c + 1].name[1] = "energy" <=> c \in (m + m)..(m + m + e - 1)
      BY <1>7, <2>1
    <2>3. /\ 0..(m - 1) \subseteq 0..(m + m + e - 1) /\ m..(m + m - 1) \subseteq 0..(m + m + e - 1)
          /\ (m + m)..(m + m + e - 1) \subseteq 0..(m + m + e - 1)
      BY <1>1
    <2> QED
      BY <1>1, <1>8, <2>2, <2>3 DEF Lies
  <1>10. /\ Handles(cols, "charge") = [i \in 0..(m - 1) |-> 0 + i]
         /\ Handles(cols, "discharge") = [i \in 0..(m - 1) |-> m + i]
         /\ Handles(cols, "energy") = [i \in 0..(e - 1) |-> (m + m) + i]
    <2>1. Handles(cols, "charge") = [i \in 0..(m - 1) |-> 0 + i]
      BY <1>1, <1>9, HandlesOfFamily
    <2>2. Handles(cols, "discharge") = [i \in 0..(m - 1) |-> m + i]
      BY <1>1, <1>9, HandlesOfFamily
    <2>3. m + m \in Nat /\ Handles(cols, "energy") = [i \in 0..(e - 1) |-> (m + m) + i]
      <3>1. m + m \in Nat
        BY <1>1
      <3> QED
        BY <1>1, <1>9, <3>1, HandlesOfFamily
    <2> QED
      BY <2>1, <2>2, <2>3
  <1>11. [i \in 0..(m - 1) |-> 0 + i] = [i \in 0..(m - 1) |-> i]
    BY <1>1
  <1> QED
    BY <1>1, <1>8, <1>10, <1>11 DEF cols, e

-----------------------------------------------------------------------------
(***************************************************************************)
(* The scalar and the bulk construction.                                   *)
(***************************************************************************)
LEMMA LenItems ==
    ASSUME NEW m \in Nat, NEW f, Items(f, m)
    PROVE  Len(f) = m /\ DOMAIN f = 1..m
  <1> DEFINE S == {f[k] : k \in 1..m}
  <1>1. f \in [1..m -> S]
    BY DEF Items
  <1> HIDE DEF S
  <1> QED
    BY <1>1, SeqDef

LEMMA Widths == Width \in Nat \ {0} /\ T \in Nat \ {0} /\ Dt \in Int /\ Eta \in Int /\ Dt \div Eta \in Int
  BY WorkloadAssumption DEF WorkloadAssumption, T

\* sparse_rows: the matrix that build_sparse_bulk lays out has the rows that
\* build_sparse adds one by one.
LEMMA SparseAgree ==
    ASSUME NEW n \in Nat \ {0}
    PROVE  BuildSparseBulk(n) = BuildSparse(n, FALSE)
  <1> DEFINE x == Handles(XColumns(n), "x")
             rows == n \div Width
             indptr == [r \in 0..rows |-> Width * r]
             indices == Grid(rows, Width, LAMBDA r, k : Width * r + k)
             data == For(Width * rows, LAMBDA k : 1)
             lower == For(rows, LAMBDA r : Unbounded)
             upper == For(rows, LAMBDA r : 10)
             blockCsr == [indptr |-> indptr, indices |-> indices, data |-> data,
                          lower |-> lower, upper |-> upper]
             added(r) == LeRow(For(Width, LAMBDA k : Term(x[Width * r + k], 1)), 10)
  <1>1. Width \in Nat \ {0} /\ rows \in Nat
    BY Widths
  <1> HIDE DEF x, rows
  <1>2. ASSUME NEW r \in 0..(rows - 1)
        PROVE  Row(MatrixRow(blockCsr, x, r), blockCsr.lower[r + 1], blockCsr.upper[r + 1]) = added(r)
    <2>1. r \in 0..rows /\ r + 1 \in 0..rows /\ r + 1 \in 1..rows
      BY <1>1
    <2>2. indptr[r] = Width * r /\ indptr[r + 1] = Width * (r + 1)
      BY <2>1
    <2>3. Width * r \in Nat /\ Width * (r + 1) - Width * r = Width
      BY <1>1, <2>1
    <2>4. ASSUME NEW k \in 1..Width
          PROVE  indices[Width * r + k] = Width * r + (k - 1) /\ data[Width * r + k] = 1
      <3>1. Width * r = r * Width /\ Width * rows = rows * Width
        BY <1>1, <2>1
      <3>2. k - 1 \in 0..(Width - 1) /\ r \in Nat
        BY <1>1
      <3>3. r * Width + (k - 1) \in 0..(rows * Width - 1)
        BY <1>1, <3>2, PlaceInGrid
      <3>4. (r * Width + (k - 1)) \div Width = r /\ (r * Width + (k - 1)) % Width = k - 1
        BY <1>1, <3>2, AtPlace
      <3>5. Width * r + k \in 1..(rows * Width) /\ (Width * r + k) - 1 = r * Width + (k - 1)
        BY <1>1, <2>3, <3>1, <3>3
      <3>6. indices[Width * r + k] = Width * (((Width * r + k) - 1) \div Width) + (((Width * r + k) - 1) % Width)
        BY <3>5 DEF Grid, For
      <3>7. data[Width * r + k] = 1
        BY <3>1, <3>5 DEF For
      <3> QED
        BY <3>4, <3>5, <3>6, <3>7
    <2> HIDE DEF indptr, indices, data
    <2>5. MatrixRow(blockCsr, x, r) = [k \in 1..Width |-> Term(x[indices[Width * r + k]], data[Width * r + k])]
      BY <2>2, <2>3 DEF MatrixRow
    <2>6. MatrixRow(blockCsr, x, r) = [k \in 1..Width |-> Term(x[Width * r + (k - 1)], 1)]
      BY <2>4, <2>5
    <2>7. lower[r + 1] = Unbounded /\ upper[r + 1] = 10
      BY <2>1 DEF For
    <2> QED
      BY <2>6, <2>7 DEF LeRow, For
  <1>3. Len(blockCsr.upper) = rows
    <2>1. Items(upper, rows)
      BY DEF Items, For
    <2> QED
      BY <1>1, <2>1, LenItems
  <1>4. AddLinearRows(blockCsr, x) = For(rows, added)
    <2> HIDE DEF added, blockCsr
    <2>1. AddLinearRows(blockCsr, x) = [i \in 1..rows |-> Row(MatrixRow(blockCsr, x, i - 1), blockCsr.lower[(i - 1) + 1], blockCsr.upper[(i - 1) + 1])]
      BY <1>3 DEF AddLinearRows, For
    <2>2. \A i \in 1..rows : i - 1 \in 0..(rows - 1)
      BY <1>1
    <2> QED
      BY <1>2, <2>1, <2>2 DEF For
  <1>5. BuildSparseBulk(n) = Model(XColumns(n), AddLinearRows(blockCsr, x), SumOf(n, x), "min", Numeric)
    BY DEF BuildSparseBulk, x, rows
  <1>6. BuildSparse(n, FALSE) = Model(XColumns(n), For(rows, added), SumOf(n, x), "min", Numeric)
    BY DEF BuildSparse, x, rows
  <1> QED
    BY <1>4, <1>5, <1>6

\* bess_96: what the probe compares a row by, and the rows of a case, one to
\* each slot, in no order.
NumberedCells(terms, params) == {<<terms[i].col, Value(terms[i], params)>> : i \in DOMAIN terms}
NumberedRow(row, params) == <<NumberedCells(row.terms, params), row.lower, Upper(row, params)>>
NumberedRows(rows, params) ==
    [v \in {NumberedRow(rows[r], params) : r \in DOMAIN rows} |->
        Cardinality({r \in DOMAIN rows : NumberedRow(rows[r], params) = v})]

Slots(b) == {<<"init", bb, 0>> : bb \in 0..(b - 1)}
                \cup {"balance", "mode"} \X (0..(b - 1)) \X (0..(T - 1))

SlotRow(b, s) ==
    IF s[1] = "init" THEN <<{<<ColEnergy(b, s[2], 0), 1>>}, Energy0, Energy0 * 1>>
    ELSE IF s[1] = "balance"
      THEN <<{<<ColEnergy(b, s[2], s[3] + 1), 1>>, <<ColEnergy(b, s[2], s[3]), -1>>,
              <<ColCharge(b, s[2], s[3]), -(Dt * Eta)>>, <<ColDischarge(b, s[2], s[3]), Dt \div Eta>>},
             0, 0>>
    ELSE <<{<<ColCharge(b, s[2], s[3]), 1>>, <<ColDischarge(b, s[2], s[3]), 1>>}, Unbounded, Power * 1>>

SlotRows(b) == [v \in {SlotRow(b, s) : s \in Slots(b)} |->
                   Cardinality({s \in Slots(b) : SlotRow(b, s) = v})]

\* at and of say where each slot is, and which slot is at each place.
Arranges(rows, b, at, of) ==
    /\ IsFiniteSet(DOMAIN rows)
    /\ \A s \in Slots(b) : at[s] \in DOMAIN rows /\ of[at[s]] = s
    /\ \A r \in DOMAIN rows : /\ of[r] \in Slots(b) /\ at[of[r]] = r
                              /\ NumberedRow(rows[r], Numeric) = SlotRow(b, of[r])

\* However its rows are arranged, a case has the same ones.
LEMMA ArrangedRows ==
    ASSUME NEW rows, NEW b, NEW at, NEW of, Arranges(rows, b, at, of)
    PROVE  NumberedRows(rows, Numeric) = SlotRows(b)
  <1> DEFINE num(r) == NumberedRow(rows[r], Numeric)
  <1>1. \A s \in Slots(b) : at[s] \in DOMAIN rows /\ of[at[s]] = s /\ num(at[s]) = SlotRow(b, s)
    BY DEF Arranges
  <1>2. \A r \in DOMAIN rows : of[r] \in Slots(b) /\ at[of[r]] = r /\ num(r) = SlotRow(b, of[r])
    BY DEF Arranges
  <1>3. NumberedRows(rows, Numeric) = [v \in {num(r) : r \in DOMAIN rows} |-> Cardinality({r \in DOMAIN rows : num(r) = v})]
    BY DEF NumberedRows
  <1> HIDE DEF num
  <1>4. {num(r) : r \in DOMAIN rows} = {SlotRow(b, s) : s \in Slots(b)}
    BY <1>1, <1>2
  <1>5. ASSUME NEW v
        PROVE  Cardinality({r \in DOMAIN rows : num(r) = v}) = Cardinality({s \in Slots(b) : SlotRow(b, s) = v})
    <2> DEFINE there == {r \in DOMAIN rows : num(r) = v}
               here  == {s \in Slots(b) : SlotRow(b, s) = v}
               f     == [s \in here |-> at[s]]
    <2>1. IsFiniteSet(there)
      BY FS_Subset DEF Arranges
    <2>2. f \in [here -> there]
      BY <1>1
    <2>3. \A s, t \in here : f[s] = f[t] => s = t
      BY <1>1
    <2>4. \A r \in there : \E s \in here : f[s] = r
      BY <1>2
    <2> HIDE DEF there, here, f
    <2>5. f \in Injection(here, there) /\ f \in Surjection(here, there)
      BY <2>2, <2>3, <2>4 DEF Injection, IsInjective, Surjection
    <2>6. Cardinality(here) = Cardinality(there)
      BY <2>1, <2>5, FS_Injection
    <2> QED
      BY <2>6 DEF there, here
  <1>6. NumberedRows(rows, Numeric) = [v \in {SlotRow(b, s) : s \in Slots(b)} |-> Cardinality({s \in Slots(b) : SlotRow(b, s) = v})]
    BY <1>3, <1>4, <1>5
  <1> QED
    BY <1>6 DEF SlotRows

LEMMA NumberedTerm ==
    ASSUME NEW c, NEW k \in Int
    PROVE  Term(c, k).col = c /\ Value(Term(c, k), Numeric) = k
  BY DEF Term, Value, Scale

LEMMA InitCells ==
    ASSUME NEW c
    PROVE  NumberedRow(EqRow(Var(c), Energy0), Numeric) = <<{<<c, 1>>}, Energy0, Energy0 * 1>>
  <1>1. DOMAIN Var(c) = {1} /\ Var(c)[1] = Term(c, 1)
    BY DEF Var
  <1>2. NumberedCells(Var(c), Numeric) = {<<c, 1>>}
    BY <1>1, NumberedTerm DEF NumberedCells
  <1> QED
    BY <1>2 DEF NumberedRow, EqRow, Row, Upper, Scale

LEMMA PairOfVars ==
    ASSUME NEW ch, NEW di
    PROVE  /\ Items(Var(ch) \o Var(di), 2)
           /\ (Var(ch) \o Var(di))[1] = Term(ch, 1) /\ (Var(ch) \o Var(di))[2] = Term(di, 1)
  <1>1. Items(Var(ch), 1) /\ Items(Var(di), 1) /\ Var(ch)[1] = Term(ch, 1) /\ Var(di)[1] = Term(di, 1)
    BY DEF Items, Var
  <1>2. Join(Var(ch) \o Var(di), Var(ch), 1, Var(di), 1)
    BY <1>1, Joined
  <1>3. 1 \in 1..1 /\ 1 + 1 = 2
    OBVIOUS
  <1> QED
    BY <1>1, <1>2, <1>3 DEF Join

LEMMA ModeCells ==
    ASSUME NEW ch, NEW di
    PROVE  NumberedRow(ModeRow(ch, di), Numeric) = <<{<<ch, 1>>, <<di, 1>>}, Unbounded, Power * 1>>
  <1> DEFINE e == Var(ch) \o Var(di)
  <1>1. Items(e, 2) /\ e[1] = Term(ch, 1) /\ e[2] = Term(di, 1)
    BY PairOfVars
  <1>2. ModeRow(ch, di) = LeRow(e, Power)
    BY DEF ModeRow
  <1> HIDE DEF e
  <1>3. DOMAIN e = {1, 2}
    BY <1>1 DEF Items
  <1>4. NumberedCells(e, Numeric) = {<<ch, 1>>, <<di, 1>>}
    BY <1>1, <1>3, NumberedTerm DEF NumberedCells
  <1> QED
    BY <1>2, <1>4 DEF NumberedRow, LeRow, Row, Upper, Scale

\* en1 == en0 + dt * (eta * ch - di / eta), brought to one side
LEMMA BalanceTerms ==
    ASSUME NEW en1, NEW en0, NEW ch, NEW di
    PROVE  LET e == Minus(Var(en1), Var(en0) \o Charged(ch, di))
           IN  /\ Items(e, 4)
               /\ e[1] = Term(en1, 1) /\ e[2] = Term(en0, -1)
               /\ e[3] = Term(ch, -(Dt * Eta)) /\ e[4] = Term(di, Dt \div Eta)
  <1> DEFINE cd == Charged(ch, di)
             f  == Var(en0) \o cd
             g  == Times(-1, f)
             e  == Var(en1) \o g
  <1>1. Items(Times(Dt * Eta, Var(ch)), 1) /\ Times(Dt * Eta, Var(ch))[1] = Term(ch, Dt * Eta)
    BY Widths DEF Items, Times, Var, Term
  <1>2. Items(Times(-(Dt \div Eta), Var(di)), 1) /\ Times(-(Dt \div Eta), Var(di))[1] = Term(di, -(Dt \div Eta))
    BY Widths DEF Items, Times, Var, Term
  <1>3. /\ Items(Var(en0), 1) /\ Var(en0)[1] = Term(en0, 1)
        /\ Items(Var(en1), 1) /\ Var(en1)[1] = Term(en1, 1)
    BY DEF Items, Var
  <1>4. Join(cd, Times(Dt * Eta, Var(ch)), 1, Times(-(Dt \div Eta), Var(di)), 1)
    BY <1>1, <1>2, Joined DEF Charged
  <1>5. Items(cd, 2) /\ cd[1] = Term(ch, Dt * Eta) /\ cd[2] = Term(di, -(Dt \div Eta))
    <2>1. 1 \in 1..1 /\ 1 + 1 = 2
      OBVIOUS
    <2> HIDE DEF cd
    <2> QED
      BY <1>1, <1>2, <1>4, <2>1 DEF Join
  <1> HIDE DEF cd
  <1>6. Join(f, Var(en0), 1, cd, 2)
    BY <1>3, <1>5, Joined
  <1>7. /\ Items(f, 3) /\ f[1] = Term(en0, 1) /\ f[2] = Term(ch, Dt * Eta)
        /\ f[3] = Term(di, -(Dt \div Eta))
    <2>1. 1 \in 1..1 /\ 1 \in 1..2 /\ 2 \in 1..2 /\ 1 + 1 = 2 /\ 1 + 2 = 3
      OBVIOUS
    <2> HIDE DEF f
    <2> QED
      BY <1>3, <1>5, <1>6, <2>1 DEF Join
  <1> HIDE DEF f
  <1>8. /\ Items(g, 3) /\ g[1] = Term(en0, -1) /\ g[2] = Term(ch, -(Dt * Eta))
        /\ g[3] = Term(di, Dt \div Eta)
    <2>1. DOMAIN f = 1..3 /\ 1 \in 1..3 /\ 2 \in 1..3 /\ 3 \in 1..3
      BY <1>7 DEF Items
    <2>2. Items(g, 3)
      BY <2>1 DEF Items, Times
    <2>3. ASSUME NEW i \in 1..3, NEW c, NEW k \in Int, f[i] = Term(c, k)
          PROVE  g[i] = Term(c, -k)
      BY <2>1, <2>3 DEF Times, Term
    <2>4. Dt * Eta \in Int /\ -(Dt \div Eta) \in Int /\ -(-(Dt \div Eta)) = Dt \div Eta
      BY Widths
    <2> HIDE DEF g
    <2> QED
      BY <1>7, <2>1, <2>2, <2>3, <2>4
  <1> HIDE DEF g
  <1>9. Join(e, Var(en1), 1, g, 3)
    BY <1>3, <1>8, Joined
  <1>10. /\ Items(e, 4) /\ e[1] = Term(en1, 1) /\ e[2] = Term(en0, -1)
         /\ e[3] = Term(ch, -(Dt * Eta)) /\ e[4] = Term(di, Dt \div Eta)
    <2>1. 1 \in 1..1 /\ 1 \in 1..3 /\ 2 \in 1..3 /\ 3 \in 1..3 /\ 1 + 1 = 2 /\ 1 + 2 = 3 /\ 1 + 3 = 4
      OBVIOUS
    <2> HIDE DEF e
    <2> QED
      BY <1>3, <1>8, <1>9, <2>1 DEF Join
  <1> QED
    BY <1>10 DEF e, g, f, cd, Minus

LEMMA FourCells ==
    ASSUME NEW e, Items(e, 4), NEW c1, NEW k1 \in Int, NEW c2, NEW k2 \in Int,
           NEW c3, NEW k3 \in Int, NEW c4, NEW k4 \in Int,
           e[1] = Term(c1, k1), e[2] = Term(c2, k2), e[3] = Term(c3, k3), e[4] = Term(c4, k4)
    PROVE  NumberedCells(e, Numeric) = {<<c1, k1>>, <<c2, k2>>, <<c3, k3>>, <<c4, k4>>}
  <1>1. DOMAIN e = {1, 2, 3, 4}
    BY DEF Items
  <1> QED
    BY <1>1, NumberedTerm DEF NumberedCells

LEMMA BalanceCells ==
    ASSUME NEW en1, NEW en0, NEW ch, NEW di
    PROVE  NumberedRow(BalanceRow(en1, en0, ch, di), Numeric)
             = <<{<<en1, 1>>, <<en0, -1>>, <<ch, -(Dt * Eta)>>, <<di, Dt \div Eta>>}, 0, 0>>
  <1> DEFINE e == Minus(Var(en1), Var(en0) \o Charged(ch, di))
  <1>1. /\ Items(e, 4) /\ e[1] = Term(en1, 1) /\ e[2] = Term(en0, -1)
        /\ e[3] = Term(ch, -(Dt * Eta)) /\ e[4] = Term(di, Dt \div Eta)
    BY BalanceTerms
  <1>2. BalanceRow(en1, en0, ch, di) = EqRow(e, 0)
    BY DEF BalanceRow
  <1> HIDE DEF e
  <1>3. 1 \in Int /\ -1 \in Int /\ -(Dt * Eta) \in Int /\ Dt \div Eta \in Int
    BY Widths
  <1>4. NumberedCells(e, Numeric) = {<<en1, 1>>, <<en0, -1>>, <<ch, -(Dt * Eta)>>, <<di, Dt \div Eta>>}
    BY <1>1, <1>3, FourCells
  <1> QED
    BY <1>2, <1>4 DEF NumberedRow, EqRow, Row, Upper, Scale

\* What the handles of a battery's columns are: the flat column order of the
\* payload.
LEMMA HandleNumbers ==
    ASSUME NEW b \in Nat \ {0}, NEW bb \in 0..(b - 1)
    PROVE  /\ \A tt \in 0..(T - 1) :
                /\ bb * T + tt \in 0..(b * T - 1)
                /\ Handles(BessColumns(b), "charge")[bb * T + tt] = ColCharge(b, bb, tt)
                /\ Handles(BessColumns(b), "discharge")[bb * T + tt] = ColDischarge(b, bb, tt)
                /\ ColCharge(b, bb, tt) \in 0..(Len(BessColumns(b)) - 1)
                /\ ColDischarge(b, bb, tt) \in 0..(Len(BessColumns(b)) - 1)
           /\ \A tt \in 0..T :
                /\ Handles(BessColumns(b), "energy")[bb * (T + 1) + tt] = ColEnergy(b, bb, tt)
                /\ ColEnergy(b, bb, tt) \in 0..(Len(BessColumns(b)) - 1)
  <1> DEFINE m == b * T
             e == b * (T + 1)
  <1>1. T \in Nat \ {0} /\ T + 1 \in Nat \ {0} /\ T = Periods
    BY Widths DEF T
  <1>2. /\ m \in Nat /\ e \in Nat /\ Len(BessColumns(b)) = m + m + e
        /\ Handles(BessColumns(b), "charge") = [i \in 0..(m - 1) |-> i]
        /\ Handles(BessColumns(b), "discharge") = [i \in 0..(m - 1) |-> m + i]
        /\ Handles(BessColumns(b), "energy") = [i \in 0..(e - 1) |-> m + m + i]
    BY ChargeHandles
  <1>3. ASSUME NEW tt \in 0..(T - 1)
        PROVE  bb * T + tt \in 0..(m - 1)
    BY <1>1, PlaceInGrid
  <1>4. ASSUME NEW tt \in 0..T
        PROVE  bb * (T + 1) + tt \in 0..(e - 1)
    <2>1. tt \in 0..((T + 1) - 1)
      BY <1>1
    <2> QED
      BY <1>1, <2>1, PlaceInGrid
  <1>5. ASSUME NEW tt
        PROVE  /\ ColCharge(b, bb, tt) = bb * T + tt
               /\ ColDischarge(b, bb, tt) = m + bb * T + tt
               /\ ColEnergy(b, bb, tt) = 2 * b * T + bb * (T + 1) + tt
    BY <1>1 DEF ColCharge, ColDischarge, ColEnergy
  <1>6. 2 * b * T = m + m
    BY <1>1
  <1> HIDE DEF m, e
  <1>7. ASSUME NEW tt \in 0..(T - 1)
        PROVE  /\ bb * T + tt \in 0..(m - 1)
               /\ Handles(BessColumns(b), "charge")[bb * T + tt] = ColCharge(b, bb, tt)
               /\ Handles(BessColumns(b), "discharge")[bb * T + tt] = ColDischarge(b, bb, tt)
               /\ ColCharge(b, bb, tt) \in 0..(Len(BessColumns(b)) - 1)
               /\ ColDischarge(b, bb, tt) \in 0..(Len(BessColumns(b)) - 1)
    <2> DEFINE k == bb * T + tt
    <2>1. k \in 0..(m - 1)
      BY <1>3
    <2>2. bb * T \in Int /\ tt \in Int
      BY <1>1
    <2>3. m + bb * T + tt = m + k
      BY <1>2, <2>2
    <2> HIDE DEF k
    <2>4. k \in 0..(m + m + e - 1) /\ m + k \in 0..(m + m + e - 1)
      BY <1>2, <2>1
    <2> QED
      BY <1>2, <1>5, <2>1, <2>3, <2>4 DEF k
  <1>8. ASSUME NEW tt \in 0..T
        PROVE  /\ Handles(BessColumns(b), "energy")[bb * (T + 1) + tt] = ColEnergy(b, bb, tt)
               /\ ColEnergy(b, bb, tt) \in 0..(Len(BessColumns(b)) - 1)
    <2> DEFINE k == bb * (T + 1) + tt
    <2>1. k \in 0..(e - 1)
      BY <1>4
    <2>2. bb * (T + 1) \in Int /\ tt \in Int
      BY <1>1
    <2>3. 2 * b * T + bb * (T + 1) + tt = m + m + k
      BY <1>2, <1>6, <2>2
    <2> HIDE DEF k
    <2>4. m + m + k \in 0..(m + m + e - 1)
      BY <1>2, <2>1
    <2> QED
      BY <1>2, <1>5, <2>1, <2>3, <2>4 DEF k
  <1> QED
    BY <1>7, <1>8 DEF m

\* build_bess, row by row.
LEMMA FlatRowsAt ==
    ASSUME NEW b \in Nat \ {0}
    PROVE  LET rows == FlatBessRows(b, BessColumns(b))
               w == 1 + 2 * T
           IN  /\ DOMAIN rows = 1..(b * w)
               /\ \A bb \in 0..(b - 1) :
                    /\ rows[bb * w + 1] = EqRow(Var(ColEnergy(b, bb, 0)), Energy0)
                    /\ \A tt \in 0..(T - 1) :
                         /\ rows[bb * w + 2 * tt + 2] =
                              BalanceRow(ColEnergy(b, bb, tt + 1), ColEnergy(b, bb, tt),
                                         ColCharge(b, bb, tt), ColDischarge(b, bb, tt))
                         /\ rows[bb * w + 2 * tt + 3] =
                              ModeRow(ColCharge(b, bb, tt), ColDischarge(b, bb, tt))
  <1> DEFINE charge == Handles(BessColumns(b), "charge")
             discharge == Handles(BessColumns(b), "discharge")
             energy == Handles(BessColumns(b), "energy")
             w == 1 + 2 * T
             first(bb) == <<EqRow(Var(energy[bb * (T + 1)]), Energy0)>>
             pair(bb, tt) == <<BalanceRow(energy[bb * (T + 1) + tt + 1], energy[bb * (T + 1) + tt],
                                          charge[bb * T + tt], discharge[bb * T + tt]),
                               ModeRow(charge[bb * T + tt], discharge[bb * T + tt])>>
             rest(bb) == [k \in 1..(T * 2) |-> pair(bb, (k - 1) \div 2)[((k - 1) % 2) + 1]]
             rows == FlatBessRows(b, BessColumns(b))
  <1>1. T \in Nat \ {0} /\ w \in Nat \ {0} /\ w = 1 + T * 2 /\ T * 2 \in Nat
    BY Widths
  <1>2. rows = [i \in 1..(b * w) |-> (first((i - 1) \div w) \o rest((i - 1) \div w))[((i - 1) % w) + 1]]
    BY DEF FlatBessRows, Each, For
  <1>3. ASSUME NEW bb \in 0..(b - 1)
        PROVE  /\ first(bb)[1] = EqRow(Var(ColEnergy(b, bb, 0)), Energy0)
               /\ \A tt \in 0..(T - 1) :
                    /\ pair(bb, tt)[1] = BalanceRow(ColEnergy(b, bb, tt + 1), ColEnergy(b, bb, tt),
                                                    ColCharge(b, bb, tt), ColDischarge(b, bb, tt))
                    /\ pair(bb, tt)[2] = ModeRow(ColCharge(b, bb, tt), ColDischarge(b, bb, tt))
    <2>1. /\ \A tt \in 0..(T - 1) : /\ charge[bb * T + tt] = ColCharge(b, bb, tt)
                                    /\ discharge[bb * T + tt] = ColDischarge(b, bb, tt)
          /\ \A tt \in 0..T : energy[bb * (T + 1) + tt] = ColEnergy(b, bb, tt)
      BY HandleNumbers
    <2>2. /\ 0 \in 0..T /\ bb * (T + 1) + 0 = bb * (T + 1)
          /\ \A tt \in 0..(T - 1) : /\ tt \in 0..T /\ tt + 1 \in 0..T
                                    /\ bb * (T + 1) + tt + 1 = bb * (T + 1) + (tt + 1)
      BY <1>1
    <2> HIDE DEF charge, discharge, energy
    <2> QED
      BY <2>1, <2>2
  <1>4. ASSUME NEW bb
        PROVE  Items(first(bb), 1) /\ Items(rest(bb), T * 2)
    BY DEF Items
  <1>5. \A bb : Join(first(bb) \o rest(bb), first(bb), 1, rest(bb), T * 2)
    BY <1>1, <1>4, Joined
  <1>6. ASSUME NEW bb, NEW tt \in 0..(T - 1)
        PROVE  rest(bb)[2 * tt + 1] = pair(bb, tt)[1] /\ rest(bb)[2 * tt + 2] = pair(bb, tt)[2]
    <2>1. 0 \in 0..(2 - 1) /\ 1 \in 0..(2 - 1) /\ tt \in Nat
      OBVIOUS
    <2>2. /\ (tt * 2 + 0) \div 2 = tt /\ (tt * 2 + 0) % 2 = 0
          /\ (tt * 2 + 1) \div 2 = tt /\ (tt * 2 + 1) % 2 = 1
      BY <2>1, AtPlace
    <2>3. /\ 2 * tt + 1 \in 1..(T * 2) /\ (2 * tt + 1) - 1 = tt * 2 + 0
          /\ 2 * tt + 2 \in 1..(T * 2) /\ (2 * tt + 2) - 1 = tt * 2 + 1
      BY <1>1
    <2> HIDE DEF pair
    <2> QED
      BY <2>2, <2>3
  <1> HIDE DEF first, rest, pair, rows, w
  <1>7. ASSUME NEW bb \in 0..(b - 1), NEW q \in 0..(w - 1)
        PROVE  rows[bb * w + q + 1] = (first(bb) \o rest(bb))[q + 1]
    <2>1. bb * w + q \in 0..(b * w - 1)
      BY <1>1, PlaceInGrid
    <2>2. (bb * w + q) \div w = bb /\ (bb * w + q) % w = q
      BY <1>1, AtPlace
    <2>3. bb * w + q + 1 \in 1..(b * w) /\ (bb * w + q + 1) - 1 = bb * w + q
      BY <1>1, <2>1
    <2> QED
      BY <1>2, <2>2, <2>3
  <1>8. ASSUME NEW bb \in 0..(b - 1)
        PROVE  rows[bb * w + 1] = EqRow(Var(ColEnergy(b, bb, 0)), Energy0)
    <2>1. 0 \in 0..(w - 1) /\ bb * w + 0 + 1 = bb * w + 1 /\ 0 + 1 = 1 /\ 1 \in 1..1
      BY <1>1
    <2>2. rows[bb * w + 0 + 1] = (first(bb) \o rest(bb))[0 + 1]
      BY <1>7, <2>1
    <2>3. (first(bb) \o rest(bb))[1] = first(bb)[1]
      BY <1>5, <2>1 DEF Join
    <2> QED
      BY <1>3, <2>1, <2>2, <2>3
  <1>9. ASSUME NEW bb \in 0..(b - 1), NEW tt \in 0..(T - 1)
        PROVE  /\ rows[bb * w + 2 * tt + 2] = pair(bb, tt)[1]
               /\ rows[bb * w + 2 * tt + 3] = pair(bb, tt)[2]
    <2>1. bb * w \in Int
      BY <1>1
    <2>2. /\ 2 * tt + 1 \in 0..(w - 1) /\ bb * w + (2 * tt + 1) + 1 = bb * w + 2 * tt + 2
          /\ 2 * tt + 2 \in 0..(w - 1) /\ bb * w + (2 * tt + 2) + 1 = bb * w + 2 * tt + 3
          /\ 2 * tt + 1 \in 1..(T * 2) /\ (2 * tt + 1) + 1 = 1 + (2 * tt + 1)
          /\ 2 * tt + 2 \in 1..(T * 2) /\ (2 * tt + 2) + 1 = 1 + (2 * tt + 2)
      BY <1>1, <2>1
    <2>3. /\ (first(bb) \o rest(bb))[1 + (2 * tt + 1)] = rest(bb)[2 * tt + 1]
          /\ (first(bb) \o rest(bb))[1 + (2 * tt + 2)] = rest(bb)[2 * tt + 2]
      BY <1>5, <2>2 DEF Join
    <2>4. /\ rows[bb * w + (2 * tt + 1) + 1] = (first(bb) \o rest(bb))[(2 * tt + 1) + 1]
          /\ rows[bb * w + (2 * tt + 2) + 1] = (first(bb) \o rest(bb))[(2 * tt + 2) + 1]
      BY <1>7, <2>2
    <2> QED
      BY <1>6, <2>2, <2>3, <2>4
  <1>10. DOMAIN rows = 1..(b * w)
    BY <1>2
  <1> QED
    BY <1>3, <1>8, <1>9, <1>10 DEF rows, w

\* Where the slots are in the rows of build_bess: by battery, balance and mode
\* rows in turn.
FlatPlace(s) ==
    s[2] * (1 + 2 * T) + (IF s[1] = "init" THEN 1 ELSE IF s[1] = "balance" THEN 2 * s[3] + 2
                                                 ELSE 2 * s[3] + 3)
FlatSlot(r) ==
    LET bb == (r - 1) \div (1 + 2 * T)
        q  == (r - 1) % (1 + 2 * T)
    IN  IF q = 0 THEN <<"init", bb, 0>>
        ELSE <<IF (q - 1) % 2 = 0 THEN "balance" ELSE "mode", bb, (q - 1) \div 2>>

LEMMA FlatPlaces ==
    ASSUME NEW b \in Nat \ {0}
    PROVE  /\ \A s \in Slots(b) : FlatPlace(s) \in 1..(b * (1 + 2 * T)) /\ FlatSlot(FlatPlace(s)) = s
           /\ \A r \in 1..(b * (1 + 2 * T)) : FlatSlot(r) \in Slots(b) /\ FlatPlace(FlatSlot(r)) = r
  <1> DEFINE w == 1 + 2 * T
  <1>1. T \in Nat \ {0} /\ w \in Nat \ {0} /\ w - 1 = T * 2
    BY Widths
  <1>w. w = 1 + 2 * T
    OBVIOUS
  <1> HIDE DEF w
  <1>2. ASSUME NEW bb \in 0..(b - 1), NEW q \in 0..(w - 1)
        PROVE  /\ bb * w + q + 1 \in 1..(b * w)
               /\ ((bb * w + q + 1) - 1) \div w = bb /\ ((bb * w + q + 1) - 1) % w = q
    <2>1. bb * w + q \in 0..(b * w - 1)
      BY <1>1, PlaceInGrid
    <2>2. (bb * w + q) \div w = bb /\ (bb * w + q) % w = q
      BY <1>1, AtPlace
    <2>3. (bb * w + q + 1) - 1 = bb * w + q
      BY <2>1
    <2> QED
      BY <1>1, <2>1, <2>2, <2>3
  <1>3. ASSUME NEW bb \in 0..(b - 1)
        PROVE  LET s == <<"init", bb, 0>>
               IN  FlatPlace(s) \in 1..(b * w) /\ FlatSlot(FlatPlace(s)) = s
    <2>1. 0 \in 0..(w - 1) /\ bb * w + 0 + 1 = bb * w + 1
      BY <1>1
    <2>2. FlatPlace(<<"init", bb, 0>>) = bb * w + 0 + 1
      BY <1>w, <2>1 DEF FlatPlace
    <2>3. FlatSlot(bb * w + 0 + 1) = <<"init", bb, 0>>
      BY <1>2, <1>w, <2>1 DEF FlatSlot
    <2> QED
      BY <1>2, <2>1, <2>2, <2>3
  <1>4. ASSUME NEW bb \in 0..(b - 1), NEW tt \in 0..(T - 1), NEW kind \in {"balance", "mode"}
        PROVE  LET s == <<kind, bb, tt>>
               IN  FlatPlace(s) \in 1..(b * w) /\ FlatSlot(FlatPlace(s)) = s
    <2> DEFINE d == IF kind = "balance" THEN 0 ELSE 1
    <2>1. d \in 0..(2 - 1) /\ tt \in Nat /\ d \in Nat /\ kind = IF d = 0 THEN "balance" ELSE "mode"
      OBVIOUS
    <2>2. (tt * 2 + d) \div 2 = tt /\ (tt * 2 + d) % 2 = d
      BY <2>1, AtPlace
    <2> HIDE DEF d
    <2>3. tt * 2 + d + 1 \in 0..(w - 1) /\ (tt * 2 + d + 1) - 1 = tt * 2 + d /\ tt * 2 + d + 1 # 0
      BY <1>1, <2>1
    <2>4. bb * w \in Int
      BY <1>1
    <2>5. FlatPlace(<<kind, bb, tt>>) = bb * w + (tt * 2 + d + 1) + 1
      BY <1>w, <2>1, <2>4 DEF FlatPlace, d
    <2>6. FlatSlot(bb * w + (tt * 2 + d + 1) + 1) = <<IF (tt * 2 + d) % 2 = 0 THEN "balance" ELSE "mode", bb, (tt * 2 + d) \div 2>>
      BY <1>2, <1>w, <2>3 DEF FlatSlot
    <2> QED
      BY <1>2, <2>1, <2>2, <2>3, <2>5, <2>6
  <1>5. ASSUME NEW s \in Slots(b)
        PROVE  FlatPlace(s) \in 1..(b * w) /\ FlatSlot(FlatPlace(s)) = s
    <2>1. CASE \E bb \in 0..(b - 1) : s = <<"init", bb, 0>>
      BY <1>3, <2>1
    <2>2. CASE \E kind \in {"balance", "mode"}, bb \in 0..(b - 1), tt \in 0..(T - 1) : s = <<kind, bb, tt>>
      BY <1>4, <2>2
    <2> QED
      BY <2>1, <2>2 DEF Slots
  <1>6. ASSUME NEW r \in 1..(b * w)
        PROVE  FlatSlot(r) \in Slots(b) /\ FlatPlace(FlatSlot(r)) = r
    <2> DEFINE bb == (r - 1) \div w
               q  == (r - 1) % w
    <2>1. r - 1 \in 0..(b * w - 1)
      BY <1>1
    <2>2. bb \in 0..(b - 1) /\ q \in 0..(w - 1) /\ r - 1 \in Nat
      BY <1>1, <2>1, RowOfPlace
    <2>3. bb * w + q = r - 1
      BY <1>1, <2>2, DivMod
    <2>4. FlatSlot(r) = IF q = 0 THEN <<"init", bb, 0>>
                        ELSE <<IF (q - 1) % 2 = 0 THEN "balance" ELSE "mode", bb, (q - 1) \div 2>>
      BY <1>w DEF FlatSlot
    <2> HIDE DEF bb, q
    <2>5. CASE q = 0
      <3>1. FlatSlot(r) = <<"init", bb, 0>>
        BY <2>4, <2>5
      <3>2. FlatPlace(<<"init", bb, 0>>) = bb * w + 1
        BY <1>w DEF FlatPlace
      <3>3. bb * w + 1 = r
        BY <1>1, <2>2, <2>3, <2>5
      <3> QED
        BY <2>2, <3>1, <3>2, <3>3 DEF Slots
    <2>6. CASE q # 0
      <3> DEFINE tt == (q - 1) \div 2
                 d  == (q - 1) % 2
                 kind == IF d = 0 THEN "balance" ELSE "mode"
      <3>1. q - 1 \in 0..(T * 2 - 1) /\ 2 \in Nat \ {0}
        BY <1>1, <2>2, <2>6
      <3>2. q - 1 \in Nat /\ tt \in 0..(T - 1) /\ d \in 0..(2 - 1)
        BY <1>1, <3>1, RowOfPlace
      <3>3. tt * 2 + d = q - 1
        BY <3>1, <3>2, DivMod
      <3>4. FlatSlot(r) = <<kind, bb, tt>> /\ kind \in {"balance", "mode"}
        BY <2>4, <2>6
      <3> HIDE DEF tt, d
      <3>5. bb * w \in Int
        BY <1>1, <2>2
      <3>6. FlatPlace(<<kind, bb, tt>>) = bb * w + (2 * tt + 2 + d)
        BY <1>w, <3>2, <3>5 DEF FlatPlace
      <3>7. bb * w + (2 * tt + 2 + d) = r
        BY <2>2, <2>3, <3>2, <3>3, <3>5
      <3>8. <<kind, bb, tt>> \in Slots(b)
        BY <2>2, <3>2, <3>4 DEF Slots
      <3> QED
        BY <3>4, <3>6, <3>7, <3>8
    <2> QED
      BY <2>5, <2>6
  <1> QED
    BY <1>5, <1>6 DEF w

\* Each slot's row is where the loops put it.
LEMMA FlatArranged ==
    ASSUME NEW b \in Nat \ {0}
    PROVE  NumberedRows(FlatBessRows(b, BessColumns(b)), Numeric) = SlotRows(b)
  <1> DEFINE rows == FlatBessRows(b, BessColumns(b))
             at == [s \in Slots(b) |-> FlatPlace(s)]
             of == [r \in DOMAIN rows |-> FlatSlot(r)]
             w == 1 + 2 * T
  <1>1. T \in Nat \ {0} /\ b * w \in Nat /\ 0 \in 0..(T - 1)
    BY Widths
  <1>2. /\ DOMAIN rows = 1..(b * w)
        /\ \A bb \in 0..(b - 1) :
             /\ rows[bb * w + 1] = EqRow(Var(ColEnergy(b, bb, 0)), Energy0)
             /\ \A tt \in 0..(T - 1) :
                  /\ rows[bb * w + 2 * tt + 2] =
                       BalanceRow(ColEnergy(b, bb, tt + 1), ColEnergy(b, bb, tt),
                                  ColCharge(b, bb, tt), ColDischarge(b, bb, tt))
                  /\ rows[bb * w + 2 * tt + 3] =
                       ModeRow(ColCharge(b, bb, tt), ColDischarge(b, bb, tt))
    BY FlatRowsAt
  <1> HIDE DEF rows
  <1>3. ASSUME NEW s \in Slots(b)
        PROVE  NumberedRow(rows[FlatPlace(s)], Numeric) = SlotRow(b, s)
    <2>1. CASE \E bb \in 0..(b - 1) : s = <<"init", bb, 0>>
      <3>1. PICK bb \in 0..(b - 1) : s = <<"init", bb, 0>>
        BY <2>1
      <3>2. rows[FlatPlace(s)] = EqRow(Var(ColEnergy(b, bb, 0)), Energy0)
        BY <1>2, <3>1 DEF FlatPlace
      <3>3. SlotRow(b, s) = <<{<<ColEnergy(b, bb, 0), 1>>}, Energy0, Energy0 * 1>>
        BY <3>1 DEF SlotRow
      <3> QED
        BY <3>2, <3>3, InitCells
    <2>2. CASE \E bb \in 0..(b - 1), tt \in 0..(T - 1) : s = <<"balance", bb, tt>>
      <3>1. PICK bb \in 0..(b - 1), tt \in 0..(T - 1) : s = <<"balance", bb, tt>>
        BY <2>2
      <3>2. bb * w \in Int /\ tt \in Int /\ bb * w + 2 * tt + 2 = bb * w + (2 * tt + 2)
        BY <1>1
      <3>3. FlatPlace(s) = bb * w + 2 * tt + 2
        BY <3>1, <3>2 DEF FlatPlace
      <3>4. rows[FlatPlace(s)] = BalanceRow(ColEnergy(b, bb, tt + 1), ColEnergy(b, bb, tt),
                                            ColCharge(b, bb, tt), ColDischarge(b, bb, tt))
        BY <1>2, <3>3
      <3>5. SlotRow(b, s) =
              <<{<<ColEnergy(b, bb, tt + 1), 1>>, <<ColEnergy(b, bb, tt), -1>>,
                 <<ColCharge(b, bb, tt), -(Dt * Eta)>>, <<ColDischarge(b, bb, tt), Dt \div Eta>>}, 0, 0>>
        BY <3>1 DEF SlotRow
      <3> QED
        BY <3>4, <3>5, BalanceCells
    <2>3. CASE \E bb \in 0..(b - 1), tt \in 0..(T - 1) : s = <<"mode", bb, tt>>
      <3>1. PICK bb \in 0..(b - 1), tt \in 0..(T - 1) : s = <<"mode", bb, tt>>
        BY <2>3
      <3>2. bb * w \in Int /\ tt \in Int /\ bb * w + 2 * tt + 3 = bb * w + (2 * tt + 3)
        BY <1>1
      <3>3. FlatPlace(s) = bb * w + 2 * tt + 3
        BY <3>1, <3>2 DEF FlatPlace
      <3>4. rows[FlatPlace(s)] = ModeRow(ColCharge(b, bb, tt), ColDischarge(b, bb, tt))
        BY <1>2, <3>3
      <3>5. SlotRow(b, s) = <<{<<ColCharge(b, bb, tt), 1>>, <<ColDischarge(b, bb, tt), 1>>}, Unbounded, Power * 1>>
        BY <3>1 DEF SlotRow
      <3> QED
        BY <3>4, <3>5, ModeCells
    <2> QED
      BY <2>1, <2>2, <2>3 DEF Slots
  <1>4. Arranges(rows, b, at, of)
    <2>1. IsFiniteSet(DOMAIN rows)
      BY <1>1, <1>2, FS_Interval
    <2>2. /\ \A s \in Slots(b) : FlatPlace(s) \in DOMAIN rows /\ FlatSlot(FlatPlace(s)) = s
          /\ \A r \in DOMAIN rows : FlatSlot(r) \in Slots(b) /\ FlatPlace(FlatSlot(r)) = r
      BY <1>2, FlatPlaces
    <2> QED
      BY <1>3, <2>1, <2>2 DEF Arranges
  <1> QED
    BY <1>4, ArrangedRows DEF rows

\* build_bess_bulk: one group of rows, of one width, over the columns' numbers.
Group(b, width, segs, lower, upper) ==
    LET n == Len(segs)
        entries == Each(n, width, LAMBDA r : segs[r + 1])
    IN  AddLinearRows([indptr |-> [r \in 0..n |-> width * r],
                       indices |-> [k \in DOMAIN entries |-> entries[k][1]],
                       data |-> [k \in DOMAIN entries |-> entries[k][2]],
                       lower |-> For(n, LAMBDA r : lower), upper |-> For(n, LAMBDA r : upper)],
                      [c \in 0..(Len(BessColumns(b)) - 1) |-> c])

\* The r-th row of a group has the cells of its segment.
SegmentRow(seg, width, lower, upper) == Row([k \in 1..width |-> Term(seg[k][1], seg[k][2])], lower, upper)

\* n segments of one width, over the columns of b batteries
Segments(b, segs, n, width) ==
    /\ n \in Nat /\ width \in Nat \ {0} /\ Items(segs, n)
    /\ \A i \in 1..n : \A k \in 1..width : segs[i][k][1] \in 0..(Len(BessColumns(b)) - 1)

LEMMA GroupRows ==
    ASSUME NEW b, NEW n, NEW width, NEW segs, NEW lower, NEW upper, Segments(b, segs, n, width)
    PROVE  Group(b, width, segs, lower, upper)
             = [i \in 1..n |-> SegmentRow(segs[i], width, lower, upper)]
  <1> DEFINE entries == Each(n, width, LAMBDA r : segs[r + 1])
             indptr == [r \in 0..n |-> width * r]
             indices == [k \in DOMAIN entries |-> entries[k][1]]
             data == [k \in DOMAIN entries |-> entries[k][2]]
             lowers == For(n, LAMBDA r : lower)
             uppers == For(n, LAMBDA r : upper)
             x == [c \in 0..(Len(BessColumns(b)) - 1) |-> c]
             blockCsr == [indptr |-> indptr, indices |-> indices, data |-> data,
                          lower |-> lowers, upper |-> uppers]
  <1> n \in Nat /\ width \in Nat \ {0} /\ Items(segs, n)
    BY DEF Segments
  <1>0. \A i \in 1..n : \A k \in 1..width : segs[i][k][1] \in 0..(Len(BessColumns(b)) - 1)
    BY DEF Segments
  <1>1. Len(segs) = n /\ Len(uppers) = n
    <2>1. Items(uppers, n)
      BY DEF Items, For
    <2> QED
      BY <2>1, LenItems
  <1>2. Group(b, width, segs, lower, upper) = AddLinearRows(blockCsr, x)
    BY <1>1 DEF Group
  <1>3. entries = [k \in 1..(n * width) |-> segs[((k - 1) \div width) + 1][((k - 1) % width) + 1]]
    BY DEF Each, For
  <1> HIDE DEF entries
  <1>4. ASSUME NEW r \in 0..(n - 1)
        PROVE  Row(MatrixRow(blockCsr, x, r), blockCsr.lower[r + 1], blockCsr.upper[r + 1])
                 = SegmentRow(segs[r + 1], width, lower, upper)
    <2>1. r \in 0..n /\ r + 1 \in 0..n /\ r + 1 \in 1..n
      OBVIOUS
    <2>2. indptr[r] = width * r /\ indptr[r + 1] = width * (r + 1)
      BY <2>1
    <2>3. width * r \in Nat /\ width * (r + 1) - width * r = width /\ width * r = r * width
      BY <2>1
    <2>4. ASSUME NEW k \in 1..width
          PROVE  /\ indices[width * r + k] = segs[r + 1][k][1]
                 /\ data[width * r + k] = segs[r + 1][k][2]
      <3>1. k - 1 \in 0..(width - 1) /\ r \in Nat
        OBVIOUS
      <3>2. r * width + (k - 1) \in 0..(n * width - 1)
        BY <3>1, PlaceInGrid
      <3>3. (r * width + (k - 1)) \div width = r /\ (r * width + (k - 1)) % width = k - 1
        BY <3>1, AtPlace
      <3>4. width * r + k \in 1..(n * width) /\ (width * r + k) - 1 = r * width + (k - 1)
        BY <2>3, <3>2
      <3> DEFINE p == width * r + k
      <3>p. p \in 1..(n * width) /\ (p - 1) \div width = r /\ (p - 1) % width = k - 1
        BY <3>3, <3>4
      <3>k. (k - 1) + 1 = k
        OBVIOUS
      <3> HIDE DEF p
      <3>5. entries[p] = segs[r + 1][k] /\ p \in DOMAIN entries
        BY <1>3, <3>k, <3>p
      <3> QED
        BY <3>5 DEF p
    <2>5. lowers[r + 1] = lower /\ uppers[r + 1] = upper
      BY <2>1 DEF For
    <2> HIDE DEF indptr, indices, data, lowers, uppers, x
    <2>6. MatrixRow(blockCsr, x, r) = [k \in 1..width |-> Term(x[indices[width * r + k]], data[width * r + k])]
      BY <2>2, <2>3 DEF MatrixRow
    <2>7. \A k \in 1..width : x[segs[r + 1][k][1]] = segs[r + 1][k][1]
      BY <1>0, <2>1 DEF x
    <2>8. MatrixRow(blockCsr, x, r) = [k \in 1..width |-> Term(segs[r + 1][k][1], segs[r + 1][k][2])]
      BY <2>4, <2>6, <2>7
    <2> QED
      BY <2>5, <2>8 DEF SegmentRow
  <1>5. AddLinearRows(blockCsr, x) = [i \in 1..n |-> Row(MatrixRow(blockCsr, x, i - 1), blockCsr.lower[(i - 1) + 1], blockCsr.upper[(i - 1) + 1])]
    <2>1. Len(blockCsr.upper) = n
      BY <1>1
    <2> HIDE DEF blockCsr
    <2> QED
      BY <2>1 DEF AddLinearRows, For
  <1>6. \A i \in 1..n : i - 1 \in 0..(n - 1) /\ (i - 1) + 1 = i
    OBVIOUS
  <1> HIDE DEF blockCsr, x
  <1> QED
    BY <1>2, <1>4, <1>5, <1>6

\* The three groups: init rows, balance rows and mode rows.
Inits(b) == For(b, LAMBDA bb : << <<Handles(BessColumns(b), "energy")[bb * (T + 1)], 1>> >>)
Balances(b) ==
    Grid(b, T, LAMBDA bb, tt :
        << <<Handles(BessColumns(b), "energy")[bb * (T + 1) + tt + 1], 1>>,
           <<Handles(BessColumns(b), "energy")[bb * (T + 1) + tt], -1>>,
           <<Handles(BessColumns(b), "charge")[bb * T + tt], -(Dt * Eta)>>,
           <<Handles(BessColumns(b), "discharge")[bb * T + tt], Dt \div Eta>> >>)
Modes(b) ==
    For(b * T, LAMBDA r : << <<Handles(BessColumns(b), "charge")[r], 1>>,
                             <<Handles(BessColumns(b), "discharge")[r], 1>> >>)

LEMMA BulkGroups ==
    ASSUME NEW b
    PROVE  BuildBessBulk(b).rows = (Group(b, 1, Inits(b), Energy0, Energy0)
                                      \o Group(b, 4, Balances(b), 0, 0))
                                   \o Group(b, 2, Modes(b), Unbounded, Power)
  BY DEF BuildBessBulk, Model, Group, Inits, Balances, Modes

\* the segment of a balance row
BalanceSegment(c1, c2, c3, c4) ==
    << <<c1, 1>>, <<c2, -1>>, <<c3, -(Dt * Eta)>>, <<c4, Dt \div Eta>> >>

\* The segments of the groups, by battery and period.
LEMMA BulkSegments ==
    ASSUME NEW b \in Nat \ {0}
    PROVE  /\ Items(Inits(b), b) /\ Items(Balances(b), b * T) /\ Items(Modes(b), b * T)
           /\ \A bb \in 0..(b - 1) :
                /\ Inits(b)[bb + 1] = << <<ColEnergy(b, bb, 0), 1>> >>
                /\ \A tt \in 0..(T - 1) :
                     /\ Balances(b)[bb * T + tt + 1] =
                          BalanceSegment(ColEnergy(b, bb, tt + 1), ColEnergy(b, bb, tt),
                                         ColCharge(b, bb, tt), ColDischarge(b, bb, tt))
                     /\ Modes(b)[bb * T + tt + 1] =
                          << <<ColCharge(b, bb, tt), 1>>, <<ColDischarge(b, bb, tt), 1>> >>
  <1> DEFINE charge == Handles(BessColumns(b), "charge")
             discharge == Handles(BessColumns(b), "discharge")
             energy == Handles(BessColumns(b), "energy")
  <1>1. T \in Nat \ {0}
    BY Widths
  <1>2. Items(Inits(b), b) /\ Items(Balances(b), b * T) /\ Items(Modes(b), b * T)
    BY DEF Items, Inits, Balances, Modes, For, Grid
  <1>3. ASSUME NEW bb \in 0..(b - 1)
        PROVE  Inits(b)[bb + 1] = << <<ColEnergy(b, bb, 0), 1>> >>
    <2>1. 0 \in 0..T /\ bb * (T + 1) + 0 = bb * (T + 1) /\ bb + 1 \in 1..b /\ (bb + 1) - 1 = bb
      BY <1>1
    <2>2. energy[bb * (T + 1) + 0] = ColEnergy(b, bb, 0)
      BY <2>1, HandleNumbers
    <2>3. Inits(b)[bb + 1] = << <<energy[((bb + 1) - 1) * (T + 1)], 1>> >>
      BY <2>1 DEF Inits, For
    <2> HIDE DEF energy
    <2> QED
      BY <2>1, <2>2, <2>3
  <1>4. ASSUME NEW bb \in 0..(b - 1), NEW tt \in 0..(T - 1)
        PROVE  /\ Balances(b)[bb * T + tt + 1] =
                    BalanceSegment(ColEnergy(b, bb, tt + 1), ColEnergy(b, bb, tt),
                                         ColCharge(b, bb, tt), ColDischarge(b, bb, tt))
               /\ Modes(b)[bb * T + tt + 1] =
                    << <<ColCharge(b, bb, tt), 1>>, <<ColDischarge(b, bb, tt), 1>> >>
    <2>1. /\ charge[bb * T + tt] = ColCharge(b, bb, tt)
          /\ discharge[bb * T + tt] = ColDischarge(b, bb, tt)
      BY HandleNumbers
    <2>2. tt \in 0..T /\ tt + 1 \in 0..T /\ bb * (T + 1) + tt + 1 = bb * (T + 1) + (tt + 1)
      BY <1>1
    <2>3. energy[bb * (T + 1) + tt] = ColEnergy(b, bb, tt) /\ energy[bb * (T + 1) + (tt + 1)] = ColEnergy(b, bb, tt + 1)
      BY <2>2, HandleNumbers
    <2>4. bb * T + tt \in 0..(b * T - 1) /\ (bb * T + tt) \div T = bb /\ (bb * T + tt) % T = tt
      BY <1>1, PlaceInGrid, AtPlace
    <2>5. bb * T + tt + 1 \in 1..(b * T) /\ (bb * T + tt + 1) - 1 = bb * T + tt
      BY <1>1, <2>4
    <2>6. Modes(b)[bb * T + tt + 1] = << <<charge[(bb * T + tt + 1) - 1], 1>>, <<discharge[(bb * T + tt + 1) - 1], 1>> >>
      BY <2>5 DEF Modes, For
    <2>7. Balances(b)[bb * T + tt + 1] =
            << <<energy[bb * (T + 1) + tt + 1], 1>>, <<energy[bb * (T + 1) + tt], -1>>,
               <<charge[bb * T + tt], -(Dt * Eta)>>, <<discharge[bb * T + tt], Dt \div Eta>> >>
      BY <2>4, <2>5 DEF Balances, Grid, For
    <2> HIDE DEF charge, discharge, energy
    <2> QED
      BY <2>1, <2>2, <2>3, <2>5, <2>6, <2>7 DEF BalanceSegment
  <1> QED
    BY <1>2, <1>3, <1>4

\* A row of each group says what the slot's row says.
LEMMA NumberedSegment ==
    ASSUME NEW e, NEW lower, NEW upper
    PROVE  NumberedRow(Row(e, lower, upper), Numeric) = <<NumberedCells(e, Numeric), lower, upper * 1>>
  BY DEF NumberedRow, Row, Upper, Scale

LEMMA InitSegment ==
    ASSUME NEW c
    PROVE  NumberedRow(SegmentRow(<< <<c, 1>> >>, 1, Energy0, Energy0), Numeric)
             = <<{<<c, 1>>}, Energy0, Energy0 * 1>>
  <1> DEFINE e == [k \in 1..1 |-> Term(<< <<c, 1>> >>[k][1], << <<c, 1>> >>[k][2])]
  <1>1. DOMAIN e = {1} /\ e[1] = Term(c, 1)
    OBVIOUS
  <1>2. SegmentRow(<< <<c, 1>> >>, 1, Energy0, Energy0) = Row(e, Energy0, Energy0)
    BY DEF SegmentRow
  <1> HIDE DEF e
  <1>3. NumberedCells(e, Numeric) = {<<c, 1>>}
    BY <1>1, NumberedTerm DEF NumberedCells
  <1> QED
    BY <1>2, <1>3, NumberedSegment

LEMMA ModeSegment ==
    ASSUME NEW c1, NEW c2
    PROVE  NumberedRow(SegmentRow(<< <<c1, 1>>, <<c2, 1>> >>, 2, Unbounded, Power), Numeric)
             = <<{<<c1, 1>>, <<c2, 1>>}, Unbounded, Power * 1>>
  <1> DEFINE seg == << <<c1, 1>>, <<c2, 1>> >>
             e == [k \in 1..2 |-> Term(seg[k][1], seg[k][2])]
  <1>1. DOMAIN e = {1, 2} /\ e[1] = Term(c1, 1) /\ e[2] = Term(c2, 1)
    OBVIOUS
  <1>2. SegmentRow(seg, 2, Unbounded, Power) = Row(e, Unbounded, Power)
    BY DEF SegmentRow
  <1> HIDE DEF e
  <1>3. NumberedCells(e, Numeric) = {<<c1, 1>>, <<c2, 1>>}
    BY <1>1, NumberedTerm DEF NumberedCells
  <1> QED
    BY <1>2, <1>3, NumberedSegment

LEMMA BalanceSegmentCells ==
    ASSUME NEW c1, NEW c2, NEW c3, NEW c4
    PROVE  NumberedRow(SegmentRow(BalanceSegment(c1, c2, c3, c4), 4, 0, 0), Numeric)
             = <<{<<c1, 1>>, <<c2, -1>>, <<c3, -(Dt * Eta)>>, <<c4, Dt \div Eta>>}, 0, 0>>
  <1> DEFINE seg == BalanceSegment(c1, c2, c3, c4)
             e == [k \in 1..4 |-> Term(seg[k][1], seg[k][2])]
  <1>1. /\ Items(e, 4) /\ e[1] = Term(c1, 1) /\ e[2] = Term(c2, -1)
        /\ e[3] = Term(c3, -(Dt * Eta)) /\ e[4] = Term(c4, Dt \div Eta)
    BY DEF Items, BalanceSegment
  <1>2. SegmentRow(seg, 4, 0, 0) = Row(e, 0, 0)
    BY DEF SegmentRow
  <1> HIDE DEF e
  <1>3. 1 \in Int /\ -1 \in Int /\ -(Dt * Eta) \in Int /\ Dt \div Eta \in Int /\ 0 * 1 = 0
    BY Widths
  <1>4. NumberedCells(e, Numeric) = {<<c1, 1>>, <<c2, -1>>, <<c3, -(Dt * Eta)>>, <<c4, Dt \div Eta>>}
    BY <1>1, <1>3, FourCells
  <1> HIDE DEF seg
  <1>5. NumberedRow(SegmentRow(seg, 4, 0, 0), Numeric) = <<{<<c1, 1>>, <<c2, -1>>, <<c3, -(Dt * Eta)>>, <<c4, Dt \div Eta>>}, 0, 0>>
    BY <1>2, <1>3, <1>4, NumberedSegment
  <1> QED
    BY <1>5 DEF seg

\* Every index of a grid is that of a row and a column of it.
LEMMA GridPlaces ==
    ASSUME NEW b \in Nat, NEW t \in Nat \ {0}, NEW i \in 1..(b * t)
    PROVE  \E bb \in 0..(b - 1), tt \in 0..(t - 1) : i = bb * t + tt + 1
  <1>1. i - 1 \in 0..(b * t - 1)
    OBVIOUS
  <1>2. i - 1 \in Nat /\ (i - 1) \div t \in 0..(b - 1) /\ (i - 1) % t \in 0..(t - 1)
    BY <1>1, RowOfPlace
  <1>3. ((i - 1) \div t) * t + ((i - 1) % t) = i - 1
    BY <1>2, DivMod
  <1>4. ((i - 1) \div t) * t + ((i - 1) % t) + 1 = i
    BY <1>3
  <1> QED
    BY <1>2, <1>4

\* build_bess_bulk, row by row.
LEMMA BulkRowsAt ==
    ASSUME NEW b \in Nat \ {0}
    PROVE  LET rows == BuildBessBulk(b).rows
               m == b * T
           IN  /\ DOMAIN rows = 1..(b + m + m)
               /\ \A bb \in 0..(b - 1) :
                    /\ rows[bb + 1] = SegmentRow(<< <<ColEnergy(b, bb, 0), 1>> >>, 1, Energy0, Energy0)
                    /\ \A tt \in 0..(T - 1) :
                         /\ rows[b + (bb * T + tt + 1)] =
                              SegmentRow(BalanceSegment(ColEnergy(b, bb, tt + 1), ColEnergy(b, bb, tt),
                                                        ColCharge(b, bb, tt), ColDischarge(b, bb, tt)), 4, 0, 0)
                         /\ rows[b + m + (bb * T + tt + 1)] =
                              SegmentRow(<< <<ColCharge(b, bb, tt), 1>>, <<ColDischarge(b, bb, tt), 1>> >>,
                                         2, Unbounded, Power)
  <1> DEFINE m == b * T
             g1 == Group(b, 1, Inits(b), Energy0, Energy0)
             g2 == Group(b, 4, Balances(b), 0, 0)
             g3 == Group(b, 2, Modes(b), Unbounded, Power)
             rows == BuildBessBulk(b).rows
             cols == 0..(Len(BessColumns(b)) - 1)
  <1>1. T \in Nat \ {0} /\ m \in Nat
    BY Widths
  <1>2. rows = (g1 \o g2) \o g3
    BY BulkGroups
  <1>3. /\ Items(Inits(b), b) /\ Items(Balances(b), m) /\ Items(Modes(b), m)
        /\ \A bb \in 0..(b - 1) :
                /\ Inits(b)[bb + 1] = << <<ColEnergy(b, bb, 0), 1>> >>
                /\ \A tt \in 0..(T - 1) :
                     /\ Balances(b)[bb * T + tt + 1] =
                          BalanceSegment(ColEnergy(b, bb, tt + 1), ColEnergy(b, bb, tt),
                                         ColCharge(b, bb, tt), ColDischarge(b, bb, tt))
                     /\ Modes(b)[bb * T + tt + 1] =
                          << <<ColCharge(b, bb, tt), 1>>, <<ColDischarge(b, bb, tt), 1>> >>
    BY BulkSegments
  <1>4. ASSUME NEW bb \in 0..(b - 1)
        PROVE  /\ ColEnergy(b, bb, 0) \in cols
               /\ \A tt \in 0..(T - 1) : /\ ColEnergy(b, bb, tt + 1) \in cols /\ ColEnergy(b, bb, tt) \in cols
                                         /\ ColCharge(b, bb, tt) \in cols /\ ColDischarge(b, bb, tt) \in cols
    <2>1. 0 \in 0..T /\ \A tt \in 0..(T - 1) : tt \in 0..T /\ tt + 1 \in 0..T
      BY <1>1
    <2> QED
      BY <2>1, HandleNumbers
  <1> HIDE DEF rows, cols
  <1>5. \A i \in 1..b, k \in 1..1 : Inits(b)[i][k][1] \in cols
    <2> SUFFICES ASSUME NEW i \in 1..b PROVE Inits(b)[i][1][1] \in cols
      OBVIOUS
    <2>1. i - 1 \in 0..(b - 1) /\ (i - 1) + 1 = i
      OBVIOUS
    <2>2. Inits(b)[i] = << <<ColEnergy(b, i - 1, 0), 1>> >>
      BY <1>3, <2>1
    <2> QED
      BY <1>4, <2>1, <2>2
  <1>6. \A i \in 1..m : /\ \A k \in 1..4 : Balances(b)[i][k][1] \in cols
                        /\ \A k \in 1..2 : Modes(b)[i][k][1] \in cols
    <2> SUFFICES ASSUME NEW i \in 1..m
                 PROVE  /\ \A k \in 1..4 : Balances(b)[i][k][1] \in cols
                        /\ \A k \in 1..2 : Modes(b)[i][k][1] \in cols
      OBVIOUS
    <2>1. PICK bb \in 0..(b - 1), tt \in 0..(T - 1) : i = bb * T + tt + 1
      BY <1>1, GridPlaces
    <2>2. /\ Balances(b)[i] = BalanceSegment(ColEnergy(b, bb, tt + 1), ColEnergy(b, bb, tt),
                                         ColCharge(b, bb, tt), ColDischarge(b, bb, tt))
          /\ Modes(b)[i] = << <<ColCharge(b, bb, tt), 1>>, <<ColDischarge(b, bb, tt), 1>> >>
      BY <1>3, <2>1
    <2>3. /\ ColEnergy(b, bb, tt + 1) \in cols /\ ColEnergy(b, bb, tt) \in cols
          /\ ColCharge(b, bb, tt) \in cols /\ ColDischarge(b, bb, tt) \in cols
      BY <1>4
    <2>4. \A k \in 1..4 : k \in {1, 2, 3, 4}
      OBVIOUS
    <2>5. \A k \in 1..2 : k \in {1, 2}
      OBVIOUS
    <2>6. \A k \in {1, 2, 3, 4} : Balances(b)[i][k][1] \in cols
      BY <2>2, <2>3 DEF BalanceSegment
    <2>7. \A k \in {1, 2} : Modes(b)[i][k][1] \in cols
      BY <2>2, <2>3
    <2> QED
      BY <2>4, <2>5, <2>6, <2>7
  <1>7. /\ g1 = [i \in 1..b |-> SegmentRow(Inits(b)[i], 1, Energy0, Energy0)]
        /\ g2 = [i \in 1..m |-> SegmentRow(Balances(b)[i], 4, 0, 0)]
        /\ g3 = [i \in 1..m |-> SegmentRow(Modes(b)[i], 2, Unbounded, Power)]
    <2> HIDE DEF m
    <2>0. /\ Segments(b, Inits(b), b, 1) /\ Segments(b, Balances(b), m, 4)
          /\ Segments(b, Modes(b), m, 2)
      <3>1. Segments(b, Inits(b), b, 1)
        BY <1>3, <1>5 DEF Segments, cols
      <3>2. Segments(b, Balances(b), m, 4)
        BY <1>1, <1>3, <1>6 DEF Segments, cols
      <3>3. Segments(b, Modes(b), m, 2)
        BY <1>1, <1>3, <1>6 DEF Segments, cols
      <3> QED
        BY <3>1, <3>2, <3>3
    <2>1. g1 = [i \in 1..b |-> SegmentRow(Inits(b)[i], 1, Energy0, Energy0)]
      BY <2>0, GroupRows
    <2>2. g2 = [i \in 1..m |-> SegmentRow(Balances(b)[i], 4, 0, 0)]
      BY <2>0, GroupRows
    <2>3. g3 = [i \in 1..m |-> SegmentRow(Modes(b)[i], 2, Unbounded, Power)]
      BY <2>0, GroupRows
    <2> QED
      BY <2>1, <2>2, <2>3
  <1> HIDE DEF g1, g2, g3
  <1>8. Items(g1, b) /\ Items(g2, m) /\ Items(g3, m)
    BY <1>7 DEF Items
  <1>9. Join(g1 \o g2, g1, b, g2, m)
    BY <1>1, <1>8, Joined
  <1>10. Join(rows, g1 \o g2, b + m, g3, m)
    <2>1. b + m \in Nat /\ Items(g1 \o g2, b + m)
      BY <1>1, <1>9 DEF Join
    <2> QED
      BY <1>1, <1>2, <1>8, <2>1, Joined
  <1>11. ASSUME NEW bb \in 0..(b - 1)
         PROVE  rows[bb + 1] = SegmentRow(<< <<ColEnergy(b, bb, 0), 1>> >>, 1, Energy0, Energy0)
    <2>1. bb + 1 \in 1..b /\ bb + 1 \in 1..(b + m)
      BY <1>1
    <2>2. rows[bb + 1] = g1[bb + 1]
      BY <1>9, <1>10, <2>1 DEF Join
    <2> QED
      BY <1>3, <1>7, <2>1, <2>2
  <1>12. ASSUME NEW bb \in 0..(b - 1), NEW tt \in 0..(T - 1)
         PROVE  /\ rows[b + (bb * T + tt + 1)] = SegmentRow(Balances(b)[bb * T + tt + 1], 4, 0, 0)
                /\ rows[b + m + (bb * T + tt + 1)] = SegmentRow(Modes(b)[bb * T + tt + 1], 2, Unbounded, Power)
    <2> DEFINE i == bb * T + tt + 1
    <2>1. bb * T + tt \in 0..(m - 1)
      BY <1>1, PlaceInGrid
    <2>2. i \in 1..m
      BY <1>1, <2>1
    <2> HIDE DEF i, m
    <2>3. b + i \in 1..(b + m)
      BY <1>1, <2>2
    <2>4. rows[b + i] = g2[i] /\ rows[b + m + i] = g3[i]
      BY <1>1, <1>9, <1>10, <2>2, <2>3 DEF Join
    <2> QED
      BY <1>7, <2>2, <2>4 DEF i
  <1>13. DOMAIN rows = 1..(b + m + m)
    BY <1>10 DEF Join
  <1> QED
    BY <1>3, <1>11, <1>12, <1>13 DEF rows

\* Where the slots are in the rows of build_bess_bulk: group by group.
BulkPlace(b, s) ==
    IF s[1] = "init" THEN s[2] + 1
    ELSE IF s[1] = "balance" THEN b + (s[2] * T + s[3] + 1)
    ELSE b + b * T + (s[2] * T + s[3] + 1)
BulkSlot(b, r) ==
    IF r <= b THEN <<"init", r - 1, 0>>
    ELSE IF r <= b + b * T THEN <<"balance", (r - b - 1) \div T, (r - b - 1) % T>>
    ELSE <<"mode", (r - (b + b * T) - 1) \div T, (r - (b + b * T) - 1) % T>>

LEMMA BulkPlaces ==
    ASSUME NEW b \in Nat \ {0}
    PROVE  /\ \A s \in Slots(b) : BulkPlace(b, s) \in 1..(b + b * T + b * T) /\ BulkSlot(b, BulkPlace(b, s)) = s
           /\ \A r \in 1..(b + b * T + b * T) : BulkSlot(b, r) \in Slots(b) /\ BulkPlace(b, BulkSlot(b, r)) = r
  <1> DEFINE m == b * T
  <1>1. T \in Nat \ {0} /\ m \in Nat
    BY Widths
  <1>w. m = b * T
    OBVIOUS
  <1> HIDE DEF m
  <1>2. ASSUME NEW bb \in 0..(b - 1), NEW tt \in 0..(T - 1)
        PROVE  /\ bb * T + tt + 1 \in 1..m /\ (bb * T + tt + 1) - 1 = bb * T + tt
               /\ (bb * T + tt) \div T = bb /\ (bb * T + tt) % T = tt
    <2>1. bb * T + tt \in 0..(b * T - 1)
      BY <1>1, PlaceInGrid
    <2>2. (bb * T + tt) \div T = bb /\ (bb * T + tt) % T = tt
      BY <1>1, AtPlace
    <2> QED
      BY <1>1, <1>w, <2>1, <2>2
  <1>3. ASSUME NEW bb \in 0..(b - 1)
        PROVE  LET s == <<"init", bb, 0>>
               IN  BulkPlace(b, s) \in 1..(b + m + m) /\ BulkSlot(b, BulkPlace(b, s)) = s
    <2>1. BulkPlace(b, <<"init", bb, 0>>) = bb + 1
      BY DEF BulkPlace
    <2>2. bb + 1 \in 1..(b + m + m) /\ bb + 1 <= b /\ (bb + 1) - 1 = bb
      BY <1>1
    <2>3. BulkSlot(b, bb + 1) = <<"init", bb, 0>>
      BY <2>2 DEF BulkSlot
    <2> QED
      BY <2>1, <2>2, <2>3
  <1>4. ASSUME NEW bb \in 0..(b - 1), NEW tt \in 0..(T - 1)
        PROVE  LET s == <<"balance", bb, tt>>
               IN  BulkPlace(b, s) \in 1..(b + m + m) /\ BulkSlot(b, BulkPlace(b, s)) = s
    <2> DEFINE i == bb * T + tt + 1
    <2>1. i \in 1..m /\ (i - 1) \div T = bb /\ (i - 1) % T = tt
      BY <1>2
    <2>2. BulkPlace(b, <<"balance", bb, tt>>) = b + i
      BY DEF BulkPlace
    <2> HIDE DEF i
    <2>3. b + i \in 1..(b + m + m) /\ ~ (b + i <= b) /\ b + i <= b + m /\ (b + i) - b - 1 = i - 1
      BY <1>1, <2>1
    <2>4. BulkSlot(b, b + i) = <<"balance", (i - 1) \div T, (i - 1) % T>>
      BY <1>w, <2>3 DEF BulkSlot
    <2> QED
      BY <2>1, <2>2, <2>3, <2>4
  <1>5. ASSUME NEW bb \in 0..(b - 1), NEW tt \in 0..(T - 1)
        PROVE  LET s == <<"mode", bb, tt>>
               IN  BulkPlace(b, s) \in 1..(b + m + m) /\ BulkSlot(b, BulkPlace(b, s)) = s
    <2> DEFINE i == bb * T + tt + 1
    <2>1. i \in 1..m /\ (i - 1) \div T = bb /\ (i - 1) % T = tt
      BY <1>2
    <2>2. BulkPlace(b, <<"mode", bb, tt>>) = b + m + i
      BY <1>w DEF BulkPlace
    <2> HIDE DEF i
    <2>3. /\ b + m + i \in 1..(b + m + m) /\ ~ (b + m + i <= b) /\ ~ (b + m + i <= b + m)
          /\ (b + m + i) - (b + m) - 1 = i - 1
      BY <1>1, <2>1
    <2>4. BulkSlot(b, b + m + i) = <<"mode", (i - 1) \div T, (i - 1) % T>>
      BY <1>w, <2>3 DEF BulkSlot
    <2> QED
      BY <2>1, <2>2, <2>3, <2>4
  <1>6. ASSUME NEW s \in Slots(b)
        PROVE  BulkPlace(b, s) \in 1..(b + m + m) /\ BulkSlot(b, BulkPlace(b, s)) = s
    <2>1. \/ \E bb \in 0..(b - 1) : s = <<"init", bb, 0>>
          \/ \E bb \in 0..(b - 1), tt \in 0..(T - 1) : s = <<"balance", bb, tt>>
          \/ \E bb \in 0..(b - 1), tt \in 0..(T - 1) : s = <<"mode", bb, tt>>
      BY DEF Slots
    <2> QED
      BY <1>3, <1>4, <1>5, <2>1
  <1>7. ASSUME NEW k \in 0..(m - 1)
        PROVE  k \div T \in 0..(b - 1) /\ k % T \in 0..(T - 1) /\ (k \div T) * T + (k % T) = k
    <2>1. k \in Nat /\ k \div T \in 0..(b - 1) /\ k % T \in 0..(T - 1)
      BY <1>1, <1>w, RowOfPlace
    <2> QED
      BY <1>1, <2>1, DivMod
  <1>8. ASSUME NEW r \in 1..(b + m + m)
        PROVE  BulkSlot(b, r) \in Slots(b) /\ BulkPlace(b, BulkSlot(b, r)) = r
    <2>1. CASE r <= b
      <3>1. BulkSlot(b, r) = <<"init", r - 1, 0>>
        BY <2>1 DEF BulkSlot
      <3>2. r - 1 \in 0..(b - 1) /\ (r - 1) + 1 = r
        BY <2>1
      <3>3. BulkPlace(b, <<"init", r - 1, 0>>) = (r - 1) + 1
        BY DEF BulkPlace
      <3> QED
        BY <3>1, <3>2, <3>3 DEF Slots
    <2>2. CASE ~ (r <= b) /\ r <= b + m
      <3> DEFINE k == r - b - 1
      <3>1. k \in 0..(m - 1)
        BY <1>1, <2>2
      <3>2. BulkSlot(b, r) = <<"balance", k \div T, k % T>>
        BY <1>w, <2>2 DEF BulkSlot
      <3>3. b + (k + 1) = r
        BY <1>1
      <3> HIDE DEF k
      <3>4. k \div T \in 0..(b - 1) /\ k % T \in 0..(T - 1) /\ (k \div T) * T + (k % T) = k
        BY <1>7, <3>1
      <3>5. BulkPlace(b, <<"balance", k \div T, k % T>>) = b + ((k \div T) * T + (k % T) + 1)
        BY DEF BulkPlace
      <3>6. <<"balance", k \div T, k % T>> \in Slots(b)
        BY <3>4 DEF Slots
      <3> QED
        BY <3>2, <3>3, <3>4, <3>5, <3>6
    <2>3. CASE ~ (r <= b) /\ ~ (r <= b + m)
      <3> DEFINE k == r - (b + m) - 1
      <3>1. k \in 0..(m - 1)
        BY <1>1, <2>3
      <3>2. BulkSlot(b, r) = <<"mode", k \div T, k % T>>
        BY <1>w, <2>3 DEF BulkSlot
      <3>3. b + m + (k + 1) = r
        BY <1>1
      <3> HIDE DEF k
      <3>4. k \div T \in 0..(b - 1) /\ k % T \in 0..(T - 1) /\ (k \div T) * T + (k % T) = k
        BY <1>7, <3>1
      <3>5. BulkPlace(b, <<"mode", k \div T, k % T>>) = b + m + ((k \div T) * T + (k % T) + 1)
        BY <1>w DEF BulkPlace
      <3>6. <<"mode", k \div T, k % T>> \in Slots(b)
        BY <3>4 DEF Slots
      <3> QED
        BY <3>2, <3>3, <3>4, <3>5, <3>6
    <2> QED
      BY <2>1, <2>2, <2>3
  <1> QED
    BY <1>6, <1>8 DEF m

LEMMA BulkArranged ==
    ASSUME NEW b \in Nat \ {0}
    PROVE  NumberedRows(BuildBessBulk(b).rows, Numeric) = SlotRows(b)
  <1> DEFINE rows == BuildBessBulk(b).rows
             m == b * T
             at == [s \in Slots(b) |-> BulkPlace(b, s)]
             of == [r \in DOMAIN rows |-> BulkSlot(b, r)]
  <1>1. T \in Nat \ {0} /\ m \in Nat
    BY Widths
  <1>w. m = b * T
    OBVIOUS
  <1>2. /\ DOMAIN rows = 1..(b + m + m)
        /\ \A bb \in 0..(b - 1) :
             /\ rows[bb + 1] = SegmentRow(<< <<ColEnergy(b, bb, 0), 1>> >>, 1, Energy0, Energy0)
             /\ \A tt \in 0..(T - 1) :
                  /\ rows[b + (bb * T + tt + 1)] =
                       SegmentRow(BalanceSegment(ColEnergy(b, bb, tt + 1), ColEnergy(b, bb, tt),
                                                 ColCharge(b, bb, tt), ColDischarge(b, bb, tt)), 4, 0, 0)
                  /\ rows[b + m + (bb * T + tt + 1)] =
                       SegmentRow(<< <<ColCharge(b, bb, tt), 1>>, <<ColDischarge(b, bb, tt), 1>> >>,
                                  2, Unbounded, Power)
    BY BulkRowsAt
  <1> HIDE DEF rows, m
  <1>3. ASSUME NEW s \in Slots(b)
        PROVE  NumberedRow(rows[BulkPlace(b, s)], Numeric) = SlotRow(b, s)
    <2>1. CASE \E bb \in 0..(b - 1) : s = <<"init", bb, 0>>
      <3>1. PICK bb \in 0..(b - 1) : s = <<"init", bb, 0>>
        BY <2>1
      <3>2. rows[BulkPlace(b, s)] = SegmentRow(<< <<ColEnergy(b, bb, 0), 1>> >>, 1, Energy0, Energy0)
        BY <1>2, <3>1 DEF BulkPlace
      <3>3. SlotRow(b, s) = <<{<<ColEnergy(b, bb, 0), 1>>}, Energy0, Energy0 * 1>>
        BY <3>1 DEF SlotRow
      <3> QED
        BY <3>2, <3>3, InitSegment
    <2>2. CASE \E bb \in 0..(b - 1), tt \in 0..(T - 1) : s = <<"balance", bb, tt>>
      <3>1. PICK bb \in 0..(b - 1), tt \in 0..(T - 1) : s = <<"balance", bb, tt>>
        BY <2>2
      <3>2. rows[BulkPlace(b, s)] =
              SegmentRow(BalanceSegment(ColEnergy(b, bb, tt + 1), ColEnergy(b, bb, tt),
                                        ColCharge(b, bb, tt), ColDischarge(b, bb, tt)), 4, 0, 0)
        BY <1>2, <3>1 DEF BulkPlace
      <3>3. SlotRow(b, s) =
              <<{<<ColEnergy(b, bb, tt + 1), 1>>, <<ColEnergy(b, bb, tt), -1>>,
                 <<ColCharge(b, bb, tt), -(Dt * Eta)>>, <<ColDischarge(b, bb, tt), Dt \div Eta>>}, 0, 0>>
        BY <3>1 DEF SlotRow
      <3> QED
        BY <3>2, <3>3, BalanceSegmentCells
    <2>3. CASE \E bb \in 0..(b - 1), tt \in 0..(T - 1) : s = <<"mode", bb, tt>>
      <3>1. PICK bb \in 0..(b - 1), tt \in 0..(T - 1) : s = <<"mode", bb, tt>>
        BY <2>3
      <3>2. rows[BulkPlace(b, s)] =
              SegmentRow(<< <<ColCharge(b, bb, tt), 1>>, <<ColDischarge(b, bb, tt), 1>> >>, 2, Unbounded, Power)
        BY <1>2, <1>w, <3>1 DEF BulkPlace
      <3>3. SlotRow(b, s) = <<{<<ColCharge(b, bb, tt), 1>>, <<ColDischarge(b, bb, tt), 1>>}, Unbounded, Power * 1>>
        BY <3>1 DEF SlotRow
      <3> QED
        BY <3>2, <3>3, ModeSegment
    <2> QED
      BY <2>1, <2>2, <2>3 DEF Slots
  <1>4. Arranges(rows, b, at, of)
    <2>1. IsFiniteSet(DOMAIN rows)
      BY <1>1, <1>2, FS_Interval
    <2>2. /\ \A s \in Slots(b) : BulkPlace(b, s) \in DOMAIN rows /\ BulkSlot(b, BulkPlace(b, s)) = s
          /\ \A r \in DOMAIN rows : BulkSlot(b, r) \in Slots(b) /\ BulkPlace(b, BulkSlot(b, r)) = r
      BY <1>2, <1>w, BulkPlaces
    <2> QED
      BY <1>3, <2>1, <2>2 DEF Arranges
  <1> QED
    BY <1>4, ArrangedRows DEF rows

\* What the batteries earn, cell by cell.
Earns(b, k) ==
    LET bb == (k - 1) \div T
        tt == (k - 1) % T
    IN  {<<ColCharge(b, bb, tt), -Dt * Prices[tt]>>, <<ColDischarge(b, bb, tt), Dt * Prices[tt]>>}
EarnedCells(b) == UNION {Earns(b, k) : k \in 1..(b * T)}

\* What is where in the objective of build_bess, and of build_bess_bulk.
LEMMA EarningTerms ==
    ASSUME NEW b \in Nat \ {0}, NEW k \in 1..(b * T)
    PROVE  LET bb == (k - 1) \div T
               tt == (k - 1) % T
               m  == b * T
               o  == BuildBess(b).objective
               p  == BuildBessBulk(b).objective
           IN  /\ tt \in 0..(T - 1)
               /\ o[(k - 1) * 2 + 1] = Term(ColCharge(b, bb, tt), -Dt * Prices[tt])
               /\ o[(k - 1) * 2 + 2] = Term(ColDischarge(b, bb, tt), Dt * Prices[tt])
               /\ p[k] = Term(ColDischarge(b, bb, tt), Dt * Prices[tt])
               /\ p[m + k] = Term(ColCharge(b, bb, tt), -Dt * Prices[tt])
               /\ DOMAIN o = 1..(m * 2) /\ DOMAIN p = 1..(m + m)
  <1> DEFINE m == b * T
             bb == (k - 1) \div T
             tt == (k - 1) % T
             charge == Handles(BessColumns(b), "charge")
             discharge == Handles(BessColumns(b), "discharge")
             o == BuildBess(b).objective
             p == BuildBessBulk(b).objective
             pair(i, j) == <<Term(charge[i * T + j], -Dt * Prices[j]), Term(discharge[i * T + j], Dt * Prices[j])>>
             sold == Grid(b, T, LAMBDA i, j : Term(discharge[i * T + j], Dt * Prices[j]))
             bought == Grid(b, T, LAMBDA i, j : Term(charge[i * T + j], -Dt * Prices[j]))
  <1>1. T \in Nat \ {0} /\ m \in Nat /\ k \in 1..m
    BY Widths
  <1>w. m = b * T
    OBVIOUS
  <1>2. bb \in 0..(b - 1) /\ tt \in 0..(T - 1) /\ bb * T + tt = k - 1
    <2>1. k - 1 \in 0..(b * T - 1)
      BY <1>1
    <2>2. k - 1 \in Nat /\ bb \in 0..(b - 1) /\ tt \in 0..(T - 1)
      BY <1>1, <2>1, RowOfPlace
    <2> QED
      BY <1>1, <2>2, DivMod
  <1>3. charge[bb * T + tt] = ColCharge(b, bb, tt) /\ discharge[bb * T + tt] = ColDischarge(b, bb, tt)
    BY <1>2, HandleNumbers
  <1>4. o = [n \in 1..(m * 2) |-> pair(((n - 1) \div 2) \div T, ((n - 1) \div 2) % T)[((n - 1) % 2) + 1]]
    BY DEF BuildBess, Model, GridEach, Each, For
  <1>5. p = sold \o bought
    BY DEF BuildBessBulk, Model
  <1>6. /\ sold = [n \in 1..m |-> Term(discharge[((n - 1) \div T) * T + ((n - 1) % T)], Dt * Prices[(n - 1) % T])]
        /\ bought = [n \in 1..m |-> Term(charge[((n - 1) \div T) * T + ((n - 1) % T)], -Dt * Prices[(n - 1) % T])]
    BY DEF Grid, For
  <1> HIDE DEF charge, discharge, o, p, sold, bought, m
  <1>7. Items(sold, m) /\ Items(bought, m)
    BY <1>6 DEF Items
  <1>8. Join(p, sold, m, bought, m)
    BY <1>1, <1>5, <1>7, Joined
  <1>9. p[k] = sold[k] /\ p[m + k] = bought[k] /\ DOMAIN p = 1..(m + m)
    <2>1. k \in 1..(m + m)
      BY <1>1
    <2> QED
      BY <1>1, <1>8, <2>1 DEF Join
  <1>10. /\ sold[k] = Term(discharge[bb * T + tt], Dt * Prices[tt])
         /\ bought[k] = Term(charge[bb * T + tt], -Dt * Prices[tt])
    BY <1>1, <1>6
  <1>11. /\ o[(k - 1) * 2 + 1] = pair(bb, tt)[1]
         /\ o[(k - 1) * 2 + 2] = pair(bb, tt)[2]
    <2>1. 0 \in 0..(2 - 1) /\ 1 \in 0..(2 - 1) /\ k - 1 \in Nat /\ 2 \in Nat \ {0}
      BY <1>1
    <2>2. /\ ((k - 1) * 2 + 0) \div 2 = k - 1 /\ ((k - 1) * 2 + 0) % 2 = 0
          /\ ((k - 1) * 2 + 1) \div 2 = k - 1 /\ ((k - 1) * 2 + 1) % 2 = 1
      BY <2>1, AtPlace
    <2>3. /\ (k - 1) * 2 + 1 \in 1..(m * 2) /\ ((k - 1) * 2 + 1) - 1 = (k - 1) * 2 + 0
          /\ (k - 1) * 2 + 2 \in 1..(m * 2) /\ ((k - 1) * 2 + 2) - 1 = (k - 1) * 2 + 1
      BY <1>1
    <2> HIDE DEF pair
    <2>4. o[(k - 1) * 2 + 1] = pair(bb, tt)[0 + 1]
      BY <1>4, <2>2, <2>3
    <2>5. o[(k - 1) * 2 + 2] = pair(bb, tt)[1 + 1]
      BY <1>4, <2>2, <2>3
    <2> QED
      BY <2>4, <2>5
  <1>12. pair(bb, tt)[1] = Term(charge[bb * T + tt], -Dt * Prices[tt])
         /\ pair(bb, tt)[2] = Term(discharge[bb * T + tt], Dt * Prices[tt])
    OBVIOUS
  <1>13. DOMAIN o = 1..(m * 2)
    BY <1>4
  <1> HIDE DEF bb, tt, pair
  <1> QED
    BY <1>2, <1>3, <1>9, <1>10, <1>11, <1>12, <1>13 DEF m, o, p, bb, tt

LEMMA EarnedByBoth ==
    ASSUME NEW b \in Nat \ {0}
    PROVE  /\ NumberedCells(BuildBess(b).objective, Numeric) = EarnedCells(b)
           /\ NumberedCells(BuildBessBulk(b).objective, Numeric) = EarnedCells(b)
  <1> DEFINE m == b * T
             o == BuildBess(b).objective
             p == BuildBessBulk(b).objective
             bb(k) == (k - 1) \div T
             tt(k) == (k - 1) % T
             paid(k) == <<ColCharge(b, bb(k), tt(k)), -Dt * Prices[tt(k)]>>
             got(k) == <<ColDischarge(b, bb(k), tt(k)), Dt * Prices[tt(k)]>>
             cell(t) == <<t.col, Value(t, Numeric)>>
  <1>1. m \in Nat /\ 1 \in 1..m
    BY Widths
  <1>2. ASSUME NEW k \in 1..m
        PROVE  /\ cell(o[(k - 1) * 2 + 1]) = paid(k) /\ cell(o[(k - 1) * 2 + 2]) = got(k)
               /\ cell(p[k]) = got(k) /\ cell(p[m + k]) = paid(k)
               /\ Earns(b, k) = {paid(k), got(k)}
    <2>1. /\ tt(k) \in 0..(T - 1)
          /\ o[(k - 1) * 2 + 1] = Term(ColCharge(b, bb(k), tt(k)), -Dt * Prices[tt(k)])
          /\ o[(k - 1) * 2 + 2] = Term(ColDischarge(b, bb(k), tt(k)), Dt * Prices[tt(k)])
          /\ p[k] = Term(ColDischarge(b, bb(k), tt(k)), Dt * Prices[tt(k)])
          /\ p[m + k] = Term(ColCharge(b, bb(k), tt(k)), -Dt * Prices[tt(k)])
      BY EarningTerms
    <2>2. -Dt * Prices[tt(k)] \in Int /\ Dt * Prices[tt(k)] \in Int
      <3>1. Prices[tt(k)] \in Int
        BY <2>1, WorkloadAssumption DEF WorkloadAssumption, T
      <3> HIDE DEF tt
      <3> QED
        BY <3>1, Widths
    <2> HIDE DEF bb, tt, o, p, m
    <2>3. /\ cell(Term(ColCharge(b, bb(k), tt(k)), -Dt * Prices[tt(k)])) = paid(k)
          /\ cell(Term(ColDischarge(b, bb(k), tt(k)), Dt * Prices[tt(k)])) = got(k)
      BY <2>2, NumberedTerm
    <2>4. Earns(b, k) = {paid(k), got(k)}
      BY DEF Earns, bb, tt
    <2> QED
      BY <2>1, <2>3, <2>4
  <1>3. DOMAIN o = 1..(m * 2) /\ DOMAIN p = 1..(m + m)
    BY <1>1, EarningTerms
  <1>4. /\ NumberedCells(o, Numeric) = {cell(o[i]) : i \in DOMAIN o}
        /\ NumberedCells(p, Numeric) = {cell(p[i]) : i \in DOMAIN p}
    BY DEF NumberedCells
  <1>5. EarnedCells(b) = UNION {Earns(b, k) : k \in 1..m}
    BY DEF EarnedCells
  <1> HIDE DEF m, o, p, paid, got, cell
  <1>6. {cell(o[i]) : i \in DOMAIN o} = UNION {Earns(b, k) : k \in 1..m}
    <2>1. ASSUME NEW i \in 1..(m * 2) PROVE \E k \in 1..m : cell(o[i]) \in Earns(b, k)
      <3>0. 2 \in Nat \ {0} /\ i \in 1..(m * 2)
        OBVIOUS
      <3>1. \E j \in 0..(m - 1), half \in 0..(2 - 1) : i = j * 2 + half + 1
        BY <1>1, <3>0, GridPlaces
      <3>j. PICK j \in 0..(m - 1) : \E half \in 0..(2 - 1) : i = j * 2 + half + 1
        BY <3>1
      <3>2. j + 1 \in 1..m /\ (i = ((j + 1) - 1) * 2 + 1 \/ i = ((j + 1) - 1) * 2 + 2)
        BY <1>1, <3>j
      <3> QED
        BY <1>2, <3>2
    <2>2. ASSUME NEW k \in 1..m PROVE (k - 1) * 2 + 1 \in 1..(m * 2) /\ (k - 1) * 2 + 2 \in 1..(m * 2)
      BY <1>1
    <2>3. ASSUME NEW k \in 1..m, NEW v \in Earns(b, k) PROVE \E i \in 1..(m * 2) : cell(o[i]) = v
      BY <1>2, <2>2
    <2> QED
      BY <1>3, <2>1, <2>3
  <1>7. {cell(p[i]) : i \in DOMAIN p} = UNION {Earns(b, k) : k \in 1..m}
    <2>1. ASSUME NEW i \in 1..(m + m) PROVE \E k \in 1..m : cell(p[i]) \in Earns(b, k)
      <3>1. CASE i \in 1..m
        BY <1>2, <3>1
      <3>2. CASE i \notin 1..m
        <4>1. i - m \in 1..m /\ m + (i - m) = i
          BY <1>1, <3>2
        <4> QED
          BY <1>2, <4>1
      <3> QED
        BY <3>1, <3>2
    <2>2. ASSUME NEW k \in 1..m PROVE k \in 1..(m + m) /\ m + k \in 1..(m + m)
      BY <1>1
    <2>3. ASSUME NEW k \in 1..m, NEW v \in Earns(b, k) PROVE \E i \in 1..(m + m) : cell(p[i]) = v
      BY <1>2, <2>2
    <2> QED
      BY <1>3, <2>1, <2>3
  <1> QED
    BY <1>4, <1>5, <1>6, <1>7 DEF o, p

\* What the probe compares of a model without parameters.
LEMMA NumberedModel ==
    ASSUME NEW m, m.params = Numeric
    PROVE  ByNumber(m) = [variables |-> [c \in DOMAIN m.columns |-> m.columns[c].ub],
                          rows |-> NumberedRows(m.rows, Numeric),
                          objective |-> NumberedCells(m.objective, Numeric), sense |-> m.sense]
  BY DEF ByNumber, NumberedRows, NumberedRow, NumberedCells

LEMMA BessAgree ==
    ASSUME NEW b \in Nat \ {0}
    PROVE  ByNumber(BuildBessBulk(b)) = ByNumber(BuildBess(b))
  <1>1. /\ BuildBess(b).params = Numeric /\ BuildBess(b).columns = BessColumns(b)
        /\ BuildBess(b).rows = FlatBessRows(b, BessColumns(b)) /\ BuildBess(b).sense = "max"
    BY DEF BuildBess, Model
  <1>2. /\ BuildBessBulk(b).params = Numeric /\ BuildBessBulk(b).columns = BessColumns(b)
        /\ BuildBessBulk(b).sense = "max"
    BY DEF BuildBessBulk, Model
  <1>3. ByNumber(BuildBess(b)) =
          [variables |-> [c \in DOMAIN BessColumns(b) |-> BessColumns(b)[c].ub],
           rows |-> SlotRows(b), objective |-> EarnedCells(b), sense |-> "max"]
    BY <1>1, NumberedModel, FlatArranged, EarnedByBoth
  <1>4. ByNumber(BuildBessBulk(b)) =
          [variables |-> [c \in DOMAIN BessColumns(b) |-> BessColumns(b)[c].ub],
           rows |-> SlotRows(b), objective |-> EarnedCells(b), sense |-> "max"]
    BY <1>2, NumberedModel, BulkArranged, EarnedByBoth
  <1> QED
    BY <1>3, <1>4

\* forensic_probe --equiv has nothing to report: for every size of a point,
\* number of periods and width of a row, the scalar and the bulk construction
\* agree, column number by column number.
THEOREM EquivProbeAlwaysAccepts == Spec => []EquivProbeAccepts
  <1>1. ASSUME ChildInv, InstalledInv PROVE EquivProbeAccepts
    <2> SUFFICES ASSUME status = "ok", arm = "roml_core_bulk"
                 PROVE  ByNumber(model) = ByNumber(Scalar(point.workload, point.size))
      BY DEF EquivProbeAccepts
    <2> DEFINE n == point.size
    <2>1. n \in Nat \ {0}
      BY <1>1, SizeOfPoint
    <2>2. /\ Offers(arm) = {"sparse_rows", "bess_96"} /\ ~ Revised(arm)
          /\ "param_bess" \notin Offers(arm)
      <3>1. "roml_core_bulk" \notin PlanningArms /\ "roml_core_bulk" \notin Retaining
        BY DEF PlanningArms, Retaining
      <3> QED
        BY <3>1 DEF Offers, Revised
    <2>3. \A phase : ~ Pending(phase)
      BY <1>1 DEF ChildInv, Pending
    <2>4. model.columns = Built.columns /\ model.rows = Built.rows /\ model.objective = Built.objective
          /\ model.sense = Built.sense /\ model.params = Built.params
      BY <1>1, <2>2, <2>3 DEF InstalledInv
    <2>5. ByNumber(model) = ByNumber(Built)
      BY <2>4 DEF ByNumber
    <2>6. point.workload \in {"sparse_rows", "bess_96"}
      BY <1>1, <2>2 DEF ChildInv
    <2>7. CASE point.workload = "sparse_rows"
      <3>1. Built = SparseOf(arm, n, csr)
        BY <2>7 DEF Built
      <3>2. SparseOf(arm, n, csr) = BuildSparseBulk(n)
        BY DEF SparseOf
      <3>3. Scalar(point.workload, n) = BuildSparse(n, FALSE)
        BY <2>7 DEF Scalar
      <3> QED
        BY <2>1, <2>5, <3>1, <3>2, <3>3, SparseAgree
    <2>8. CASE point.workload = "bess_96"
      <3>1. Built = BessOf(arm, n, csr)
        BY <2>8 DEF Built
      <3>2. BessOf(arm, n, csr) = BuildBessBulk(n)
        BY DEF BessOf
      <3>3. Scalar(point.workload, n) = BuildBess(n)
        BY <2>8 DEF Scalar
      <3> QED
        BY <2>1, <2>5, <3>1, <3>2, <3>3, BessAgree
    <2> QED
      BY <2>6, <2>7, <2>8
  <1> QED
    BY <1>1, BuildInvariance, PTL
=============================================================================
