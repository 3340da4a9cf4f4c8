-------------------------- MODULE ValidationProofs --------------------------
(***************************************************************************)
(* Proofs about RunValidation and Provenance for every set of              *)
(* implementations, cases and revisions: the single status of a validation *)
(* is "ok" exactly when it is earned, and then the artifacts are those of  *)
(* the pinned revision.  IInv says that no failure is lost and none is     *)
(* invented on the way to the status, OriginInv that what is installed is  *)
(* what was checked out.                                                   *)
(***************************************************************************)
EXTENDS Provenance, TLAPS

-----------------------------------------------------------------------------
\* A table with one entry changed.
LEMMA TableUpdate ==
    ASSUME NEW A, NEW B, NEW S, NEW f \in [A -> [B -> S]],
           NEW a \in A, NEW b \in B, NEW v \in S
    PROVE  /\ [f EXCEPT ![a][b] = v] \in [A -> [B -> S]]
           /\ \A x \in A, y \in B :
                 [f EXCEPT ![a][b] = v][x][y] = IF x = a /\ y = b THEN v ELSE f[x][y]
  OBVIOUS

\* The constants: what is supported is a case, and the kinds are distinct.
LEMMA Kinds ==
    /\ \A i \in Impls : Supports[i] \subseteq Cases
    /\ \A i \in Externals : i \in Impls /\ i \notin Adapters /\ i \notin Cores /\ Supports[i] = RunnerCases
    /\ \A i \in Cores : i \in Impls /\ i \notin Adapters /\ i \notin Externals
    /\ \A i \in Adapters : i \in Impls /\ i \notin Externals /\ i \notin Cores
    /\ RunnerCases \subseteq Cases
    /\ BulkCore \in Impls
    /\ \A c \in Cases : Reference[c] \in Adapters /\ c \in Supports[Reference[c]]
  BY ConstantsAssumption DEF Impls

\* Marking implementations as failed.
LEMMA FailingEntries ==
    ASSUME TypeOK, NEW impls
    PROVE  /\ Failing(impls) \in [Impls -> {"ok", "failed"}]
           /\ \A i \in Impls : Failing(impls)[i] = IF i \in impls THEN "failed" ELSE entry[i]
  BY DEF TypeOK, Failing

\* An objective that disagrees with its case's reference.
LEMMA DisagreeingMember ==
    \A t : t \in Disagreeing <=>
              /\ t \in objectives
              /\ \E u \in objectives : /\ u[1] = t[1] /\ u[2] = Reference[t[1]]
                                       /\ t[3] # u[3]
  BY DEF Disagreeing, ReferenceObjective

\* A reason to fail stays one: what was tried is not tried again.
LEMMA ReasonKept ==
    ASSUME Reason, cold \subseteq cold',
           \A i \in Impls : \A c \in Cases : did[i][c] # "untried" => did'[i][c] = did[i][c],
           \A c \in RunnerCases : replay[c] # "untried" => replay'[c] = replay[c],
           ~ provenance => ~ provenance'
    PROVE  Reason'
  <1>1. CASE cold # {}
    BY <1>1 DEF Reason
  <1>2. CASE \E i \in Impls : \E c \in Supports[i] : did[i][c] \in {"miscounted", "raises"}
    <2>1. PICK i \in Impls : \E c \in Supports[i] : did[i][c] \in {"miscounted", "raises"}
      BY <1>2
    <2> PICK c \in Supports[i] : did[i][c] \in {"miscounted", "raises"}
      BY <2>1
    <2>2. c \in Cases
      BY Kinds
    <2>3. did'[i][c] \in {"miscounted", "raises"}
      BY <2>1, <2>2
    <2> QED
      BY <2>3 DEF Reason
  <1>3. CASE \E c \in Cases : \E i, j \in Solved :
                /\ c \in Supports[i] /\ c \in Supports[j]
                /\ did[i][c] # "untried" /\ did[j][c] # "untried" /\ did[i][c] # did[j][c]
    BY <1>3 DEF Reason, Solved, Impls
  <1>4. CASE \E c \in RunnerCases : replay[c] \in {"differs", "raises"}
    BY <1>4 DEF Reason
  <1>5. CASE ~ provenance
    BY <1>5 DEF Reason
  <1> QED
    BY <1>1, <1>2, <1>3, <1>4, <1>5 DEF Reason

-----------------------------------------------------------------------------
\* Before anything is tried there is nothing to report.
LEMMA InitIInv == Init => IInv
  <1> SUFFICES ASSUME Init PROVE IInv
    OBVIOUS
  <1>1. TypeOK
    BY Kinds DEF Init, TypeOK, Sections, Impls
  <1>2. SectionInv
    BY DEF Init, SectionInv
  <1>3. TriedInv
    BY DEF Init, TriedInv, Pending, Impls
  <1>4. ReportInv
    <2>1. \A i \in Impls : \A c \in Supports[i] : did[i][c] = "untried"
      BY Kinds DEF Init
    <2> QED
      BY <2>1 DEF Init, ReportInv, Passing, Solved, Impls
  <1>5. FailureInv
    <2>1. \A i \in Impls : \A c \in Supports[i] : did[i][c] = "untried"
      BY Kinds DEF Init
    <2> QED
      BY <2>1 DEF Init, FailureInv
  <1>6. ReasonInv
    BY DEF Init, ReasonInv
  <1> QED
    BY <1>1, <1>2, <1>3, <1>4, <1>5, <1>6 DEF IInv

\* An adapter that warms up is tried later; one that does not has failed.
LEMMA WarmupStep ==
    ASSUME IInv, NEW a \in Adapters, Warmup(a)
    PROVE  IInv'
  <1>1. /\ pc = "adapters" /\ pc' = pc /\ a \notin warm /\ a \notin cold
        /\ UNCHANGED <<did, replay, provenance, objectives, workloads>>
    BY DEF Warmup
  <1>2. CASE warm' = warm \union {a} /\ UNCHANGED <<cold, todo, entry, status>>
    <2>1. TypeOK'
      BY <1>1, <1>2 DEF IInv, TypeOK
    <2>2. SectionInv'
      BY <1>1, <1>2 DEF IInv, SectionInv
    <2>3. TriedInv' /\ ReportInv' /\ FailureInv' /\ ReasonInv'
      BY <1>1, <1>2 DEF IInv, TriedInv, Pending, ReportInv, FailureInv, ReasonInv, Reason,
                        Disagreeing, ReferenceObjective
    <2> QED
      BY <2>1, <2>2, <2>3 DEF IInv
  <1>3. CASE /\ warm' = warm /\ cold' = cold \union {a}
             /\ todo' = {t \in todo : t[1] # a}
             /\ entry' = Failing({a})
             /\ status' = "failed"
    <2>1. TypeOK'
      BY <1>1, <1>3, FailingEntries DEF IInv, TypeOK
    <2>2. SectionInv'
      BY <1>1, <1>3 DEF IInv, SectionInv
    <2>3. TriedInv'
      BY <1>1, <1>3 DEF IInv, TriedInv, Pending
    <2>4. ReportInv'
      BY <1>1, <1>3 DEF IInv, ReportInv
    <2>5. FailureInv'
      BY <1>1, <1>3, FailingEntries, Kinds DEF IInv, TypeOK, FailureInv
    <2>6. ReasonInv'
      BY <1>1, <1>3 DEF ReasonInv, Reason
    <2> QED
      BY <2>1, <2>2, <2>3, <2>4, <2>5, <2>6 DEF IInv
  <1> QED
    BY <1>2, <1>3 DEF Warmup

\* A skipped pair is none the report has to show.
LEMMA SkipStep ==
    ASSUME IInv, NEW a \in Impls, NEW b \in Cases, Skip(a, b)
    PROVE  IInv'
  <1>1. /\ todo' = todo \ {<<a, b>>} /\ <<a, b>> \in todo /\ b \notin Supports[a]
        /\ workloads' = [workloads EXCEPT ![a][b] = "skipped"]
        /\ UNCHANGED <<pc, warm, cold, did, replay, provenance, objectives, entry, status>>
    BY DEF Skip, observed, Reported
  <1>2. /\ workloads' \in [Impls -> [Cases -> {"none", "ok", "failed", "skipped"}]]
        /\ \A i \in Impls, c \in Cases :
              workloads'[i][c] = IF i = a /\ c = b THEN "skipped" ELSE workloads[i][c]
    BY <1>1, TableUpdate DEF IInv, TypeOK
  <1>3. TypeOK'
    BY <1>1, <1>2 DEF IInv, TypeOK
  <1>4. SectionInv'
    BY <1>1 DEF IInv, SectionInv
  <1>5. TriedInv'
    BY <1>1 DEF IInv, TriedInv, Pending
  <1>6. ReportInv'
    BY <1>1, <1>2, Kinds DEF IInv, ReportInv, Solved, Impls
  <1>7. FailureInv' /\ ReasonInv'
    BY <1>1 DEF IInv, FailureInv, ReasonInv, Reason, Disagreeing, ReferenceObjective
  <1> QED
    BY <1>3, <1>4, <1>5, <1>6, <1>7 DEF IInv

-----------------------------------------------------------------------------
\* What the three ways of trying a build have in common.
LEMMA TryFrame ==
    ASSUME IInv, NEW a \in Impls, NEW b \in Cases, NEW o \in Outcomes,
           <<a, b>> \in todo, todo' = todo \ {<<a, b>>}, Tried(a, b, o),
           UNCHANGED <<pc, warm, cold, replay, provenance>>
    PROVE  /\ did' \in [Impls -> [Cases -> Outcomes \union {"untried"}]]
           /\ \A i \in Impls : \A c \in Cases :
                 did'[i][c] = IF i = a /\ c = b THEN o ELSE did[i][c]
           /\ did[a][b] = "untried"
           /\ SectionInv'
           /\ TriedInv'
           /\ Reason => Reason'
  <1>1. /\ did' \in [Impls -> [Cases -> Outcomes \union {"untried"}]]
        /\ \A i \in Impls, c \in Cases :
              did'[i][c] = IF i = a /\ c = b THEN o ELSE did[i][c]
    BY TableUpdate DEF IInv, TypeOK, Tried
  <1>2. did[a][b] = "untried"
    BY DEF IInv, TriedInv, Pending
  <1>3. SectionInv'
    BY DEF IInv, SectionInv
  <1>4. TriedInv'
    <2> SUFFICES ASSUME NEW i \in Impls, NEW c \in Cases
                 PROVE  /\ Pending(i, c)' => did'[i][c] = "untried"
                        /\ c \in Supports[i] /\ i \notin cold' /\ did'[i][c] = "untried"
                             => Pending(i, c)'
      BY DEF TriedInv
    <2>1. CASE i = a /\ c = b
      <3>1. ~ Pending(i, c)'
        BY <2>1, Kinds DEF IInv, SectionInv, Pending
      <3> QED
        BY <1>1, <2>1, <3>1 DEF Outcomes
    <2>2. CASE ~ (i = a /\ c = b)
      <3>1. Pending(i, c)' <=> Pending(i, c)
        BY <2>2 DEF Pending
      <3> QED
        BY <1>1, <2>2, <3>1 DEF IInv, TriedInv
    <2> QED
      BY <2>1, <2>2
  <1>5. Reason => Reason'
    BY <1>1, <1>2, ReasonKept
  <1> QED
    BY <1>1, <1>2, <1>3, <1>4, <1>5

\* One build of an adapter: its objective is compared unless it raised.
LEMMA CheckAdapterStep ==
    ASSUME IInv, NEW a \in Impls, NEW b \in Cases, NEW o \in Outcomes, CheckAdapter(a, b, o)
    PROVE  IInv'
  <1>1. /\ pc = "adapters" /\ a \in warm /\ <<a, b>> \in todo /\ b \in Supports[a]
        /\ todo' = todo \ {<<a, b>>} /\ Tried(a, b, o)
        /\ workloads' = [workloads EXCEPT ![a][b] =
                             IF o \in {"right", "off"} THEN "ok" ELSE "failed"]
        /\ entry' = IF o \in {"right", "off"} THEN entry ELSE Failing({a})
        /\ objectives' = objectives \union
               (IF o = "raises" THEN {} ELSE {<<b, a, Objective(o)>>})
        /\ UNCHANGED <<pc, warm, cold, replay, provenance, status>>
    BY DEF CheckAdapter, Reported
  <1>2. /\ did' \in [Impls -> [Cases -> Outcomes \union {"untried"}]]
        /\ \A i \in Impls : \A c \in Cases :
              did'[i][c] = IF i = a /\ c = b THEN o ELSE did[i][c]
        /\ did[a][b] = "untried"
        /\ SectionInv' /\ TriedInv' /\ (Reason => Reason')
    BY <1>1, TryFrame
  <1>3. /\ workloads' \in [Impls -> [Cases -> {"none", "ok", "failed", "skipped"}]]
        /\ \A i \in Impls, c \in Cases :
              workloads'[i][c] = IF i = a /\ c = b
                                   THEN IF o \in {"right", "off"} THEN "ok" ELSE "failed"
                                   ELSE workloads[i][c]
    BY <1>1, TableUpdate DEF IInv, TypeOK
  <1>4. a \in Adapters /\ a \in Solved
    BY <1>1 DEF IInv, TypeOK, Solved
  <1>5. TypeOK'
    BY <1>1, <1>2, <1>3, <1>4, FailingEntries DEF IInv, TypeOK, Objective
  <1>6. ReportInv'
    <2>1. \A i \in Impls : \A c \in Supports[i] : did'[i][c] \in Passing => workloads'[i][c] = "ok"
      BY <1>2, <1>3, Kinds DEF IInv, ReportInv, Passing, Outcomes
    <2>2. ASSUME NEW i \in Solved, NEW c \in Supports[i],
                 did'[i][c] \in Passing \/ (i \in Adapters /\ did'[i][c] = "miscounted")
          PROVE  <<c, i, Objective(did'[i][c])>> \in objectives'
      <3>1. i \in Impls /\ c \in Cases
        BY Kinds DEF Solved, Impls
      <3>2. CASE i = a /\ c = b
        BY <1>1, <1>2, <2>2, <3>1, <3>2 DEF Passing
      <3>3. CASE ~ (i = a /\ c = b)
        BY <1>1, <1>2, <2>2, <3>1, <3>3 DEF IInv, ReportInv
      <3> QED
        BY <3>2, <3>3
    <2>3. ASSUME NEW t \in objectives'
          PROVE  /\ t[1] \in Supports[t[2]]
                 /\ did'[t[2]][t[1]] \in {"right", "off", "miscounted"}
                 /\ t[3] = Objective(did'[t[2]][t[1]])
      <3>1. CASE t \in objectives
        <4>1. t[1] \in Cases /\ t[2] \in Impls
          BY <3>1 DEF IInv, TypeOK, Solved, Impls
        <4> QED
          BY <1>2, <3>1, <4>1 DEF IInv, ReportInv
      <3>2. CASE t = <<b, a, Objective(o)>> /\ o # "raises"
        BY <1>1, <1>2, <3>2 DEF Outcomes
      <3> QED
        BY <1>1, <3>1, <3>2
    <2> QED
      BY <2>1, <2>2, <2>3 DEF ReportInv
  <1>7. FailureInv'
    BY <1>1, <1>2, FailingEntries, Kinds DEF IInv, TypeOK, FailureInv, Outcomes
  <1>8. ReasonInv'
    <2>1. CASE o \in {"right", "off"}
      BY <1>1, <1>2, <2>1 DEF IInv, ReasonInv
    <2>2. CASE o \notin {"right", "off"}
      <3>1. did'[a][b] \in {"miscounted", "raises"}
        BY <1>2, <2>2 DEF Outcomes
      <3> QED
        BY <1>1, <3>1 DEF ReasonInv, Reason
    <2> QED
      BY <2>1, <2>2
  <1> QED
    BY <1>2, <1>5, <1>6, <1>7, <1>8 DEF IInv

\* One build of an external runner: reported and compared only when it passes.
LEMMA CheckExternalStep ==
    ASSUME IInv, NEW a \in Impls, NEW b \in Cases, NEW o \in Outcomes, CheckExternal(a, b, o)
    PROVE  IInv'
  <1>1. /\ pc = "externals" /\ <<a, b>> \in todo
        /\ todo' = todo \ {<<a, b>>} /\ Tried(a, b, o)
        /\ UNCHANGED <<pc, warm, cold, replay, provenance>>
    BY DEF CheckExternal
  <1>2. /\ did' \in [Impls -> [Cases -> Outcomes \union {"untried"}]]
        /\ \A i \in Impls : \A c \in Cases :
              did'[i][c] = IF i = a /\ c = b THEN o ELSE did[i][c]
        /\ did[a][b] = "untried"
        /\ SectionInv' /\ TriedInv' /\ (Reason => Reason')
    BY <1>1, TryFrame
  <1>3. a \in Externals /\ b \in Supports[a] /\ a \in Solved /\ a \notin Adapters
    BY <1>1, Kinds DEF IInv, SectionInv, Solved
  <1>4. CASE o \in {"right", "off"}
    <2>1. /\ objectives' = objectives \union {<<b, a, Objective(o)>>}
          /\ workloads' = [workloads EXCEPT ![a][b] = "ok"]
          /\ UNCHANGED <<entry, status>>
      BY <1>4 DEF CheckExternal, Reported
    <2>2. /\ workloads' \in [Impls -> [Cases -> {"none", "ok", "failed", "skipped"}]]
          /\ \A i \in Impls, c \in Cases :
                workloads'[i][c] = IF i = a /\ c = b THEN "ok" ELSE workloads[i][c]
      BY <2>1, TableUpdate DEF IInv, TypeOK
    <2>3. TypeOK'
      BY <1>1, <1>2, <1>3, <2>1, <2>2 DEF IInv, TypeOK, Objective
    <2>4. ReportInv'
      <3>1. \A i \in Impls : \A c \in Supports[i] : did'[i][c] \in Passing => workloads'[i][c] = "ok"
        BY <1>2, <2>2, Kinds DEF IInv, ReportInv
      <3>2. ASSUME NEW i \in Solved, NEW c \in Supports[i],
                   did'[i][c] \in Passing \/ (i \in Adapters /\ did'[i][c] = "miscounted")
            PROVE  <<c, i, Objective(did'[i][c])>> \in objectives'
        <4>1. i \in Impls /\ c \in Cases
          BY Kinds DEF Solved, Impls
        <4>2. CASE i = a /\ c = b
          BY <1>2, <2>1, <4>1, <4>2
        <4>3. CASE ~ (i = a /\ c = b)
          BY <1>2, <2>1, <3>2, <4>1, <4>3 DEF IInv, ReportInv
        <4> QED
          BY <4>2, <4>3
      <3>3. ASSUME NEW t \in objectives'
            PROVE  /\ t[1] \in Supports[t[2]]
                   /\ did'[t[2]][t[1]] \in {"right", "off", "miscounted"}
                   /\ t[3] = Objective(did'[t[2]][t[1]])
        <4>1. CASE t \in objectives
          <5>1. t[1] \in Cases /\ t[2] \in Impls
            BY <4>1 DEF IInv, TypeOK, Solved, Impls
          <5> QED
            BY <1>2, <4>1, <5>1 DEF IInv, ReportInv
        <4>2. CASE t = <<b, a, Objective(o)>>
          BY <1>2, <1>3, <1>4, <4>2
        <4> QED
          BY <2>1, <4>1, <4>2
      <3> QED
        BY <3>1, <3>2, <3>3 DEF ReportInv
    <2>5. FailureInv'
      BY <1>1, <1>2, <1>4, <2>1, Kinds DEF IInv, FailureInv
    <2>6. ReasonInv'
      BY <1>2, <2>1 DEF IInv, ReasonInv
    <2> QED
      BY <1>2, <2>3, <2>4, <2>5, <2>6 DEF IInv
  <1>5. CASE o \notin {"right", "off"}
    <2>1. /\ entry' = Failing({a}) /\ status' = "failed"
          /\ UNCHANGED <<objectives, workloads>>
      BY <1>5 DEF CheckExternal
    <2>2. o \in {"miscounted", "raises"}
      BY <1>5 DEF Outcomes
    <2>3. TypeOK'
      BY <1>1, <1>2, <2>1, FailingEntries DEF IInv, TypeOK
    <2>4. ReportInv'
      <3>1. \A i \in Impls : \A c \in Supports[i] : did'[i][c] \in Passing => workloads'[i][c] = "ok"
        BY <1>2, <2>1, <2>2, Kinds DEF IInv, ReportInv, Passing
      <3>2. ASSUME NEW i \in Solved, NEW c \in Supports[i],
                   did'[i][c] \in Passing \/ (i \in Adapters /\ did'[i][c] = "miscounted")
            PROVE  <<c, i, Objective(did'[i][c])>> \in objectives'
        <4>1. i \in Impls /\ c \in Cases
          BY Kinds DEF Solved, Impls
        <4>2. ~ (i = a /\ c = b)
          BY <1>2, <1>3, <1>5, <2>2, <3>2, <4>1 DEF Passing
        <4> QED
          BY <1>2, <2>1, <3>2, <4>1, <4>2 DEF IInv, ReportInv
      <3>3. ASSUME NEW t \in objectives'
            PROVE  /\ t[1] \in Supports[t[2]]
                   /\ did'[t[2]][t[1]] \in {"right", "off", "miscounted"}
                   /\ t[3] = Objective(did'[t[2]][t[1]])
        <4>1. t[1] \in Cases /\ t[2] \in Impls /\ t \in objectives
          BY <2>1 DEF IInv, TypeOK, Solved, Impls
        <4> QED
          BY <1>2, <4>1 DEF IInv, ReportInv
      <3> QED
        BY <3>1, <3>2, <3>3 DEF ReportInv
    <2>5. FailureInv'
      BY <1>1, <1>2, <2>1, FailingEntries, Kinds DEF IInv, TypeOK, FailureInv
    <2>6. ReasonInv'
      <3>1. did'[a][b] \in {"miscounted", "raises"}
        BY <1>2, <2>2
      <3> QED
        BY <1>3, <3>1 DEF ReasonInv, Reason
    <2> QED
      BY <1>2, <2>3, <2>4, <2>5, <2>6 DEF IInv
  <1> QED
    BY <1>4, <1>5

\* One build of the core binary: counted, never solved.
LEMMA CheckCoreStep ==
    ASSUME IInv, NEW a \in Impls, NEW b \in Cases, NEW o \in Outcomes, CheckCore(a, b, o)
    PROVE  IInv'
  <1>1. /\ pc = "cores" /\ <<a, b>> \in todo /\ b \in Supports[a]
        /\ todo' = todo \ {<<a, b>>} /\ Tried(a, b, o)
        /\ workloads' = [workloads EXCEPT ![a][b] = IF o = "raises" THEN "none"
                             ELSE IF o = "miscounted" THEN "failed" ELSE "ok"]
        /\ entry' = IF o \in {"right", "off"} THEN entry ELSE Failing({a})
        /\ UNCHANGED <<pc, warm, cold, replay, provenance, objectives, status>>
    BY DEF CheckCore, Reported
  <1>2. /\ did' \in [Impls -> [Cases -> Outcomes \union {"untried"}]]
        /\ \A i \in Impls : \A c \in Cases :
              did'[i][c] = IF i = a /\ c = b THEN o ELSE did[i][c]
        /\ did[a][b] = "untried"
        /\ SectionInv' /\ TriedInv' /\ (Reason => Reason')
    BY <1>1, TryFrame
  <1>3. /\ workloads' \in [Impls -> [Cases -> {"none", "ok", "failed", "skipped"}]]
        /\ \A i \in Impls, c \in Cases :
              workloads'[i][c] = IF i = a /\ c = b
                                   THEN IF o = "raises" THEN "none"
                                        ELSE IF o = "miscounted" THEN "failed" ELSE "ok"
                                   ELSE workloads[i][c]
    BY <1>1, TableUpdate DEF IInv, TypeOK
  <1>4. a \notin Solved
    BY <1>1, Kinds DEF IInv, SectionInv, Solved
  <1>5. TypeOK'
    BY <1>1, <1>2, <1>3, FailingEntries DEF IInv, TypeOK
  <1>6. ReportInv'
    <2>1. \A i \in Impls : \A c \in Supports[i] : did'[i][c] \in Passing => workloads'[i][c] = "ok"
      <3> SUFFICES ASSUME NEW i \in Impls, NEW c \in Supports[i], did'[i][c] \in Passing
                   PROVE  workloads'[i][c] = "ok"
        OBVIOUS
      <3>1. c \in Cases
        BY Kinds
      <3>2. CASE i = a /\ c = b
        <4>1. o \notin {"raises", "miscounted"}
          BY <1>2, <3>1, <3>2 DEF Passing
        <4> QED
          BY <1>3, <3>1, <3>2, <4>1
      <3>3. CASE ~ (i = a /\ c = b)
        BY <1>2, <1>3, <3>1, <3>3 DEF IInv, ReportInv
      <3> QED
        BY <3>2, <3>3
    <2>2. ASSUME NEW i \in Solved, NEW c \in Supports[i]
          PROVE  did'[i][c] = did[i][c]
      BY <1>2, <1>4, Kinds DEF Solved, Impls
    <2>3. ASSUME NEW t \in objectives'
          PROVE  did'[t[2]][t[1]] = did[t[2]][t[1]] /\ t \in objectives
      <3>1. t[1] \in Cases /\ t[2] \in Impls /\ t[2] \in Solved /\ t \in objectives
        BY <1>1 DEF IInv, TypeOK, Solved, Impls
      <3> QED
        BY <1>2, <1>4, <3>1
    <2>4. \A i \in Solved : \A c \in Supports[i] :
             (did'[i][c] \in Passing \/ (i \in Adapters /\ did'[i][c] = "miscounted"))
               => <<c, i, Objective(did'[i][c])>> \in objectives'
      BY <1>1, <2>2 DEF IInv, ReportInv
    <2>5. \A t \in objectives' :
             /\ t[1] \in Supports[t[2]]
             /\ did'[t[2]][t[1]] \in {"right", "off", "miscounted"}
             /\ t[3] = Objective(did'[t[2]][t[1]])
      BY <1>1, <2>3 DEF IInv, ReportInv
    <2> QED
      BY <2>1, <2>4, <2>5 DEF ReportInv
  <1>7. FailureInv'
    <2>1. Disagreeing' = Disagreeing
      BY <1>1 DEF Disagreeing, ReferenceObjective
    <2>2. \A i \in Impls : entry[i] = "failed" => entry'[i] = "failed"
      BY <1>1, FailingEntries DEF IInv
    <2>3. \A i \in Impls : \A c \in Supports[i] :
             did'[i][c] \in {"miscounted", "raises"} => entry'[i] = "failed"
      BY <1>1, <1>2, <2>2, FailingEntries, Kinds DEF IInv, FailureInv
    <2>4. \A i \in cold : i \in Impls
      BY Kinds DEF IInv, TypeOK
    <2> QED
      BY <1>1, <2>1, <2>2, <2>3, <2>4 DEF IInv, FailureInv
  <1>8. ReasonInv'
    <2>1. CASE o \in {"right", "off"}
      BY <1>1, <1>2, <2>1 DEF IInv, ReasonInv
    <2>2. CASE o \notin {"right", "off"}
      <3>1. did'[a][b] \in {"miscounted", "raises"}
        BY <1>2, <2>2 DEF Outcomes
      <3> QED
        BY <1>1, <3>1 DEF ReasonInv, Reason
    <2> QED
      BY <2>1, <2>2
  <1> QED
    BY <1>2, <1>5, <1>6, <1>7, <1>8 DEF IInv

-----------------------------------------------------------------------------
\* A section begins with all its pairs, none of which has been tried.
LEMMA SectionStep ==
    ASSUME IInv, AdaptersDone \/ ExternalsDone \/ CoresDone
    PROVE  IInv'
  <1>1. UNCHANGED <<warm, cold, did, replay, provenance, objectives, workloads, entry, status>>
    BY DEF AdaptersDone, ExternalsDone, CoresDone, observed, report
  <1>2. \/ /\ pc = "adapters" /\ warm \union cold = Adapters /\ todo = {}
           /\ pc' = "externals" /\ todo' = Externals \X RunnerCases
        \/ pc = "externals" /\ todo = {} /\ pc' = "agreement" /\ todo' = todo
        \/ pc = "cores" /\ todo = {} /\ pc' = "native" /\ todo' = todo
    BY DEF AdaptersDone, ExternalsDone, CoresDone
  <1>3. TypeOK'
    BY <1>1, <1>2, Kinds DEF IInv, TypeOK, Sections
  <1>4. SectionInv'
    BY <1>1, <1>2 DEF IInv, SectionInv
  <1>5. TriedInv'
    <2> SUFFICES ASSUME NEW i \in Impls, NEW c \in Cases
                 PROVE  /\ Pending(i, c)' => Pending(i, c)
                        /\ c \in Supports[i] /\ Pending(i, c) => Pending(i, c)'
      BY <1>1 DEF IInv, TriedInv
    <2> QED
      BY <1>2, Kinds DEF Pending
  <1>6. ReportInv' /\ ReasonInv'
    BY <1>1 DEF IInv, ReportInv, ReasonInv, Reason
  <1>7. FailureInv'
    <2>1. Disagreeing' = Disagreeing
      BY <1>1 DEF Disagreeing, ReferenceObjective
    <2> QED
      BY <1>1, <1>2, <2>1 DEF IInv, FailureInv
  <1> QED
    BY <1>3, <1>4, <1>5, <1>6, <1>7 DEF IInv

\* When the objectives are compared every solved build has been tried, so a
\* case without a reference objective is one whose reference failed, and an
\* objective that differs is another model.
LEMMA AgreementReason ==
    ASSUME IInv, pc = "agreement", NEW t \in Disagreeing \union objectives,
           t \in Disagreeing \/ t[1] \in WithoutReference
    PROVE  Reason
  <1>1. t \in objectives
    BY DisagreeingMember
  <1>2. t[1] \in Cases /\ t[2] \in Solved
    BY <1>1 DEF IInv, TypeOK
  <1>3. CASE t \in Disagreeing
    <2>1. PICK u \in objectives : u[1] = t[1] /\ u[2] = Reference[t[1]] /\ t[3] # u[3]
      BY <1>3, DisagreeingMember
    <2>2. u[2] \in Solved
      BY <2>1 DEF IInv, TypeOK
    <2>3. /\ t[1] \in Supports[t[2]] /\ t[1] \in Supports[u[2]]
          /\ did[t[2]][t[1]] # "untried" /\ did[u[2]][t[1]] # "untried"
          /\ did[t[2]][t[1]] # did[u[2]][t[1]]
      BY <1>1, <2>1 DEF IInv, ReportInv
    <2> QED
      BY <1>2, <2>2, <2>3 DEF Reason
  <1>4. CASE t[1] \in WithoutReference
    <2> DEFINE r == Reference[t[1]]
    <2>1. ReferenceObjective(t[1]) = {}
      BY <1>4 DEF WithoutReference
    <2>2. r \in Adapters /\ r \in Solved /\ r \in Impls /\ t[1] \in Supports[r]
      BY <1>2, Kinds DEF Solved
    <2>3. <<t[1], r, Objective(did[r][t[1]])>> \notin objectives
      <3> DEFINE w == <<t[1], r, Objective(did[r][t[1]])>>
      <3>1. w[1] = t[1] /\ w[2] = r
        OBVIOUS
      <3> QED
        BY <2>1, <3>1 DEF ReferenceObjective
    <2>4. ~ Pending(r, t[1])
      BY <2>2, Kinds DEF IInv, SectionInv, Pending
    <2>5. CASE r \in cold
      BY <2>5 DEF Reason
    <2>6. CASE r \notin cold
      <3>1. did[r][t[1]] # "untried"
        BY <1>2, <2>2, <2>4, <2>6 DEF IInv, TriedInv
      <3>2. did[r][t[1]] \notin {"right", "off", "miscounted"}
        BY <2>2, <2>3 DEF IInv, ReportInv, Passing
      <3>3. did[r][t[1]] = "raises"
        BY <1>2, <2>2, <3>1, <3>2 DEF IInv, TypeOK, Outcomes
      <3> QED
        BY <2>2, <3>3 DEF Reason
    <2> QED
      BY <2>5, <2>6
  <1> QED
    BY <1>3, <1>4

\* The comparison fails the status exactly when there is a reason.
LEMMA AgreementStep ==
    ASSUME IInv, Agreement
    PROVE  IInv'
  <1>1. /\ pc = "agreement" /\ pc' = "cores" /\ todo' = Cores \X Cases
        /\ entry' = Failing({t[2] : t \in Disagreeing})
        /\ status' = IF Disagreeing = {} /\ WithoutReference = {} THEN status ELSE "failed"
        /\ UNCHANGED <<warm, cold, did, replay, provenance, objectives, workloads>>
    BY DEF Agreement, observed
  <1>2. /\ entry' \in [Impls -> {"ok", "failed"}]
        /\ \A i \in Impls : entry'[i] = IF i \in {t[2] : t \in Disagreeing} THEN "failed" ELSE entry[i]
    BY <1>1, FailingEntries DEF IInv
  <1>3. TypeOK'
    BY <1>1, <1>2, Kinds DEF IInv, TypeOK, Sections
  <1>4. SectionInv'
    BY <1>1 DEF IInv, SectionInv
  <1>5. TriedInv'
    <2> SUFFICES ASSUME NEW i \in Impls, NEW c \in Cases
                 PROVE  Pending(i, c)' <=> Pending(i, c)
      BY <1>1 DEF IInv, TriedInv
    <2> QED
      BY <1>1, Kinds DEF IInv, SectionInv, Pending
  <1>6. ReportInv'
    BY <1>1 DEF IInv, ReportInv
  <1>7. FailureInv'
    <2>1. Disagreeing' = Disagreeing
      BY <1>1 DEF Disagreeing, ReferenceObjective
    <2>2. \A i \in Impls : entry[i] = "failed" => entry'[i] = "failed"
      BY <1>2
    <2>3. \A i \in cold : i \in Impls
      BY Kinds DEF IInv, TypeOK
    <2> QED
      BY <1>1, <2>1, <2>2, <2>3 DEF IInv, FailureInv
  <1>8. ReasonInv'
    <2>1. Reason => Reason'
      BY <1>1 DEF Reason
    <2>2. CASE Disagreeing = {} /\ WithoutReference = {}
      BY <1>1, <1>2, <2>1, <2>2 DEF IInv, ReasonInv
    <2>3. CASE ~ (Disagreeing = {} /\ WithoutReference = {})
      <3>1. \E t \in Disagreeing \union objectives : t \in Disagreeing \/ t[1] \in WithoutReference
        BY <2>3 DEF WithoutReference
      <3>2. Reason
        BY <1>1, <3>1, AgreementReason
      <3> QED
        BY <2>1, <3>2 DEF ReasonInv
    <2> QED
      BY <2>2, <2>3
  <1> QED
    BY <1>3, <1>4, <1>5, <1>6, <1>7, <1>8 DEF IInv

\* The probe's answer for one case.
LEMMA CheckNativeStep ==
    ASSUME IInv, NEW b \in RunnerCases, NEW r \in Replays, CheckNative(b, r)
    PROVE  IInv'
  <1>1. /\ pc = "native" /\ replay[b] = "untried" /\ replay' = [replay EXCEPT ![b] = r]
        /\ entry' = IF r = "equal" THEN entry ELSE Failing({BulkCore})
        /\ status' = IF r = "equal" THEN status ELSE "failed"
        /\ UNCHANGED <<pc, todo, warm, cold, did, provenance, objectives, workloads>>
    BY DEF CheckNative
  <1>2. /\ replay' \in [RunnerCases -> Replays \union {"untried"}]
        /\ \A c \in RunnerCases : replay'[c] = IF c = b THEN r ELSE replay[c]
    BY <1>1 DEF IInv, TypeOK
  <1>3. TypeOK'
    BY <1>1, <1>2, FailingEntries DEF IInv, TypeOK
  <1>4. SectionInv'
    BY <1>1 DEF IInv, SectionInv
  <1>5. TriedInv' /\ ReportInv'
    BY <1>1 DEF IInv, TriedInv, Pending, ReportInv
  <1>6. FailureInv'
    <2>1. Disagreeing' = Disagreeing
      BY <1>1 DEF Disagreeing, ReferenceObjective
    <2>2. \A i \in Impls : entry[i] = "failed" => entry'[i] = "failed"
      BY <1>1, FailingEntries DEF IInv
    <2>3. \A i \in cold : i \in Impls
      BY Kinds DEF IInv, TypeOK
    <2> QED
      BY <1>1, <1>2, <2>1, <2>2, <2>3 DEF IInv, FailureInv
  <1>7. ReasonInv'
    <2>1. Reason => Reason'
      BY <1>1, <1>2, ReasonKept
    <2>2. CASE r = "equal"
      BY <1>1, <2>1, <2>2 DEF IInv, ReasonInv
    <2>3. CASE r # "equal"
      BY <1>2, <2>3 DEF ReasonInv, Reason, Replays
    <2> QED
      BY <2>2, <2>3
  <1> QED
    BY <1>3, <1>4, <1>5, <1>6, <1>7 DEF IInv

\* The last loops: every entry and the artifacts reach the status.
LEMMA VerdictStep ==
    ASSUME IInv, NEW found \in BOOLEAN, Verdict(found)
    PROVE  IInv'
  <1>1. /\ pc = "native" /\ pc' = "done"
        /\ \A c \in RunnerCases : replay[c] # "untried"
        /\ UNCHANGED <<todo, warm, cold, did, replay, objectives, workloads, entry>>
    BY DEF Verdict
  <1>2. provenance' = found
    BY DEF Verdict
  <1>3. status' = IF (\A i \in Impls : entry[i] = "ok") /\ found THEN status ELSE "failed"
    BY DEF Verdict
  <1>4. TypeOK'
    <2>1. provenance' \in BOOLEAN
      BY <1>2
    <2> QED
      BY <1>1, <1>3, <2>1 DEF IInv, TypeOK, Sections
  <1>5. SectionInv'
    BY <1>1 DEF IInv, SectionInv
  <1>6. TriedInv' /\ ReportInv'
    BY <1>1 DEF IInv, SectionInv, TriedInv, Pending, ReportInv
  <1>7. FailureInv'
    <2>1. Disagreeing' = Disagreeing
      BY <1>1 DEF Disagreeing, ReferenceObjective
    <2>2. status' = "ok" => status = "ok" /\ provenance' /\ \A i \in Impls : entry[i] = "ok"
      BY <1>2, <1>3
    <2>3. status = "failed" => status' = "failed"
      BY <1>3
    <2> QED
      BY <1>1, <2>1, <2>2, <2>3 DEF IInv, FailureInv
  <1>8. ReasonInv'
    <2>1. provenance
      BY <1>1 DEF IInv, SectionInv
    <2>2. Reason => Reason'
      BY <1>1, <2>1, ReasonKept
    <2>3. CASE \E i \in Impls : entry[i] = "failed"
      BY <2>2, <2>3 DEF IInv, ReasonInv
    <2>4. CASE status = "failed"
      BY <2>2, <2>4 DEF IInv, ReasonInv
    <2>5. CASE ~ found
      BY <1>2, <2>5 DEF ReasonInv, Reason
    <2>6. CASE found /\ status = "ok" /\ \A i \in Impls : entry[i] = "ok"
      <3>1. status' = "ok" /\ \A i \in Impls : entry'[i] = "ok"
        BY <1>1, <1>3, <2>6
      <3> QED
        BY <3>1 DEF ReasonInv
    <2> QED
      BY <2>3, <2>4, <2>5, <2>6 DEF IInv, TypeOK
  <1> QED
    BY <1>4, <1>5, <1>6, <1>7, <1>8 DEF IInv

\* Every step of run_validation preserves the invariant.
LEMMA NextIInv == IInv /\ [Next]_vars => IInv'
  <1> SUFFICES ASSUME IInv, [Next]_vars PROVE IInv'
    OBVIOUS
  <1>1. CASE \E i \in Adapters : Warmup(i)
    BY <1>1, WarmupStep
  <1>2. CASE \E i \in Impls, c \in Cases : Skip(i, c)
    BY <1>2, SkipStep
  <1>3. CASE \E i \in Impls, c \in Cases : \E o \in Outcomes :
                CheckAdapter(i, c, o) \/ CheckExternal(i, c, o) \/ CheckCore(i, c, o)
    BY <1>3, CheckAdapterStep, CheckExternalStep, CheckCoreStep
  <1>4. CASE AdaptersDone \/ ExternalsDone \/ CoresDone
    BY <1>4, SectionStep
  <1>5. CASE Agreement
    BY <1>5, AgreementStep
  <1>6. CASE \E c \in RunnerCases, r \in Replays : CheckNative(c, r)
    BY <1>6, CheckNativeStep
  <1>7. CASE \E found \in BOOLEAN : Verdict(found)
    BY <1>7, VerdictStep
  <1>8. CASE UNCHANGED vars
    <2>1. UNCHANGED <<pc, todo, warm, cold, did, replay, provenance,
                      objectives, workloads, entry, status>>
      BY <1>8 DEF vars, observed, report
    <2>2. TypeOK' /\ SectionInv'
      BY <2>1 DEF IInv, TypeOK, SectionInv
    <2>3. TriedInv' /\ ReportInv'
      BY <2>1 DEF IInv, TriedInv, Pending, ReportInv
    <2>4. FailureInv' /\ ReasonInv'
      BY <2>1 DEF IInv, FailureInv, Disagreeing, ReferenceObjective, ReasonInv, Reason
    <2> QED
      BY <2>2, <2>3, <2>4 DEF IInv
  <1> QED
    BY <1>1, <1>2, <1>3, <1>4, <1>5, <1>6, <1>7, <1>8 DEF Next

-----------------------------------------------------------------------------
\* A status "ok" at the end has every build behind it.
LEMMA OkLemma ==
    ASSUME IInv, pc = "done", status = "ok"
    PROVE  /\ warm = Adapters
           /\ \A i \in Impls : \A c \in Supports[i] : did[i][c] \in Passing
           /\ \A c \in RunnerCases : replay[c] = "equal"
           /\ provenance
  <1>1. cold = {}
    BY Kinds DEF IInv, TypeOK, FailureInv
  <1>2. warm = Adapters
    BY <1>1 DEF IInv, TypeOK, SectionInv
  <1>3. ASSUME NEW i \in Impls, NEW c \in Supports[i]
        PROVE  did[i][c] \in Passing
    <2>1. c \in Cases
      BY Kinds
    <2>2. ~ Pending(i, c)
      BY DEF IInv, SectionInv, Pending
    <2>3. did[i][c] # "untried"
      BY <1>1, <2>1, <2>2 DEF IInv, TriedInv
    <2>4. did[i][c] \notin {"miscounted", "raises"}
      BY DEF IInv, FailureInv
    <2> QED
      BY <2>1, <2>3, <2>4 DEF IInv, TypeOK, Outcomes, Passing
  <1>4. ASSUME NEW c \in RunnerCases
        PROVE  replay[c] = "equal"
    BY DEF IInv, TypeOK, SectionInv, FailureInv, Replays
  <1>5. provenance
    BY DEF IInv, FailureInv
  <1> QED
    BY <1>2, <1>3, <1>4, <1>5

\* And its objectives all agree, each with its case's reference.
LEMMA OkAgrees ==
    ASSUME IInv, pc = "done", status = "ok", NEW c \in Cases
    PROVE  SameModel(c)
  <1> SUFFICES ASSUME NEW i \in Solved, NEW j \in Solved,
                      c \in Supports[i], c \in Supports[j]
               PROVE  did[i][c] = did[j][c]
    BY DEF SameModel
  <1> DEFINE r == Reference[c]
  <1>1. r \in Solved /\ c \in Supports[r]
    BY Kinds DEF Solved
  <1>2. /\ did[i][c] \in Passing /\ did[j][c] \in Passing
        /\ did[r][c] \in Passing
    BY <1>1, OkLemma DEF Solved, Impls
  <1>3. ASSUME NEW k \in Solved, c \in Supports[k], did[k][c] \in Passing
        PROVE  did[k][c] = did[r][c]
    <2> DEFINE t == <<c, k, Objective(did[k][c])>>
               u == <<c, r, Objective(did[r][c])>>
    <2>1. t \in objectives /\ u \in objectives
      BY <1>1, <1>2, <1>3 DEF IInv, ReportInv
    <2>2. t \notin Disagreeing
      BY DEF IInv, FailureInv
    <2>3. u[1] = t[1] /\ u[2] = Reference[t[1]]
      OBVIOUS
    <2>4. t[3] = u[3]
      BY <2>1, <2>2, <2>3, DisagreeingMember
    <2>5. Objective(did[k][c]) = Objective(did[r][c])
      BY <2>4
    <2> QED
      BY <1>2, <1>3, <2>5 DEF Objective, Passing
  <1> QED
    BY <1>2, <1>3

LEMMA VerdictLemma == IInv => VerdictIsEarned
  <1> SUFFICES ASSUME IInv, pc = "done"
               PROVE  status = "ok" <=>
                        /\ warm = Adapters
                        /\ \A i \in Impls : \A c \in Supports[i] : did[i][c] \in {"right", "off"}
                        /\ \A c \in Cases : SameModel(c)
                        /\ \A c \in RunnerCases : replay[c] = "equal"
                        /\ provenance
    BY DEF VerdictIsEarned
  <1>1. CASE status = "ok"
    BY <1>1, OkLemma, OkAgrees DEF Passing
  <1>2. CASE status = "failed"
    <2> SUFFICES ASSUME warm = Adapters,
                        \A i \in Impls : \A c \in Supports[i] : did[i][c] \in {"right", "off"},
                        \A c \in Cases : SameModel(c),
                        \A c \in RunnerCases : replay[c] = "equal",
                        provenance
                 PROVE  FALSE
      BY <1>2
    <2>1. Reason
      BY <1>2 DEF IInv, ReasonInv
    <2>2. cold = {}
      BY DEF IInv, TypeOK, SectionInv
    <2>3. ~ \E c \in Cases : \E i, j \in Solved :
              /\ c \in Supports[i] /\ c \in Supports[j]
              /\ did[i][c] # "untried" /\ did[j][c] # "untried" /\ did[i][c] # did[j][c]
      BY DEF SameModel
    <2> QED
      BY <2>1, <2>2, <2>3 DEF Reason
  <1> QED
    BY <1>1, <1>2 DEF IInv, TypeOK

LEMMA SkippedLemma == IInv => NothingSilentlySkipped
  <1> SUFFICES ASSUME IInv, pc = "done", status = "ok", NEW i \in Impls, NEW c \in Supports[i]
               PROVE  /\ workloads[i][c] = "ok"
                      /\ i \in Solved => \E v \in {"canonical", "other"} : <<c, i, v>> \in objectives
    BY DEF NothingSilentlySkipped
  <1>1. did[i][c] \in Passing
    BY OkLemma
  <1>2. workloads[i][c] = "ok"
    BY <1>1 DEF IInv, ReportInv
  <1>3. i \in Solved => <<c, i, Objective(did[i][c])>> \in objectives
    BY <1>1 DEF IInv, ReportInv
  <1>4. Objective(did[i][c]) \in {"canonical", "other"}
    BY DEF Objective
  <1> QED
    BY <1>2, <1>3, <1>4

-----------------------------------------------------------------------------
(***************************************************************************)
(* The artifacts.                                                          *)
(***************************************************************************)

\* A step of the composition is a step of run_validation or none.
LEMMA StepOfValidation == [ProvenanceNext]_<<vars, origin>> => [Next]_vars
  <1> SUFFICES ASSUME [ProvenanceNext]_<<vars, origin>> PROVE [Next]_vars
    OBVIOUS
  <1>1. CASE Validating
    <2>1. (Problems(RomlArtifacts) = {}) \in BOOLEAN
      OBVIOUS
    <2> QED
      BY <1>1, <2>1 DEF Validating, Next
  <1>2. CASE \E sha \in Shas : MovePin(sha)
    BY <1>2 DEF MovePin
  <1>3. CASE Sync \/ Checkout \/ BuildWheel \/ Install \/ BuildCore \/ StopBootstrap \/ CargoBuild
    BY <1>3 DEF Sync, Checkout, BuildWheel, Install, BuildCore, StopBootstrap, CargoBuild
  <1>4. CASE UNCHANGED <<vars, origin>>
    BY <1>4
  <1> QED
    BY <1>1, <1>2, <1>3, <1>4 DEF ProvenanceNext

LEMMA InitOriginInv == ProvenanceInit => OriginInv
  <1> SUFFICES ASSUME ProvenanceInit PROVE OriginInv
    OBVIOUS
  <1>1. OriginTypeOK
    BY DEF ProvenanceInit, OriginTypeOK
  <1>2. ChainInv
    BY DEF ProvenanceInit, ChainInv, Rebuilding
  <1>3. ValidationInv
    <2>1. \A i \in Cores, c \in Cases : did[i][c] = "untried"
      BY Kinds DEF ProvenanceInit, Init
    <2> QED
      BY <2>1 DEF ProvenanceInit, Init, ValidationInv
  <1> QED
    BY <1>1, <1>2, <1>3 DEF OriginInv

\* The pin and the artifacts move only before run_validation has begun, when
\* no core has been tried.
LEMMA OriginFrame ==
    ASSUME IInv, OriginInv, UNCHANGED vars, BeforeValidation
    PROVE  ValidationInv'
  <1>1. UNCHANGED <<pc, warm, cold, did>>
    BY DEF vars, observed
  <1>2. pc = "adapters" /\ BeforeValidation'
    BY <1>1 DEF BeforeValidation
  <1>3. \A i \in Cores, c \in Cases : did[i][c] = "untried"
    BY <1>2, Kinds DEF IInv, TriedInv, Pending
  <1> QED
    BY <1>1, <1>2, <1>3 DEF ValidationInv

\* A new pin, and each step of bootstrap.sh, keeps the chain from the checkout
\* to what is installed.
LEMMA OriginStep ==
    ASSUME IInv, OriginInv,
           \/ \E sha \in Shas : MovePin(sha)
           \/ Sync \/ Checkout \/ BuildWheel \/ Install \/ BuildCore \/ StopBootstrap \/ CargoBuild
    PROVE  OriginInv'
  <1>1. BeforeValidation /\ UNCHANGED vars
    BY DEF OriginInv, ValidationInv, MovePin, Sync, Checkout, BuildWheel, Install, BuildCore,
           StopBootstrap, CargoBuild
  <1>2. ValidationInv'
    BY <1>1, OriginFrame
  <1>3. CASE \E sha \in Shas : MovePin(sha)
    <2>1. OriginTypeOK'
      BY <1>3 DEF OriginInv, OriginTypeOK, MovePin, artifacts
    <2>2. ChainInv'
      BY <1>3 DEF OriginInv, ChainInv, Rebuilding, MovePin, artifacts
    <2> QED
      BY <1>2, <2>1, <2>2 DEF OriginInv
  <1>4. CASE Sync
    <2>1. OriginTypeOK'
      BY <1>4 DEF OriginInv, OriginTypeOK, Sync
    <2>2. ChainInv'
      BY <1>4 DEF OriginInv, ChainInv, Rebuilding, Sync
    <2> QED
      BY <1>2, <2>1, <2>2 DEF OriginInv
  <1>5. CASE Checkout
    <2>1. OriginTypeOK'
      BY <1>5 DEF OriginInv, OriginTypeOK, Checkout
    <2>2. ChainInv'
      BY <1>5 DEF OriginInv, ChainInv, Rebuilding, Checkout
    <2> QED
      BY <1>2, <2>1, <2>2 DEF OriginInv
  <1>6. CASE BuildWheel
    <2>1. OriginTypeOK'
      BY <1>6 DEF OriginInv, OriginTypeOK, BuildWheel
    <2>2. ChainInv'
      BY <1>6 DEF OriginInv, ChainInv, Rebuilding, BuildWheel
    <2> QED
      BY <1>2, <2>1, <2>2 DEF OriginInv
  <1>7. CASE Install
    <2>1. OriginTypeOK'
      BY <1>7 DEF OriginInv, OriginTypeOK, Install
    <2>2. ChainInv'
      BY <1>7 DEF OriginInv, ChainInv, Rebuilding, Install
    <2> QED
      BY <1>2, <2>1, <2>2 DEF OriginInv
  <1>8. CASE BuildCore
    <2>1. OriginTypeOK'
      BY <1>8 DEF OriginInv, OriginTypeOK, BuildCore
    <2>2. ChainInv'
      BY <1>8 DEF OriginInv, ChainInv, Rebuilding, BuildCore
    <2> QED
      BY <1>2, <2>1, <2>2 DEF OriginInv
  <1>9. CASE StopBootstrap
    <2>1. OriginTypeOK'
      BY <1>9 DEF OriginInv, OriginTypeOK, StopBootstrap, artifacts
    <2>2. ChainInv'
      BY <1>9 DEF OriginInv, ChainInv, Rebuilding, StopBootstrap, artifacts
    <2> QED
      BY <1>2, <2>1, <2>2 DEF OriginInv
  <1>10. CASE CargoBuild
    <2>1. OriginTypeOK'
      BY <1>10 DEF OriginInv, OriginTypeOK, CargoBuild
    <2>2. ChainInv'
      BY <1>10 DEF OriginInv, ChainInv, Rebuilding, CargoBuild
    <2> QED
      BY <1>2, <2>1, <2>2 DEF OriginInv
  <1> QED
    BY <1>3, <1>4, <1>5, <1>6, <1>7, <1>8, <1>9, <1>10

\* A step of run_validation finds the artifacts where they were: only its last
\* one fills in the provenance, and a core of another revision passes nothing.
LEMMA ValidatingStep ==
    ASSUME IInv, OriginInv, Validating
    PROVE  OriginInv'
  <1>1. step = "idle" /\ UNCHANGED <<pin, checkout, wheel, installed, core, step, complete>>
    BY DEF Validating, origin, artifacts
  <1>2. OriginTypeOK' /\ ChainInv'
    BY <1>1 DEF OriginInv, OriginTypeOK, ChainInv, Rebuilding
  <1>3. ASSUME core # pin, NEW i \in Cores, NEW c \in Cases
        PROVE  did'[i][c] \in {"untried", "raises"}
    <2>1. did[i][c] \in {"untried", "raises"}
      BY <1>3 DEF OriginInv, ValidationInv
    <2>2. CASE \E a \in Impls, b \in Cases, o \in Outcomes :
                  \/ CheckAdapter(a, b, o) \/ CheckExternal(a, b, o)
                  \/ CoreAnswers(o) /\ CheckCore(a, b, o)
      <3>1. PICK a \in Impls, b \in Cases, o \in Outcomes :
                  \/ CheckAdapter(a, b, o) \/ CheckExternal(a, b, o)
                  \/ CoreAnswers(o) /\ CheckCore(a, b, o)
        BY <2>2
      <3>2. did' = [did EXCEPT ![a][b] = o]
        BY <3>1 DEF CheckAdapter, CheckExternal, CheckCore, Tried
      <3>3. did'[i][c] = IF i = a /\ c = b THEN o ELSE did[i][c]
        BY <3>2, Kinds, TableUpdate DEF IInv, TypeOK
      <3>4. CASE CheckAdapter(a, b, o)
        BY <2>1, <3>3, <3>4, Kinds DEF CheckAdapter, IInv, TypeOK
      <3>5. CASE CheckExternal(a, b, o)
        BY <2>1, <3>3, <3>5, Kinds DEF CheckExternal, IInv, SectionInv
      <3>6. CASE CoreAnswers(o)
        BY <1>3, <2>1, <3>3, <3>6 DEF CoreAnswers
      <3> QED
        BY <3>1, <3>4, <3>5, <3>6
    <2>3. CASE UNCHANGED did
      BY <2>1, <2>3
    <2> QED
      BY <2>2, <2>3 DEF Validating, Warmup, Skip, AdaptersDone, ExternalsDone, Agreement,
                        CoresDone, CheckNative, Verdict, observed
  <1>4. pc' = "done" => provenance' = (Problems(RomlArtifacts) = {})
    <2>1. CASE Verdict(Problems(RomlArtifacts) = {})
      BY <2>1 DEF Verdict
    <2>2. CASE UNCHANGED provenance /\ (pc' = "done" => pc = "done")
      BY <2>2 DEF OriginInv, ValidationInv
    <2>3. CASE \E i \in Impls, c \in Cases : \/ Skip(i, c)
                                            \/ \E o \in Outcomes :
                                                  \/ CheckAdapter(i, c, o) \/ CheckExternal(i, c, o)
                                                  \/ CheckCore(i, c, o)
      BY <2>2, <2>3 DEF Skip, CheckAdapter, CheckExternal, CheckCore, observed
    <2>4. CASE \E i \in Adapters : Warmup(i)
      BY <2>2, <2>4 DEF Warmup
    <2>5. CASE AdaptersDone \/ ExternalsDone \/ Agreement \/ CoresDone
      BY <2>2, <2>5 DEF AdaptersDone, ExternalsDone, Agreement, CoresDone, observed
    <2>6. CASE \E c \in RunnerCases, r \in Replays : CheckNative(c, r)
      BY <2>2, <2>6 DEF CheckNative
    <2> QED
      BY <2>1, <2>3, <2>4, <2>5, <2>6 DEF Validating
  <1>5. (Problems(RomlArtifacts) = {})' = (Problems(RomlArtifacts) = {})
    BY <1>1 DEF Problems, RomlArtifacts
  <1> QED
    BY <1>1, <1>2, <1>3, <1>4, <1>5 DEF OriginInv, ValidationInv

LEMMA NextOriginInv == IInv /\ OriginInv /\ [ProvenanceNext]_<<vars, origin>> => OriginInv'
  <1> SUFFICES ASSUME IInv, OriginInv, [ProvenanceNext]_<<vars, origin>> PROVE OriginInv'
    OBVIOUS
  <1>1. CASE ProvenanceNext
    BY <1>1, OriginStep, ValidatingStep DEF ProvenanceNext
  <1>2. CASE UNCHANGED <<vars, origin>>
    <2>1. UNCHANGED <<pin, checkout, wheel, installed, core, step, complete>>
      BY <1>2 DEF origin, artifacts
    <2>2. UNCHANGED <<pc, warm, cold, did, provenance>>
      BY <1>2 DEF vars, observed
    <2>3. OriginTypeOK' /\ ChainInv'
      BY <2>1 DEF OriginInv, OriginTypeOK, ChainInv, Rebuilding
    <2>4. ValidationInv'
      BY <2>1, <2>2 DEF OriginInv, ValidationInv, BeforeValidation, Problems, RomlArtifacts
    <2> QED
      BY <2>3, <2>4 DEF OriginInv
  <1> QED
    BY <1>1, <1>2

\* When nothing is wrong with the artifacts they are those of the pin; a
\* bootstrap that ended well leaves nothing wrong.
LEMMA PinLemma == IInv /\ OriginInv => OkMeansThePin
  <1> SUFFICES ASSUME IInv, OriginInv, pc = "done"
               PROVE  /\ status = "ok" => installed = pin /\ core = pin
                      /\ complete => provenance /\ core = pin
    BY DEF OkMeansThePin
  <1>1. provenance = (Problems(RomlArtifacts) = {})
    BY DEF OriginInv, ValidationInv
  <1>2. ASSUME status = "ok"
        PROVE  installed = pin /\ core = pin
    <2>1. Problems(RomlArtifacts) = {}
      BY <1>1, <1>2, OkLemma
    <2>2. checkout = pin /\ installed # None
      BY <2>1 DEF Problems, RomlArtifacts
    <2>3. installed = pin
      BY <2>2 DEF OriginInv, ChainInv
    <2>4. PICK c \in Supports[BulkCore] : TRUE
      BY ConstantsAssumption
    <2>5. did[BulkCore][c] \in Passing /\ c \in Cases
      BY <1>2, OkLemma, Kinds
    <2>6. core = pin
      BY <2>5, ConstantsAssumption DEF OriginInv, ValidationInv, Passing
    <2> QED
      BY <2>3, <2>6
  <1>3. ASSUME complete
        PROVE  provenance /\ core = pin
    <2>1. installed = pin /\ core = pin /\ pin # None
      BY <1>3, ShasAssumption DEF OriginInv, OriginTypeOK, ChainInv
    <2>2. wheel = pin /\ checkout = pin
      BY <2>1 DEF OriginInv, ChainInv
    <2>3. Problems(RomlArtifacts) = {}
      BY <2>1, <2>2 DEF Problems, RomlArtifacts
    <2> QED
      BY <1>1, <2>1, <2>3
  <1> QED
    BY <1>2, <1>3

-----------------------------------------------------------------------------
\* The invariant holds in every reachable state of run_validation.
THEOREM Invariance == Spec => []IInv
  BY InitIInv, NextIInv, PTL DEF Spec

\* Bootstrapping, pinning and validating is in particular validating.
THEOREM ValidationRuns == ProvenanceSpec => Spec
  <1>1. ProvenanceInit => Init
    BY DEF ProvenanceInit
  <1> QED
    BY <1>1, StepOfValidation, PTL DEF ProvenanceSpec, Spec

\* Type correctness of run_validation.
THEOREM TypeCorrect == ProvenanceSpec => []TypeOK
  <1>1. IInv => TypeOK
    BY DEF IInv
  <1> QED
    BY <1>1, Invariance, ValidationRuns, PTL

\* For every set of implementations and cases, and whatever each build comes
\* to: the single status is "ok" exactly when everything passed.
THEOREM StatusIsEarned == ProvenanceSpec => []VerdictIsEarned
  BY VerdictLemma, Invariance, ValidationRuns, PTL

\* A report that passes shows every supported case as built and compared.
THEOREM NoCaseIsSkipped == ProvenanceSpec => []NothingSilentlySkipped
  BY SkippedLemma, Invariance, ValidationRuns, PTL

\* The two invariants together hold along every history of pins, bootstraps
\* that end or stop anywhere, hand-made builds and a validation.
THEOREM OriginInvariance == ProvenanceSpec => [](IInv /\ OriginInv)
  <1>1. ProvenanceSpec => []IInv
    BY Invariance, ValidationRuns, PTL
  <1> QED
    BY <1>1, InitOriginInv, NextOriginInv, PTL DEF ProvenanceSpec

\* A validation that passes was of artifacts built from the pinned revision.
THEOREM ValidationPinsTheArtifacts == ProvenanceSpec => []OkMeansThePin
  BY PinLemma, OriginInvariance, PTL
=============================================================================
