------------------------ MODULE ValidationGateProofs ------------------------
(***************************************************************************)
(* The validation gate holds for every set of parts and versions, and      *)
(* every set of broken ones.  What has to be carried along is who vouches  *)
(* for what: the status of a validation under way for the parts it has     *)
(* checked, in the versions of its fingerprint, which are those the parts  *)
(* have until it ends; a file that says "ok", for its fingerprint; and     *)
(* the record a run was admitted with, for the parts it measures.          *)
(***************************************************************************)
EXTENDS ValidationGate, TLAPS

Prints == [Fingerprinted -> Versions]
Files  == {Absent, Torn} \union
             [kind : {"result"}, status : {"ok", "failed"}, print : Prints]

\* no fingerprinted part is broken in the version the file names
Vouches(f) == \A p \in Fingerprinted : <<p, f.print[p]>> \notin Broken

\* the validator is about the parts as they are, and right about those checked
ValidatorInv ==
    validator # "idle" =>
        /\ print = Fingerprint
        /\ status = "ok" =>
              \A p \in Fingerprinted \ unchecked : <<p, parts[p]>> \notin Broken

TruncatedInv == validator = "truncated" => unchecked = {}

\* the runner holds a record that vouches, and once admitted it is current
RunnerInv ==
    /\ runner # "idle" => Loadable(expected) /\ Vouches(expected)
    /\ runner = "measuring" => Current

IInv ==
    /\ TypeOK
    /\ expected \in Files
    /\ OkIsAboutItsPrint
    /\ ValidatorInv
    /\ TruncatedInv
    /\ RunnerInv

\* The initial states satisfy the invariant.
LEMMA InitInv == Init => IInv
  BY PartsAssumption
  DEF Init, IInv, TypeOK, Files, Prints, Fingerprint, OkIsAboutItsPrint, Loadable,
      ValidatorInv, TruncatedInv, RunnerInv, Absent, Torn

\* A fingerprint is a record of versions, whatever the parts are.
LEMMA FingerprintType == parts \in [Parts -> Versions] => Fingerprint \in Prints
  BY PartsAssumption DEF Fingerprint, Prints

\* Every step keeps the invariant.
LEMMA NextInv == IInv /\ [Next]_vars => IInv'
<1> SUFFICES ASSUME IInv, [Next]_vars PROVE IInv'
    OBVIOUS
<1> USE DEF IInv
<1>1. ASSUME NEW p \in Parts, NEW v \in Versions, Rebuild(p, v) PROVE IInv'
  <2>1. TypeOK'
      BY <1>1 DEF Rebuild, TypeOK, validatorVars, runnerVars
  <2>2. validator = "idle" /\ runner = "idle"
      BY <1>1 DEF Rebuild, Active
  <2> QED
      BY <1>1, <2>1, <2>2 DEF Rebuild, OkIsAboutItsPrint, Loadable, ValidatorInv,
         TruncatedInv, RunnerInv, validatorVars, runnerVars, Files
<1>2. CASE StartValidate
  <2>1. Fingerprint \in Prints
      BY FingerprintType DEF TypeOK
  <2>2. TypeOK'
      BY <1>2, <2>1 DEF StartValidate, TypeOK, runnerVars, Prints
  <2>3. ValidatorInv'
      BY <1>2, PartsAssumption DEF StartValidate, ValidatorInv, Fingerprint
  <2> QED
      BY <1>2, <2>2, <2>3 DEF StartValidate, OkIsAboutItsPrint, Loadable, TruncatedInv,
         RunnerInv, Vouches, Current, Fingerprint, runnerVars
<1>3. ASSUME NEW p \in Parts, Check(p) PROVE IInv'
  <2>1. TypeOK'
      BY <1>3 DEF Check, TypeOK, runnerVars
  <2>2. ValidatorInv'
      BY <1>3 DEF Check, ValidatorInv, Fingerprint, TypeOK
  <2> QED
      BY <1>3, <2>1, <2>2 DEF Check, OkIsAboutItsPrint, Loadable, TruncatedInv,
         RunnerInv, Vouches, Current, Fingerprint, runnerVars
<1>4. CASE Truncate
  <2>1. TypeOK'
      BY <1>4 DEF Truncate, TypeOK, runnerVars
  <2> QED
      BY <1>4, <2>1 DEF Truncate, OkIsAboutItsPrint, Loadable, ValidatorInv, TruncatedInv,
         RunnerInv, Vouches, Current, Fingerprint, runnerVars, Torn
<1>5. CASE Write
  <2>1. TypeOK'
      BY <1>5 DEF Write, TypeOK, runnerVars
  <2>2. OkIsAboutItsPrint'
    <3> SUFFICES ASSUME status = "ok", NEW p \in Fingerprinted
                 PROVE <<p, print[p]>> \notin Broken
        BY <1>5 DEF Write, OkIsAboutItsPrint, Loadable
    <3>1. p \in Fingerprinted \ unchecked /\ print = Fingerprint
        BY <1>5 DEF Write, TruncatedInv, ValidatorInv
    <3>2. print[p] = parts[p]
        BY <3>1 DEF Fingerprint
    <3> QED
        BY <1>5, <3>1, <3>2 DEF Write, ValidatorInv
  <2> QED
      BY <1>5, <2>1, <2>2 DEF Write, ValidatorInv, TruncatedInv,
         RunnerInv, Vouches, Current, Fingerprint, runnerVars, Loadable
<1>6. CASE KillValidate
  <2>1. TypeOK'
      BY <1>6 DEF KillValidate, TypeOK, runnerVars
  <2> QED
      BY <1>6, <2>1 DEF KillValidate, OkIsAboutItsPrint, Loadable, ValidatorInv,
         TruncatedInv, RunnerInv, Vouches, Current, Fingerprint, runnerVars
<1>7. CASE Load
  <2>1. TypeOK' /\ (expected \in Files)'
      BY <1>7 DEF Load, TypeOK, validatorVars, Files, Prints
  <2> QED
      BY <1>7, <2>1 DEF Load, OkIsAboutItsPrint, Loadable, ValidatorInv, TruncatedInv,
         RunnerInv, Vouches, Current, Fingerprint, validatorVars
<1>8. CASE Admit
  <2>1. TypeOK'
      BY <1>8 DEF Admit, TypeOK, validatorVars
  <2> QED
      BY <1>8, <2>1 DEF Admit, OkIsAboutItsPrint, Loadable, ValidatorInv, TruncatedInv,
         RunnerInv, Vouches, Current, Fingerprint, validatorVars
<1>9. CASE Refuse
  <2>1. TypeOK'
      BY <1>9 DEF Refuse, TypeOK, validatorVars
  <2> QED
      BY <1>9, <2>1 DEF Refuse, OkIsAboutItsPrint, Loadable, ValidatorInv, TruncatedInv,
         RunnerInv, Vouches, Current, Fingerprint, validatorVars
<1>10. ASSUME NEW p \in Parts, Measure(p) PROVE IInv'
  <2>1. TypeOK'
      BY <1>10 DEF Measure, TypeOK, validatorVars
  <2> QED
      BY <1>10, <2>1 DEF Measure, OkIsAboutItsPrint, Loadable, ValidatorInv, TruncatedInv,
         RunnerInv, Vouches, Current, Fingerprint, validatorVars
<1>11. CASE EndRun
  <2>1. TypeOK'
      BY <1>11 DEF EndRun, TypeOK, validatorVars
  <2> QED
      BY <1>11, <2>1 DEF EndRun, OkIsAboutItsPrint, Loadable, ValidatorInv, TruncatedInv,
         RunnerInv, Vouches, Current, Fingerprint, validatorVars
<1>12. CASE UNCHANGED vars
      BY <1>12 DEF vars, TypeOK, OkIsAboutItsPrint, Loadable, ValidatorInv, TruncatedInv,
         RunnerInv, Vouches, Current, Fingerprint, validatorVars, runnerVars
<1> QED
    BY <1>1, <1>2, <1>3, <1>4, <1>5, <1>6, <1>7, <1>8, <1>9, <1>10, <1>11, <1>12 DEF Next

\* What the runner has measured is sound: the record it was admitted with
\* vouches for the versions the parts have.
LEMMA MeasuredInv ==
    IInv /\ NothingBrokenIsMeasured /\ [Next]_vars => NothingBrokenIsMeasured'
<1> SUFFICES ASSUME IInv, NothingBrokenIsMeasured, [Next]_vars
             PROVE NothingBrokenIsMeasured'
    OBVIOUS
<1>1. ASSUME NEW q \in Parts, Measure(q) PROVE NothingBrokenIsMeasured'
  <2>1. q \in Fingerprinted => <<q, parts[q]>> \notin Broken
    <3> SUFFICES ASSUME q \in Fingerprinted PROVE <<q, parts[q]>> \notin Broken
        OBVIOUS
    <3>1. Vouches(expected) /\ Current
        BY <1>1 DEF Measure, IInv, RunnerInv
    <3>2. expected.print[q] = parts[q]
        BY <3>1 DEF Current, Fingerprint
    <3> QED
        BY <3>1, <3>2 DEF Vouches
  <2> QED
      BY <1>1, <2>1 DEF Measure, NothingBrokenIsMeasured
<1>2. CASE Admit
      BY <1>2 DEF Admit, NothingBrokenIsMeasured
<1>3. CASE UNCHANGED measured
      BY <1>3 DEF NothingBrokenIsMeasured
<1> QED
    BY <1>1, <1>2, <1>3 DEF Next, Check, Rebuild, StartValidate, Truncate, Write, KillValidate,
       Load, Refuse, EndRun, vars, runnerVars

-----------------------------------------------------------------------------
\* The strengthened invariant holds in every reachable state.
THEOREM Invariance == Spec => []IInv
<1> QED
    BY InitInv, NextInv, PTL DEF Spec

\* Every variable keeps its type, for every set of parts and versions.
THEOREM TypeCorrect == Spec => []TypeOK
<1>1. IInv => TypeOK
    BY DEF IInv
<1> QED
    BY <1>1, Invariance, PTL

\* A validation.json that says "ok" is a proof about the versions it names.
THEOREM OkFilesVouch == Spec => []OkIsAboutItsPrint
<1>1. IInv => OkIsAboutItsPrint
    BY DEF IInv
<1> QED
    BY <1>1, Invariance, PTL

\* The gate works: no run measures a fingerprinted part in a broken version.
THEOREM GateHolds == Spec => []NothingBrokenIsMeasured
<1>1. Init => NothingBrokenIsMeasured
    BY DEF Init, NothingBrokenIsMeasured
<1> QED
    BY <1>1, MeasuredInv, Invariance, PTL DEF Spec
=============================================================================
