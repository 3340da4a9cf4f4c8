--------------------------- MODULE ValidationGate ---------------------------
(***************************************************************************)
(* `roml-bench validate` and `roml-bench run` as two processes that share  *)
(* results/validation.json and the things they use: the commit of the      *)
(* benchmark, the ROML artifacts, the installed packages, and what no      *)
(* fingerprint names (the C++ and Julia programs, uncommitted edits).      *)
(* validate (module RunValidation is its verdict in detail) takes a        *)
(* fingerprint, checks every part and writes the file; run                 *)
(* (check_validation_gate, then the children) compares the file with the   *)
(* parts as they are and then measures them.  Parts are rebuilt between    *)
(* the commands, never under a running one: that is an assumption about    *)
(* the operator, and nothing in the code enforces it.  Either process may  *)
(* be killed at any step, and a new one may follow.                        *)
(***************************************************************************)
EXTENDS Integers, FiniteSets

CONSTANTS Parts,          \* what the implementations are made of
          Fingerprinted,  \* the parts validation_fingerprint identifies
          Versions,       \* the versions a part may have
          Broken          \* the <<part, version>> pairs that fail validation

ASSUME PartsAssumption ==
    /\ Fingerprinted \subseteq Parts
    /\ Broken \subseteq Parts \X Versions

Absent == [kind |-> "absent", status |-> "none"]
Torn   == [kind |-> "torn", status |-> "none"]

VARIABLES
    parts,      \* the version each part has now
    file,       \* results/validation.json
    validator,  \* where validate is: "idle", "checking", "truncated"
    print,      \* the fingerprint it took
    unchecked,  \* the parts it has still to check
    status,     \* result["status"]
    runner,     \* where run is: "idle", "loaded", "measuring"
    expected,   \* the validation record check_validation_gate loaded
    measured    \* the <<part, version>> pairs the current run has measured

validatorVars == <<validator, print, unchecked, status>>
runnerVars    == <<runner, expected, measured>>
vars == <<parts, file, validatorVars, runnerVars>>

\* roml_artifact_fingerprint, git_sha, roml_checkout_sha and the packages of
\* collect_environment, of the parts as they are
Fingerprint == [p \in Fingerprinted |-> parts[p]]

Init ==
    /\ parts \in [Parts -> Versions]
    /\ file = Absent
    /\ validator = "idle"
    /\ print = Fingerprint
    /\ unchecked = {}
    /\ status = "ok"
    /\ runner = "idle"
    /\ expected = Absent
    /\ measured = {}

Active == validator # "idle" \/ runner # "idle"

Rebuild(p, v) ==
    /\ ~ Active
    /\ v # parts[p]
    /\ parts' = [parts EXCEPT ![p] = v]
    /\ UNCHANGED <<file, validatorVars, runnerVars>>

-----------------------------------------------------------------------------
\* run_validation begins with the fingerprint, before any check
StartValidate ==
    /\ validator = "idle"
    /\ validator' = "checking"
    /\ print' = Fingerprint
    /\ unchecked' = Parts
    /\ status' = "ok"
    /\ UNCHANGED <<parts, file, runnerVars>>

\* Fault: the verdict is that of the last check.
CheckLastOnly(p) ==
    /\ validator = "checking"
    /\ p \in unchecked
    /\ unchecked' = unchecked \ {p}
    /\ status' = IF <<p, parts[p]>> \in Broken THEN "failed" ELSE "ok"
    /\ UNCHANGED <<parts, file, validator, print, runnerVars>>

\* an implementation that is made of the part is built, solved and compared
Check(p) ==
    /\ validator = "checking"
    /\ p \in unchecked
    /\ unchecked' = unchecked \ {p}
    /\ status' = IF <<p, parts[p]>> \in Broken THEN "failed" ELSE status
    /\ UNCHANGED <<parts, file, validator, print, runnerVars>>

\* write_text truncates the file ...
Truncate ==
    /\ validator = "checking"
    /\ unchecked = {}
    /\ validator' = "truncated"
    /\ file' = Torn
    /\ UNCHANGED <<parts, print, unchecked, status, runnerVars>>

\* ... and writes the result, passing or failed
Write ==
    /\ validator = "truncated"
    /\ validator' = "idle"
    /\ file' = [kind |-> "result", status |-> status, print |-> print]
    /\ UNCHANGED <<parts, print, unchecked, status, runnerVars>>

\* validate is killed, or a check raises out of run_validation
KillValidate ==
    /\ validator # "idle"
    /\ validator' = "idle"
    /\ UNCHANGED <<parts, file, print, unchecked, status, runnerVars>>

-----------------------------------------------------------------------------
\* Fault: only the presence of a result is checked.
LoadableAnyStatus(f) == f.kind = "result"

\* check_validation_gate: the file must exist, be JSON and have status "ok"
Loadable(f) == f.kind = "result" /\ f.status = "ok"

Load ==
    /\ runner = "idle"
    /\ Loadable(file)
    /\ runner' = "loaded"
    /\ expected' = file
    /\ UNCHANGED <<parts, file, validatorVars, measured>>

\* ... and be current
Current == expected.print = Fingerprint

Admit ==
    /\ runner = "loaded"
    /\ Current
    /\ runner' = "measuring"
    /\ measured' = {}
    /\ UNCHANGED <<parts, file, validatorVars, expected>>

Refuse ==
    /\ runner = "loaded"
    /\ ~ Current
    /\ runner' = "idle"
    /\ UNCHANGED <<parts, file, validatorVars, expected, measured>>

\* a child that is made of the part is measured
Measure(p) ==
    /\ runner = "measuring"
    /\ measured' = measured \union {<<p, parts[p]>>}
    /\ UNCHANGED <<parts, file, validatorVars, runner, expected>>

\* the run ends or is killed
EndRun ==
    /\ runner = "measuring"
    /\ runner' = "idle"
    /\ UNCHANGED <<parts, file, validatorVars, expected, measured>>

Next ==
    \/ \E p \in Parts : Check(p) \/ Measure(p) \/ \E v \in Versions : Rebuild(p, v)
    \/ StartValidate \/ Truncate \/ Write \/ KillValidate
    \/ Load \/ Admit \/ Refuse \/ EndRun

Spec == Init /\ [][Next]_vars

-----------------------------------------------------------------------------
\* Every variable has its type.
TypeOK ==
    /\ parts \in [Parts -> Versions]
    /\ file \in {Absent, Torn} \union
          [kind : {"result"}, status : {"ok", "failed"}, print : [Fingerprinted -> Versions]]
    /\ validator \in {"idle", "checking", "truncated"}
    /\ print \in [Fingerprinted -> Versions]
    /\ unchecked \subseteq Parts
    /\ status \in {"ok", "failed"}
    /\ runner \in {"idle", "loaded", "measuring"}
    /\ measured \subseteq Parts \X Versions

\* A file that says "ok" is a proof about the parts it names, also when other
\* validations were killed half way: no fingerprinted part of it is broken.
OkIsAboutItsPrint ==
    Loadable(file) => \A p \in Fingerprinted : <<p, file.print[p]>> \notin Broken

\* What the gate is for: no run measures a version of a fingerprinted part
\* that a validation would have failed, whatever was rebuilt, reverted,
\* validated again, failed or killed before it.
NothingBrokenIsMeasured ==
    \A m \in measured : m[1] \in Fingerprinted => m \notin Broken
=============================================================================
