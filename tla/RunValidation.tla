---------------------------- MODULE RunValidation ----------------------------
(***************************************************************************)
(* run_validation (validate.py): every implementation is built on small    *)
(* cases and its verdict, with the comparison of the objectives, the       *)
(* replay proof of the probe and the provenance of the artifacts, goes     *)
(* into one status.  What each build turns out to be is not known before   *)
(* it is tried: it is drawn when the step runs and kept in did, warm,      *)
(* replay and provenance, which the code does not have, so that the        *)
(* verdict can be compared with what happened.  The pairs of a section are *)
(* taken in any order: none reads what another one left.                   *)
(***************************************************************************)
EXTENDS FiniteSets

CONSTANTS Adapters,    \* ADAPTERS, the implementations called from Python
          Externals,   \* jump_julia and ortools_mathopt_cpp
          Cores,       \* the implementations of the roml-bench-core binary
          BulkCore,    \* roml_core_bulk, which the probe's verdict counts for
          Cases,       \* VALIDATION_CASES
          RunnerCases, \* RUNNER_VALIDATION_CASES
          Supports,    \* the cases an implementation supports
          Reference    \* the adapter each case's objectives are compared with

Impls  == Adapters \union Externals \union Cores
Solved == Adapters \union Externals

ASSUME ConstantsAssumption ==
    /\ BulkCore \in Cores
    /\ RunnerCases \subseteq Cases
    /\ Supports \in [Impls -> SUBSET Cases]
    /\ Adapters \cap (Externals \union Cores) = {}
    /\ Externals \cap Cores = {}
    /\ \A i \in Externals : Supports[i] = RunnerCases
    /\ \A i \in Cores : Supports[i] # {}
    /\ Reference \in [Cases -> Adapters]
    /\ \A c \in Cases : c \in Supports[Reference[c]]

\* What building a case comes to: the canonical model; one with the canonical
\* counts and bounds that is another model; one with other counts or bounds;
\* or no model (an exception, an exit code, a timeout, output that is no JSON,
\* a binary that was not built).
Outcomes == {"right", "off", "miscounted", "raises"}
Replays  == {"equal", "differs", "raises"}

VARIABLES
    pc,          \* the section of run_validation
    todo,        \* the <<implementation, case>> pairs the section has left
    warm,        \* the adapters whose warmup() succeeded
    cold,        \* the adapters whose warmup() raised
    did,         \* what every pair tried so far came to
    replay,      \* what the probe found for each of its cases
    provenance,  \* validate_roml_artifacts found nothing
    objectives,  \* the <<case, implementation, objective>> triples
    workloads,   \* the status of each pair in the report
    entry,       \* the status of each implementation in the report
    status       \* result["status"]

observed == <<warm, cold, did, replay, provenance>>
report   == <<objectives, workloads, entry, status>>
vars     == <<pc, todo, observed, report>>

Init ==
    /\ pc = "adapters"
    /\ todo = Adapters \X Cases
    /\ warm = {} /\ cold = {}
    /\ did = [i \in Impls |-> [c \in Cases |-> "untried"]]
    /\ replay = [c \in RunnerCases |-> "untried"]
    /\ provenance = TRUE
    /\ objectives = {}
    /\ workloads = [i \in Impls |-> [c \in Cases |-> "none"]]
    /\ entry = [i \in Impls |-> "ok"]
    /\ status = "ok"

Tried(i, c, o)   == did' = [did EXCEPT ![i][c] = o]
Reported(i, c, s) == workloads' = [workloads EXCEPT ![i][c] = s]
Failing(impls)   == [i \in Impls |-> IF i \in impls THEN "failed" ELSE entry[i]]

\* The objective a solver finds, as far as agrees() tells it from another.
Objective(o) == IF o = "off" THEN "other" ELSE "canonical"

-----------------------------------------------------------------------------
\* the adapter's first step: an exception skips all its cases
Warmup(i) ==
    /\ pc = "adapters"
    /\ i \in Adapters \ (warm \union cold)
    /\ \/ /\ warm' = warm \union {i}
          /\ UNCHANGED <<cold, todo, entry, status>>
       \/ /\ cold' = cold \union {i}
          /\ todo' = {t \in todo : t[1] # i}
          /\ entry' = Failing({i})
          /\ status' = "failed"
          /\ UNCHANGED warm
    /\ UNCHANGED <<pc, did, replay, provenance, objectives, workloads>>

\* a case outside supported_workloads
Skip(i, c) ==
    /\ i \in warm \union Cores
    /\ <<i, c>> \in todo
    /\ c \notin Supports[i]
    /\ todo' = todo \ {<<i, c>>}
    /\ Reported(i, c, "skipped")
    /\ UNCHANGED <<pc, observed, objectives, entry, status>>

\* Fault: an exception is reported for the case and forgotten for the adapter.
CheckAdapterQuietly(i, c, o) ==
    /\ pc = "adapters"
    /\ i \in warm
    /\ <<i, c>> \in todo
    /\ c \in Supports[i]
    /\ todo' = todo \ {<<i, c>>}
    /\ Tried(i, c, o)
    /\ Reported(i, c, IF o \in {"right", "off"} THEN "ok" ELSE "failed")
    /\ entry' = IF o = "miscounted" THEN Failing({i}) ELSE entry
    /\ objectives' = objectives \union
          (IF o = "raises" THEN {} ELSE {<<c, i, Objective(o)>>})
    /\ UNCHANGED <<pc, warm, cold, replay, provenance, status>>

\* new_model, populate, inspect, the counts and bounds, the solve: a model with
\* other counts is solved too, and its objective compared
CheckAdapter(i, c, o) ==
    /\ pc = "adapters"
    /\ i \in warm
    /\ <<i, c>> \in todo
    /\ c \in Supports[i]
    /\ todo' = todo \ {<<i, c>>}
    /\ Tried(i, c, o)
    /\ Reported(i, c, IF o \in {"right", "off"} THEN "ok" ELSE "failed")
    /\ entry' = IF o \in {"right", "off"} THEN entry ELSE Failing({i})
    /\ objectives' = objectives \union
          (IF o = "raises" THEN {} ELSE {<<c, i, Objective(o)>>})
    /\ UNCHANGED <<pc, warm, cold, replay, provenance, status>>

AdaptersDone ==
    /\ pc = "adapters"
    /\ warm \union cold = Adapters
    /\ todo = {}
    /\ pc' = "externals"
    /\ todo' = Externals \X RunnerCases
    /\ UNCHANGED <<observed, report>>

-----------------------------------------------------------------------------
\* _check_external_runner and what run_validation does with its entry: a case
\* is solved, and reported, only when its counts are right
CheckExternal(i, c, o) ==
    /\ pc = "externals"
    /\ <<i, c>> \in todo
    /\ todo' = todo \ {<<i, c>>}
    /\ Tried(i, c, o)
    /\ IF o \in {"right", "off"}
       THEN /\ objectives' = objectives \union {<<c, i, Objective(o)>>}
            /\ Reported(i, c, "ok")
            /\ UNCHANGED <<entry, status>>
       ELSE /\ entry' = Failing({i})
            /\ status' = "failed"
            /\ UNCHANGED <<objectives, workloads>>
    /\ UNCHANGED <<pc, warm, cold, replay, provenance>>

ExternalsDone ==
    /\ pc = "externals"
    /\ todo = {}
    /\ pc' = "agreement"
    /\ UNCHANGED <<todo, observed, report>>

\* The objective of the case's reference implementation, a set of at most one.
ReferenceObjective(c) ==
    {t[3] : t \in {u \in objectives : u[1] = c /\ u[2] = Reference[c]}}

\* The objectives of the cases that have a reference and are not it.
Disagreeing ==
    {t \in objectives : \E r \in ReferenceObjective(t[1]) : t[3] # r}

WithoutReference == {t[1] : t \in {u \in objectives : ReferenceObjective(u[1]) = {}}}

\* every objective against its case's reference
Agreement ==
    /\ pc = "agreement"
    /\ pc' = "cores"
    /\ todo' = Cores \X Cases
    /\ entry' = Failing({t[2] : t \in Disagreeing})
    /\ status' = IF Disagreeing = {} /\ WithoutReference = {} THEN status ELSE "failed"
    /\ UNCHANGED <<observed, objectives, workloads>>

-----------------------------------------------------------------------------
\* _check_rust_core: schema and counts; nothing is solved
CheckCore(i, c, o) ==
    /\ pc = "cores"
    /\ <<i, c>> \in todo
    /\ c \in Supports[i]
    /\ todo' = todo \ {<<i, c>>}
    /\ Tried(i, c, o)
    /\ Reported(i, c, IF o = "raises" THEN "none"
                      ELSE IF o = "miscounted" THEN "failed" ELSE "ok")
    /\ entry' = IF o \in {"right", "off"} THEN entry ELSE Failing({i})
    /\ UNCHANGED <<pc, warm, cold, replay, provenance, objectives, status>>

CoresDone ==
    /\ pc = "cores"
    /\ todo = {}
    /\ pc' = "native"
    /\ UNCHANGED <<todo, observed, report>>

\* _check_native_equiv: the probe's replay of both constructions, per case
CheckNative(c, r) ==
    /\ pc = "native"
    /\ replay[c] = "untried"
    /\ replay' = [replay EXCEPT ![c] = r]
    /\ entry' = IF r = "equal" THEN entry ELSE Failing({BulkCore})
    /\ status' = IF r = "equal" THEN status ELSE "failed"
    /\ UNCHANGED <<pc, todo, warm, cold, did, provenance, objectives, workloads>>

\* Fault: only the entries of the scalar and the bulk core reach the status.
VerdictOfThree(found) ==
    /\ pc = "native"
    /\ \A c \in RunnerCases : replay[c] # "untried"
    /\ pc' = "done"
    /\ provenance' = found
    /\ status' = IF entry[BulkCore] = "ok" /\ (\A i \in Solved : entry[i] = "ok") /\ found
                 THEN status ELSE "failed"
    /\ UNCHANGED <<todo, warm, cold, did, replay, objectives, workloads, entry>>

\* the last loops: every entry, then validate_roml_artifacts
Verdict(found) ==
    /\ pc = "native"
    /\ \A c \in RunnerCases : replay[c] # "untried"
    /\ pc' = "done"
    /\ provenance' = found
    /\ status' = IF (\A i \in Impls : entry[i] = "ok") /\ found THEN status ELSE "failed"
    /\ UNCHANGED <<todo, warm, cold, did, replay, objectives, workloads, entry>>

Next ==
    \/ \E i \in Adapters : Warmup(i)
    \/ \E i \in Impls, c \in Cases :
          \/ Skip(i, c)
          \/ \E o \in Outcomes :
                CheckAdapter(i, c, o) \/ CheckExternal(i, c, o) \/ CheckCore(i, c, o)
    \/ AdaptersDone \/ ExternalsDone \/ Agreement \/ CoresDone
    \/ \E c \in RunnerCases, r \in Replays : CheckNative(c, r)
    \/ \E found \in BOOLEAN : Verdict(found)

Spec == Init /\ [][Next]_vars

-----------------------------------------------------------------------------
\* Two solved builds of a case are of the same model.
SameModel(c) ==
    \A i, j \in {k \in Solved : c \in Supports[k]} : did[i][c] = did[j][c]

\* The single status is "ok" exactly when every build of every implementation
\* was tried and passed, all objectives of a case are the same, the probe
\* proved its cases and the artifacts are the pinned ones: no failure of one
\* part is lost among the others, and none is invented.
VerdictIsEarned ==
    pc = "done" =>
        (status = "ok" <=>
            /\ warm = Adapters
            /\ \A i \in Impls : \A c \in Supports[i] : did[i][c] \in {"right", "off"}
            /\ \A c \in Cases : SameModel(c)
            /\ \A c \in RunnerCases : replay[c] = "equal"
            /\ provenance)

\* "They are not silently skipped" (contract, section 6): in a report that
\* passes, every case an implementation supports was built and is "ok", and a
\* solved implementation's objective of it is among those compared.
NothingSilentlySkipped ==
    pc = "done" /\ status = "ok" =>
        \A i \in Impls : \A c \in Supports[i] :
            /\ workloads[i][c] = "ok"
            /\ i \in Solved => \E v \in {"canonical", "other"} : <<c, i, v>> \in objectives

(***************************************************************************)
(* The inductive invariant behind both (proved in ValidationProofs): no    *)
(* failure is lost on its way to the status, and none is invented.         *)
(***************************************************************************)
Sections == {"adapters", "externals", "agreement", "cores", "native", "done"}
Passing  == {"right", "off"}

TypeOK ==
    /\ pc \in Sections
    /\ todo \subseteq Impls \X Cases
    /\ warm \subseteq Adapters /\ cold \subseteq Adapters
    /\ did \in [Impls -> [Cases -> Outcomes \union {"untried"}]]
    /\ replay \in [RunnerCases -> Replays \union {"untried"}]
    /\ provenance \in BOOLEAN
    /\ objectives \subseteq Cases \X Solved \X {"canonical", "other"}
    /\ workloads \in [Impls -> [Cases -> {"none", "ok", "failed", "skipped"}]]
    /\ entry \in [Impls -> {"ok", "failed"}]
    /\ status \in {"ok", "failed"}

\* A section's pairs are its own, and a section ends with none left.
SectionInv ==
    /\ \A t \in todo : \/ pc = "adapters" /\ t[1] \in Adapters
                       \/ pc = "externals" /\ t[1] \in Externals /\ t[2] \in RunnerCases
                       \/ pc = "cores" /\ t[1] \in Cores
    /\ warm \cap cold = {}
    /\ pc # "adapters" => warm \union cold = Adapters
    /\ pc = "done" => \A c \in RunnerCases : replay[c] # "untried"
    /\ pc # "done" => provenance

\* The build of c by i is still to come, in this section or a later one.
Pending(i, c) ==
    \/ <<i, c>> \in todo
    \/ i \in Externals /\ pc = "adapters"
    \/ i \in Cores /\ pc \in {"adapters", "externals", "agreement"}

\* A supported build is tried once, unless its adapter did not warm up.
TriedInv ==
    \A i \in Impls, c \in Cases :
        /\ Pending(i, c) => did[i][c] = "untried"
        /\ c \in Supports[i] /\ i \notin cold /\ did[i][c] = "untried" => Pending(i, c)

\* What a build comes to is in the report and among the objectives.
ReportInv ==
    /\ \A i \in Impls : \A c \in Supports[i] :
          did[i][c] \in Passing => workloads[i][c] = "ok"
    /\ \A i \in Solved : \A c \in Supports[i] :
          (did[i][c] \in Passing \/ (i \in Adapters /\ did[i][c] = "miscounted"))
            => <<c, i, Objective(did[i][c])>> \in objectives
    /\ \A t \in objectives :
          /\ t[1] \in Supports[t[2]]
          /\ did[t[2]][t[1]] \in {"right", "off", "miscounted"}
          /\ t[3] = Objective(did[t[2]][t[1]])

\* No failure is lost.
FailureInv ==
    /\ \A i \in cold : entry[i] = "failed"
    /\ \A i \in Impls : \A c \in Supports[i] :
          did[i][c] \in {"miscounted", "raises"} => entry[i] = "failed"
    /\ \A c \in RunnerCases : replay[c] \in {"differs", "raises"} => status = "failed"
    /\ pc \in {"cores", "native", "done"} /\ status = "ok" => Disagreeing = {}
    /\ pc = "done" /\ status = "ok" => provenance /\ \A i \in Impls : entry[i] = "ok"

\* A reason the verdict has to be "failed".
Reason ==
    \/ cold # {}
    \/ \E i \in Impls : \E c \in Supports[i] : did[i][c] \in {"miscounted", "raises"}
    \/ \E c \in Cases : \E i, j \in Solved :
          /\ c \in Supports[i] /\ c \in Supports[j]
          /\ did[i][c] # "untried" /\ did[j][c] # "untried" /\ did[i][c] # did[j][c]
    \/ \E c \in RunnerCases : replay[c] \in {"differs", "raises"}
    \/ ~ provenance

\* None is invented.
ReasonInv == status = "failed" \/ (\E i \in Impls : entry[i] = "failed") => Reason

IInv == TypeOK /\ SectionInv /\ TriedInv /\ ReportInv /\ FailureInv /\ ReasonInv
=============================================================================
