----------------------------- MODULE Provenance -----------------------------
(***************************************************************************)
(* Where the ROML that validate tries comes from: scripts/bootstrap.sh,    *)
(* step by step under `set -e`, ends or is killed anywhere; the pinned SHA *)
(* moves with a commit of the benchmark; `cargo build` is run by hand; and *)
(* then run_validation (module RunValidation) takes the fingerprint of     *)
(* what there is and makes validate_roml_artifacts part of its verdict.    *)
(*                                                                         *)
(* An artifact is the SHA that its content was built from, which the code  *)
(* never sees: it compares file hashes, the checkout's HEAD and paths.     *)
(* The wheel's name does not change (version 0.1.0), so that a build       *)
(* replaces the wheel before it, and two builds differ if their SHAs do.   *)
(*                                                                         *)
(* Assumptions about the operator: one command runs at a time, nobody      *)
(* enters .cache/roml by hand, and a commit moves all copies of the pin    *)
(* (schema.py, bootstrap.sh, both Cargo.toml, Cargo.lock, main.rs).        *)
(***************************************************************************)
EXTENDS RunValidation

CONSTANTS Shas,   \* the revisions of ROML that are pinned at some time
          None    \* no artifact

ASSUME ShasAssumption == None \notin Shas

VARIABLES
    pin,        \* ROML_SHA in the working tree
    checkout,   \* HEAD of .cache/roml
    wheel,      \* .cache/wheels/roml_python-0.1.0-*.whl
    installed,  \* the roml of .venv
    core,       \* target/release/roml-bench-core
    step,       \* the last step bootstrap.sh has done, or "idle"
    complete    \* bootstrap.sh ended well, and nothing has moved since

artifacts == <<checkout, wheel, installed, core>>
origin    == <<pin, artifacts, step, complete>>

ProvenanceInit ==
    /\ Init
    /\ pin \in Shas
    /\ checkout = None /\ wheel = None /\ installed = None /\ core = None
    /\ step = "idle"
    /\ complete = FALSE

\* run_validation has not begun
BeforeValidation == pc = "adapters" /\ warm \union cold = {}

\* a commit that bumps the pin, or the checkout of another one
MovePin(sha) ==
    /\ BeforeValidation /\ step = "idle"
    /\ sha # pin
    /\ pin' = sha
    /\ complete' = FALSE
    /\ UNCHANGED <<artifacts, step, vars>>

-----------------------------------------------------------------------------
\* Fault: uv sync --inexact.
SyncInexact ==
    /\ BeforeValidation /\ step = "idle"
    /\ step' = "synced"
    /\ complete' = FALSE
    /\ UNCHANGED <<pin, artifacts, vars>>

\* the pins agree; uv sync removes what uv.lock does not name, roml with it
Sync ==
    /\ BeforeValidation /\ step = "idle"
    /\ step' = "synced"
    /\ installed' = None
    /\ complete' = FALSE
    /\ UNCHANGED <<pin, checkout, wheel, core, vars>>

Checkout ==
    /\ step = "synced"
    /\ step' = "checked out"
    /\ checkout' = pin
    /\ UNCHANGED <<pin, wheel, installed, core, complete, vars>>

\* maturin build --release --out ../../.cache/wheels
BuildWheel ==
    /\ step = "checked out"
    /\ step' = "built"
    /\ wheel' = checkout
    /\ UNCHANGED <<pin, checkout, installed, core, complete, vars>>

\* uv pip install --force-reinstall, then import roml
Install ==
    /\ step = "built"
    /\ step' = "installed"
    /\ installed' = wheel
    /\ UNCHANGED <<pin, checkout, wheel, core, complete, vars>>

\* cargo build --release --locked, and the versions are printed
BuildCore ==
    /\ step = "installed"
    /\ step' = "idle"
    /\ core' = pin
    /\ complete' = TRUE
    /\ UNCHANGED <<pin, checkout, wheel, installed, vars>>

\* a step fails or the script is killed
StopBootstrap ==
    /\ step # "idle"
    /\ step' = "idle"
    /\ UNCHANGED <<pin, artifacts, complete, vars>>

\* the same cargo build, by hand
CargoBuild ==
    /\ BeforeValidation /\ step = "idle"
    /\ core # pin
    /\ core' = pin
    /\ UNCHANGED <<pin, checkout, wheel, installed, step, complete, vars>>

-----------------------------------------------------------------------------
\* roml_artifact_fingerprint: what there is now.  The revisions in Cargo.toml
\* and Cargo.lock are the pin.
RomlArtifacts == [head |-> checkout, wheel |-> wheel, native |-> installed, core |-> core]

\* validate_roml_artifacts: what of it is missing and what does not match
Problems(a) ==
    {p \in {"checkout", "not installed", "no wheel", "no core", "stale install"} :
        \/ p = "checkout"      /\ a.head # pin
        \/ p = "not installed" /\ a.native = None
        \/ p = "no wheel"      /\ a.wheel = None
        \/ p = "no core"       /\ a.core = None
        \/ p = "stale install" /\ None \notin {a.native, a.wheel} /\ a.native # a.wheel}

\* the runner refuses a --roml-sha other than the one compiled into it; without
\* a binary no case is tried
CoreAnswers(o) == core # pin => o = "raises"

\* run_validation's first step takes the fingerprint; nothing moves after it.
\* What the adapters come to is left open, whatever extension they load.
Validating ==
    /\ step = "idle"
    /\ UNCHANGED origin
    /\ \/ \E i \in Adapters : Warmup(i)
       \/ \E i \in Impls, c \in Cases :
             \/ Skip(i, c)
             \/ \E o \in Outcomes : \/ CheckAdapter(i, c, o) \/ CheckExternal(i, c, o)
                                    \/ CoreAnswers(o) /\ CheckCore(i, c, o)
       \/ AdaptersDone \/ ExternalsDone \/ Agreement \/ CoresDone
       \/ \E c \in RunnerCases, r \in Replays : CheckNative(c, r)
       \/ Verdict(Problems(RomlArtifacts) = {})

ProvenanceNext ==
    \/ \E sha \in Shas : MovePin(sha)
    \/ Sync \/ Checkout \/ BuildWheel \/ Install \/ BuildCore \/ StopBootstrap \/ CargoBuild
    \/ Validating

ProvenanceSpec == ProvenanceInit /\ [][ProvenanceNext]_<<vars, origin>>

-----------------------------------------------------------------------------
(***************************************************************************)
(* "A stale wheel or binary must fail validation even if every             *)
(* mathematical check passes" (validate.py:705): when the status is "ok",  *)
(* the loaded extension and the core binary were built from the pinned     *)
(* SHA, although no check reads what they were built from, wherever        *)
(* earlier bootstraps stopped and whatever was pinned then.  And a         *)
(* bootstrap that ended well is never the reason for a failed validation.  *)
(***************************************************************************)
OkMeansThePin ==
    pc = "done" =>
        /\ status = "ok" => installed = pin /\ core = pin
        /\ complete => provenance /\ core = pin

(***************************************************************************)
(* The inductive invariant behind it (proved in ValidationProofs).         *)
(***************************************************************************)
Rebuilding == step \in {"synced", "checked out", "built"}

OriginTypeOK ==
    /\ pin \in Shas
    /\ checkout \in Shas \union {None} /\ wheel \in Shas \union {None}
    /\ installed \in Shas \union {None} /\ core \in Shas \union {None}
    /\ step \in {"idle", "synced", "checked out", "built", "installed"}
    /\ complete \in BOOLEAN

\* What is installed came from the wheel there is, and that from the checkout:
\* a bootstrap uninstalls before it moves either.
ChainInv ==
    /\ installed # None => installed = wheel /\ wheel = checkout
    /\ Rebuilding => installed = None
    /\ step \in {"checked out", "built", "installed"} => checkout = pin
    /\ step \in {"built", "installed"} => wheel = checkout
    /\ step = "installed" => installed = wheel
    /\ complete => step = "idle" /\ installed = pin /\ core = pin

\* Nothing moves under a validation, whose cores are all built from the pin
\* unless none of them passes.
ValidationInv ==
    /\ step # "idle" => BeforeValidation
    /\ core # pin => \A i \in Cores, c \in Cases : did[i][c] \in {"untried", "raises"}
    /\ pc = "done" => provenance = (Problems(RomlArtifacts) = {})

OriginInv == OriginTypeOK /\ ChainInv /\ ValidationInv
=============================================================================
