# A TLA+ model of roml-bench

roml-bench measures how long modelling libraries take to build the same
optimisation models. It runs every measurement in a child process of its own, a
whole profile of them for hours, and publishes medians and speedups. What it
publishes is only as good as the machinery around the timed code: leases of CPUs,
the supervision of children, the bookkeeping of what was stopped and why, the
files a crash may leave, and the validation that must precede a run. This
directory models that machinery in TLA+, from the bootstrap that installs what is
measured to the pages that publish it, with the builders of every library under
comparison and the three experimental coefficient stores of `rust-store-proto`.
TLC checks the models on small instances and TLAPS proves theorems about ten
of them for all values of their constants.

Paths below are relative to the repository's root.

## 1. Inventory

| component | source | state it keeps | operations |
| --- | --- | --- | --- |
| CPU pool and replicate batch | `src/roml_bench/orchestrator.py` (`CpuPool`, `run_batch`) | the free list, the executor's queue and workers, futures, results, errors | acquire, release, submit, supervise, collect, return or raise |
| child supervision | `orchestrator.py` (`run_child`, `censored_record`, `_parse_record`), `worker.py` as the child | the child process, its pipe, its RSS, the clock, the outcome | spawn, poll, sample RSS, kill, drain, classify |
| profile and run directory | `orchestrator.py` (`run_profile`, `_handle_record`, `_run_variants`) | loop variables, `stopped`, `raw.jsonl`, `run.json` | schedule a batch, file a record, stop an arm, rewrite `run.json` |
| validation gate | `validate.py` (`write_validation`, `validation_fingerprint`), `orchestrator.py` (`check_validation_gate`), `system.py` | `results/validation.json`, the installed parts | validate, check the gate, rebuild |
| bootstrap and provenance | `scripts/bootstrap.sh`, `system.py` (`roml_artifact_fingerprint`), `validate.py` (`validate_roml_artifacts`) | `.cache/roml`, the wheel, `.venv`, the core binary | sync, check out, build, install, compile; compare what there is |
| validation verdict | `validate.py` (`run_validation` and its checkers) | the report: workloads, entries, objectives, status | warm up, build, solve, compare, replay, conclude |
| summaries | `summarize.py` | `summary.json`, `summary.csv` | group, statistics, speedups, write the two files |
| site and plots | `site/generate.py`, `site/charts.py`, `scripts/make_readme_plots.py` | the site directory | load a run, replace the site's data and pages; select the groups of every chart |
| kernel A | `rust-store-proto/src/kernel_a/` | an arena with generations, four indexes | add, add block, set expression, remove |
| kernel B | `rust-store-proto/src/kernel_b.rs` | a packed base, bitsets, an overlay with indexes, identities, a lazy variable index | build block, update, remove, five lookups |
| kernel C | `rust-store-proto/src/kernel_c.rs` | packed arrays, one run, a bitset | build block, update, remove, lookups |
| workload generator | `workloads.py` | none (seeded arrays) | BESS and sparse-row data, CSR construction, CSR variants |
| adapters and worker | `adapters/*.py`, `worker.py` | the external library's model, the record | make the case, populate phase by phase from data or CSR, report |
| native programs | `rust-core/`, `cpp/`, `julia/` | the external library's model | build, probe, count, print a record |
| kernel driver | `rust-store-proto/src/main.rs` | its workload, counters and checksum | build, look up, iterate, remove, update, probe, assert |
| persistent-update benchmark | `scripts/persist_bench.py` | one model per arm, kept or rebuilt | build, then per cycle update or rebuild, and solve |
| command line, environment | `cli.py`, `system.py` | none | parse, describe the host |
| server, service installation | `serve.py`, `scripts/install-user-service.sh` | none | serve files |

How they interact:

- `cli` calls `run_profile`, which calls `check_validation_gate` (reads what
  `write_validation` wrote in an earlier process) and then, per replicate,
  `run_batch` over one `CpuPool`. `run_batch` calls `run_child` on its worker
  threads; `run_child` starts `worker.py` or a native program and talks to it by
  a pipe, signals and `/proc`.
- `run_batch` returns records in scheduled order; `_handle_record` appends each
  to `raw.jsonl` and adds to `stopped`, which the next batch is filtered by.
  `run.json` is rewritten whole after batches.
- `summarize`, the site and the plots read a run directory, at any time and of
  any run, crashed ones included; the site and the plots also read what
  `summarize` wrote there.
- `bootstrap.sh` installs the ROML that adapters and programs load;
  `run_validation` takes its fingerprint first and judges it last.
- The kernels share nothing but their operations: `main.rs` drives each
  through the same sequence.

What is hard here: the interleaving of workers and caller around the pool; a
child that does anything at any moment while its supervisor polls it; a stop
that must reach exactly the right later batches; crashes between and inside the
writes of two files that describe one run, and of the two files that summarise
it; pages made of files of different moments; a validation that stands for parts
that are rebuilt behind its back, or that a killed bootstrap left half replaced;
dozens of checks folded into one status; charts that each select their groups
anew; and stores whose redundant indexes are maintained by hand. `PROJECT.json`
lists each of these hazards at its line.

What makes each component correct, in one line each:

- *pool and batch*: leases are exclusive, none is lost, neither RuntimeError is
  reachable, no sibling is cancelled, every call ends;
- *child*: the verdict fits what happened, nothing that can be waited for is left
  running, and nothing but a descendant on the pipe keeps a record from being
  returned;
- *profile*: the records of an arm are a prefix of its plan up to its first
  stop, and the files say so after a crash too;
- *gate*: what a run measures is what a passing validation checked;
- *verdict*: the status is `ok` exactly when every check passed;
- *bootstrap and provenance*: `ok` means that the ROML loaded is the pinned one;
- *summaries*: a ratio compares medians of the same point, of all its
  successful canonical replicates, and nothing follows a point not completed;
- *site and plots*: one point, one number, wherever it is drawn; the published
  data backs the pages; no failure is hidden and no gap bridged;
- *builders*: all build the same model, the contract's, and report its counts;
- *persistent updates*: what is solved in a cycle is that cycle's model;
- *kernels*: every view of the store agrees with every other, and each
  implements one abstract coefficient store;
- *kernel driver*: all kernels end with the same cells, and its assertions hold.

## 2. Modules

Definitions carry the names of the code's functions where they stand for one;
each module's header says what is abstracted. Definitions whose comment starts
with "Fault:" are not part of a specification: each is a variant of the
definition below it with a plausible bug, and documents which property would
notice it.

| module | models | built on |
| --- | --- | --- |
| `ReplicateBatch` | what `run_batch` promises: an abstract specification | |
| `RunBatch` | `CpuPool`, `run_batch` | implements `ReplicateBatch` |
| `RunBatchProofs` | theorems about `RunBatch`, and that it implements `ReplicateBatch` | `RunBatch`, TLAPS |
| `RunChild` | `run_child` and its child | |
| `RunChildProofs` | theorems about `RunChild` | `RunChild`, TLAPS |
| `RunProfile` | `run_profile`, `_handle_record`, `_run_variants` | a batch is a `ReplicateBatch`, a record an answer of `RunChild` |
| `RunProfileProofs` | theorems about `RunProfile`, `RunSummary` and, beside a run, `Publication` | `Publication`, TLAPS |
| `SummaryStats` | `_stats_ms` | |
| `Summarize` | `summarize_run`'s groups and speedups | `SummaryStats` |
| `Charts` | the selections of the site's charts and findings and of the README plots | `Summarize` |
| `RunSummary` | summarising and drawing a run at any moment | `RunProfile` and `Charts` composed |
| `Publication` | `summarize` and `site` as commands beside a run | extends `RunSummary` |
| `ValidationGate` | `write_validation`, `check_validation_gate` as processes | its `Check` is `RunValidation` seen from outside |
| `ValidationGateProofs` | theorems about `ValidationGate` | `ValidationGate`, TLAPS |
| `RunValidation` | `run_validation` | |
| `Provenance` | `bootstrap.sh`, `validate_roml_artifacts`, composed with a validation | `RunValidation` |
| `ValidationProofs` | theorems about both | `Provenance`, TLAPS |
| `LinearModel` | columns, terms, rows and CSR matrices, as the external libraries provide them | |
| `Workloads` | `workloads.py`: counts, CSR payloads, variants | `LinearModel` |
| `Builders` | the builders of the adapters and the native programs | `Workloads` |
| `Planning` | the model, forecasts and updates of `persist_bench.py` | `Builders` |
| `Populate` | `worker.main`, the native programs and `persist_bench.py` populating a point | `Planning` |
| `PopulateProofs` | theorems about `Populate` | `Populate`, TLAPS |
| `CoeffStore` | what a coefficient store promises: an abstract specification | |
| `CoefficientIndex` | kernel A | implements `CoeffStore` |
| `CoefficientIndexProofs` | theorems about kernel A | `CoefficientIndex`, TLAPS |
| `PackedStore` | kernel B | implements `CoeffStore` |
| `RawPacked` | kernel C | implements `CoeffStore` |
| `StoreProto` | the driver over kernel A, B or C | the three kernels composed |
| `StoreProtoProofs` | theorems about kernels B and C, the kernels under the driver, and the drivers | `StoreProto`, TLAPS, an instance of `CoefficientIndexProofs` |
| `MC...` | the instance of each that TLC checks | |

### RunBatch

`free`, `results`, `errors` and `future` are the code's own; the executor
(external) is its `queue` and per thread `phase`, `task`, `lease` and
`verdict`. A worker goes through `Take` (the executor), `Acquire`, `RunOne`,
`Release` (the `finally` block) and `Resolve` (the executor stores the result);
the caller through `Call` or `Refuse` (the argument checks), `Submit`,
`AllSubmitted`, `Collect` (one turn of `as_completed`) and `Conclude` (the exit
of the `with` block, which joins the threads, then the raise or the return).
Each pool operation holds the lock from beginning to end and is one step. The
free list is sorted and free of duplicates after each operation of the code, so
it is a set of which the least element is taken. `Acquire` and `Release`
keep the branches that raise, so that `PoolNeverMisused` is a statement about
every interleaving and not about the model's guards.

`ReplicateBatch` has no thread, queue, lock or future: at most `jobs` tasks run at a
time, each with a CPU no other running task has, and the call ends when all have.
The refinement mapping of `RunBatch` takes a task as running from `Acquire` to
`Release`. `ReplicateBatch` says nothing of the order: tasks are *taken* in scheduled
order (`BeginInScheduledOrder`), but two workers that have taken theirs may get
their CPUs in either order.

### RunChild

The supervisor's `supervisor` variable walks through the code: `Spawn` or
`NotSpawned`, then rounds of `Poll`, `Sample`, `CheckDeadline`, `Sleep`, then
`Drained` or `DrainWait`/`DrainTimeout` (the `communicate()` of ten seconds and
the unbounded one after the kill), then `Classify`, which is the code after the
`try` block: the censored record, or the last line parsed and validated. The
child writes chatter and one record line into a pipe that holds `PipeCapacity`
and that nobody reads before the drain, changes its RSS, leaves a descendant
that holds the pipe, exits, hangs, or dies some time after SIGKILL; between any
two steps of the supervisor. `PrintedStatus` is what
`_parse_record` and `validate_record` make of a line, and the peak the record
reports may be above the ceiling although no sample saw it.

### RunProfile

`at` holds the loop variables; `RunBatch`, `Handle` (one per record),
`BatchHandled`, `Truncate` and `Fill` (the two steps of `write_text`),
`Advance` and `Finish` are the loop bodies. `pending` is handled in any order,
which is what the shuffle amounts to. `StopKeys` is `_handle_record`'s rule with
the pilot check that follows it; `Record` is what `run_child` hands over, with
the `canonical` variant of every censored record. `BatchRaises`, `Unkeyed` (a
record whose violations include a key field: appended, then `KeyError`) and
`Crash` (anywhere) end a run early; `raw` and `filed` survive. Argument
checks, the run directory's creation and `environment.json` are left out.

### Summarize, SummaryStats, Charts, RunSummary

`SummaryStats` gives `_stats_ms` in integers scaled by 8, which is exact: the
quartile's denominators are 4, medians of two halve once more. `Summarize` is
the grouping by (workload, size, implementation, variant), the rule that a group
with one `ok` record is `ok`, the panels and the speedup column of the CSV.
`Charts` has one operator per selection, each translated from its own loop and
conditions, down to the helpers that the charts do not share. A group's records are
a set of places in `raw.jsonl`, and its times a function from those places: `Ordered`
sorts them by counting, the n-th being the value that fewer than n lie below and no
fewer than n at or below. `RunSummary` applies
them to `raw.jsonl` in every state of a run.

### Publication

A derived file's content is the number of records of `raw.jsonl` it was made
from, or `Absent`, or `Torn`. `ReadRecords`, `WriteJson`, `WriteCsv` are
`write_summary`; `LoadRun` (which fails while a file it parses is torn),
`CopyData` (which removes the old site first) and `WritePages` (which raises at a
size `_nnz_map` does not know) are `generate_site`. `KillJson`, `KillCsv` and
`KillSite` stand for kills at any step. `halfway` is history: a summary whose
second file is older than its first. One command runs at a time; the run beside
them goes on, aborts or is killed at any step.

### ValidationGate, RunValidation

`ValidationGate` has the two commands as processes over one file: `StartValidate`
takes the fingerprint first, as `run_validation` does, `Check` tries one part,
`Truncate` and `Write` are `write_text`; `Load`, `Admit`, `Refuse` are
`check_validation_gate`; `Measure` is a child. `KillValidate` and `EndRun` stand
for kills; `Rebuild` for the operator (`cargo build`, `uv sync`, `git checkout`).
Parts the fingerprint names and parts it does not are told apart. **Assumption
about the operator**: nothing is rebuilt while either command is running.

`RunValidation` is `run_validation` section by section. What a build comes to is
drawn when the check runs and kept in the history variables `did`, `warm`,
`replay` and `provenance`, so that the status can be compared with what
happened. The checks themselves (solver, counts, bounds) are outcomes.

### Provenance

The steps of `bootstrap.sh` that change an artifact are actions: `Sync`,
`Checkout`, `BuildWheel`, `Install`, `BuildCore`; `StopBootstrap` is `set -e` or a
kill after any of them. `MovePin` is a commit and `CargoBuild` the operator. An
artifact is the SHA it was really built from, which no check reads;
`RomlArtifacts` and `Problems` are what the code compares instead, and
`CoreAnswers` is the runner refusing another `--roml-sha`. `Validating` is
`RunValidation` whose last step judges these artifacts. **Assumptions**: one command
at a time; nobody enters `.cache/roml` by hand; a commit moves every copy of the
pin; `uv sync` removes what `uv.lock` does not name (external, its documented
default).

### Workloads, Builders, Planning, Populate

A builder is an operator that gives what it adds to its library: columns (a name
and an upper bound, numbered from 0 in the order they are added), rows, the
objective and its sense, the parameters' values. It keeps the builder's own
loops, index arithmetic, row order and use of the payload, which are all that
tells one builder from another: flat vectors with strides, array slices, nested
lists, dictionaries, arrays from 1, CSR by row or sliced by sense. Builders that
are the same loops over the same structure share one definition. Element names
exist only as what a column stands for.

`Populate` is a child: `Prepare` makes the case, applies the variant and writes
the counts into the record, as `worker.main` does before anything is built;
`RunPhase` installs one phase in the order of `populate_phases`; `PhaseRaises` is
HiGHS refusing duplicated entries; `Report` ends it; `RaisePrices` is the probe's
price update; `NextChild` is the next process of the point. A permutation is drawn
for every row in `Prepare`.

The arms of `persist_bench.py` are four more, on a point of their own: `roml_direct`
and `roml_template` build over parameters that are zero and then install the
forecast (phase `update`), the other two build from its numbers. `NextCycle` is the
next turn of their loop, in which only the first two keep their model.

The contract against which they are held (`Contract`, in `Populate`'s properties)
is written over names, as sets and functions without order or numbers, after
section 1 of the benchmark contract.

### CoeffStore and the kernels

`CoeffStore` is a partial function from (target, variable) to an identity and a
value, and a counter of identities handed out: an update keeps the identity, a
cell that comes back after its removal gets a fresh one. Kernel A is its arena
(slots with a generation) and its four indexes, updated by `AddCombine`,
`AddNew`, `AddConstantUniqueBlock`, `SetExpr` and `Remove`; calls with a stale
id are `Stale`. Kernel B's actions follow the branches of `update` and `remove`
(overlay, tombstone, packed, create), `BuildConstantBlock`, and the first
`for_var`, which builds the index (`BuildVarIndex`); lookups are operators.
Kernel C ignores the target of a call, as the code does. In all three an
expression is a value and the set of parameters it depends on; bitsets are sets;
the callers' contracts ("sorted, unique, fresh target") are guards.

`StoreProto` is the program: it picks a kernel and a workload and walks through
`drive_a`, `drive_b` or `drive_c` (`Build`, `LookUp`, `Iterate`, `RemoveOne`,
`UpdateOne`, `Probe`, `Report`), with the branches in which an assertion panics. In
stage `free` no driver runs and the kernel takes any call its contract allows, which
is how the kernels' own properties are checked. All three map to one `CoeffStore`.

## 3. Runs

All runs finish within three minutes on two cores.

| run | question | instance and states |
| --- | --- | --- |
| `batch` | is the pool safe, and does `run_batch` keep its docstring's promises, in every interleaving? | 2 CPUs, `MaxJobs` 3, `MaxTasks` 4, `MaxBatches` 2; 48,581 |
| `child` | is the verdict earned, and what can keep `run_child` from returning? | `Deadline` 2, `DrainLimit` 2, `PipeCapacity` 2, `MaxChatter` 3; 27,600 |
| `profile` | are records a plan's prefix and the files consistent, whatever fails? | 3 points, 2 workloads, 2 arms, 2 replicates, variants of one arm; 729,259 |
| `profile_scoped` | violation: a variant's censored child stops the other variant | 1 arm, variants at 2 sizes |
| `kernels` | do each kernel's structures agree, does each implement `CoeffStore`, and do the drivers end alike? | driven: 3 variables, 3 lookups, 1 removal, 2 updates; free: 2 targets, 2 variables, `MaxIds` 3, `ArenaIds` 4; 86,977 |
| `summary` | do statistics bracket the replicates, and do all charts show one number per point, whatever a run leaves? | 2 arms, 5 replicates of uneven times, both variants of one arm |
| `csv` | violation: a failed variant's row shows a speedup | 2 arms, 1 replicate, both variants |
| `site` | do the pages show what the published data says, with all failures, whatever is killed, and what do ratios rest on? | 2 arms, 2 sizes (one in no ladder), 2 replicates, `MaxSummaries` 1; 805,928 |
| `gate` | can a run measure a part that validation would fail? | 3 parts (1 outside the fingerprint), 2 versions; 39,960 |
| `verdict` | does every failing check reach the status, and does `ok` mean the pinned ROML? | 5 implementations, 2 cases, 2 SHAs; 527,536 |
| `populate` | does every implementation build the contract's model and report its counts, in every cycle too? | 25 arms, 19 points, 3 periods, rows of 3, 3 cycles; 14,652 |
| `populate_payload` | violation: two children of a point have different payloads | 1 shuffled row |

Why the bounds are enough:

- `batch`: tasks outnumber workers and workers tasks; jobs outnumber CPUs (the
  call is refused); the second call meets the pool, and the executor, that the
  first left after errors. The theorems of section 5 hold without these bounds,
  also for an unknown affinity set (`Cpus = {}`).
- `child`: three polling rounds before the deadline, a pipe that fills up with
  more to come, and both drains; more ticks repeat rounds already seen.
- `profile`: "larger sizes" needs two sizes of one workload, "other
  implementations continue" two arms in one batch, the stop key's workload a
  second workload, the two stages one variant arm; two replicates tell the
  pilot from the rest. `summary` and `site` run the same actions with other plans.
- `kernels`: a block, an overlay cell and a re-added cell fit in the identities at
  once; the two targets are interchangeable in `CoeffStore` and in the stores,
  so symmetry is sound (no liveness is checked there). A driven workload has an
  even and an odd update, a removed and a kept cell, and lookups that repeat.
- `summary`: five uneven times and every subset a run can leave give quartiles
  below, at and above the four replicates that `quantiles` needs.
- `site`: two replicates, so that a point may have one that succeeds and one that
  fails; a second size, which must then have no record of that arm and which
  `_nnz_map` does not know; an arm on the charts that need it and one that is not.
  One summary suffices to be killed between its files, and the first site to be
  published ends the story.
- `gate`: two versions suffice to rebuild, revert and revalidate; parts are
  independent of each other.
- `verdict`: two SHAs give every mixture of old and new that the five steps can
  leave, since each step copies one SHA to one artifact; one validation reads it.
  An adapter, a reference adapter of its own case, an external
  runner, the bulk core with the probe and a core only the last loop reads: one
  of each way into the status.
- `populate`: a stride, an offset or a slice that is wrong is right by accident
  with one battery, one row or one period, hence up to three of each; two rows of
  three for the permutations; prices, bounds and factors all differ, and `Dt` is
  divisible by `Eta` so that the balance coefficients stay integers. Three forecasts, with a
  product without demand and sales that earn nothing or lose, make a parameter that
  is left over visible.

Type invariants are stated where theorems need them (`RunBatch`, `RunChild`,
`RunProfile`, `RunValidation`, `ValidationGate`, `PackedStore`; kernel A's is part of
`ArenaInv`); elsewhere a wrong type breaks the properties above it. Except for
`RunBatch`'s they are proved and no run lists them: each breaks only together with
a property that does run.

Deadlock is checked everywhere but in `verdict`, whose process ends; elsewhere
the ends are explicit stuttering actions.

### Fairness

- `RunBatch!FairSpec`: weak fairness of the caller and of each worker. They are
  OS threads, and `run_one` ends because `run_child` returns, unless a descendant of
  the child holds its pipe open for ever (`HangsOnlyOnADescendant`): then the batch,
  and the run, hang with it.
- `RunChild!FairSpec`: weak fairness of the supervisor and of SIGKILL taking effect.
  Nothing is assumed of the child, nor of a descendant: `kill()` reaches the child
  only, and the second `communicate()` has no timeout.
- `RunProfile!FairSpec`: weak fairness of the loop's own steps; that a batch
  ends is `RunBatch`'s `EveryCallEnds`.

## 4. Findings and observations

Findings, each shown by a violation run:

1. *Variant stops are not scoped* (`profile_scoped`). `run_child` builds a
   censored record without its `csr_variant`, so it says `canonical`; the stop
   key made of it is the canonical one, and a variant child that times out stops
   its implementation's other variant as well. `_handle_record`'s docstring says
   the stop key is that of the variant.
2. *Variant payloads are not shared nor reproducible* (`populate_payload`).
   `apply_csr_variant` seeds its generator with `hash(variant)`, which Python salts
   in every process; nothing sets `PYTHONHASHSEED`. Each child of a shuffled point
   measures its own permutation, and the recorded seed does not bring it back.
   The file's header says the payload is created once and shared.
   `BuildsTheContract` shows that what is built is the same model all the same.
3. *The CSV gives variants the canonical speedup* (`csv`). `write_summary` looks a
   row's speedup up by (workload, size, implementation) (`summarize.py:219`), so a
   variant's row shows its canonical point's, also when the variant failed. The
   contract (line 237) forbids a speedup for a missing point, and
   `tests/test_summarize.py:116` says variants are groups without speedups.

Observations made while modelling, where the code and a document differ and no
run is kept for it:

- "Run one replicate in a fresh child; always return a record" (`run_child`'s
  docstring, `orchestrator.py:368`): with a descendant that never closes the pipe it
  returns nothing, since the second `communicate()` (`orchestrator.py:531`) has no
  timeout. `<>Returned` is false of `RunChild!FairSpec`; `HangsOnlyOnADescendant`
  holds, and says that this is the only way.
- `run_child` overwrites its outcome with `timeout` when `communicate()` takes
  more than ten seconds (`orchestrator.py:532`), also for a child that exited in
  time, or was killed for memory, and left a descendant on its pipe; the text
  says "wall timeout".
- The contract (`.planning/BENCHMARK-CONTRACT.md:210`) makes replication depend
  on the *median* build; the code looks at replicate 0 only
  (`orchestrator.py:717`).
- `run_profile`'s docstring says `arms` restricts the implementations measured;
  `_run_variants` takes its own constant `VARIANT_ARMS` (`orchestrator.py:796`).
- The contract says "Persist every raw replicate" (line 225); when one task of
  a batch raises, the records of its siblings are dropped
  (`orchestrator.py:609`).
- "Speedups are emitted only for paired points completed by both implementations;
  never extrapolated" (`summarize.py:5`), and "Do not calculate or display a speedup for
  a censored or missing point" (contract, line 237): a group with one `ok` record
  among failed or censored ones is `ok` (`summarize.py:102`), and its survivors' median
  goes into a speedup. In the `site` run such ratios occur.
  `RatiosAreNeverExtrapolated` does not forbid them; it says that an arm's point that
  is not completed is the last that arm has come to.
- `validation_fingerprint` does not name the C++ and Julia programs, nor
  uncommitted edits, so these can change after a validation unnoticed; it is
  taken before the checks it stands for, and the gate is checked before the
  measurements, hence the operator assumption of `ValidationGate`.
- The contract asks for objective agreement before any point is published (line
  162); the core implementations are compared by counts and never solved
  (`validate.py:393`).
- An external runner's record without its count fields raises `KeyError` out of
  `run_validation`; no file is written then (`KillValidate`).
- Kernel B's `for_var` builds its index over the base once and
  `build_constant_block` does not invalidate it (`kernel_b.rs:406`): cells of
  later blocks are missing from later lookups, though it is called a "global
  variable lookup". `VarViewAgreesWhenIndexed` is conditioned on an index that covers the
  base, so it says nothing of one that does not.
- The counts in a record are formulas of the size, and so is `inspect()` for the
  ROML and PyOptInterface adapters ("construction"): `validate.py` compares
  the formula with itself there. `CountsAreTrue` makes the comparison it leaves
  out, and says that the introspection of PuLP's and Pyomo's models finds the
  counts of the case.
- The duplicated variant doubles every coefficient and no bound, so its optimum is
  not the canonical one; nothing solves it.
- The contract bars mutable parameters from `bess_96` (line 81);
  `roml_core_l1` builds its objective over a parameter block (`common.rs:499`).
- Kernel C's struct comment says "one sorted run per target"; a second target's
  block replaces the first's run.
- `pick()` (`main.rs:340`) draws until it has 20,000 distinct cells between its two
  calls and never ends for a smaller `--n`.
- The CSV gives the core baseline a speedup of 1 of its own, though the core panel
  divides by the bulk core.
- `headline_bars` is fixed at the sizes of the standard profile; the contract (line
  221) asks for the largest point all have.
- `charts.py:3` says that every trace has its quartiles; the memory and speedup
  charts draw none. The stop table has no variant column, and the speedup chart puts
  the workloads of an arm into one trace.
- `generate_site` removes the old site before it knows that it can finish the new
  one: a missing `summary.csv`, or a size outside the ladders (`charts.py:185`,
  `KeyError`), leaves no site. The server goes on serving in between.
- A run that aborts or crashes has a `run.json` that lags: a failed replicate of its
  last batch, in a group that is `ok`, is on no page. `FailuresAreShown` says how
  much can be hidden: failures of one batch or, in the variant loops, where
  `run.json` is written once per size, of several replicates of one size; and that a
  finished run hides nothing.
- What a wheel or the core binary was built from is compared with nothing:
  `validate_roml_artifacts` compares the checkout's HEAD, the `Cargo` pins, and the
  wheel with the venv. `OkMeansThePin` holds because `uv sync` removes the installed
  extension first and the runner has the SHA compiled in. A checkout by hand in
  `.cache/roml`, or a core compiled when `main.rs` had the new pin and `Cargo.toml`
  still the old one, pass validation; `validate.py:705` says that a stale wheel or
  binary must fail.
- In `persist_bench.py` the ROML arms assert that every solve is optimal and the
  others do not; nothing compares the objectives of a cycle.

## 5. Proofs

Every theorem holds for all values of the constants under these assumptions, each
named in its module and evaluated by TLC in that module's runs:

- `CpusAssumption`: CPUs are naturals, finitely many, and `None` is none of them.
- `BoundsAssumption` (`RunBatch`, `RunChild`), `PlanAssumption`: bounds are
  naturals; a plan is a sequence of points, not empty, since the code's profiles
  are written that way and `run_profile` returns early without one.
- `PublicationAssumption`: the nonzeros charts' arms are of the run, and the sizes
  of a workload ascend in the plan, as the tuples of `SIZES` do
  (`workloads.py:17`) and the single point of `--size` does by itself.
- `PartsAssumption`: `ValidationGate`'s sets of parts and versions.
- `ConstantsAssumption` (`RunValidation`): adapters, external runners and cores
  are three disjoint tables of `validate.py`, the bulk core is a core, a runner
  supports the runners' cases, and every core supports some case, the list its
  loop goes through (`validate.py:393`).
- `IndexAssumption` (`CoefficientIndex`), `StoreAssumption` (`PackedStore`):
  variables are finitely many naturals (`u32` identities), values are integers (in
  halves), and the bounds on them are naturals.
- `SummaryAssumption` (`RunSummary`): each replicate has a time, and no build takes
  none; a median of zero would drop out at the code's `if base:`, and a child whose
  clock did not move between two readings is not modelled.
- `WorkAssumption` (`StoreProto`): what the program leaves unchecked of its own
  arguments: there is a lookup, a removal and an update at least, and enough cells
  for `pick()` to end.
- `WorkloadAssumption` (`Workloads`): a row has a term at least and there is a
  period; prices are integers, one to a period; the time step is a multiple of the
  efficiency, which keeps the quotients exact.
- `PointsAssumption` (`Populate`): a point is of one of the six workloads, of a size
  that is not zero, and only `sparse_rows` has variants other than the canonical one
  (`VARIANT_SIZES`, `orchestrator.py:63`).

| module | argument |
| --- | --- |
| `RunBatchProofs` | `IInv` is `TypeOK`, `LeaseInv` (leases are held exactly between acquire and release; no CPU is neither free nor leased), `ExclusiveLeases`, `WidthInv` (only the executor's own workers are busy, only inside a call that passed the checks), `QueueInv` (the queue is an interval of positions ahead of every task taken or finished) and `PoolNeverMisused`. `OrderInv` and `BooksInv` (each future says what became of its task, and the caller's lists are what it collected) are inductive on top of it. The refinement has one lemma per action: its mapped step is a step of `ReplicateBatch` or leaves the mapped variables unchanged. |
| `RunChildProofs` | `IInv` says at each step of the supervisor what it may know of a child that runs beside it: where the clock is, that a drained pipe has no holder, which verdict goes with which way of dying. |
| `RunProfileProofs` | `IInv` ties the loop variables to what was handed out: `FiledInv` (`run.json` holds a prefix of `raw.jsonl`) and `LagInv` (what it lacks is what the current point, or size, has filed since the last rewriting). `ScheduleInv` counts on top of it: `ClassInv` says of each class (implementation, workload, variant) that its records follow its plan, that only the last may stop it, and that there are as many as batches of the class are over (`Due`), plus one once the record of the current batch is handled (`Handled`), unless the class is stopped; `PendingInv` that whoever is in a batch is not stopped while it waits; `CanonicalInv` that nothing but a canonical record has stopped anybody before the variants begin. `ReachInv` and `CompleteInv` are what survives when the process does not. `SiteIInv` is about the commands beside the run: `JobInv` (what a command has read is still what the files hold), `FilesInv` (the two summary files differ only after an unfinished summarize), `Close` (a summary and a `run.json` that are shown together are at most one write apart, which stays true because `raw.jsonl` only grows). `EndInv` (a record that its child printed has the variant asked for; a run is done after its loops only; the replicates are those of the plan, and the arms of canonical records those of the run) is what the curves and the summaries need besides; what the statistics then say of a state is counting (below). |
| `ValidationGateProofs` | the fingerprint's place in the file, what the validator has established so far (each part it no longer has to check is good if its status is still `ok`, at the versions of its fingerprint, because nothing is rebuilt under it), and what the runner has loaded (a record that was once the file). |
| `ValidationProofs` | `IInv`: a check that is behind the current section was tried, or skipped for a reason the report shows (`TriedInv`, `ReasonInv`), and every failure so far left an error or a failed entry (`FailureInv`). `OriginInv` adds, over bootstraps: what a wheel, an installed extension or a binary was built from, as a chain back to the checkout and the pin. |
| `CoefficientIndexProofs` | `IInv`: `ArenaInv` (generations and free marks), `ListInv` (each list holds exactly the live ids of its key, once each), `CellInv` (`byCell` is a bijection between live cells and live ids), `CountInv`. The simulation of `CoeffStore` reads `for_cell` off it slot by slot (`CellsView`). |
| `StoreProtoProofs`, kernel B | `IInv`: `SliceInv` (each base position is of one target's slice, which has a variable once), `OverlayInv` (the cell map is a bijection between its keys and the overlay's slots), `BitInv` (the two bitsets are disjoint, and a position is hidden exactly when the overlay has its cell), `IdInv` (an identity ever handed out is gone or resolves to live data that carries it, and all live data is found by its identity), `ParamListsExact`. One lemma per way through `update` and `remove`. `ViewInv` (`ListInv`: a slot is named once, in the lists of its target and of its variable; `DirectoryInv`: a slice is its target's) is inductive on top of it, for the two iterations. `LookupView` is what `for_cell` answers, for the simulation of `CoeffStore`. |
| `StoreProtoProofs`, the driver and kernel C | `TargetInv`: the driver calls a kernel about a target and variables of its own, inside its loops' bounds. So each of its steps is a call of the driven kernel (`StepsOfA`, `StepsOfB`, `StepsOfC`), and the kernel's invariant and simulation apply. Kernel C's are here: its `IInv` says that the run lies in the arrays, has each variable once, and that nothing is stored before the one block. On top of these (`StoresInv`), `DriverInv` is about the workload: `StageAnswers` (every cell answers what the removals and updates made so far say of it), `OwnCells` (only the driven target has cells; kernel B's overlay is empty up to the first mutation and holds the first updated cell from then on, its variable index covers the base at the end) and `Counters` (what the drivers have counted and summed is what the workload promises). One lemma per step of the drivers, from `BuildStep` to `ReportStep`; what a removal or an update does to the answers is one lemma per kernel, and joined in `RemovalEffect` and `UpdateEffect`. |
| `PopulateProofs` | `ChildInv` (what may be left of an arm's phases, and what each status says of them) and `InstalledInv` (each part of the model whose phase is over is the builder's; the parameters too, unless the arm revises them), so that a model reported ok is its builder's. What the builders come to is then compared place by place. A sequence of rows is given by index (`Items`, `Join`), a handle by its rank in its family (`HandlesOfFamily`), and two constructions of the same rows are arrangements of one set of slots (`Arranges`: a bijection between slots and places). |

What is stated by them:

- *batch*: `TypeCorrect`, `LeasesAreExclusive`, `PoolErrorsUnreachable`,
  `NoLeaseLost` (`PoolRestored`), `SiblingsAlwaysSurvive`, `TasksBeginInOrder`
  (`BeginInScheduledOrder`), and `RunBatchImplementsContract`: the whole of
  `ImplementsContract` for every interleaving and any number of CPUs, jobs, tasks
  and calls. `PoolNeverMisused` is not inductive by itself. That `acquire()`
  finds a free CPU is a counting argument: the worker asking holds no lease, at
  most `PoolWidth - 1` others do (`WidthBound`, `WidthInv`), the checked call has
  `jobs <= Cardinality(Cpus)`, so a lease function from the other workers cannot
  cover the CPUs (`FreeCpuExists`, from `FiniteSetTheorems`), and what is not
  leased is free (`LeaseInv`). The refinement counts again: the tasks the contract
  sees running are as many as workers between acquire and release, hence at most
  `jobs` (a bijection between the two).
- *child*: `TypeCorrect`, `OkAnswersAreEarned`, `NothingOutlivesTheCall`
  (`NothingLeftRunning`: neither the child nor a descendant that holds its pipe; one
  that has closed it is not modelled), `MemoryVerdictsAreReal`.
- *profile*, for plans and variant plans of any length, any implementations and
  number of replicates: `RunJsonLagIsBounded` (`RunJsonLagsOneBatch`),
  `CanonicalRunsHaveNoHoles` (`CanonicalRecordsHaveNoHoles`) and
  `VariantsComeAfterCanonical` (`VariantsFollowCanonical`). The last two count: the
  position of a record among those of its class is the number of replicates
  planned before it (`OneMorePoint`), a batch adds one record to the classes of its
  workload and variant that are not stopped and to no other (`OwnClassGrows`,
  `OtherClassStays`), and each turn of the loops makes exactly that batch due
  (`DueAdvances`).
- *site*: `EveryFigureHasItsData` (`DataBacksPages`) and
  `HiddenFailuresAreOfOneWrite` (`FailuresAreShown`), beside a run in any state, and
  `CurvesEndWhereArmsStopped` (`CurvesStopWhereArmsStopped`). The last brings the two
  invariants together: a drawn point is a canonical record that is ok
  (`DrawnIsMet`); the records of an arm go up the ladder without leaving out a size
  (`SizesAscend`), and only the last one may stop it; so the first size beyond the
  paired one that any arm reached would have been reached by all
  (`PairedEndsACurve`).
- *gate*: `OkFilesVouch` (`OkIsAboutItsPrint`) and `GateHolds`
  (`NothingBrokenIsMeasured`), the second with `MeasuredInv`: a part is measured
  at the version the loaded fingerprint has.
- *verdict and provenance*: `StatusIsEarned` (`VerdictIsEarned`, both directions),
  `NoCaseIsSkipped` (`NothingSilentlySkipped`), `ValidationPinsTheArtifacts`
  (`OkMeansThePin`). `ValidationRuns` says that `Provenance` is in particular a
  `RunValidation`, so the first two carry over.
- *kernels, under the driver and any free calls* (`ProtoSpec`):
  `IndexesNeverDiverge` (`IndexesAgree`) and `StaleIdsStayStale` (`StaleForGood`)
  of kernel A; `IdentitiesAgreeUnderDrivers` (`IdentityAgrees`),
  `LenLiveExactUnderDrivers` (`LenLiveExact`) and `ParamListsExactUnderDrivers`
  (`ParamListsExact`) of kernel B. `LenLiveExact` is a counting argument: positions
  neither dead nor shadowed and slots without a tombstone together are in bijection
  with the cells that `for_cell` finds. `TargetViewUnderDrivers`
  (`TargetViewAgrees`) and `VarViewUnderDrivers` (`VarViewAgreesWhenIndexed`) count
  the same way: each part of an iteration is a loop over the places of some live
  cells, one place to a cell (`Loops`), such a loop meets every place once
  (`AscendingMeetsAll`: in a finite set of naturals each rank is taken by one
  element), and the parts share no cell.
- *kernels and their contract*: `EveryKernelImplementsCoeffStore`
  (`ImplementsCoeffStore`), for every workload, set of targets and expressions, and
  any number of identities. Each kernel implements `CoeffStore` for its own
  targets, under any calls of the operations modelled, by its own lemmas
  (`ImplementsContract` of `CoefficientIndexProofs`,
  `KernelBImplementsContract`, `CallOfCImplements`); `LiftA`, `LiftB` and
  `LiftC` carry each over to the driver's store, which has the targets of all.
  Kernel C needs its one target: with two, its simulation is false (section 4).
- *drivers*: `DriversAlwaysAgree` (`DriversAgree`), for every workload: no assertion
  of the three drivers fails, and what they print is what the workload promises,
  whichever kernel is under them. Each kernel's iteration is a walk over the live
  cells in some order (`Walks`, by `WalkOfA`, `WalkOfB`, `WalkOfC`); a sum does not
  depend on that order (`SumReordered`), so the totals agree though the kernels
  iterate differently. `SumOf` is a recursive function on a finite interval, and
  what is said of it is proved by a least counterexample over the length. The
  assertions before the report are `AssertionsHold`.
- *summaries*, of a run in any state: `StatisticsAlwaysBracket`
  (`StatisticsBracket`), `RatiosNeverExtrapolate` (`RatiosAreNeverExtrapolated`) and
  `ChartsAlwaysAgree` (`ChartsAgree`). A sorted value is known by how many are below
  it and how many are not above it (`Sorted`), the n-th of n places exists because
  the counts grow from none to all (`Counts`, from `FiniteSetTheorems`), and the
  median and the quartiles lie between two neighbours (`MedianOf`, `QuartilesOf`), so
  each has its share of the values on either side; that the scaling by 8 is exact is
  part of it (`DeviationSplits`). A published ratio is the quotient of the medians of
  two groups whose records are those of the point (`MedianOfPoint`); a record of the
  arm after those of a point, canonical or of a variant, shows by the count of its
  class that the point has all its replicates (`WholePoint`) and none that stops, hence
  none that failed (`SurvivorsAreLast`). The code that
  looks a ratio up again, once for the CSV, once per chart, finds that one
  (`FoundOfArm`), which is why the charts agree (`ChartsShowTheSame`).
- *builders*, for every point: `BuildInvariance`, `LayoutWitnessIsAlwaysTrue`
  (`LayoutWitnessIsTrue`) and `EquivProbeAlwaysAccepts` (`EquivProbeAccepts`). The
  one-by-one and the bulk construction of `bess_96` put the same rows in two orders:
  each row belongs to one slot, each slot has one row (`FlatArranged`,
  `BulkArranged`), so the rows are equal as multisets (`ArrangedRows`). A row of a CSR
  matrix is found by division and remainder in the payload (`GroupRows`,
  `SparseAgree`), and the objective has the same coefficient for each column
  (`EarnedByBoth`).

`IInv`, `ScheduleInv` and `SiteIInv` of `RunProfileProofs` were model-checked on the
instances of the runs before they were proved, as the other inductive invariants
were. In each module there is one lemma per action, and under it one step per
conjunct it disturbs; an action's lemma names only what the action changes.

Only model-checked, and why:

- liveness (`EveryCallEnds`, `HangsOnlyOnADescendant`, `RunEnds`): fairness and `ENABLED`
  are beyond TLAPS here;
- `CountsAreTrue` and `BuildsTheContract` of `Populate`: the first counts terms with
  folds over rows of any length, the second evaluates every kind of model
  (numeric, parameterised, revised) on its columns; both need induction over data.

Two properties were rewritten for the proofs. `FailuresAreShown` used to say that
all hidden failures are of one replicate; the proof of that failed where the
variants of a size are filed together, and TLC shows the counterexample on an
instance with variants. It now says `OfOneWrite`. The properties of the schedule
used to select sequences out of `raw.jsonl`, about which nothing can be proved here
without induction over them; they now speak of sets of positions and count, which
says the same. For the same reason `IterTarget` and `ForVar` of `PackedStore` take
the places of a loop in order with `Ascending`, by rank, where they once selected
out of a sequence, and so does `CellsAt` of `RawPacked`. `Each`, `Grid`, `GridEach`
and `Handles` of `LinearModel` give a sequence by its places, with division,
remainder and rank, where the builders once flattened sequences of sequences.
`Ordered` of `SummaryStats` sorts by counting, and `OkRecords` of `Summarize` is a
set of places. `SumOf` of
`StoreProto` is a recursive function where a fold stood, and `BaseValue` has the
code's `% 97`. `GroupStatus` says that an ok record exists instead of counting
those selected. `CurvesStopWhereArmsStopped` says nothing of a workload that no arm
of the run supports: there `LargestPaired` of no arms is the largest size of all.

## 6. Not modelled, and why

- The measured libraries: external code, modelled by what the builders rely on.
  Warm-ups, validation solves and allocation counting are left out.
- Argument parsing, environment capture, formatting, the markup and geometry of
  pages and plots, the server, the service's installation: no state that a later
  step depends on.
- A wheel or a binary that is cut off in the middle: the archive does not open, or
  the program does not start, which `RunValidation` has as outcomes.
- The numbers of the workloads: stand-ins that are told apart; rounding and the
  seeded price and capacity vectors are left out.
- The wrap-around of kernel A's `u32` slot index after 2^32 allocations, and its
  `get_mut` and `iter_mut` (`store.rs:341`, `store.rs:425`), which lend out a
  coefficient to be changed under the indexes: nothing in the repository calls them.
- Phases missing from an `ok` record: `summarize` then gives its group no phase
  medians (`summarize.py:119`). All programs of the repository emit them, and `Charts`
  takes them to be there wherever a median is.
- A descendant of a child that has closed the pipe: nothing waits for it.

## 7. Plan

Done, in this order: batch and pool with its abstract specification and proofs;
the child; the profile; the kernels with theirs; the gate with its proofs; the
verdict; the summaries; the workloads and their builders; the kernels' driver; the
charts and the site; the bootstrap and its provenance; the persistent updates.

Next, extending the model: the builders' models composed with `RunValidation`
through `ReportProblems` and the optima, to say which wrong models a validation
lets through.

Next, proving more:

1. `CountsAreTrue` and `BuildsTheContract`, with `Meaning` as partial sums over the
   places of an expression and the payload of `bess_96` by index, as the probe's two
   constructions now are; the prices must then be assumed not to be zero, as those of
   the code are, since a zero would drop out of the objective.
