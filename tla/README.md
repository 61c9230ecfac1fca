# LibRPA in TLA+

A formal model of the control logic of LibRPA (the C++ library
in `src/` and the driver in `driver/`): the protocols its MPI processes follow, the
state it keeps between calls and on disk, and the rules by which it shares work
out. The floating-point physics is not modelled; what a computation depends on,
who performs it, when, and what remains when it fails, is.

Paths below are relative to the repository root, `core/`, `mpi/` and `api/`
stand for `src/core/`, `src/mpi/` and `src/api/`.

Contents: [1 The system](#1-the-system) · [2 Modules](#2-the-modules) ·
[3 Runs](#3-the-runs) · [4 Bounds](#4-bounds) · [5 Fairness](#5-fairness-and-deadlock) ·
[6 Proofs](#6-proofs) · [7 Findings](#7-findings) ·
[8 Not modelled](#8-what-is-not-modelled) · [9 Plan](#9-plan)

## 1 The system

LibRPA computes RPA correlation energies, exact exchange (EXX), G0W0 and QSGW
self-energies and constrained-RPA interactions from data of an electronic
structure code. A host program, or LibRPA's own driver, runs on all processes
of an MPI communicator. It creates a `Dataset` through the C API, sets input
piece by piece, and calls the computations. Everything below the API is
single-threaded as far as shared state goes; the concurrency is that of MPI
processes which execute the same program and must stay together.

### Components

| Component | State it keeps | Operations | Interacts with |
|---|---|---|---|
| Collective error stages (`mpi/collective_stage.h`, `core/qsgw/task.cpp` 160-196, `core/crpa_task.cpp`) | none beyond a call: the exception caught | `collective_all_stage`, `collective_root_stage` | wraps every step of the QSGW and cRPA tasks and of the driver |
| QSGW task (`core/qsgw/task.cpp`) | replicated mean field, `current_hamiltonian`, `mixed_hamiltonian`, reference density; on the root trace streams, convergence flag | `Task::run`: set-up, restart, loop of update, export, diagonalization, report | stages; checkpoint; cRPA extension; Dataset; files |
| QSGW checkpoint (`core/qsgw/checkpoint.cpp`) | the file | `write_qsgw_checkpoint`, `read_qsgw_checkpoint` | the QSGW task; files of earlier versions |
| cRPA extension and workflow (`core/crpa_task.cpp`, `core/crpa_qsgw_extension.cpp`, `core/crpa_workflow.cpp`, `core/crpa.cpp`) | tracked parent orbitals; companion file; the response map and band selection of a `Chi0` object, borrowed stage by stage | the stages of an evaluation, parent update, companion read and write | the QSGW task and GW call it back at fixed points; `Chi0` |
| Process layout (`mpi/two_level_parallel_context.cpp`, `mpi/kpoint_blacs_parallel_context.cpp`) | shape, group, rank, own k-points, BLACS contexts | `init`, `finalize`, sharing and owner queries | everything that communicates |
| Work distribution (`mpi/base_mpi.cpp`) | none | `dispatcher`, `dispatcher_balanced`, `dispatch_upper_triangular_tasks` | layout, EXX, G0W0, Chi0 |
| Atom pairs and Coulomb blocks (`api/dataset.cpp`, `api/dataset_helper.cpp`) | `atpairs_local`, `atpairs_unique_all`, Coulomb blocks, `coul_blacs2ap_redistributed_` | the preparation in front of every computation | work distribution |
| Compute-object cache (`api/input.cpp`, `api/compute_exx.cpp`, `api/compute_g0w0.cpp`) | `p_exx`, `p_g0w0`, `p_chi0`, `is_band_calc_done` | setters, invalidation, builds, k-grid and band queries | wave-function redistribution, numerics |
| Wave-function redistribution (`api/dataset.cpp`, `core/meanfield_mpi.cpp`) | the mean field's matrices; flags `eigvecs_kpara_redistributed_` and `..._2d_...` | dense and two-dimensional redistribution | layout; `librpa_set_wfc` |
| Atom-pair/BLACS conversion (`core/utils_atomic_basis_blacs.cpp`, `math/utils_matrix_m_mpi.h`, `mpi/base_blacs.cpp`) | the index lists of an `IndexScheduler`; the arrays being converted | `init`, conversion to BLACS pieces, to atom-pair blocks, from half the blocks | Chi0, EXX, G0W0, density and Green's functions, Coulomb blocks |
| Instance manager and handlers (`api/instance_manager.cpp`) | registry of Datasets by id | create, get, free | the API |
| Numerics (`core/exx.cpp`, `gw.cpp`, `chi0.cpp`, QSGW matrix algebra, solvers, grids, symmetry, RI) | tables and matrices | pure computations | called from all of the above |
| Driver, readers, Fortran binding, wrappers, utilities | input parameters | reading, task selection, output | the API |

### What is hard, and what makes each component correct

* **Error stages.** An exception on some processes only leaves the others in a
  collective for ever. Correct: one verdict per stage for all; nobody goes on
  past a failed stage; nobody reports a failure elsewhere that did not happen.
* **QSGW task.** A long replicated loop with root-only steps in between, whose
  collectives are matched by order alone; killed and restarted at any point;
  several files replaced one after another. Correct: processes do not drift
  apart; across any sequence of jobs, states, checkpoint and exports belong to
  the one trajectory an uninterrupted run follows; no completed checkpoint is
  lost; the loop ends.
* **Checkpoint.** An untagged stream in eleven layouts (and an envelope of +200)
  read under settings that decide the layout. Correct: accepted exactly by jobs
  that continue the same equations and input, damaged files by none.
* **Layout and work distribution.** No message is exchanged: each process
  evaluates a formula and relies on the others having done the same. Correct:
  the parts fit together with nothing left out or done twice, sender and
  receiver agree on the owner, and no group is empty where a weight of zero
  would throw later.
* **Atom pairs and Coulomb blocks.** The blocks move once; the computations may
  be repeated with other options. Correct: the move loses nothing, and a process
  holds the blocks of the pairs it works on.
* **Compute cache.** One flag speaks for two objects and two grids, under
  arbitrary orders of API calls. Correct: what is served is what was asked for,
  from the present input.
* **Wave-function redistribution.** Processes walk through the k-points on their
  own, joined by allreduces and chunked point-to-point sends; a call may throw
  half-way and be repeated. Correct: no matrix is lost or mixed, all processes
  get the same verdict, none is left behind.

* **Atom-pair/BLACS conversion.** Bare numbers travel; what they are follows from
  an order that both ends work out alone. All messages of all conversions have
  the same tag and processes do not wait for each other in between. Correct:
  every element arrives at its place, messages are not mistaken for those of
  another conversion, nobody waits for ever.
* **Shared response.** One `Chi0` object has one response map and one band
  selection, which GW and the cRPA stages use in turn; a stage may throw, and the
  full response may be the resident map itself. Correct: the caller finds its
  state again, and each screening uses the response it is meant for.

The `hazards` list of `PROJECT.json` gives all of these at their source lines,
with the property that guards against each or the reason why none does yet.

## 2 The modules

```
StageAgreement  <--implements--  CollectiveStage  <--EXTENDS--  CollectiveStageProofs
QsgwTrajectory  <--implements--  QsgwRun  <--EXTENDS--  QsgwRunProofs
QsgwCheckpoint  <--EXTENDS--  QsgwCheckpointProofs
Dispatch  <--EXTENDS--  KpointLayout  <--EXTENDS--  KpointLayoutProofs
Dispatch  <--EXTENDS--  AtomPairTasks  <--EXTENDS--  AtomPairTasksProofs
Dispatch  <--INSTANCE-- MCEigvecRedistribution  --EXTENDS-->  EigvecRedistribution
EigvecRedistribution  <--EXTENDS--  EigvecRedistributionProofs
BandCache, CrpaResponse  <--EXTENDS--  DatasetProofs
BlockCyclic  <--EXTENDS--  IndexSchedule  <--EXTENDS--  IndexScheduleProofs
BlockCyclic  <--EXTENDS--  HalfSchedule
```

Each `MC*` module only gives an instance its constants. Definitions introduced
by a comment `Mutant:` are not part of any specification: each is a plausible
bug in the definition it precedes, kept to confirm that the properties can tell
it from the code.

**StageAgreement** - abstract: an ordered list of stages gets one verdict each;
each process passes or stops by it.

**CollectiveStage** - both stage templates. `Post` is the `try`/`catch` with the
entry into the collective, `Proceed` and `Throw` the two ways out of it. The
communicator is `posted[s][r]`, the flag of each process for each stage: an
allreduce returns when all have posted, a broadcast when the root has, so the
root may be stages ahead. `error` tells the own exception, rethrown, from the
report of another process's.

**QsgwTrajectory** - abstract: what a user of QSGW is promised. States 0, 1, 2,
..., of which one is saved; a job starts from 0 or the saved one, advances by
one and saves; the saved state survives whatever ends the job.

**QsgwRun** - `Task::run` on all processes, statement by statement as far as
control goes, with jobs (`Submit`, `Leave`, `Crash`) around it. `pc[r]` is the
collective process r works towards; `mem[r]` the variables every process holds,
`work` those of the root; `disk` the checkpoint, its temporary, the companion,
the trace and the Hamiltonian files. A mean field or Hamiltonian is the number
of the update that produced it, or `Bad` if that update consumed anything but
the inputs it would have had in an uninterrupted run (`MixedVersion`): stale
data therefore shows up as a state off the trajectory. Collectives are matched
as MPI does it, the k-th call of one process with the k-th of the others
(`calls`), not by name. `Restore` ... `TakeRestored` is the restart in the order
of the code (root first, maximum compared afterwards, broadcasts after that);
`OpenCheckpoint` ... `ReportDone` is the reporting stage, one action per file
operation because a job can be killed between them. Convergence is a free
choice from `MinIter` on. What throws under a verdict, all processes learn of:
root stages and broadcasts of matrices (`RootPoint`, `RootFails`, `ReportFails`),
and the stages inside the points all take part in (`StageFails`). What throws
outside every stage, at the points `Unguarded` lists, leaves `run()` on its own
process only (`ThrowsAlone`), and the others go on to the next call.

**QsgwCheckpoint** - the stream as a sequence of numbers. `Written` follows
`write_qsgw_checkpoint` field by field and `Accepts` `read_qsgw_checkpoint`;
groups of numbers written and compared as a whole (a mean field, a hash of
inputs) are one element. `OldWritten` are the layouts of earlier programs, which
the reader's comments describe and whose numbers it still admits or rejects.
`Damage` cuts a file short or appends to it.

**Dispatch** - the formulas: `Share` (dispatcher), `BalancedCounts` (in integer
arithmetic over a common denominator, where the code rounds `long double`s; the
loops that sum and multiply are the recursive functions `SumBelow` and
`ProductBelow`),
`UpperTasks` (with `Picked` for the filter, a recursive function where a
`SelectSeq` would have no definition a prover can expand), the two-level shape for a request (`RequestFits`,
`ResolvedShape`), `SplitRank` and its inverse `GlobalRank`, and the choice of
the BLACS grid. No RECURSIVE operator, so that theorems can be stated over it.

**KpointLayout** - the context object of each process: `Open` is `init`,
including what it leaves behind when it throws, `Finalize`, `ShareList`
(`local_aux_indices`, with the weights gathered over `comm_kpoint_h`), and the
owner queries as operators.

**AtomPairTasks** - `Prepare` is what `build_exx`, `build_g0w0_sigma` and
`get_rpa_correlation_energy` do first: choose the pairs of this process,
exchange the lists (`Note`, an emplace that keeps what is there), and move the
Coulomb blocks if that was not done before.

**BandCache** - API calls in any order on one Dataset, identical on all
processes: setters and invalidation, the two builds, four families of queries.
k-space matrices are tagged with the grid, band data and SCF input they were
made from; a rotation that reads wave functions in the wrong layout yields
`Garbled`. `reply` records what was asked for and what was delivered. Its
`CacheInit`, `CacheNext`, `CacheSpec` and `CacheTypeOK` have names of their own
because one module proves it and CrpaResponse correct, two parts of one Dataset.

**EigvecRedistribution** - each process walks through the k-points (`at`,
`now`). `Meet` is the group of allreduces at one k-point, between which nothing
else happens; `Send`, `Sent`, `Receive` are the chunked transfer; `Pack` and
`Swap` the second phase over one team. MPI may take up to `buffer` chunks
before they are received, chosen once per behaviour, so that rendezvous (0) is
included. `chan` keeps only the order per pair of processes, as all chunks of
all k-points travel with the same tag.

**BlockCyclic** - where an element of a matrix lives: atoms and basis functions
(`AtomicBasis`), ScaLAPACK's index functions (`indxg2p`, `indxg2l`, `indxl2g`), the
local pieces of a process grid (`ArrayDesc`), the blocks of atom pairs, storage
order, and the balanced distribution of pairs over a grid. `Descriptor` is what
an `ArrayDesc` and two bases can be, `SourceInGrid` what `descinit` asks for.
Sums of basis sizes (`PartRange`) are a recursive function, as are the lists of
IndexSchedule (`Between`), so that both can be reasoned about.

**IndexSchedule** - a script of calls, the same on every process: `init` of a
scheduler (`Initialize`), and conversions in either direction, each a `Start`
(copy what stays, post receives, then sends) and a `Finish` (after `MPI_Waitall`,
store by the index lists). A process goes on to its next call when it can, so
messages of several conversions may be on their way between two processes;
`chan` keeps their order, which is all that tells them apart. Messages carry
values tagged with the conversion and the element they belong to; `eager` says
whether MPI buffers. The tables of `ArrayDesc` and `AtomicBasis` are worked out
once (`Table`).

**HalfSchedule** - the conversion of a Hermitian matrix from one half of its
pairs, which uses index lists of its own: `Sent` by blocks, `Expected` by pieces.

**CrpaResponse** - the `Chi0` object between its users: GW (`GwBuild`,
`GwScreen`), callers that select bands, and three cRPA calls, `shared` (on GW's
own map), `separate` and `onsite`. A call is a sequence of stages, a stage a sequence
of steps from the constructor of `CrpaChi0State` (`Enter`) to its destructor
(`Restore`, in `Return` and in `Throw`). A response is a value that says how it
was built, so a difference formed with the wrong map, or under the wrong
selection, shows.

## 3 The runs

| Run | Question | Shows |
|---|---|---|
| `collective_stage` | Can any pattern of exceptions split the communicator? | No: `NobodyPassesAFailure`, `BlameIsReal`; every behaviour is one of StageAgreement (`ImplementsAgreement`); all processes finish or all throw (`AllEndTogether`). A hang would also be a deadlock. |
| `qsgw_run` | Do processes and files stay on one trajectory over jobs that end in any way? | `CollectivesMatch`: no broadcast is taken for another. `OneTrajectory`, `VelocityInLiveFrame`, `ParentIsLive`: what is used, saved and exported belongs together. `TraceIsContiguous`: the trace lags the checkpoint by one row at most. `DurableProgress`: a completed checkpoint is never lost, nor replaced by an earlier one in a continued job. `FollowsTrajectory`: refinement of QsgwTrajectory. `JobsEnd`: whatever throws under a verdict, the job ends on all processes; the one way to hang is `Deserted`, a process having thrown outside every stage and another waiting for it. |
| `qsgw_companion` | Is a tracked calculation left with a continuation, as documented? | No, see [7](#7-findings). |
| `qsgw_checkpoint` | Is a file taken up by exactly the jobs it is for? | `ContinuesTheSameRun` (never under other equations or inputs, and the state arrives intact), `AcceptsWholeFiles` (never rejected by the job it is for, and never accepted when cut short or overlong). |
| `kpoint_layout` | Do locally computed layouts fit together? | `KpointsPartitioned` (and no group is idle, for which a later sharing would throw), `RootHolds` (data is sent where it is expected), `ListPartitioned`. |
| `atom_pair_tasks` | Is every pair worked on once, with its blocks at hand? | `PairsSharedOut`, `InputSurvives`, `HoldsWhatItNeeds`. |
| `band_cache` | Can a query be served from the wrong matrices? | No: `FlagCoversBoth`, `ReplyIsCurrent`. |
| `eigvec_redistribution` | Can a redistribution hang, lose a matrix or end differently on two processes? | No: `OneVerdict`, `NothingLost` (nor is one put together from the chunks of two), `ReadyIsComplete`, `CallsReturn`, and no deadlock, with failing and repeated calls. |
| `index_schedule` | Do schedules that each process works out alone fit together? | `InPlace`: when a conversion has returned, every element is at its place, from this conversion. `MessagesMatch`: no message of another conversion or of another length is received, none is left over. `ConversionsEnd`: with and without buffering. |
| `index_schedule_bases` | Also for two different bases? | Not in column-major order, see [7](#7-findings). |
| `half_schedule` | Does half of the blocks suffice, as documented? | No, see [7](#7-findings). |
| `crpa_response` | Can GW and cRPA share a response? | Yes: `CallersStateKept` after every return and every throw; `RightResponseScreened` for U, W and GW. |

Three properties are conditional, and the condition is the honest content:

* `HoldsWhatItNeeds` is about programs whose calls are all triangular (atom-pair,
  LibRI) or all replicated (R-tau). The routing AUTO may change between the two
  with the number of frequencies (`mpi/base_mpi.cpp` 161); the blocks are then
  not moved a second time and a process lacks some. Nothing in the
  documentation promises otherwise, so it is listed as a hazard, not a finding.
* `TraceIsContiguous` allows one missing row: the checkpoint is renamed before
  the trace is flushed, and a job may be killed in between.
* `ReadyIsComplete` and `NothingLost` hold for input set before the move
  (`SetWfc`). Nothing resets the flags if wave functions are set later.

## 4 Bounds

* `collective_stage`: 3 processes, 5 stages. The root/all sequence contains each
  ordered pair of kinds, in particular two root stages in a row, in which the
  root runs ahead, and an all stage behind them. Beyond that the theorems of
  section 6 hold for every number of processes and stages.
* `qsgw_run`: 2 processes (one is the root, the other any other: no action
  distinguishes non-root processes), 3 updates, 3 jobs, response interval 2, so
  that response intervals and ordinary updates alternate, that a job can be
  continued twice or be followed by a fresh one over its files, and that a
  restart at, below and above the maximum occurs. `MinIter` is 2, so that a
  maximum below `qsgw_min_iter` occurs as well. Each job
  attaches no cRPA extension, one that only evaluates responses, or one that
  tracks orbitals, so that files of tracked and untracked jobs meet.
* `qsgw_checkpoint`: all settings that decide the layout, two inputs (equal or
  not is all a comparison can see), one saved state, every cut of every file.
  The value sets are chosen so that they overlap (flags, codes and data all
  contain 1): misaligned reading is not ruled out by types.
* `kpoint_layout`: 1 to 8 processes, 0 to 5 k-points, lists up to 5, requests up
  to 4, two calls of `init`. Primes, squares, more processes than k-points and
  the reverse, and surplus items all occur.
* `atom_pair_tasks`: grids up to 4 x 4, 1 to 6 atoms: odd and even grids, with
  and without a centre process, fewer atoms than rows. The theorems hold for any
  grid, any number of atoms and any calls.
* `band_cache`: three changes of either input, one more than the two versions a
  stale value needs; TLC covers `Kpara = TRUE`, the proofs both values.
* `eigvec_redistribution`: two teams of two processes (another team can pass
  while one throws), three k-points (one team has two), two chunks, buffers of 0
  and 1, two calls, three matrices set. One process may be given any k-point and
  another the second one as well (`Reads`), so that a k-point can have no owner,
  one or two, and a source can be in the team or outside. The allreduces at a
  k-point join all processes, so that one matrix only is on its way at a time
  (`WireInv`, proved for any sizes); what overlaps is the end of a transfer with
  the other processes' arrival at the next k-point. The theorems hold for any
  processes, teams, k-points, chunks and buffers.
* `index_schedule`: two atoms with one and two functions. On two processes every
  map from the four pairs to a process or none, for both grid shapes, both
  storage orders, consecutive and cyclic blocking; a grid of two by two with a
  shifted origin and two maps. Each behaviour converts twice with one schedule,
  in both directions, then with a new one. Atoms and processes are few, but a
  block, a piece and a message all have several elements in either order. The
  theorems hold for any atoms, grid, blocking, owners and script.
* `crpa_response`: two band selections and the empty one, which are all that a
  comparison of selections can tell apart; any number of calls. The theorems
  hold for any number of selections.

`MaxIter`, `MaxJob`, `MaxSet`, `MaxCall`, `MaxOpen`, `MaxInput`, `MaxBuffer` and
`MaxSaved` are bounds of the model and not of the program, except that `MaxIter`
is also the largest `qsgw_max_iter` requested.

## 5 Fairness and deadlock

Fairness is weak fairness of each process's own next step, and of a collective
all participants have entered: MPI progress and a scheduler that lets processes
run. It says nothing about which operations fail, when a run converges, whether
a job is killed or what the user submits. In `EigvecRedistribution` it also says
that a call one process has made is made by the others: all processes of the
host program execute the same calls, without which no collective call returns.
A throw outside every stage is possible at any time and never required.
In `QsgwRun`, `EigvecRedistribution` and `IndexSchedule` it is one weak fairness
condition on the disjunction of these steps, which is the least that is needed:
a job, a call and a conversion have finitely many steps, so it suffices that
some process that can go on does.

Deadlock is checked, with an explicit stuttering step where the program has
legitimately ended (`Ended`; in `QsgwRun` all jobs are over), so that a process
stuck in a collective is an error of the run. A job of `QsgwRun` can always be
killed, so that a hang is not a deadlock there: it is `JobsEnd` that rules it
out, but for deserted jobs. `CHECK_DEADLOCK FALSE` is used in
two sequential models which simply end: `AtomPairTasks` (the host program stops
calling) and `QsgwCheckpoint` (one reader has read).

## 6 Proofs

**CollectiveStageProofs**: for every set of processes, every number of stages
and every mix of the two kinds, from `CommAssumption` (the root is a process, at
least one stage, each of one kind). `NobodyPassesAFailure` is not inductive by
itself: it does not say that a stage somebody has passed can get no more flags.
`IInv` adds that flags are posted exactly up to where a process stands
(`PostedUpToHere`), that only those who run an operation can fail
(`OnlyRunnersFail`: in a root stage the late flags of the others are harmless),
and that every passed stage has returned without a failure
(`PassedStagesSucceeded`). One lemma per action shows it preserved; the
invariants follow.

* `TypeCorrect`, `FailureIsABarrier`, `BlameIsCorrect`: the run's invariants.
* `OneExit`: all processes that throw do so out of one stage, and none is done.
* `StagesAgree`: the refinement of StageAgreement. `Post` judges a stage or
  stutters (`PostJudges`), `Proceed` and `Throw` are its `Pass` and `Stop`
  (`LeavingUsesTheVerdict`).

**DatasetProofs**, about two parts of a Dataset. *BandCache*: for any number of
input versions, both wave-function layouts, any order of calls, from
`CacheAssumption`. The four invariants are
inductive together and not one by one: a reply is current because a raised flag
covers both objects; a flag can be trusted because a surviving object is of the
present input; and a rotation is right because the wave functions are where the
flag of the redistribution says they are, which is why that relation is part of
`CacheTypeOK`. Theorems `RepliesAreCurrent`, `OneFlagIsEnough`,
`KeptObjectsAreCurrent`, `LayoutFlagIsRight`.

*CrpaResponse*: for any set of band selections and any number of calls,
from `SelectionAssumption`. `CallersStateKept` needs that the destructor runs
with the guard its constructor made (`RestoreGivesBack`, with the part of `TypeOK`
that ties the guard to the step); `RightResponseScreened` is a statement about
the end of a chain, and is inductive only with the whole chain: which steps a
stage has (`StepsOf`), where the full response is until its last use
(`FullIsBuilt`), and what `chi0_q`, the selection and the maps handed on hold at
each step (`MapsAreRight`). One lemma per action. Theorems `TypeCorrect`,
`CallerFindsItsState`, `ScreensWhatItShould`.

`ASSUME`s on constants are what the proofs start from; each says that bounds are
numbers, that the root is a process, that a team contains its root and the
like, and TLC evaluates it in every run. Nothing else is assumed, but for
`OneBasis` in the theorems of IndexScheduleProofs.

**QsgwRunProofs**: for every set of processes and any
number of updates, jobs and response intervals, from `RunAssumption` and
`FileAssumption` (no file is mistaken for none). No property is inductive by
itself, because what a process does next is decided by the root and sent in an
earlier call. The invariant `IInv` has three layers:

* *Calls decide the place* (`CallsInv`). `Chain`: each process went from
  collective to collective as the calls it made say (`Follows`), which takes the
  root's decisions from the calls. `InStep`: two processes that made the same
  number of calls are therefore at the same place in the same iteration. So
  `CollectivesMatch`.
* *The place decides what is held* (`RankFits`, `WorkFits`): at each place, the
  mean field, Hamiltonians and the tracked parent are those of iteration i or
  i - 1. So `OneTrajectory`, `VelocityInLiveFrame`, `ParentIsLive`.
* *The place decides what is on disk* (`FilesFit`): which checkpoint is there,
  how far the trace is behind it, which exports exist; and between jobs what a
  crash anywhere can leave. So `TraceIsContiguous` and the action property
  `DurableProgress`.

Every action is one lemma over `RankKeeps`: a step of one process keeps the
invariant if the calls are in order and the process holds what its new place
asks for. Theorems `Inductive`, `TypeCorrect`, `RanksCallTheSame`,
`OneTrajectoryKept`, `VelocityStaysInFrame`, `TraceStaysContiguous`,
`ParentStaysLive`, `ProgressIsDurable`; and `RunFollowsTrajectory`, the
refinement of QsgwTrajectory step by step: all steps stutter but `Submit`, the
live state's change on the root, the rename of the checkpoint and the end of a
job. `OnlyLoneThrowsStrand` says for any number of processes that when some wait
and none can go on, one waited for has thrown outside every stage: a process one
is waiting for is at an earlier call (`InStep`), which has returned without a
failure for the one ahead (`Chain`), and so for itself; it can neither have thrown
out of that call (`ThrownForAReason`) nor be at the end.

**EigvecRedistributionProofs**: for any finite set of processes, any teams that
are equal or disjoint, any number of k-points, chunks and calls, and any
buffering, from `TeamAssumption`. The processes walk through the k-points in
step with one matrix under way at a time, whose chunks received and on the way
are, in order, those sent (`WalkInv`, `WireInv`); behind them every k-point is
at home (`HomeInv`), so that the second phase, whose error no other team would
learn of, never fails (`SpreadInv`); a process is ahead of another one only by
calls that found nothing left to do (`CallInv`), which is what makes the
verdicts equal. Theorems `Inductive`, `TypeCorrect`, `VerdictsAgree`,
`MatricesSurvive`, `LayoutIsComplete`.

**KpointLayoutProofs**: for any number of processes, k-points, items, requests
and calls, from `LayoutAssumption`. The first part is arithmetic of `Dispatch`:
blocks and round-robin shares, divisors, `SplitRank` and `GlobalRank`, and the
choice of group count and grid, which the code makes by searching and the
proofs treat as a least element. The balanced shares of a list need sums,
treated by induction over a set of lengths (`Accumulated`, `SumGrows`,
`SumsCombine`). Rounding down leaves fewer items than there are groups; of the
groups, exactly k have fewer than k ahead of them in the order of the remainders
(`LeadingCount`, by counting from the least one), so that as many of them get
one more as items are left and the counts add up (`CountsAddUp`). Parts that
start where the sum of the earlier ones ends then cut the list (`BalancedOnce`).
The last part is the state: either every context is closed or all were laid out
by the same call, and a shared list is the part for the weights gathered, which
every process sees alike (`IInv` with `LaidOut` and `Shared`, `GatheredWeights`).
The proof is about the quotients, not about the `long double`s the code computes
them with. Theorems `Inductive`, `TypeCorrect`, `KpointsHeldOnce`,
`RootsAreReceivers`, `ListsAreCut`.

**AtomPairTasksProofs**: for any process grid, number of atoms and sequence of
calls, from `GridAssumption`. Two thirds are about `UpperTasks`. Sequential
shares are intervals that follow each other (`Intervals`, `ShareOnce`), so that
the triangle is cut into cells, one for each place in the grid (`UpperCell`,
`Cells`). A process and its point mirror agree on which of them is the former,
lay the same list and take its two halves (`Halves`, `TwoShareTheirCells`); the
union over all processes is that of the cells (`UpperShared`). What the filter
`Picked` returns is proved by induction over a set of lengths (`UpTo`), with
well-founded minima in place of the library's induction theorem. The invariant
`IInv` says that the lists are those of the last call, but the entries of the
others and the blocks those of the first (`FirstAndLast`), which is why a switch
between triangular and replicated routings is excluded in `HoldsWhatItNeeds`.
Theorems `Inductive`, `TypeCorrect`, `PairsAreSharedOut`, `InputIsKept`,
`BlocksAreAtHand`.

**QsgwCheckpointProofs**: for any sets of inputs, settings and data among the
numbers, however much they overlap, from `FormatAssumption`. The stream has no
tags, so that nothing but its length and the fields compared can tell two
layouts apart. The version and the first fields fix the envelope; files whose
envelope a reader takes agree with it in all settings that decide a length, and
have a body of the reader's length, so that field stands against field
(`Taken`, `SameEquations`); a file cut short or overlong has another length than
the one fixed this way (`Copies`, `Lengths`). Theorems `TypeCorrect`,
`SameRunContinued`, `WholeFilesAccepted`.

**IndexScheduleProofs**: for any atoms and basis sizes, process grid, blocking,
source process, storage order, map from pairs to processes (or to none) and
script of calls, from `LayoutAssumption` and `ScriptAssumption`. The theorems
have one hypothesis, `OneBasis`: in column-major order, row and column basis are
the same. All present callers and the layouts of `index_schedule` satisfy it, and
without it `InPlace` is false: run `index_schedule_bases` shows it violated, see
[7](#7-findings). The argument has four parts:

* *Where an element is.* Every index of a basis belongs to one atom
  (`PartRanges`, `OneAtom`, `AtomExists`); a flat place is one row and one column
  in either storage order (`Flattened`, `Unflattened`); `indxg2p`, `indxg2l` and
  `indxl2g` fit together, for any block size, grid and source
  (`BlockCyclicIndices`), and the local index is the number of indices before it
  on the same process (`LocalIndexCounts`). So the tables made of a descriptor
  are sound: each element has exactly one place in one piece, the one found by
  counting, and one in the block of its pair (`TableIsSound`).
* *What the lists say.* `Between` has exactly the elements that one process holds
  in blocks and the other in its piece (`BetweenFacts`). Sender and receiver
  walk through the elements in one order, so the slots one packs and the
  other fills are slots of the same elements (`SlotLists`, `PackedIsMessage`).
* *What is on its way* (`IInv`). A process has the lists of the last step it
  ended (`ListsInv`); while it waits it has copied its own part and nothing else
  (`WaitInv`); and the channel from p to q holds the messages of the steps p has
  started and q not ended that are not empty, in the order of the steps
  (`ChanInv`). That needs its converse as well: q has ended no step whose
  message p has not sent (the last conjunct of `InOrder`), because otherwise a
  message could come to a process that is past it. No tag and no barrier are
  needed: a process takes exactly one message for each that is due, so the first
  one is always the one of its step (`FirstMessage`). TLC checked the invariant
  on the instance of `index_schedule` before it was proved.
* *What arrives.* No two elements have one slot, so what comes for a slot is its
  element (`ReceivedElement`); together with the own part nothing is missing
  (`PieceIsFilled`, `BlocksAreFilled`).

Theorems `ConversionInvariant`, `ListsNamePlaces` (TypeOK), `MessagesOfTheCall`
(MessagesMatch), `ElementsArrive` (InPlace).

With it every invariant and action property of a passing run is a theorem.
Model-checked only:

* the liveness properties `AllEndTogether`, `JobsEnd`, `CallsReturn` and
  `ConversionsEnd`: TLAPS 1.4.5 proves neither liveness under fairness nor
  ENABLED. (`OnlyLoneThrowsStrand` is the safety half of `JobsEnd`.) The invariants say what a
  conversion, a call or a job has done when it ends, not that it ends.

Refuted by TLC, so that there is nothing to prove: HalfSchedule's
`HalfIsCompleted` and the two other properties of section 7.

## 7 Findings

**The checkpoint and its cRPA companion are replaced one after the other**
(`core/qsgw/task.cpp` 1525-1529; run `qsgw_companion`, property
`InterruptionLeavesAContinuation`). With orbital tracking, a continuation needs
the checkpoint and the companion of the same iteration. A job that is killed, or
whose companion cannot be written, between the two renames leaves a checkpoint
of iteration N+1 beside a companion of iteration N, or beside none; the reader
rejects both, and the checkpoint of N is gone. The user guide and the design
notes say that an interruption leaves the previous completed checkpoint
available. The counterexample is a job that stops there in its first update, with a
checkpoint of 1 beside none; N+1 beside N is the same two lines one update later.
Without tracking the documented promise holds (`DurableProgress`).

**A stride is looked up in the wrong basis**
(`core/utils_atomic_basis_blacs.cpp` 165; run `index_schedule_bases`, property
`InPlace`). In column-major order the scheduler takes the size of the row atom
from the column basis. The interface is documented with two bases, and the local
copies use the right one. All present callers pass one basis twice, for which
`index_schedule` shows the conversion correct.

**The half-matrix conversion does not fill the matrix**
(`math/utils_matrix_m_mpi.h` 1549-1550, `core/utils_atomic_basis_blacs.cpp` 542-711;
run `half_schedule`, property `HalfIsCompleted`). Elements of a block that is
present as its transpose are read untransposed, and sender and receiver do not
enumerate a mirrored block in the same order. The trace of the run is the
shortest one and shows the first, on one process; with the two-process layout of
`MCHalfSchedule` alone TLC finds the second. The cases that show it are
commented out in `src/test/test_matrix_m_mpi.cpp` 1162-1165 with the remark
`FAIL`; nothing under `src/` but the tests calls the function.

## 8 What is not modelled

* The numerics: contractions, rotations, mixing, response functions, analytic
  continuation, solvers, grids, symmetry tables. They enter as functions of
  their inputs' versions.
* The band path, quasiparticle output and file formats other than the
  checkpoint.
* MPI, BLACS, ELPA and GPU wrappers: external; matching and buffering are
  modelled where a protocol rests on them.
* What the others meet after a throw outside every stage. Such code is
  `collect_sigma_root`'s shape check (`core/qsgw/task.cpp` 294-298, on the root
  only), the density of the Hartree term (936-945), `build_sigma` and the checks
  behind it (1303-1324), diagonalization and occupations (1475-1484), tracking
  and the largest eigenvalue change (1498-1499) and the last response (1583); a
  hang is possible at each, and `QsgwRun` models the throw. It takes the call
  the others wait for as never made. The process that threw goes on to the
  driver's allreduce on the same communicator (`driver/main.cpp` 129-160), which
  may meet that call; MPI leaves the outcome undefined.
* The rounding of the `long double` quotients in `dispatcher_balanced_counts`.
* Setters called after the computation that consumed them, an API query with
  incomplete band data, and a Dataset reused after a task that threw.
* The instance manager, the two-index dispatcher, partial band input; the index
  lists of the conversions that use no scheduler, and the redistribution of
  whole matrices by ScaLAPACK's `pgemr2d`.

## 9 Plan

Written so far, in this order, the most important behaviour first: the error
stages with their abstraction and proofs; the QSGW run with the trajectory it
implements; the checkpoint format; the dispatch formulas with the two models
that rest on them; the compute cache with its proofs; the redistribution; the
conversion between blocks and pieces with its proofs; the shared response with
its proofs.

Next, the model:

1. **InstanceManager** (`api/instance_manager.cpp`, `api/handler.cpp`,
   `api/global.cpp` 37-112): ids that are used again, handlers that outlive
   their Dataset, initialization and finalization in any order. Property: a live
   handler reaches its own Dataset.
2. **Dataset life cycle**: BandCache composed with the mean field a QSGW task
   leaves behind (`core/qsgw/task.cpp` 1482), with setters after a computation
   (`api/dataset.cpp` 389, `api/input.cpp` 254) and with queries on incomplete
   band data (`api/input.cpp` 1416).
3. **Driver**: `run_task_and_catch` and its allreduce around a task, and which
   calls it may meet after a throw outside every stage.
4. Routings that change between calls (AUTO) in AtomPairTasks, up to what EXX
   and G0W0 then find.

Then, the proofs: that a new schedule for the same owners changes nothing (it is
implied by `ListsInv`), the new modules' invariants; and, should the
half-matrix conversion be repaired, its `HalfIsCompleted` on the lemmas of
IndexScheduleProofs about pieces and blocks.
