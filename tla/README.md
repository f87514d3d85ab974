# A TLA+ verification project for ParFlow

ParFlow is a parallel simulator of subsurface and overland flow.  It is several
hundred thousand lines of C and Fortran, most of them numerics.  This project
covers the *control* around the numerics and the integer algorithms the numerics
stand on: the clock of a simulation and everything that hangs on it, the
iterations of the nonlinear solver, the division of the grid and the message
passing between the ranks of a run, the input database, and the octrees and boxes
by which solids are looped over.  The numerics appear as outcomes (a solve
converges or does not) and as abstract values (the state for a time, the data of
an update).  That is about a twentieth of the source; section 5 says what the rest is
and why it stays out.

## 1. Inventory

| Part | State it keeps | Operations | Talks to |
|---|---|---|---|
| Richards solver, `parflow_lib/solver_richards.c` | locals `t`, `dt`, `ct`, `cdt`, `conv_failures`, `take_more_time_steps`; in `instance_xtra`: state vectors and their old copies, `iteration_number`, `file_number`, `dump_index`, running sums, log arrays | `SetupRichards`, `AdvanceRichards`, `TeardownRichards` | time step selection, nonlinear solver, CLM/OASIS, output |
| Time step selection, `select_time_step.c` | parameters only | `SelectTimeStep` | time cycles |
| Time cycles, `time_cycle_data.c` | interval lengths and repeat counts | `...ComputeIntervalNumber`, `...ComputeNextTransition` | wells, boundary conditions |
| WRF coupling, `wrf_parflow.c` | the solver module, kept between calls | `wrfparflowinit_`, `wrfparflowadvance_` | WRF calls it, it calls the Richards solver |
| amps, `amps/mpi1`, `amps/common` | invoices, packages with persistent requests | `amps_BCast`, `amps_Send`, `amps_Recv`, `amps_IExchangePackage`, `amps_Wait`, ... | MPI |
| Vectors, `vector.c`, `communication.c` | data with ghost layers, communication packages | `InitVectorUpdate`, `FinalizeVectorUpdate`, `FreeVector` | amps |
| Input database, `input_database.c`, `hbt.c` | a height balanced tree of keys, with marks on those used | insert, look up with and without default, successor, print, delete | read once at start-up, asked by every module |
| Grids, regions, stencils: `grid.c`, `region.c`, `reg_from_stenc.c`, `comm_pkg.c`, `distribute_usergrid.c` | subgrids per process; send, receive, dependent and independent regions | built once | vectors |
| Nonlinear solver: `kinsol/`, `kinsol_nonlin_solver.c` | iterate, memory kept between solves, counters, age of Jacobian and preconditioner | `KinsolNonlinSolver`, `KINSol` | function, Jacobian, preconditioner; called by the Richards solver |
| Solids: `grgeometry.c`, `grgeom_octree.c`, `clustering.c` | an octree for each solid, and boxes made from it | build from an indicator field, loops over inside, outside, surface | vectors; looped over by all kernels |
| Linear solvers, numerical kernels, soil physics, geostatistics | vectors, matrices | numerics | vectors |
| Impes and lattice Boltzmann solvers | their own loop | `SolverImpes`, ... | as Richards |
| CLM (`clm/`), OASIS, SAMRAI, HYPRE, SILO, NetCDF | - | external or physics | Richards solver |
| pftools, pf-keys | files | pre- and post-processing | - |

The behaviours that are hard to test:

* *Retries.*  A failed solve sets time, step and vectors back by hand and tries
  again with half the step, up to a limit; then the run ends, unless a caller
  such as WRF simply calls again.
* *Competing rules for dt.*  Time step control, wells, boundary conditions, land
  surface model, dump interval and stop time each may cut the step, in a fixed
  order, with decisions taken in between.
* *Counters that must stay in step*: dump index, file number, log, running
  sums, forcing record.
* *Boundaries*: `TIME_EPSILON`, signed remainders, whole base units, array ends,
  powers of two.
* *Ranks out of step*: messages without tags, sends that may or may not be
  buffered, data that MPI reads and writes in place.
* *Two ends worked out apart*: each rank computes alone what it sends, what it
  waits for, and which faces of a solid lie between it and another.
* *State that outlives a call*: the memory, counters, Jacobian and preconditioner of
  the nonlinear solver; fluxes left behind by the last function evaluation.
* *Shapes nobody drew*: trees after rare sequences of rotations, solids of any
  form, boxes cut out of them.

What makes each part correct: the solver never passes the stop time, integrates
only from converged states, dumps on schedule, loses no step of the water
balance and gives every file its own number; a time cycle shows the interval its
input describes; the coupling is at WRF's time; a broadcast and a ghost update
deliver the right data and end; the subgrids partition the grid and the two ends of
every message agree; a nonlinear solve is accepted for a reason, with fluxes and
matrices that belong to its pressure; the database answers a call always alike; a
loop over a solid meets its cells, each once.  The list of hazards, with the line of each and
the properties that guard it, is in `PROJECT.json`.

## 2. Modules

| Module | Models |
|---|---|
| `TimeCycleData` | the two functions of `time_cycle_data.c`, as operators |
| `TimeCycleClock` | a clock visiting every time of a run, and reference definitions to compare with |
| `RichardsTimeLoop` | `SetupRichards`, `AdvanceRichards`, `TeardownRichards`, `SelectTimeStep` |
| `SimulationClock` | abstract: what a caller of the solver may rely on |
| `RichardsTimeLoop_proofs` | the theorems about `RichardsTimeLoop` |
| `TimeCycle_proofs` | the theorems about `TimeCycleData` and `TimeCycleClock` |
| `WrfParflow` | the solver called step by step by WRF (extends `RichardsTimeLoop`) |
| `WrfParflow_proofs` | the theorem about `WrfParflow` (extends `RichardsTimeLoop_proofs`) |
| `KinsolSolver` | `KinsolNonlinSolver`, `KINSol`, `KINSpgmr`, `SpgmrSolve`: a series of nonlinear solves |
| `KinsolSolver_proofs` | the theorems about `KinsolSolver` |
| `AmpsFindPowers` | `amps_FindPowers`, as operators |
| `AmpsBCast` | `amps_BCast` on all ranks (extends `AmpsFindPowers`) |
| `AmpsBCast_proofs` | the theorem about `AmpsBCast` |
| `AmpsExchange` | vector updates over `amps_IExchangePackage` and `amps_Wait` |
| `GhostUpdate` | abstract: what a vector update promises |
| `AmpsExchange_proofs` | the theorems about `AmpsExchange` |
| `Subgrids` | boxes of cells: intersection, subtraction, union, projection (`grid.c`, `region.c`) |
| `CommRegions` | regions from stencils, and the strided copies they become (`reg_from_stenc.c`, `comm_pkg.c`, `communication.c`, `amps_pack.c`) |
| `VectorUpdate` | from the process grid to an update of a vector on all ranks (extends `CommRegions`) |
| `VectorUpdate_proofs` | the theorems about `VectorUpdate` |
| `HeightBalancedTree` | `hbt.c`, as operators |
| `InputDatabase` | a run of the program as the database sees it |
| `Dictionary` | abstract: a key that has a value keeps it |
| `InputDatabase_proofs` | the theorems about `HeightBalancedTree` and `InputDatabase` |
| `Octree`, `BoxClustering` | `grgeom_octree.c` and `clustering.c`, as operators |
| `IndicatorSolid` | a rank makes a solid from an indicator field (extends both) |
| `MC*` | instances for TLC |

Definitions named `...Late`, `...Uncut` and the like, with the comment "seeded
fault", are variants of the definition that follows them.  They are not part of
any specification; they are put in its place to see that a property notices.

### RichardsTimeLoop

`pc` is the place in the program; one action is one stretch of code between
places where something can turn out differently:

| Action | Code of `solver_richards.c` |
|---|---|
| `Setup` | `SetupRichards`: counters, initial condition, first output and log entry |
| `SolverRichardsAdvance` | `SolverRichards` calls `AdvanceRichards` once |
| `BeginTimeStep` | top of the loop; at `t == ct` the land surface model's turn and its forcing counters |
| `SelectStep`, `RetryStep` | one pass of the convergence loop up to the nonlinear solver |
| `TimeIncrementTooSmall` | the `PARFLOW_ERROR` exits |
| `CopyUnallocatedVector` | first copy when nothing was allocated |
| `SolveConverges`, `SolveFails` | return of the nonlinear solver and the test of `max_failures` |
| `FinishStep` | from `iteration_number++` to the end of the loop's body: sums, dumps, log, file number, whether to go on |
| `LogFullExit` | the same stretch when the log guard calls `exit(1)` |
| `ReturnFromAdvance` | output at the end (`DumpAtEnd`) and return |
| `Teardown` | `TeardownRichards` |

Abstractions.  Time is a number of integer ticks and `TIME_EPSILON` is a number
of ticks, so rounding errors of floating-point sums are out; `0.5 * dt` is
rounded down.  The input deck is a record, chosen in `Init` from `Problems`.
The pressure, density and saturation vectors are one value: the time they
belong to and whether their solve converged.  All files of one number and kind
are one output event.  The running sums are the time they cover.  CLM's first
forcing record (`clm_istep_start`) is 1.  Spin-up options and the surface
predictor change values only and leave the clock alone.  A dereferenced
unallocated vector is the terminal place `"crashed"`.

`SimulationClock` is the contract: a state is loaded, the caller names a time,
time moves forward and not beyond it, each step starts from a converged state,
and an unconverged state is shown only when the solver stops.  The refinement
mapping (`Clock` in `RichardsTimeLoop`) shows the *published* state: the old
vectors while an attempt may still be taken back.

### WrfParflow

`wrfparflowadvance` begins a call of `AdvanceRichards` from WRF's time with
WRF's own time step control; everything in `instance_xtra` survives between
calls.  WRF itself is external: it calls again after every return, `MaxCalls`
times, and its clock is the stop time of the last call.  `LogFullExit` happens only
here: a stand-alone run never fills its log (`LogStaysInArray`).  `min_step = dt * 1e-8` is one tick.

### AmpsBCast and AmpsExchange

Ranks take their steps independently.  MPI is external and modelled from how
amps uses it: order is kept between a pair of ranks, `MPI_Send` returns either at
once or after the receipt, `MPI_Startall` with synchronous sends completes when
received, `MPI_Isend` may complete earlier by buffering.  In `AmpsExchange` MPI
reads owner cells and writes ghost cells at any time while requests are active.
Data are numbers: which broadcast, which update.  Messages in transit are
queues, `network[s][r]` and `queue[s][r]`, one for each sender and receiver.  The neighbour relation is
symmetric by construction (`Dests`); that the stencil code computes it that way, and
that both ends describe a message alike, is `MessagesFit` of `VectorUpdate`.

### VectorUpdate

The stages of a start-up and one update: `ReadProcessGrid` and `CreateGrid` (all ranks
compute the same, so they are one action), `CreateComputePkgs` (each rank for
itself), `NewVector`, `InitVectorUpdate`, `FinalizeVectorUpdate` (rank by rank, in any
order).  A vector's data is an array of positions, as in the code; each position
holds the cell it was filled from, or `Stale`.  So a message that is packed and
unpacked with different boxes, strides or order puts visibly wrong cells into the
array.  The derived grids of `solver_richards.c` (two-dimensional and face grids) and
all ten update modes are there, with the ghost layers the program gives the
vectors it uses them on.  The user's grid begins at index 0, the default:
another `UserGrid.IX`, `IY`, `IZ` translates every box alike.  Left out: refinement levels, the multi-level parts of
`UnionSubgridArray`, SAMRAI grids, shared vectors.  Decks give every process a
cell on every axis when a face grid is derived: otherwise the empty subgrid is grown into
a box its neighbour does not know of, and the rank waits for a message nobody
sends.  `NewVectorCommPkg` refuses more than one subgrid (`RefuseVector`).

### KinsolSolver

`stage` is the place in a solve.  Norms are abstract: a Newton step turns out to be
`small`, `tiny`, ... as the tests that read the norms may find it, and every
combination the tests allow is a step.  `at` remembers where the function was last
evaluated, `jac` and `pcAt` which pressure Jacobian and preconditioner belong to;
`cnt` are the counters in KINSol's memory, `iopt` the outputs, and `work` counts what
really was done.  Left out: the values of the forcing term, constraints, messages.
`MXNBCF`, `MaxLong`, `MaxTrials` and `MaxRetries` bound consecutive events; the proofs
hold for all values.

### InputDatabase

Entries are read one by one, then calls come in any order, then the database is
printed and freed.  Values are hundredths, so that `%f` and `%d` conversions are
rounding (`Written`, `ReadAs`).  `Text` is a string that is no number, `TooLong` one the
buffer cannot hold.  `HeightBalancedTree` has
sons, balances and height as in the code, and recursive functions for what walks down or
up a tree; `HBT_delete`, which the program never
calls, is checked from every tree that insertions build.

### IndicatorSolid

One rank, given the background's size, its subgrid and the field.  The passes of
`GrGeomOctreeFromInd` are actions (faces along z, y and x, fill, label), then come the
clustered boxes for the inside and for each face.  Tags of the neighbours'
cells enter the clustering through `VectorUpdateAll`; that the neighbours' own loops
find them is `LoopsMeetIndicator` and `SurfLoopMeetsBoundary` of their instances.  Nodes are addresses, a
tree is the sets of its branches, flags and faces; loops are the sets of cells they
meet.  Left out: solids from triangulated surfaces and their patches, refinement
levels, a background that does not begin at index 0.

## 3. Runs

`tlc -config X.cfg M` in this directory.  Deadlock checking is off everywhere:
the programs end.

| Run | Config | Shows |
|---|---|---|
| `time_loop` | `MCRichards` | 76 decks, every pattern of failures: all safety properties, and that the loop implements `SimulationClock` |
| `wrf_coupling` | `MCWrf` | ParFlow is at WRF's time at every return, unless the last solve failed, the iteration limit was met or the batch job ran out of time |
| `time_cycles` | `MCTimeCycle` | interval numbers and next transitions equal the reference definitions at whole base units |
| `nonlinear` | `MCKinsol` | two solves after each other, every outcome of every test: return codes, fluxes, matrices, limits and counters |
| `broadcast` | `MCBCast` | two broadcasts on six ranks: right data, and all end; `amps_FindPowers` is right for 1 to 2048 ranks |
| `ghost_exchange` | `MCExchange` | six statements on three ranks: implements `GhostUpdate`, and all end |
| `regions` | `MCVectorUpdate` | subgrids partition the grid, both ends of each message agree, ghost cells are current, overlapped computation is safe |
| `database` | `MCDatabase` | every deck of up to eight entries with seven keys, then calls in any order: the tree stays sound, a call is always answered alike, the printed database replays, and it implements `Dictionary` |
| `indicator_solid` | `MCIndicator` | about 7000 fields and subgrids: loops by octree and by boxes meet exactly what they should |

Runs that show a disagreement between the code and what a comment or the manual
says of it (details and quotations under "findings" in `PROJECT.json`):

| Run | Config | Counterexample |
|---|---|---|
| `subsurface_only` | `MCRichardsSubsurface` | `StartCount` -1: a step is begun with vectors that do not exist |
| `small_step` | `MCKinsolSmallStep` | a solve that gave up because its step was too small is taken for a converged one |
| `octree_top` | `MCIndicatorTall` | a lookup above the octree, and a null pointer followed |

Further configurations fail as well, each for a reason found in the code.  They are kept
to show the behaviour, and are not part of the list of runs:

| Config (module) | Property | Counterexample |
|---|---|---|
| `MCRichardsTransitions` (`MCRichards`) | `StepsEndAtTransitions` | `select_time_step.c:147` tries the boundary conditions' change only when the wells do not cut the step: a step cut for the wells passes it |
| `MCWrfFailure` (`MCWrf`) | `UnconvergedStateIsLast` | `AdvanceRichards` reports no failure: the call after a failed call starts from the unconverged state |
| `MCWrfLog` (`MCWrf`) | `LogWithinArray` | the log arrays have `max_iterations + 1` elements and the guard at `solver_richards.c:3823` lets one more entry through; under WRF every call takes a step |
| `MCTimeCycleLateStart` (`MCTimeCycle`) | `IntervalMatchesTimeline` | `time_cycle_data.c:173` compares the end of a counted cycle with the absolute time, so it is cut short when the run starts late |
| `MCTreeDelete` (`MCTreeDelete`) | `DeleteRebalances` | `HBT_delete` when the successor is not the right son: insert 1, 2, 4, 3, delete 2, and a null son is followed; nothing calls it |
| `MCKinsolMaxIter` (`MCKinsol`) | `NeverPastMaxIter` | without a preconditioner a tiny step returns 0 from `KINStop` before `mxiter` is looked at |

`UnconvergedStateIsLast` and `LogWithinArray` are the definitions that hold of
stand-alone runs (and are proved for them) and fail under WRF.

Several properties are stated with an exception, because the code behaves
differently there:

* `DumpsOnIntervalOrAtStop`: the dump flag is set before the step is cut at the
  stop time, so a dump due later may be written at the stop time.  Under WRF
  every call has a stop time, and such a dump takes the place of the one that
  was due.
* `NextTransitionIsFirstChange` leaves out the times of a change: there
  `TimeCycleDataComputeNextTransition` finds the change itself, at distance 0, and
  answers -1, or at the end of a cycle the end of the next one, so the step that
  begins at a change is not cut at the following change.
* The time cycle properties speak of whole base units: inside a unit the code uses
  the interval of the unit before.

* `AcceptedForAReason` admits the tiny step that `SuccessMeansConverged` excludes.
* `FluxesOfReturnedPressure` exempts solves broken off by the linear solver or by the
  beta condition, which leave fluxes of another pressure; the time loop retries
  those.  `OutputsOfThisSolve` exempts solves that accept the initial guess (the
  outputs of the solve before are added to the totals once more) and backtracks (only
  those of the last line search are kept).
* `SumsCoverRun`: when `max_failures` attempts have failed the run goes on to the end of the
  step with the unconverged state, and adds that attempt's `dt` to the sums like that of a
  converged step (`KeptFailure`).  Attempts that are retried are never added.
* `OneAnswerPerCall` and `UsageReplays` compare answers with `SameAnswer`, which allows for one
  thing only: a double default is returned as it is by the call that stores it, and
  is what `%f` wrote of it from then on.  Defaults with more than six decimals, such as 1e-7
  (`kinsol_nonlin_solver.c:529`) and 1e-8 (`solver_richards.c:5178`), are stored as
  0.000000, so that the printed deck, read again, sets those tolerances to 0.  The run has
  such a default.  No module asks twice for one of these keys; a second call would get 0.
* `OverlapIsSafe` is about the flow grid and the two-dimensional grid: on the face
  grids, whose subgrids overlap, the independent region is too large; the
  program computes no overlapped kernel there.
* `DeleteKeepsTheOthers` leaves out the case of `MCTreeDelete`.
* `BoxesReplaceOctree` speaks of the subgrid and of one layer behind its faces: tags of
  edges and corners, and of further layers, are not fetched, so that a loop by boxes over
  more ghost layers meets fewer cells than one by the octree.

Other things the models brought to light: the depth-`level` entries of the empty and full
flags are never initialised in `GrGeomOctreeSetBranchNodeFlags`, so the first branch
above single cells gets neither (harmless, loops go one level deeper);
`GrGeomOctreeAddCell` wraps indices around the tree (the marks it so sets lie outside
the rank's subgrid); the exchange sort of `SplitTagBoundBox` is not stable; with a user grid
that begins at a negative index (`UserGrid.IX`), C's rounding of the middle makes a
two-cell box its own left half, and the clustering would not end; the automatic process
topology divides by zero when there are fewer cells than processes
(`distribute_usergrid.c:124`); `HBT_replace` would never leave its loop, and
`HBT_scanf` cannot read the header that `HBT_printf` writes (nothing calls either); above 32768
ranks `amps_FindPowers` returns numbers that are no powers of two, since
`AMPS_HIGHEST_LONG` is none; a negative `MaxIter` lets `KINSolInit` free its memory and
`KINSol` go on with it.

### Bounds and why they are enough

* *Decks.*  20 ticks, steps of 5, 8 or growing from 3 to 9, dump intervals 7 and 8
  (not a divisor of, equal to the step, and off by `TimeEpsilon` = 1 from sums of
  steps) or every second step or none.  All cuts of a step, alone and in
  combination, occur; up to three failures per step give every pattern of
  retries, down to the smallest step.  `max_iterations` 3 ends runs by count, 12
  by time.
* *WRF.*  Four calls of 10 ticks: a failing call, the call after it, and two more
  for the counters to drift; one deck with a batch limit.
* *Time cycles.*  Two ticks per base unit, so halves occur; five layouts of one to
  three intervals, endless and counted, followed over several cycles.
* *Broadcast.*  Six ranks is the smallest number with a tree of depth two and two
  nodes beyond the power of two; two broadcasts with different sources let
  messages of both be under way at once.
* *Exchange.*  Three ranks in a row let the ends be apart by more than neighbours
  are; the program updates a vector twice in a row, changes vectors, and frees
  and recreates one.
* *Powers.*  Above 2048 the loop behaves alike until 32768, where the other bound
  wins.
* *Nonlinear solver.*  Two solves, since what one leaves behind is met by the next;
  `MXNBCF` 1, one or two Krylov vectors with and without a restart, one to three
  iterations, both strategies, with and without Jacobian and preconditioner.
* *Regions.*  Two to eight ranks, axes that do not divide evenly, subgrids thinner than the
  stencil is deep, so that messages skip over a neighbour, processes without cells,
  topologies given, wrong, or left to the program, and irregular boxes.
* *Database.*  Seven keys suffice for every rotation of an insertion on both sides
  (a double rotation needs five); eight entries leave one for a key given twice.  Calls cover
  every type, present, absent, malformed and with two defaults.
* *Solids.*  Every field of four backgrounds of up to 12 cells, whole and cut between ranks
  along each axis; for nodes above single cells, 45 solids with holes and notches in
  6 x 6 x 7 cells; and a background exactly as high as its octree.

### Fairness

Safety only for the time loop and the couplings: a nonlinear solve may take as
long as it likes.  The two message passing modules assume weak fairness of every
rank (an MPI process that can go on does) and of every transfer both of whose
sides are posted (MPI's progress rule).  `MPI_Isend` buffering is never required
to happen.

## 4. Proofs

### The time loop

`tlapm RichardsTimeLoop_proofs.tla`.  For every set of decks that satisfies
`ProblemsAssumption`, and every `BaseTimeUnit` and `TimeEpsilon` that satisfy
`TimeCycleAssumption`:

| Theorem | Says |
|---|---|
| `TypeCorrect` | `TypeOK` |
| `StopTimeRespected` | `NeverPastStop` |
| `StepsFromConvergedStates` | `SolveFromConvergedState` and `UnconvergedStateIsLast` |
| `UnconvergedEndsTheRun` | `UnconvergedStateIsLast` alone |
| `LandSurfacePace` | `LsmNotOverstepped` |
| `DumpSchedule` | `NoDumpMissed` and `DumpsOnIntervalOrAtStop` |
| `DumpsBelongToTheSchedule` | `DumpsOnIntervalOrAtStop` alone |
| `WaterBalanceCoversRun` | `SumsCoverRun` |
| `RetriesAreShorter` | the action property `RetriesShrink` |
| `LogStaysInArray` | `LogWithinArray`, if every `max_iterations` is positive |
| `EveryEndHasAReason` | `EndsForAReason` |
| `ForcingKeepsStep` | `ForcingInStep` |
| `OutputAndLogAgree` | `FilesAndLogAgree` |
| `ImplementsSimulationClock` | the loop refines `SimulationClock` |

The assumptions are those the code relies on: times and counts are natural
numbers, steps are positive, and a positive dump interval exceeds
`TIME_EPSILON` (otherwise two dumps fall into one tolerance).

None of the properties is inductive by itself.  The invariant `IInv` adds, for
each place in the program, what the code has established there:

* `ClockInv`: at the solver `dt` is positive, `t - dt` is the time of the old
  vectors and `t` is at most `stop`; at the top of the loop the current vectors
  are converged, belong to `t`, and `t` is before `stop`.  The places between
  carry the facts over: a retry has old vectors and a failed attempt; a step to
  be finished has either converged, or failed `max_failures` times and cleared
  `take_more_time_steps`.
* `LsmInv`: `t <= ct`, and `t < ct` once the step has begun, since `cdt > 0`.
  That is why `SelectTimeStep` must be shown positive, which rests on the lemma
  that `ComputeNextTransition` is -1 or more than `TimeEpsilon`.
* `DumpInv`: the next dump lies ahead of the start of the step; if the flag is
  set, the step ends within `TimeEpsilon` of the dump or at the stop time;
  if it is not, the step ends before the dump.  With the flag set the next dump
  is a whole interval later, and here the interval must exceed `TimeEpsilon`.
* `CallInv` (the one call is the one `SolverRichards` makes) and `SumsInv` (the
  sums against the last converged state and the failed attempt that may be kept).

One lemma per part shows that every action preserves it (`ClockStep`, `LsmStep`,
`DumpStep`, ...), the lemmas `TakeStep...` do the arithmetic of the cuts once for
first attempts and retries, and `Invariance` puts them together.  `LogInv`, used
for the log theorem, ties the length of the log to `iteration_number`.  `IInv` was
model-checked before it was proved.

Three invariants stand beside `IInv`.  `EndInv` follows the reasons to stop through
the loop: `take_more_time_steps` is cleared only where one of them holds, and the
number of failures at each place is below the limit that ends the retries.
`ForcingInv` counts the turns of the land surface model, records used up times
`clm_reuse` plus uses of the present one, and says that `ct` is as many of its
steps from the start.  `FilesInv` says that every file written so far has a number
below `file_number`, until the output at the end, which takes that number without
counting it.

### The coupling

`tlapm WrfParflow_proofs.tla`: `ParflowKeepsWrfTime`, `InStepWithWrf` for every deck,
any number of calls and any step of WRF.  Little of `IInv` survives WRF, which calls again
after a failure; `WrfInv` keeps what does: `TypeOK`, `EndInv` (lemma `EndStep` holds
whoever the caller is), `CallClock` (within a call `t` is at most `stop`, and a finished
step's vectors belong to `t`) and `CallGrid` (`stop` is a whole number of WRF's steps from
the start).

### Time cycles

`tlapm TimeCycle_proofs.tla`.  For every set of runs that satisfies the assumptions of
`TimeCycleClock`, of any number of intervals of any lengths:

| Theorem | Says | If |
|---|---|---|
| `IntervalsFollowTimeline` | `IntervalMatchesTimeline` | each cycle is endless, or the run starts at 0 |
| `TransitionsFollowTimeline` | `NextTransitionIsFirstChange` | each cycle is endless, or repeats at least once in a run that starts at 0; `TimeEpsilon` is below a base unit |

The first hypothesis is the finding of `MCTimeCycleLateStart`: a counted cycle counts from
time 0.  The clock itself needs little of an invariant (`ClockInv`: the run is one of
`Runs`, the time is not before its start).  The work is arithmetic: the ends of the
intervals ascend to the cycle's length (`EndsAscend`), so a unit has one interval and the
number of ends passed is its number (`UnitHasInterval`, `IntervalIsUnique`,
`IntervalsBefore`); remainders by the cycle's length (`DivisionIs`, `UnitOfCycle`) carry that
over to the run; the interval changes at the ends and nowhere between (`ChangeAtEnd`,
`NoChangeInside`), and the least of the candidates the code collects is the first change
ahead (`BetweenChanges`, `FutureChangeIs`).

### The nonlinear solver

`tlapm KinsolSolver_proofs.tla`.  For every set of decks and all bounds that satisfy
`KinsolAssumption` (iteration limits and Krylov dimensions are positive, counts natural
numbers):

| Theorem | Says |
|---|---|
| `KinsolTypes` | `TypeOK` |
| `AcceptedSolves` | `AcceptedForAReason` |
| `FluxesBelong` | `FluxesOfReturnedPressure` |
| `MatricesCurrent` | `LinearSystemCurrent` |
| `IterationLimit` | `MaxIterWithPC` |
| `ReportedWork` | `OutputsOfThisSolve` |

The inductive invariant `IndInv` adds to the types: `Iterations` (since ParFlow asks
for a set-up after every iteration, `MSBPRE` = 1, a preconditioner is current
wherever a step is computed, so a tiny step ends the solve instead of being retried, and
an iteration begins below the limit), `Matrices` (the flag raised for every linear
system is still up or the Jacobian is that of `uu`; it is that of `uu` from the first
product on), `Evaluated` (every global strategy ends with an evaluation at its
result), `Counted` (the counters in the memory equal the work done since the solve
began) and `Ends` (the three properties of a finished solve, which the next one must not
disturb before it begins).
One lemma per part and a case per action, as for the time loop.  `TypeOK` also bounds the
failures of the beta condition (`BetaFailuresBounded`): a search adds at most one, and KINSol
goes on only while there are no more than `MXNBCF` (`BetaStep`).

### The broadcast

`tlapm AmpsBCast_proofs.tla`: `EveryoneGetsItsBroadcast`, `EachGetsItsBroadcast` for every
number of ranks up to 32768, above which `amps_FindPowers` returns no powers of two, and every
sequence of sources.

Messages carry no tag, so the property needs the whole picture.  `Edge(k, s, r)` is the tree of
broadcast `k` as the nodes' numbers define it, `Sent` and `Got` say how far a rank has
come in it.  `IInv` says: where a rank is in the tree (`PlaceInv`: a node that waits is
inside the block from `start` on, one that has the data sends across distances
smaller than the one it got them across); the invoice of a rank that has the data is
that of its broadcast (`InvoiceInv`); the queue from `s` to `r` lists exactly the
broadcasts in which `s` has sent to `r` and `r` has not received, in order
(`ChannelInv`); nothing is received before it is sent (`CausalInv`).  Then the first
message a waiting rank finds is that of its own broadcast (`FirstMessage`).  The lemmas
below it are about powers of two: the tree's size (`TreeSize`, which proves
`amps_FindPowers` right), exclusive or as an addition (`XorIs`), one parent for each node
(`OneParent`, `EdgeUnique`).  Three lemmas move the queues (`QuietStep`, `SendStep`,
`RecvStep`), and one per action does the rest.  `IInv` was model-checked on six ranks.

### The ghost exchange

`tlapm AmpsExchange_proofs.tla`, for any number of ranks, any neighbourhood and any
program of updates and releases: `AtMostOneMessage` (`OneMessagePerNeighbour`) and
`ExchangeImplementsGhostUpdate` (the refinement of `GhostUpdate`, initial states and steps).
`IInv`: `ProgramInv` (updates finished are those passed in the program), `RequestInv` (requests
are open only within an update, owner cells and received ghost cells belong to it),
`QueueInv` (a queue is as long as what was posted and not received, its values are
the numbers of those updates in order, and only the last message, whose send is
still open, may not have been read) and `StrayInv`.

### Grids and regions

`tlapm VectorUpdate_proofs.tla`, for every grid and number of processes:

| Theorem | Says | If |
|---|---|---|
| `SubgridsDivideGrid` | `SubgridsPartition` | |
| `EndsOfMessagesAgree` | `MessagesFit` | every deck satisfies `FittingDeck` |
| `OverlappedComputationIsSafe` | `OverlapIsSafe` | every deck satisfies `FittingDeck` |
| `UpdatedGhostsAreCurrent` | `GhostsCurrent` | every deck satisfies `GhostDeck` |

`FittingDeck` asks that a face grid made from a topology has at least as many cells as
processes on each axis, and that subgrids given one by one are boxes of which no two
derived ones share some but not all of their cells.  `GhostDeck` asks in addition that the
vector has as many ghost layers as the stencil of its mode is deep, and that subgrids given
one by one are on ranks of the run.  All decks of `MCVectorUpdate` satisfy both; a
deck that does not satisfy the first gives a rank that waits for a message nobody sends (see
the hazards), and one that does not satisfy the second has ghost cells outside its array.

`GridInv` is the partition itself, kept since subgrids are made once.  It rests on `pqr_to_xyz`:
the blocks of an axis follow each other without gaps (`BlocksInRow`, `BlocksDivideAxis`),
processes and their places in the topology correspond (`ProcessHasPlace`,
`ProcessesDiffer`), and the topology the program chooses has as many places as there are
processes (`TopologiesAreGrids`).

`FitInv` says that any two subgrids are the same, are apart, or share a face
(`Related`, by `DerivedRelated` for the face grids, which overlap in one layer), and the same
or apart on the flow grid and the flat grid (`DerivedApart`).
What the code computes with boxes is what it should be on cells (`IntersectionIs`, `CutIs`,
`SubtractionIs`).  Reaching is symmetric (`ReachBothWays`, `StencilsAreSymmetric`), so the
list of neighbours of one end has the other in it and the boxes a rank takes from its
neighbour's point of view are those the neighbour takes from its own (`RegionsAgree`).

For the overlapped computation the union of boxes is shown to be right: the blocks between
the bounds are disjoint and cover what the boxes cover (`BlocksTidy`), joining rows along an
axis keeps both (`JoinIs`, from `EndExists`, `EndTiles`, `HeadsCover` and `HeadsApart` on
intervals of a line), and the order is a list of all of them (`InOrderIs`, `UnionIs`).  The
repeated subtraction leaves the cells outside all dependent boxes (`SubtractFromIs`), and the
points of one colour are found in every box (`EvenLine`, `ProjectIs`, `ColoursAre`).  A cell
that reads a received one is a cell its owner needs, as the stencil is symmetric, so it is sent
and not in the independent region (`RegionsAreSafe`, `PackageIsSafe`).

For the ghost cells the array positions are numbers of three digits (`ThreeDigits`), so a cell
of the data space has one position (`PlaceIs`, `CellAtIs`).  The loops of an invoice, with those
of length 1 dropped and the strides amps takes, visit the cells of the box in order
(`WalkVisits`, `LoopsLeft`, `LoopsVisit`, `WalkIs`), and the invoices that two ranks make of
equal lists of boxes visit the same list of cells, each in its own array (`WalkAllIs`).  A
package receives exactly the cells its stencil reaches (`PackageIsRight`).  `GhostInv` has a
part for each stage: `Preparing`, `Planned` (every rank has the package of its subgrid) and
`Updating` (what is on its way was packed from the values before the update, whichever
ranks have finished since; arrays are fresh or current).  Then every value comes to its
cell (`LetterArrives`, `NeededDelivered`), and no other position is written
(`UnpackedIsCurrent`).

### The input database

`tlapm InputDatabase_proofs.tla`, for every set of keys, of values a deck may hold and of calls:

| Theorem | Says |
|---|---|
| `DatabaseTreeInOrder` | `TreeInOrder` |
| `CallsGetOneAnswer` | `OneAnswerPerCall` |
| `WrittenDeckReplays` | `UsageReplays` |
| `DatabaseImplementsDictionary` | `ImplementsDictionary` |

`DatabaseAssumption` says of defaults only what their C types do: those of `GetIntDefault` are
whole, only those of `GetStringDefault` may be no number.

`DbInv` says that the database is a tree: there are functions that give the height of each
subtree, the range of keys a search may be for when it arrives at an element, and the
father, and they fit sons, balances, height and count (`Ranked`, `Ordered`, `Fathered`,
`Counted`).  A walk down is the elements whose range has the key (`DescendIs`, `WayHasAll`).
Insertion hangs the new leaf (`HungKeepsShape`), the balances below the last unbalanced
element on the way turn towards it, and there one subtree is a level too high (`HungIsRaised`);
the four cases of `Rebalanced` make it right (`RootGrows`, `SidesLevel`,
`SingleRotationBalances`, `DoubleRotationBalances`), so `InsertIs`: a tree again, with the new
key and all others unchanged.  Printing, lookup and successor follow from the ranges
(`PrintsInOrder`, `LookupIs`, `SuccessorIs`).  `UseInv` adds what an answer says about the entry:
it was read from the entry's value, or is the default the entry was written from
(`DefaultReadBack`), and the entry is marked.

### Only model-checked

* `AllBroadcastsEnd` and `AllUpdatesEnd`: liveness is out of the proof system's reach.
* `DeleteKeepsTheOthers`: the loop of `HBT_delete` runs on a tree that still holds the removed
  element and whose heights are wrong until the loop is done, and does not always leave
  right balances, so that the invariant of the insertion proofs does not carry it.
* `LoopsMeetIndicator`, `SurfLoopMeetsBoundary` and `BoxesReplaceOctree`: `Octree` and
  `BoxClustering` use recursive operators, in whose presence the proof system has no
  arithmetic, and their results take induction over trees of eight sons.

## 5. Not modelled

Some 95% of the source is not: it has little control that a model checker could tell right
from wrong.

* Numerical kernels (`nl_function_eval.c`, `richards_jacobian_eval.c`, the overland flow
  and advection routines), soil physics, linear solvers and preconditioners,
  geostatistics, lattice Boltzmann: floating-point formulas over cells.
* CLM's and OASIS's own code, SAMRAI, HYPRE, SILO, NetCDF: external, or physics per column.
  When CLM gets its turn and which forcing record is in the time loop.
* pftools (an eighth of the source) and pf-keys: separate pre- and post-processing
  tools.  File formats and metadata: pure output; when and under which number files
  are written is modelled.
* Reading of parameters in the `...NewPublicXtra` functions of every module, `PFModule`'s
  macros, allocation and release.
* The GPU and shared-memory builds of amps; its file access, which is `amps_BCast` of
  what rank 0 reads.
* Solids from triangulated surfaces and their patches, whose boxes are computed like
  those of the surface; refinement levels.
* `solver_impes.c`: its time loop has rules of its own for steps, dumps and the log, and
  is the one larger piece of control left.

## 6. Plan

Done: time loop, time step selection, time cycles, WRF coupling, broadcast, ghost
exchange, regions and grids, input database, nonlinear solver, indicator solids with their
boxes; theorems about the time loop, the nonlinear solver, the coupling, time cycles,
broadcast, ghost exchange, regions and updates, and the input database.  Next:

1. Proofs: `HBT_delete` on the shape of the tree alone; the octree's passes, written with
   recursive functions.
2. The nonlinear solver as an implementation of the outcomes `SolveConverges` and
   `SolveFails` of the time loop.
3. The time loop of `solver_impes.c`.
4. Patches and refinement levels of solids.
