# TLA+ models of SLATE's scheduling, refinement, target and sort code

This directory holds TLA+ specifications of the concurrent and distributed
control code of this repository. TLC model-checks them. Each module is
translated from the C++ under `src/`. `PROJECT.json` maps every definition to
the source lines it models, and lists the runs, mutants, findings and hazards.

## The system and its parts

| Part | Source | What it does | Concurrency |
|---|---|---|---|
| Lookahead Scheduler | `src/src/hemmC.cc` | Drives the stage sweep of the Hermitian multiply C = αAB + βC. For each stage k it issues a broadcast task (A(:,k), B(k,:)) and a multiply task. | OpenMP tasks ordered only by `depend` clauses on `bcast[k]` / `gemm[k]`; a thread pool; `taskwait`. |
| Refinement Controller | `src/src/posvMixed.cc` | Low-precision Cholesky solve, then up to 30 refinement steps, then a high-precision fallback. | Sequential control; each step is a distributed routine. |
| Target Execution Strategies | `src/slate_Matrix_syrk.cc` | Four implementations of the tile update of `syrk` (HostTask, HostNest, HostBatch, Devices). | OpenMP tasks and parallel-for; per-device tasks with device copies and eviction. |
| Distributed eigenvector sort | `src/src/stedc_sort.cc` | Sorts the eigenvalues D and permutes the columns of Q to Qout across a row of processes. | MPI processes; blocking `MPI_Send` / `MPI_Recv`. |
| Distributed Matrix, Tile, Broadcast Engine | declared in `src/include/slate/slate.hh` | Tile maps, residency, life counters, `listBcastMT`. | Their code is not in this repository; abstracted inside the modules above. |
| LAPACK shim, tester, unit tests | `src/lapack_api`, `src/test`, `src/unit_test` | Argument conversion and test drivers. | None; not modelled. |

How the parts interact:
- An algorithm (hemmC) runs the Lookahead Scheduler.
- The scheduler calls the Broadcast Engine to replicate tiles and a target strategy to compute.
- posvMixed calls such algorithms for each factorize, solve and residual step.
- stedc_sort is a step of the divide-and-conquer eigensolver. It uses only MPI.

## Modules

### `HemmC.tla` (Lookahead Scheduler) and `MCHemmC.tla`

**Program.** `Program` is the sequence of tasks the master creates, in the code's order:
- `bcast[0]`;
- the prelude broadcasts `bcast[1..lookahead]` (loop at line 109);
- `gemm[0]`;
- then, for each k ≥ 1, `bcast[k+lookahead]` (if it is below nt) and `gemm[k]`.

Each task carries the `in` and `out` items of its depend clauses. `DependsOn` is the OpenMP rule: a task depends on an earlier sibling task only through those items.

**Broadcast lists and reads.** Each branch's broadcast list of A is modelled from its loops (`LowerBcastListA`, `UpperBcastListA`), and so is the list of B (`BcastListB`). Each list entry pairs a tile with the block row or column of C it is sent for. The multiply of each stage is modelled separately from its `gemm`/`hemm` calls: the tiles of A it reads and the block row of C each one updates (`LowerGemmReadsA`, `UpperGemmReadsA`).

Tiles are owned by the ranks of a P×Q block-cyclic grid (`Owner`, from spec §3). `listBcastMT` delivers each listed tile to every rank that owns a tile of its destination (`Delivered`). `internal::gemm` on a rank reads the tiles for the C tiles that rank owns (`RankReads`). These three come from the spec, because their code is not in the repository.

For Side = Right the code swaps A, B and C for their conjugate-transposed views (lines 55-61). A Lower A then runs through the Upper branch (`ViewUplo`), and tile (i, j) of a view lives on the rank of tile (j, i) (`ViewOwner`).

**State.**
- `created`: how far the master has got.
- `status`: the status of each task.
- `replica`: triples ⟨matrix, tile, rank⟩, one for each replica delivered so far.
- `cLog`: the order in which multiplies wrote C.
- `originValid`: whether C's host copy is current.
- `deviceWs`: the Devices batch arrays and workspace.

**Actions.**
- `Setup` (lines 55-80).
- `CreateTask` (master).
- `StartTask` / `FinishTask` (a thread runs a ready task). At most `NThreads` run at once, and the master counts as a thread only once it reaches `taskwait`.
- `Taskwait`, `TileUpdateAllOrigin`, `ReleaseWorkspace` (lines 362-366).

The Lower and Upper branches create the same task graph, so the graph is modelled once; only their tile lists differ.

**Refinement.** `LookaheadPipeline.tla` is the abstract contract from the header comment (lines 20-23): broadcasts are serialized, multiplies are serialized, and broadcasts run at most `lookahead` stages ahead. `HemmC` maps each stage's tasks to an abstract status (idle, active, done) and checks `Pipeline!Spec` as a PROPERTY.

### `PosvMixed.tla` and `MCPosvMixed.tla`

**Abstraction.** Numbers are reduced to what the two stopping tests tell apart. The code's test (line 25) compares the residual column with ‖x‖·cte, where cte = ‖A‖∞·ε·√n. Spec §4.5 compares it with cte alone. Each residual column is therefore "small" (below both), "xsmall" (only within ‖x‖·cte), "asmall" (only below cte), "large" or "nan". The low-precision `potrf` may fail, and after a failure the solution may be garbage or NaN. The high-precision `potrf` of the fallback may also fail (`hiFailed`), with the same effect on X.

**Actions.**
- `Start`: workspace, and device holds for Devices.
- `LowPrecisionSolve`: lines 172-209, including the first test.
- `Refine`: one pass of the loop at line 212.
- `EndRefinement`: the loop exit and the fallback at lines 245-258. `Fallback` is `potrf(A)`, `X = B`, `potrs(A, X)`.
- `Release`: lines 260-265.

### `Syrk.tla` and `MCSyrk.tla`

**Tile values.** A tile's value records how often β scaled the original tile, how often each term A(m,k)A(n,k)^T was added, which terms were scaled by β after being added, and the coefficient used. A host task's tile update is two steps, `ReadTile` then `WriteTile`, so unsynchronized updates can be lost.

**Per target.**
- HostTask creates one update per (m,n,k).
- HostNest and HostBatch create one update per (m,n), with k = 0.
- Devices adds a task per device: `StageDevice` (move C tiles, copy A tiles) and `ComputeDevice` (batched gemm). Then come the calls of the eviction loop (lines 230-238), in the loop's order (`EvictOps`): `a(m,0)->tick()`, `a(n,0)->tick()`, `tileErase(m,0,device)`, `tileErase(n,0,device)`. Last comes `EndDeviceTask`.
- `tick()` decrements the life counter of the host tile. `Tile` is not in this repository, so it is modelled from the spec as a read (`TickRead`) then a write (`TickWrite`). `life` starts at the number of device consumers of each A tile (`Uses`).
- The diagonal tiles are host tasks on every target.

### `StedcSort.tla` and `MCStedcSort.tla`

**Scope.** One process row with `NPCOL` processes. The eigenvalues on entry, `D0`, are any permutation of distinct values.

**Actions per process.**
- `Sort`: sort and `isort_inv`.
- `BeginSend`: the owner of tile j counts, copies its own columns to Qout, packs the rest into `work` and resets `poffset`.
- `BeginOther`: the other processes count, then either wait to receive or move on.
- `Send`, `SendReturn`, `EndSend`: the loop of blocking sends.
- `Recv`: receive and unpack.

**Channels.** Channels are FIFO per ordered pair: MPI does not let messages overtake each other on one communicator with one tag. A standard-mode `MPI_Send` may either buffer its message and return at once, or return only once the receive has taken it (rendezvous). The MPI library chooses per message, by size and by its internal state. `Send` therefore chooses per message: pc "sendbuf" or "sendwait". A correct exchange must work under every mix of the two.

## Runs

| Run | What it shows |
|---|---|
| `hemmc_pipeline` | Checked over every interleaving of the task graph, with the Lower branch, NT=5, B with 2 tile columns, a 2×2 process grid, lookahead 2, 3 threads and Devices. On every rank, every tile a multiply reads is local or has been delivered by a completed broadcast list (`GemmReadsBroadcast`). C is updated by one multiply at a time, in stage order (`CUpdatesSerialInOrder`). At most lookahead+1 stages are broadcast and not yet multiplied (`BcastWindow`). On return, all stages were applied, C's origin is current and the workspace is released (`ResultDelivered`). The task graph implements the abstract pipeline (`PipelineRefinement`). |
| `hemmc_serial` | Side = Right with a Lower A, which runs the Upper branch on transposed views. Lookahead 0 (spec §4.3: serialized), 5 stages, 3 threads, 2×3 grid. No two tasks ever run at once (`SerializedSweep`). Every tile a multiply reads on a rank is local or replicated there (`GemmReadsBroadcast`). |
| `hemmc_neg_lookahead` (violation) | Lookahead = -1 is passed through. The multiply of a stage then has no dependence on that stage's broadcast and runs before it. Stages 1..nt-2 are broadcast late, and stage nt-1 is never broadcast. |
| `posvmixed_contract` | Checked over every sequence of test outcomes for 30 steps and 2 right-hand sides. The `iter` output and the state of A match the documentation (`IterContract`). Once the stopping test has passed, no later step changes X, its residual, `iter` or A (`ConvergedSolutionKept`, an action property). |
| `posvmixed_lowfail` (violation) | After a failed low-precision factorization with a NaN solution, posvMixed reports convergence at iter 0. |
| `posvmixed_criterion` (violation) | A finite solution with ‖x‖ > 1 is reported converged at iter 0 although its residual is not below ‖A‖∞·ε·√n (`SpecStoppingCriterion`). |
| `posvmixed_fallback_fail` (violation) | After 30 steps without convergence, the fallback's high-precision `potrf` fails. posvMixed still returns iter = -31, with X solved from a partial factor, and reports no failure (`FallbackFailurePropagated`). |
| `syrk_devices` | With Devices on 2 devices and 4×4 tiles: every lower tile ends as βC + αΣ A A^T whatever the interleaving (`SyrkResult`), and no A copy is left on a device (`DeviceCopiesEvicted`). This holds although tiles shared by several pairs of a device are erased repeatedly. |
| `syrk_hosttask_race` (violation) | With a.nt = 2, the k = 0 and k = 1 gemm tasks of C(2,1) both read the tile. The later write loses the k = 0 update, with its β scaling (`OffDiagonalResult`, the off-diagonal half of `SyrkResult`). |
| `syrk_diagonal` (violation) | With α ≠ -1 and a.nt = 2, every diagonal tile ends with coefficient -1.0 and with only the k = 0 term (`DiagonalResult`, the diagonal half of `SyrkResult`). |
| `syrk_tick_race` (violation) | Device 1 (tile (1,0)) and device 0 (tile (2,1)) both tick A(1,0). One decrement is lost, and A(1,0)'s life counter stays at 1 when syrk returns (`LifeTicksCounted`). |
| `stedc_sort` | Checked with 3 process columns, 3 tiles of 2 columns and all 720 inputs. Each send is buffered or rendezvous (652,920 states, about 2 minutes). No process blocks forever (`Termination`). Qout holds the eigenvectors in sorted eigenvalue order (`EigenpairsSorted`). This checks the packing order of a message of two columns. At these bounds no channel ever holds two messages (see Bounds). No message is left unreceived (`ChannelsDrained`). |

Every property of a passing run has a mutant in `PROJECT.json`: a plausible bug in the mapped code, such as a dropped depend item, an off-by-one, a missing reset or a reversed order. TLC finds each mutant.

## Findings

1. **hemmC, Lookahead not clamped.** `Option::Lookahead` is not clamped (`hemmC.cc:383`), although spec §4.3 and §6 require it to be. A negative value breaks the dependence of the multiply on its broadcast.
2. **posvMixed, NaN reported as convergence.** posvMixed ignores the status of `potrf(A_lo)` (line 185). Its stopping test `R > X*cte` (line 25) passes for NaN. A NaN solution is therefore returned as converged.
3. **syrk HostTask, data race.** The HostTask target has no dependences between the k-updates of one C tile (lines 35-41). That is a data race when A has more than one tile column: two tasks read the tile, and the later write loses the other's update.
4. **syrk, α ignored on the diagonal.** All syrk targets update the diagonal with α = -1.0.
5. **syrk Devices, unordered `tick()`.** The device tasks tick host tiles they share (line 234) with no depend clause or lock between them. Spec §5 allows a tile only one writer at a time, ordered by dependency tokens. Unless `Tile::tick` is atomic, a decrement is lost. The tile then never reaches life 0, which contradicts the eviction property of spec §7. Spec line 94 asks for explicit atomic counters. The code here gives no such guarantee.
6. **posvMixed, stopping criterion.** `iterRefConverged` (line 25) scales the threshold by ‖x_i‖, like LAPACK's `dsposv`. Spec §4.5 states an absolute threshold ‖A‖∞·ε·√n. For ‖x_i‖ > 1 the code accepts residuals the spec rejects.
7. **posvMixed, fallback failure dropped.** The fallback's `potrf(A)` and `potrs` (lines 253-257) run without a status check, and posvMixed returns void (line 267). If the high-precision factorization fails, the caller gets the fallback sentinel and a solution of a partial factor. Spec §7 says a `FactorizationFailure` is propagated in that case.
8. **syrk, diagonal misses k ≥ 1.** The diagonal update `c(n,n)->syrk(..., a(n,0), beta)` (lines 33, 61, 93, 245) uses only the first tile column of A. For a.nt > 1 the diagonal lacks the terms A(n,k)A(n,k)^T for k ≥ 1. The `syrk_diagonal` trace shows this together with finding 4.

## Bounds and why they suffice

- **HemmC.** Five stages with lookahead 2 exercise every part of the program: the prelude, sweep iterations with and without a new broadcast, and the window reaching its limit. Three threads let two tasks run while the master is still creating tasks.
- **PosvMixed.** Uses the code's real itermax of 30. Two right-hand sides let one column pass the test while another fails.
- **HemmC grids.** A 2×2 grid with two tile columns of B gives every tile ranks that do not own it. The Right-side run uses a 2×3 grid, where transposing a tile's index moves it to another rank.
- **HemmC.** Lookahead 0 is checked with the same five stages and three threads, so threads are free to run tasks in parallel if the graph allows it.
- **Syrk.** The violation runs use a 3×3 tile grid. It has a column with two off-diagonal tiles that share A(n,0) on one device. Its two devices share A(0,0) and A(1,0), which makes the concurrent `tick()` possible. The Devices run uses 4×4 tiles (108,389 states). There, device 1 holds four pairs, so one device task erases the same copy up to three times.
- **StedcSort.** Three processes and three tiles let a sender serve two receivers while a third process waits on another sender. Two columns per tile allow a tile to split. At these bounds no channel ever holds two messages. A receiver that lags behind its sender is owed all of its own slots, and a third process would then need more columns than it owns. A trial invariant `Len(chan[p][q]) <= 1` passes here and with 2 processes and 3 tiles of 2. It fails first with one column per tile: 2 processes and 5 tiles, or 3 processes and 5 tiles. Those instances pass `TypeOK`, `ChannelsDrained`, `EigenpairsSorted` and `Termination` (24,864 and 294,216 states). They are not registered runs, because with one column per message the packing order that the 3×3×2 run checks plays no part.

## Fairness

- **HemmC.** Weak fairness on each master step and on each task's start and finish. The OpenMP runtime runs ready tasks on idle threads, and a started task runs to its end.
- **StedcSort.** Weak fairness of `Next`, under which `Termination` is checked. Each process keeps executing its own code, and MPI delivers messages that have been sent. Here termination is a real question, because sends and receives block.
- **PosvMixed, Syrk.** Their specifications carry weak fairness of `Next`, but no liveness property is checked. Neither model has a blocking step: the refinement loop is bounded by itermax, and the syrk tasks form a finite graph with no waits. Termination would hold by construction. For the same reason HemmC checks no `Termination` of its own. OpenMP dependences only point to earlier tasks, so the graph drains. The liveness in HemmC is the fairness part of `PipelineRefinement`.

## Not modelled

- **Broadcast Engine internals.** `listBcastMT` is modelled from the spec, as one delivery step per list. The tree topology, tags and buffers are not modelled, and neither are the life counters of received tiles.
- **Tile life counters beyond syrk.** `tick()` is modelled inside Syrk from the spec. The tile map's own concurrency (`tileCopyToDevice` inserting into one map from several device tasks) is not in the repository and is taken as atomic.
- **Pointer-array capacity.** The capacity on devices is not in the repository.
- **Other process rows in stedc_sort.** They run the same exchange independently.
- **Ties among eigenvalues.** `std::sort` may order equal values either way. Any consistent order gives a valid result.
- **`lapack_trcon`, the tester and the unit tests.** They hold no concurrent state of their own. `lapack_trcon`'s one hazard is listed in `PROJECT.json` without a property: a check-then-init of MPI (lines 88-90) that two caller threads can race on. That race lies between the application's threads and the MPI library. `lapack_trcon` converts arguments, calls `trcondest` once and sets `info = 0`. There is no control flow beyond that for a model to check.
- **`slate.hh`.** Declarations and one-line forwarding wrappers (for example, viewing A as a `HermitianMatrix` and calling `hemm`). They have no state and no control flow of their own.

## Plan for further work

1. **Tile residency across algorithms.** The life counter is modelled inside Syrk only. A shared residency module could compose it with HemmC's Devices target and `releaseWorkspace`.
2. **Broadcast Engine.** Model its tree of messages among ranks and the life counters of received tiles, so that buffer bounds can be checked per rank.
3. **Larger instances.** `MCSyrk.cfg` with `NumDevices = 3` and NT = 4 passes all its properties (1,380,749 distinct states). The run takes about 4 minutes with 2 workers, which is too close to the time limit to register as a run. It can be made a run once more workers are available.
