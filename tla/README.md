# TileMega: the execution protocols in TLA+

TileMega compiles a model graph into one persistent CUDA kernel.  The graph
becomes *stages*; a stage fans out into logical *tasks* (tiles); a solver chooses
which resident CTA (*worker*) runs each task and in which order; the generated
kernel then runs all of it with nothing but event counters between the tasks.
What can go wrong is in that last sentence, and it is what these modules are
about: the host code that decides which waits may be left out, and the device
code that runs what is left.

## 1. The system

| Part | State it keeps | Operations | Talks to |
|---|---|---|---|
| Frontend, semantic lifting, CouplingGraph dialect, Analysis (`lib/Frontend`, `lib/Dialect`, `lib/Analysis`) | an IR, ISL relations | pure passes | hands edges to codegen and solver |
| Solver (`lib/Solver`): search, cost, EFT, balanced placement, simulator | none between calls | chooses theta, placement, kappa, window | hands `(pi, sigma)` tables to the harness |
| Memory planner (`MemoryPlan.cpp`, `StorageHazards.cpp`) | slots of an arena with their past occupants | `PlanBufferReuse`, `DeriveStorageReuseHazards` | adds storage edges to the task graph |
| Runtime graph (`lib/Codegen/RuntimeTaskGraph.cpp`) | none | windows to successor lists | read by placement and legality |
| Plan placement and legality (`lib/Solver/PlanMaterialize.cpp`) | owner and slot of each task | `MaterializePlanPlacement`, `BuildPlanQueues`, `CheckPlanLegality` | the harness refuses an illegal plan |
| Queue materialization (`ModelHarness.cuh`, `harness::Create`) | `task_waits`, `local_mask`, `seen` | one pass over every queue | uploads schedule and waits to the device |
| L2 executor (`tilemega_l2_kernel`) | per CTA: `head`, `done_mask`; per row: `arrivals`, `epoch` | acquire, wait, run, notify | other CTAs, through the event rows only |
| L1 executor (`tilemega_l1_kernel`, `_loop_kernel`) | stage, ordinal; per stage barrier counter | stage loop, `GridBarrier` | other CTAs, through the barrier |
| Nonpaged handoffs (`EpochLastArriver.cuh`) | a monotone ticket per output tile | arrive; the last arriver reduces | called after a task body by L1 and L2 |
| Cluster synchronization, cluster mailbox | DSMEM counters, two mailbox slots | `StageBarrier`; `Run`, `Exchange` | CTAs of one cluster |
| Paged executor and page ring (`ServingPages.cuh`, `PageRing.cuh`) | ring slots: two mbarriers and a generation tag; a cursor per role | loader fills, four compute warps drain; both loop over decode steps | global events, lag dependencies between steps |
| Dynamic claim (`DynamicTaskClaim.cuh`) | one counter per virtual stage | `ClaimDynamicTask` | all CTAs |
| Counted dependencies, MoE publication, binding gate | block and row tables of a routing, weighted counters that are never cleared | dispatch, publish, wait, look-ahead probe | dispatch, expert and combine stages |
| Serving plan ABI (`ServingRuntime.cuh`) | `next_iteration` per mode, streams | `tm_plan_launch`, `tm_plan_launch_steps`, reset | host callers |
| Watchdog, traces, prefetch | one record | first timeout wins | diagnostics |
| SM90 dense programs (`Sm90DenseProgram.cuh`) and the tensor parallel driver (`tp_engine.py`) | per rank: boundary and KV-group counters, operand banks, receive regions, exchange block, tokens | stages with their boundaries, all-reduce, argmax exchange; launches enqueued by one host | the same program on other devices, through peer memory |
| SM90 forward programs | their own rings | generated | a third executor, for prefill |
| Sharded fan-in (`TILEMEGA_EVENT_SHARDED`) | shard counters in L2 or in a cluster's shared memory, host tables of targets | first-level arrive, then one global arrive per shard | `ArriveEvent` of both executors |
| Build cache and measurement queue (`python/tilemega`) | `state.json`, `control.json`, receipts, queue files, locks | dispatch, collect, retry, pause, restart | child processes, the operator |

**Interaction.** The host calls the three placement functions, then writes the
queues, then launches kernels.  After that all communication is through counters
in global memory that only grow: a task arrives at its *event rows* (a fine row
per group of kappa tasks, an aggregate row per stage), a consumer polls for the
value its own iteration implies.  Counters are not cleared between launches.

**What is hard.** (a) A wait that is left out must be implied by something else,
although the worker may look ahead in its queue by `W` slots and run out of order.
(b) Counters carried over launches: a poll of iteration *i* must not be answered by
*i - 1*.  (c) Everyone waiting on everyone.  (d) Barriers and rings reused with one
parity bit or one epoch.  (e) The last arriver does somebody else's work.
(f) A task index permuted twice.
(g) Decode steps with no barrier between them, kept apart by lag dependencies alone.
(h) Host tables of shard targets against the device's choice of shard.  (i) Memory reused
under readers that have not run.  (j) A simulator and two bounds that must agree on one
plan.  (k) A scheduler that can die between any two file writes.  (l) Ranks on several devices that
poll each other's memory and are enqueued by one host.

**What makes each part correct.**

* Legality: no accepted plan can block (`HeadProgress`).
* Materialization: every dependency left unpolled is settled by queue distance, a
  local bit, or an earlier poll at least `W` slots back (`LiftingSound`).
* L2: a row that reads complete is complete (`EventSound`); each launch runs the graph
  once and in order (`ImplementsTaskGraph`) and returns (`LaunchCompletes`).
* L1: stages do not overlap across CTAs, also across the steps of a loop kernel;
  every task of every stage once; tickets aligned with the iteration the host passes next.
* Paged loop: step *i* reads the tokens and the history of step *i - 1*, whole
  (`ImplementsDecodeLoop`, `HistoryWritten`); a page is prefetched with the routing of its own
  step (`PrefetchesOwnStep`); the loop ends (`LoopCompletes`).
* Sharded fan-in: two levels of counters release a consumer as one counter would.
* Routed layer: what experts add to a counter comes to a threshold fixed before routing
  (`CountsMeetThresholds`), so a combine starts on all its rows of this step (`CombineReadsThisStep`).
* Memory planner: in every order the edges allow, a task finds its inputs where it
  expects them (`InputsIntact`), and the edges leave an order (`EdgesAcyclic`).
* Simulator and placement: the event loop agrees with the recurrence, gives up only on a
  cyclic plan, conserves work when an SM is shared; EFT's scan promises the times its plan has.
* Dense program: a stage reads what the stage before wrote in this step (`InputsCurrent`), although after qkv
  there is no grid barrier and the other ranks' packets are told apart by an epoch alone; the ranks choose the same
  tokens (`RanksAgree`); no rank waits for one the host cannot enqueue (`GenerationsComplete`).
* Measurement queue: one command at a time, recorded, on settled inputs, across crashes.

## 2. Modules

| Module | Models | How its state corresponds to the code |
|---|---|---|
| `RuntimeGraph` | stages, tasks, windowed and whole-stage edges, event rows, group targets | constants are the bound tables the harness reads; no state |
| `PlanMaterialize` | every `PlacementMode` and template, `BuildPlanQueues`, `CheckPlanLegality` | a plan is `[owner, slot]`; EFT and balanced tables are *any* table, so nothing is assumed of the solver; the cluster split is its owner table and the requests it refuses (`MayClusterSplit`: the builds that make such a request have `W = 1`, so the runs see it refused, but what it would yield is one of their dense tables) |
| `QueueMaterialize` | plan accepted or refused, then the queue loop | `waits` is `task_waits`, `local` is `local_mask`, `seen` is `seen` |
| `TaskGraph` | abstract: tasks start after their producers, once per launch | refinement target of both executors |
| `L2Executor` | the dataflow kernel over what `QueueMaterialize` wrote | `head`, `mask` (`done_mask`), `arrivals`, `epoch`; `toArrive` and `toPublish` are the unfinished part of `NotifyTask` |
| `L1Executor` | the stage-by-stage kernel and its loop form | `build` is the compiled form (CTAs of a cluster, count-based barrier), fixed at Init; per CTA `stage`, `ordinal`, `step`; barrier `arrivals`, `epoch`; `ticket` |
| `PageRing` | the shared-memory ring of a paged CTA: loader warp, copies, compute warps | per slot `generation`, phases of `full`, arrivals at `empty`; `stream` is the sequence of tasks, each with its waves, group, owners and hold, fixed at Init |
| `ClusterMailbox` | `Init`, `Run`/`Exchange`, `Close` of the reduction mailbox of a cluster | `full` with its outstanding bytes, `ready`, `ack` per slot; `flying` are the pieces of a push not yet landed |
| `DynamicClaim` | the dataflow kernel when expert stages are claimed at run time | `claims` are the counters, `stage` and `local` the `DynamicTaskCursor` |
| `CountedExperts` | a routed layer on those claims: the dispatch's counting sort, expert tasks over virtual blocks, weighted arrivals, counted waits | `blocks` and `rows` are the binding tables, `counted` the counters; `partials` says which step wrote an expert's rows; `sent` is the unfinished part of `PublishMoeCountedRows` |
| `DecodeLoop` | abstract: tasks of several decode steps, with the data dependencies within and between steps | refinement target of the paged loop |
| `PagedLoop` | `tilemega_loop_kernel`: a loader and a compute role per worker walking queue and steps | `load`, `comp`, `ahead` are the three cursors; `arrived` the event rows, `ticket` the last arrivers' tickets, `output` the step each task's result is of, `full` the pages in the ring |
| `ShardedFanIn` | `ArriveEvent` with a first level of shards, their host tables, the counters' way in and out of a cluster | `global` and `local` are shard counters in memory and in distributed shared memory, `arrivals` and `epoch` the rows |
| `ElidedQueue` | the queue loop of `QueueMaterialize` when some stages are elided | the same variables; `UploadedAt` is the slot in what the device walks |
| `MemoryPlan` | `PlanBufferReuse` with `DeriveStorageReuseHazards`, then a run in any order the edges allow | `slots` with `history`, `aliases`, `hazards`; `memory` says whose value each cell holds |
| `PlanTiming` | costs of a plan, the recurrence and the lower bounds | no state |
| `ExecutionSimulator` | the event loop of `SimulateExecution` with shared SMs | `sim` gathers heads, heap, progress, rates and versions |
| `EftPlacement` | `PlaceEft`, then the event loop on the plan it made | `plan` and `end_ns` are the queues and the promised ends |
| `MeasurementQueue` | `bench/scheduler.py` and the processes it starts | `disk` is `state.json` and `control.json`, `mem` its copy in the process, `live` the commands that run |
| `DenseTensorParallel` | the native dense program on several ranks and the engine that drives it | `cta` is where each CTA stands, `bank` its two operand records; `events`, `groups`, `arrived` the counters; `packets` and `exchange` the memory peers write; a value in `memory` or `tokens` is the request, position and stage it was computed for |
| `*_proofs` | theorems: `L2Executor_proofs`, `L1Executor_proofs`, `CountedExperts_proofs` (with `DynamicClaim`), `EventRows_proofs` (`ShardedFanIn`, `PagedLoop`), `Protocols_proofs` (`ClusterMailbox`, `PageRing`, `MemoryPlan`, `MeasurementQueue`), `DenseLaws_proofs` and `DenseTensorParallel_proofs` | `RuntimeGraph_proofs` holds what they share: triggers and rows, and `Tally`, the counter that is never cleared |
| `MC*` | constants for TLC | |

`RuntimeGraph` is extended by `PlanMaterialize`, that by `QueueMaterialize`, that by
`L2Executor`; `L1Executor` and `DynamicClaim` extend `RuntimeGraph`.  The three executors
instantiate `TaskGraph` with a refinement mapping, and so does `ShardedFanIn`; `CountedExperts` extends `DynamicClaim`, each of its steps a step there or a stutter; `PagedLoop` instantiates
`DecodeLoop`; `ElidedQueue` extends `QueueMaterialize`; `EftPlacement` extends
`ExecutionSimulator`, that `PlanTiming`.  `PageRing` and `ClusterMailbox` share
`Mbarrier`, the wait by parity, and otherwise stand alone: they are used inside a task.
`MemoryPlan`, `MeasurementQueue` and `DenseTensorParallel` share nothing with the others.

### Abstractions

* A CTA is one actor.  Inside a CTA the code brackets every shared access by
  `__syncthreads` and one electing thread; thread-level release order is left for
  the plan below.  Polls are acquires of values that only grow during a launch, so a
  scan over several rows can be taken as one step at its last load.
* A task body is one step that ends (`finished`); its numerical content is dropped.
* `ArriveEvent` keeps its three compiled forms: reduction without result (`RedPublish`),
  single-member row without counting (`EventSolo`), and ticket with a separate epoch
  store by the last arriver.  The two lanes of `TILEMEGA_ASYNC_PUBLISH` are the free
  order of `toArrive`.
* The build with `TILEMEGA_EVENT_KAPPA > 0` is modelled (kappa 1 included): the polls
  are then by row, which is what the wait lifting needs.
* Left out of `L2Executor`: the N-major task order, the split prefetch barrier, and how the CTAs of a cluster meet in a cooperative
  body (`ClusterMailbox` has that protocol; the last checks on such queues, `ModelHarness.cuh:4463-4476`, are not modelled).  Sharded
  fan-in and elided stages have modules of their own, at the parts of the code they change.
* `PagedLoop` runs at a window of one and one tile of rows (`cli.py:193` takes batches up to one
  tile), from iteration 0, with every task outside argmax read by somebody; a ring is the number of
  its full pages (`PageRing` has the protocol); the last arriver announces the rows of a tile at once.
* `ShardedFanIn` keeps every wait and starts tasks in queue order, so that the only question left
  is the one about counters.
* In `CountedExperts` a routing is any map of the set `Routings`; the sort is stated by ranks (rows of the
  same expert in earlier chunks, then earlier in this chunk), which is what the histograms, prefixes and warp masks
  compute; the additions of one task to different counters come in any order.
* `MemoryPlan` takes the ISL relations as sets of elements; `layout` stands for what `Compatible` compares (dtype, fill,
  halo layout), an equivalence; buffers have one writing stage, and
  what a task reads of its input is either all of it or the elements of its own tile.
* `PlanTiming` and the modules above it work in integers that halve exactly; the DRAM fluid model,
  contextual hops and lane stretching are left out.
* In `DenseTensorParallel` a batch is one row, memory is sequentially consistent between devices (the acquires,
  releases and the fence of the exchange are taken at their word), the stores of one loop over the peers are one step,
  and `PacketEpochs` is what is left of an epoch after truncation to 32 bits: two, the fewest that can work.
* In `MeasurementQueue` a file write is one step (the code writes aside and renames), a command
  ends with success, retry or failure or runs into its timeout, and the clock moves in units of
  the durations the code compares.

## 3. Runs

| Run | What it asks | Bounds |
|---|---|---|
| `L2Window` | wait lifting, event soundness, head progress, the refinement and return of every launch, with look-ahead | stages of 3, 1, 2 tasks, the first in groups of two (so the last group is clipped), two edges over all of a stage and a halo edge; two workers whose blocks map to them swapped; every closed-form placement (the cluster split is refused: builds with cooperative clusters have `W = 1`), every balanced owner map and *every* owner and slot table; `W = 2`; rows published by the count (`RedPublish`) or by an epoch; two launches between resets; rows of one member without a count |
| `L1Handoff` | stages do not overlap, no trap, the refinement with an elided merge run by the last arriver, every launch returns | four CTAs in four builds (epoch barrier, count-based barrier, two clusters of two, one cluster of four); a placed stage of five tasks dealt with padding; loops of one and two steps, three iterations |
| `RingStreams` | pages intact and all read | three streams on two slots: private pages and drifting warps, pages packed for two of four warps, a body that holds its page |
| `DynamicMoe` | claims exact, a combine reads this step's rows, counts meet thresholds, the refinement, return | two workers, two launches; three tokens of two ranks over three experts, routed so that one expert is left out or has a single row; blocks of three rows in tiles of two, so blocks and tiles without rows; token groups of two, the last one shorter; a claimed stage without tasks |
| `MailboxQuad` | only this episode is summed, no tile is written while it travels, every rank leaves | four ranks, five episodes of one or two pieces |
| `PagedServing` | history, look-ahead, the refinement of `DecodeLoop` and return | four workers, one with an empty queue, three steps, six stages: split attention whose two tasks share an event row, its merge and the token run by last arrivers, a gated expert stage; a ring of two and two pages of look-ahead |
| `ShardedRows` | what a row's count means, the refinement and return, for shards of the L2 and of a cluster under epoch, reduction and solo publishing | two clusters of two CTAs, rows of two members, a clipped row and an aggregate one, two launches |
| `ElidedWindow` | a violation, see section 6 | four stages, the third elided, every dense table, `W = 2` |
| `MemoryReuse` | inputs intact in every order, edges acyclic | four stages with every choice of sizes, readers and tiles; chains of five, with buffers of one kind or of several that cannot share a slot; both policies |
| `SimulatedPlans` | event loop against recurrence, deadlock against cyclicity, work conserved, lower bound below makespan, EFT's promise against the replay | every graph of four tasks with every plan on two workers, and the plans EFT makes of every graph of five tasks on three; own or shared SMs, with and without prefetch |
| `TensorParallel` | inputs of this step, the same tokens on every rank, every generation completes | two ranks of two CTAs, two layers, two requests of three steps; one KV group, so that one CTA has no attention task and passes on at once; stages with a CTA without tasks; loop launches and step by step, embedding folded or not; a stream that takes one command |
| `QueueCrash` | one recorded command, settled inputs, receipts behind verdicts, every step settles | three steps, one joining late, three units of time, a crash anywhere and one restart |

**Why the bounds suffice.** The interesting distances are relative to `W`: with two
workers and six tasks there are producers on the same worker below, at and beyond
the window, and rows seen by an earlier slot on both sides of it.  Two launches and a
reset meet every relation between old and new counters, since a poll compares with the
current iteration only.  Four CTAs are the fewest that make two clusters in which rank 0 differs
from the others in both halves, and with three partials per output they have a first, a middle and a last arrival.
Two ring slots are the fewest the
code allows with a held page, and four private waves on them reach the request two generations
ahead that the tag is there for.  Five episodes use each mailbox slot with both parities and come
back to the first. Two claimers are enough for a swap to be lost and
for a worker to ask again of a counter that is used up.

Three steps of the paged loop are the fewest in which a step overwrites what a slow reader of two
steps before could still want.  Rows of two members on two clusters give shards with one member,
with all and with none.  Five stages let an arena slot have a third occupant while the first still has
readers.  One restart is enough for each pair of file writes to be split by a crash, since
a second restart starts from files of the same shape.
Two layers are the fewest a dense layer group has, and make the KV-group target depend on the layer; three steps use
each half of the exchange again; the second request runs on the counters, packets and tokens of the first.  Epochs
modulo two are enough because a slot never holds anything older than the step before.
What holds for every size is in section 5.

`CHECK_DEADLOCK FALSE` is set where the system really stops: a refused plan ends the process,
and the bound on launches ends the run.

## 4. Fairness

`FairSpec` gives weak fairness to each CTA and to the end of a launch.  The code justifies it
by residency: the harness refuses a grid larger than what the occupancy query says
is resident at once, so every CTA of a launch is scheduled and none waits for another to
exit (skeleton, L-b).  In `PageRing` the warps of a resident CTA and in `ClusterMailbox` the
co-scheduled CTAs of a cluster are treated the same way, and a copy once issued lands.  No fairness is assumed of the host: it need not launch again.
`PagedLoop` asks for less, that the kernel does not stop while some role of some worker can go on: its steps are
finitely many.  `ShardedFanIn` gives fairness to each CTA and also to the
hardware barrier of a cluster all of whose CTAs have arrived.  `DenseTensorParallel` asks only that something happens while something can: the
grid is one CTA per multiprocessor on a device of its own, and no step can repeat for ever.  `MeasurementQueue` gives it to the
scheduler process alone: a command need not end, for the scheduler's own timeout ends it, and neither
the operator nor the crash is ever obliged to come.

## 5. Proved

For every graph, plan, window and number of workers, from the assumptions named in the modules
(`GraphAssumption`, `WorkerAssumption`, `WindowAssumption`, `ExecutorAssumption`, ...):

* `RuntimeGraph_proofs!TriggersCountMembers`: the target a consumer computes for a row is
  the number of tasks that arrive at it, clipped last group included.
* `L2Executor_proofs`, first part: `HostInv`, the invariant of the queue loop: each task below the
  cursor has all its dependencies settled by distance, by a local bit, or by a slot recorded
  in `seen` that holds the wait and lies a full window back.  Plain L-d coverage is not inductive:
  it says nothing of what `seen` promises for the tasks still to come.
* `L2Executor_proofs`, second part: `Inductive` conjoins `HostInv` with what the device keeps: the holding
  invariant (completed slots are exactly `head` and the mask), the history invariant (a task
  has arrived at a row only if it ended), exact counts (`arrivals` is the base of the
  iteration plus the arrivals of this launch), and that an epoch is owed to a row only after
  its last arrival.  From it: `TypeCorrect`, `Lifting`, `EventsSound`, `WindowCorollary`,
  `Safety` (no body before its producers) and `Refinement` (steps map to steps of `TaskGraph`
  or stutter).  `Safety` is where host and device meet: a dependency covered by a poll of an
  earlier slot is met because the window had already passed that slot, whose own poll
  read a complete row.
* `L2Executor_proofs`, progress: `HeadsProgress` proves `HeadProgress` under `PollsOwnAncestors` (a row that a task
  may poll has members, and only ancestors of the task), which TLC evaluates for `L2Window` and `UngroupedPolls` proves of
  every graph with groups of one, the default of `TILEMEGA_EVENT_KAPPA`.  Without it the claim is false (section 6).  The
  sweep of `CheckPlanLegality` ranks the tasks along edges and queues (`SweepRanks`, `QueueRanks`); `ProgressInv` adds
  that no slot polls a row its edges do not name and that a full row has its epoch stored or owed.  Were all workers blocked,
  a task of least rank among those not complete shares its worker with a head of no greater rank,
  and every row that head polls would be full, hence ready.

* `CountedExperts_proofs`, on `DynamicClaim`: `IInv` conjoins where a worker can be (`Cursors`), what the counters and
  cursors say has been handed out (`Tickets`), what holds between launches (`Between`) and that no
  two workers hold one task (`Holding`).  Exactness alone is not inductive: that a counter is full
  when a launch ends follows only from every cursor having passed its stage.  From it:
  `ClaimTypeCorrect`, `Exactness` and `ClaimRefinement`, for any number of workers and launches.

* `CountedExperts_proofs`, on the routed layer: every step of it is a step of `DynamicClaim` or leaves it alone
  (`RoutedImplementsClaim`), so that `RoutedExactness` and `RoutedRefinement` follow for every routing, block size
  and number of workers.
* `CountedExperts_proofs`, the data of the routed layer.  Of one routing: rows are ranks, all distinct (`RowIsRank`,
  `RowsAreDistinct`, hence the scatter is the inverse, `ScatterInverse`); each row lies in one block and one tile, so each row and column
  has exactly one expert task (`TableCover`); the rows of one combine task are as many as its threshold, the shorter last group
  included (`ExpectedCount`); the blocks fit the capacity (`CapacitySuffices`: the first block of an expert is charged to
  the expert, a later one to the block of the unpadded table it starts in).  Of a run: `RInv` says that a counter is
  the threshold times the launches before plus the number of rows delivered in this one (`CountInv`, `Delivered`), that what
  has run is closed under producers (`Ancestry`), so no expert task runs on the tables of the launch before
  (`TablesInv`), and that a finished expert task has written its rows (`Written`).  `CombineReadsThisStep` is not
  inductive: a count says nothing of which rows made it up.  It follows because delivered rows are among the
  expected ones and, at the threshold, as many.  From it `CombineReads` and `CountsMeet`.  `RoutedAssumption` asks that the
  dispatch be an ancestor of every expert task, as `MoeSemanticLifting.cpp` builds it (each expert GEMM reads the
  binding the dispatch wrote).

* `L1Executor_proofs`: `IInv` conjoins where the loops of a CTA can stand (`Standing`), that a cluster moves as one
  (`InCluster`), what each barrier's counters say (`BarrierInv`) and what each handoff ticket says (`TicketInv`).  The
  counters are never cleared, so the invariant counts rounds: a CTA has freed, arrived at or walked a stage `at.step` times, or
  once more if it is past it, and no party has freed a stage more often than any other has arrived there.  A counter then
  reads `size * (base + k)` plus the members already in round `k + 1` (`Tally`), whether its members are all CTAs, the first of
  each cluster, or the partials of one reduced output.  `StagesDoNotOverlap` is not inductive: it says nothing of a CTA that
  waits.  The deal is part of it (`Deal`: in each of the three deals one ordinal names a task and one CTA owns
  it, the spread stride being a unit of the grid).  From it `StagesApart`, `TicketsInEpoch` (the trap never fires), and
  `L1Refinement`: the round is that of the CTA furthest ahead, the first CTA to leave the last stage opens the next iteration of
  `TaskGraph`, and the last arriver's reduction is a task of its own.  For every grid, cluster size and stage table that
  `L1Assumption` admits, both barriers, any number of launches, steps and resets.

* `EventRows_proofs`, on `ShardedFanIn`: `FanInv` relates three levels.  A queue is walked in node order, so what has ended is what lies
  before the head of its queue (`History`), and a task has arrived at a row unless it still owes it (`Arrived`).  A shard's
  counter (`ShardInv`) is its target times the launches plus the members of the shard that have arrived; `Value` says where
  that counter is, in shared memory from the fetch to the store.  A row hears a member, or a whole shard
  once the one CTA that was last in it (`CarryInv`) has come (`Heard`), and counts what it hears (`CountInv`).  `RowMeansMembers` is not inductive:
  a count of shards says nothing of members without `CarryInv` and `ShardInv` beneath it.  From it `RowsMeanMembers`, `CountersSettle`
  and `ShardedRefinement`.  That the device finds the shard the host tabulated is part of the proof
  (`ShardFacts`, `ClusterShards`).  All under `ShardsAreUsed`: no build pairs the v3 arrival with shards; TLC evaluates it for the
  builds of `ShardedRows`, and without it the claim is false (section 6).

* `Protocols_proofs`, on `MemoryPlan`: `Intact` and `Acyclic`, for any number of stages, any sizes and readers, both policies.
  That inputs are intact is not inductive: nothing in it says why a buffer that left its slot
  long ago cannot be overwritten early.  `Inv` adds the parts: `ArenaInv` and `PlaceInv` (who lies where),
  `HistoryInv` (a slot's history still names, for every earlier occupant, a buffer that came no earlier and covers
  it), `HistoryOrderInv` (of two buffers of one slot the younger is ordered by hazard edges behind one that covers the
  older), `ForwardInv` (edges lead to later stages, whence `Acyclic`), `ClosedInv` (what has run is closed under the
  edges), `OverwrittenInv` (once an element is overwritten the old buffer's tasks there have run) and `MemoryInv`
  (a written element is held, or was overwritten by a younger buffer).

* `Protocols_proofs`, on `ClusterMailbox`: `MailboxInv` relates, for each peer apart from the others, the rounds rank 0 has acknowledged,
  those whose pieces have all arrived and those offered: in this order and, with `episode[p]` behind and
  `episode[p] + 1` ahead of them, no two more than one apart (`OrderInv`).  That is why a parity bit is enough
  (`ParityOfEpisode`: of two consecutive counts it tells which); `PushInv` adds what the pieces on their way carry.
  From it `SumsAreOfThisEpisode` and `SourcesAreStable`, for clusters of two and four and every number of episodes
  and pieces.

* `Protocols_proofs`, on `PageRing`: `PageIntact` alone is not inductive,
  since nothing in it says that a parity wait is not misled.  `RingInv` bounds per warp the pages it has released from
  below and those it may wait for from above (`Low`, `High`), and says per slot that the tag names the page in it, that
  `full` has completed one more phase once that page has landed and that `empty` counts exactly the warps past it
  (`TaggedSlot`), and of the loader that it is never more than a ring ahead of what it has published (`AcquiredAhead`).
  Hence a loader that sees the parity of `empty` it waits for has a drained slot (`EmptyPhases`), a warp that sees that of
  `full` its page (`FullMeansLanded`).  From it `PagesIntact`, for every number of pages, warps and steps and all
  streams that `RingConstants` allows, which TLC evaluates in `RingStreams` as `RingAssumption`.

* `Protocols_proofs`, on `MeasurementQueue`: `QueueInv` says how memory, files and processes agree at each point where the scheduler may be
  killed: one row runs in memory exactly from the choice of a step to its verdict (`RecordInv`), at a launch and until
  its verdict the disk equals the memory (`DiskInv`), a command outlives only a scheduler that waited for it
  (`LiveInv`), what `ready_steps` returned stays settled until it is started (`TodoInv`), and a verdict has its receipt
  (`ReceiptInv`).  `OneRecordedCommand` alone is not inductive: that the next scheduler refuses to start beside
  a living command rests on `DiskInv`.  From it `CommandsAreRecorded`, `InputsHaveVerdicts`, `ReceiptsAreThere` and
  `VerdictsStand`, for any steps and dependencies and any bound on starts (`MaxStarts`).

* `EventRows_proofs`, on `PagedLoop`: no barrier separates the steps and a counter holds the arrivals of all steps together, so neither
  `HistoryWritten` nor `PrefetchesOwnStep` is inductive: nothing in them says which steps made up a count.  `LoopInv`
  counts, per task, the steps it has begun (`Begun`), arrived for (`Shown`) and is done with (`Done`: a producer with a
  ticket is done for its reducer once it took it).  `StepInv` says that there is one `n` such that all these are `n` or
  `n + 1` for every task of the model (`SpanInv`), and that a row has `n` full rounds, plus the members that have arrived for `n + 1`,
  less those an announcement still owes for `n` (`RowCountInv`).  So a row that reaches `n + 1` rounds has one arrival of each member (`ReachedMeansWritten`).
  What carries `n` on to `n + 1` is the token edge: an embedding begins step `n + 1` only when all tokens of step
  `n` are there, and then everything is done for `n`, since every result is read on some way to a token
  (`TokensMeanAll`, by `OrderInv`: a body begins only behind what it reads).  `OutputInv`, `HandoffInv` (a tile's ticket counts the
  producers of this round, one worker has the tile), `LoaderInv` and `AheadInv` (what a gate or a lag wait has shown stays
  so) are the rest.  From it `LoopInductive`, `HistoryIsWritten`, `PrefetchesInStep` and `LoopRefinement`: the bodies running
  and the steps written are a behaviour of `DecodeLoop`, last arrivers' reductions included.  For every graph, queues, ring,
  look-ahead and number of steps that these assumptions admit, all of which TLC evaluates in `PagedServing`.
  `ScheduleAssumption`: each queued task in one slot (`BuildPlanQueues`).  `HandoffAssumption`: a stage
  has one reducer, a later elided stage, and a reducer one stage (`ServingRuntime.cuh:778-799` throws otherwise); that it
  reads exactly the tasks of a tile is how the harness wires a split-K combine, an attention merge and an argmax
  (`ModelHarness.cuh:3511-3533`), and no code tests it.  `DecoderAssumption`: every result but the tokens is read by a later
  stage, every task but an embedding reads one; a decoder is built so, and no code tests it.  The token edge is added by
  `ServingLag.h` to every model with an embedding.  No legality of the queues is assumed: a bad order blocks, it breaks nothing.

* `DenseLaws_proofs` and `DenseTensorParallel_proofs`: neither invariant is inductive, since a value in memory says nothing of
  the barriers that let a CTA read it.  `DenseInv` describes everything from the places of the CTAs.  A place tells how
  often a CTA has arrived at each stage, sent each packet, joined each KV group and handed in its part of the head, and the counters,
  never cleared, read those sums (`EventsLaw`, `GroupsLaw`, `HeadLaw`, by `Tally`).  So a counter at its target says where
  all CTAs are (`BarrierLaw`; `GroupFree` for a group counter whose target counts layers over all steps), and memory
  is known tile by tile (`MemoryLaw`: what a stage wrote stands through the stage after it, a tile of the residual stream, updated in
  place, has the sum of the last stage to pass it).  The operand record a CTA prepares while it waits is that of the stage it
  goes on to (`BankLaw`).  Between ranks: a receive slot holds the packet last sent, with its epoch (`PacketLaw`); a rank sends
  at most one step ahead of its reader, so that two epochs tell a packet from its predecessor (`SentWindow`, `EpochsDiffer`; hence
  `PacketEpochs >= 2` in `DenseAssumption`, 2^32 in the code); a flag of step `n` is raised behind the candidate, which stands until its half
  of the exchange is used two steps later (`ExchangeLaw`), and no rank is past a step whose flag another has yet to raise
  (`SkewLaw`).  `StreamLaw` ties this to the host: a stream holds the rounds issued to its rank and not done, each starting
  where the one before ended.  `DenseInductive` goes through the actions, one lemma each; from it `InputsAreCurrent` and
  `RanksChooseAlike`, for every number of ranks, CTAs, layers, tiles, requests and tokens, any depth of the streams and all builds.

The proofs assume of a plan only what `CheckPlanLegality` and `BuildPlanQueues` test.

**Only model-checked:** every liveness property (fairness is out of reach of the prover); `ExecutionSimulator` and `EftPlacement`,
since a completion there tries the heads of all released workers in one fold, and the sums, the recurrence and the ranks are
recursive over the graph: what they compute for every input needs induction over data; and `ElidedQueue`, whose property is violated (section 6).
`TypeOK`, `DependencySafety`, `WindowPrefix` and `CountersExact` of `L2Executor` follow from its
proved invariant or serve it, and have no run of their own.

## 6. Disagreements found

**Elided stages and the window** (run `ElidedWindow`).  Elided tasks keep plan slots and are left out of the
uploaded queue (`ModelHarness.cuh:4314`), but every distance is taken in plan slots.  With a window of two a
wait is dropped although the window can start the reader before the task that observed the row, against
the comment at 4438-4441.  With a window of one the dropped waits are all covered: set `Window = 1` in its cfg.

The rest was seen while modelling and has no run of its own.

**Event groups and legality.** The harness's `CheckPlanLegality` (`lib/Solver/PlanMaterialize.cpp:271-334`) sweeps *tasks*.  With event groups of
kappa > 1 a poll is of a *row*, satisfied only when all members arrived, and a member may be queued
behind the worker that polls.  The compiler knows: `FinalizeSkeletonPoint` checks each plan a second time with an edge from every
member of a polled row ("event-group legality", `SkeletonFinalize.cpp:27-38`).  The harness does not repeat that check, so a plan
from elsewhere can pass it and block for ever, although `ExecutionSimulator.h:200-204` treats a deadlock as a violation of L-a and
`ModelHarness.cuh:1572-1576` says blocking on the head "always makes progress".  To see it, take two stages of three tasks, the
first one group of three, each task of the second reading its own of the first, every table of owners and slots, and
check `HeadProgress`; the plans that remain legal with the members' edges added do not block.  Stage-major placements do not
have the problem, nor do plans in which a consumer of a group depends on all of its stage anyway, as in `L2Window`.

**Shards and the count-based arrival.** With `TILEMEGA_SYNC_V3`, `ArriveEvent` (`ModelHarness.cuh:1611`) adds
once per raw producer and returns before the shards, while `EventTriggers` (1248-1256, "One global
reduction per completed nonempty shard, rather than per raw producer.") counts shards.  Compiled
together a consumer is released early: `RowMeansMembers` fails once `ShardedRows` has that build too.  No assertion
forbids the pair; no builder in the repository turns `EVENT_SHARDED` on.

**The work bound**.  `EvaluatePlanBounds` subtracts the prefetch gain from the queue and binding bounds
but not from the work bound (`ExecutionSimulator.cpp:649`), which `ExecutionSimulator.h:189` calls "the work lower bound".
It can exceed the makespan, and `RankPlans` may cut the better plan.  `LowerBoundHolds` therefore leaves the work bound
out where there is prefetch; to see it exceeded, drop that premise.

**Paused timing.** `docs/TOOLS.md:118-119`: "Six hours without an idle timing window pauses timing while
non-timing work may continue."  The scheduler exits (`scheduler.py:202`) when nothing untimed is ready
at that moment, an untimed step waiting for its retry included.  `EveryStepSettles` excepts a paused queue.

**Starting in the middle of a request.** `Launch` (`Sm90DenseRuntime.cuh:122`) checks the iteration, but not that a launch
with `first > 0` goes on where the launch before ended.  With the embedding folded into the head the activations
of another request would be taken.  The two engines obey the order; nothing else does it for them.

**Double buffering between ranks.** `Sm90DenseOperands.cuh:101-106` orders the next step's packets by the exchange and
gives it two halves.  In interleavings alone neither is needed, since each step has reductions that all ranks pass;
what the order gives is visibility between devices, which the model takes as given.

## 7. Not modelled

Frontend, polyhedral analysis, dialect, code generation, calibration and the command-line tools are
sequential translations.  Task bodies are numerical kernels.  The search over skeletons, the
cost tables, `BalancedPlacement` and `ListScheduler` are replaced by their result, taken as arbitrary where it
matters.  Prefetch into L2, traces and the watchdog do not synchronize anything (the
split prefetch barrier apart).  The trap paths of the kernels are modelled only where a protocol
could reach them (`NoTrap`).

Inside modelled parts:

* `MemoryPlan`: buffers with several writers and halo reads.
* `ExecutionSimulator`, `EftPlacement`: the DRAM fluid model, contextual hops, lane vectors and lane stretching,
  the ranking itself.
* `CountedExperts`: the ungrouped binding, split-K expert projections, the probe of a counter from a look-ahead window.
* `PagedLoop`: counted and MoE publication, phase gates, expert-indirect bindings, windows above one.
* `ShardedFanIn`: shards with elided stages or a window.  A last arriver's notification then comes from a CTA the
  host did not shard by.
* `MeasurementQueue`: the schedulers of other cards, the monitor and the GPU guard; `ArtifactCache`.
* `DenseTensorParallel`: clusters with their DSMEM merges and multicast, the weight rings and streams issued a stage
  ahead, the KV cache with its chunks and last arrivers, MoE stages.
* The SM90 forward programs, and `MegakernelRuntime`.

## 8. Plan

1. Done: `L2Executor` with `QueueMaterialize` and their proofs, `L1Executor`, `PageRing`,
   `ClusterMailbox`, `DynamicClaim`, `CountedExperts`, `MemoryPlan`, `MeasurementQueue`, `PagedLoop`, `ShardedFanIn`
   and `DenseTensorParallel` with proofs; `ElidedQueue`, `ExecutionSimulator` and `EftPlacement`.
2. Nested reductions of `DmReduction.cuh`; counted waits in the paged loop.
3. `ServingPlan`: the launch protocol with streams, watchdog and failed launches; the artifact cache.
4. The rings and clusters of the SM90 programs.
