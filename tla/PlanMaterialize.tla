-------------------------- MODULE PlanMaterialize --------------------------
(***************************************************************************)
(* From a placement mode to (pi, sigma): the worker that owns each task    *)
(* and the slot it takes in that worker's queue, and the two legality      *)
(* checks made on the result before anything is launched                   *)
(* (lib/Solver/PlanMaterialize.cpp).                                       *)
(***************************************************************************)
EXTENDS RuntimeGraph

CONSTANTS
    Grid,             \* resident persistent workers
    PhysicalWorker,   \* CTA of each logical worker (HostPlacedBlock)
    StageOrder,       \* position of each stage in model.stage_order
    BalancedOwners,   \* owner maps the balancer may hand back
    EftTables,        \* (worker, slot) tables a Plan may be pinned to
    ClusterDim,       \* CTAs of a cluster
    ClusterChunks     \* ranks that share a task of each stage, 0 where none do

Worker == 0 .. (Grid - 1)

ASSUME PlanAssumption ==
    /\ Grid \in Nat \ {0}
    /\ PhysicalWorker \in [Worker -> Worker]
    /\ \A v, w \in Worker : PhysicalWorker[v] = PhysicalWorker[w] => v = w
    /\ StageOrder \in [Stage -> Nat]
    /\ BalancedOwners \subseteq [Task -> Worker]
    /\ EftTables \subseteq [owner : [Task -> Int], slot : [Task -> Int]]
    /\ ClusterDim \in Nat
    /\ ClusterChunks \in [Stage -> Nat]

Position(T, x, Before(_, _)) == Cardinality({y \in T : Before(y, x)})

\* Stage order first, then the logical index inside the stage.
StageMajorBefore(x, y) ==
    \/ StageOrder[x.stage] < StageOrder[y.stage]
    \/ x.stage = y.stage /\ x.logical < y.logical

\* The next free slot on the owner, walking the tasks in stage-major order.
NumberStageMajor(owner) ==
    [x \in Task |->
        Position({y \in Task : owner[y] = owner[x]}, x, StageMajorBefore)]

StageMajorPlan(owner) == [owner |-> owner, slot |-> NumberStageMajor(owner)]

LegacyOwner == [x \in Task |-> PhysicalWorker[x.logical % Grid]]

\* Stage s starts on the worker where the stage before it stopped.
RotateBase(s) ==
    Cardinality({y \in Task : StageOrder[y.stage] < StageOrder[s]}) % Grid

RotateOwner ==
    [x \in Task |-> PhysicalWorker[(x.logical + RotateBase(x.stage)) % Grid]]

BandWidth(s) ==
    LET w == (Count[s] + Grid - 1) \div Grid IN IF w < 1 THEN 1 ELSE w

BandOwner ==
    [x \in Task |-> PhysicalWorker[(x.logical \div BandWidth(x.stage)) % Grid]]

\* Longest path from a source, which is what the topological sweep computes.
Level[x \in Task] ==
    LET before == {Level[p] : p \in Predecessors(x)}
    IN  IF before = {} THEN 0
        ELSE 1 + CHOOSE m \in before : \A n \in before : n <= m

LevelBefore(x, y) ==
    \/ Level[x] < Level[y]
    \/ Level[x] = Level[y] /\ NodeBefore(x, y)

\* A level is dealt round the workers; sigma is level order, then node order.
WavefrontPlan ==
    LET owner == [x \in Task |->
            PhysicalWorker[Position({y \in Task : Level[y] = Level[x]},
                                    x, NodeBefore) % Grid]]
    IN  [owner |-> owner,
         slot |-> [x \in Task |->
            Position({y \in Task : owner[y] = owner[x]}, x, LevelBefore)]]

\* Worker and physical block coincide, a cooperative stage fills its clusters,
\* and every dependency leads to a later stage.  A refused request yields no plan.
MayClusterSplit ==
    /\ ClusterDim \in {2, 4}
    /\ Grid % ClusterDim = 0
    /\ \A w \in Worker : PhysicalWorker[w] = w
    /\ \A s \in Stage : ClusterChunks[s] # 0 =>
            ClusterChunks[s] = ClusterDim /\ Count[s] % ClusterDim = 0
    /\ \A x \in Task : \A p \in Predecessors(x) :
            StageOrder[p.stage] < StageOrder[x.stage]

ClusterSplitOwner == [x \in Task |-> x.logical % Grid]

PlacementMode ==
    {"legacy", "rotate", "balanced", "eft", "cluster_split", "band", "wavefront"}

\* Every plan MaterializePlanPlacement may produce for a mode.
MaterializePlanPlacement(mode) ==
    CASE mode = "legacy" -> {StageMajorPlan(LegacyOwner)}
      [] mode = "rotate" -> {StageMajorPlan(RotateOwner)}
      [] mode = "balanced" -> {StageMajorPlan(owner) : owner \in BalancedOwners}
      [] mode = "eft" -> EftTables
      [] mode = "cluster_split" ->
            {StageMajorPlan(owner) : owner \in {o \in {ClusterSplitOwner} : MayClusterSplit}}
      [] mode = "band" -> {StageMajorPlan(BandOwner)}
      [] mode = "wavefront" -> {WavefrontPlan}

-----------------------------------------------------------------------------
QueueOf(plan, w) == {x \in Task : plan.owner[x] = w}

\* BuildPlanQueues: every owner inside the grid, and the sorted slots of a
\* worker read 0, 1, 2, ... without a gap or a repetition.
BuildPlanQueues(plan) ==
    /\ \A x \in Task : plan.owner[x] \in Worker
    /\ \A w \in Worker :
        /\ {plan.slot[x] : x \in QueueOf(plan, w)}
             = 0 .. (Cardinality(QueueOf(plan, w)) - 1)
        /\ \A x, y \in QueueOf(plan, w) : plan.slot[x] = plan.slot[y] => x = y

\* L-c: a producer on its consumer's own worker comes first in the queue.
SameWorkerOrder(plan) ==
    \A x \in Task : \A p \in Predecessors(x) :
        plan.owner[p] = plan.owner[x] => plan.slot[p] < plan.slot[x]

\* Task edges and the W = 1 queue edges slot i -> slot i + 1.
MustPrecede(plan, x) ==
    Predecessors(x) \cup
        {y \in QueueOf(plan, plan.owner[x]) : plan.slot[y] + 1 = plan.slot[x]}

\* Kahn's sweep, a round at a time: what n rounds can emit.
Emitted(plan) ==
    LET emitted[n \in 0 .. Cardinality(Task)] ==
            IF n = 0 THEN {}
            ELSE LET earlier == emitted[n - 1]
                 IN  {x \in Task : MustPrecede(plan, x) \subseteq earlier}
    IN  emitted[Cardinality(Task)]

\* Mutant: only the order inside each queue is checked.
CheckPlanLegalityQueuesOnly(plan) == SameWorkerOrder(plan)

CheckPlanLegality(plan) ==
    /\ SameWorkerOrder(plan)      \* L-c
    /\ Emitted(plan) = Task       \* L-a
=============================================================================
