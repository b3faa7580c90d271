-------------------------- MODULE L2Executor_proofs --------------------------
(***************************************************************************)
(* The host's materialization loop, whatever plan it is given: the         *)
(* invariant that makes lifted waits and elided polls sound.  Then the     *)
(* executor's inductive invariant and what follows from it for every       *)
(* graph, plan, window and build of the publication path.                  *)
(***************************************************************************)
EXTENDS L2Executor, RuntimeGraph_proofs

PlanType == [owner : [Task -> Int], slot : [Task -> Int]]

LEMMA PositionIsNat ==
    ASSUME NEW T \in SUBSET Task, NEW S \in SUBSET T
    PROVE  Cardinality(S) \in Nat
<1>1. S \in SUBSET Task
  OBVIOUS
<1> QED
  BY <1>1, TaskFinite, FS_Subset, FS_CardinalityType

LEMMA StageMajorTyped ==
    ASSUME NEW owner \in [Task -> Int]
    PROVE  StageMajorPlan(owner) \in PlanType
<1>1. \A x \in Task : NumberStageMajor(owner)[x] \in Nat
  <2> SUFFICES ASSUME NEW x \in Task
               PROVE  NumberStageMajor(owner)[x] \in Nat
    OBVIOUS
  <2> DEFINE T == {y \in Task : owner[y] = owner[x]}
             S == {y \in T : StageMajorBefore(y, x)}
  <2>1. NumberStageMajor(owner)[x] = Cardinality(S)
    BY DEF NumberStageMajor, Position
  <2> QED
    BY <2>1, PositionIsNat
<1>2. NumberStageMajor(owner) \in [Task -> Int]
  BY <1>1 DEF NumberStageMajor
<1> QED
  BY <1>2 DEF StageMajorPlan, PlanType

\* An index dealt round the grid lands on a worker.
LEMMA DealtOwner ==
    ASSUME NEW n \in Nat
    PROVE  PhysicalWorker[n % Grid] \in Worker
<1>1. n % Grid \in Worker
  BY PlanAssumption DEF Worker
<1> QED
  BY <1>1, PlanAssumption

\* Whatever the placement mode, a candidate plan maps tasks to integers; it
\* is BuildPlanQueues that decides whether they name workers and slots.
LEMMA CandidateTyped ==
    ASSUME NEW mode \in PlacementMode, NEW c \in MaterializePlanPlacement(mode)
    PROVE  c \in PlanType
<1> USE PlanAssumption DEF Worker
<1>1. CASE mode = "legacy"
  <2>1. LegacyOwner \in [Task -> Int]
    BY TaskFields, DealtOwner DEF LegacyOwner
  <2> QED
    BY <1>1, <2>1, StageMajorTyped DEF MaterializePlanPlacement
<1>2. CASE mode = "rotate"
  <2>1. \A s : RotateBase(s) \in Nat
    <3> SUFFICES ASSUME NEW s
                 PROVE  RotateBase(s) \in Nat
      OBVIOUS
    <3> DEFINE S == {y \in Task : StageOrder[y.stage] < StageOrder[s]}
    <3>1. Cardinality(S) \in Nat
      BY PositionIsNat
    <3> HIDE DEF S
    <3>2. Cardinality(S) % Grid \in Nat
      BY <3>1
    <3> QED
      BY <3>2 DEF RotateBase, S
  <2>2. RotateOwner \in [Task -> Int]
    BY <2>1, TaskFields, DealtOwner DEF RotateOwner
  <2> QED
    BY <1>2, <2>2, StageMajorTyped DEF MaterializePlanPlacement
<1>3. CASE mode = "balanced"
  <2>1. PICK owner \in BalancedOwners : c = StageMajorPlan(owner)
    BY <1>3 DEF MaterializePlanPlacement
  <2>2. owner \in [Task -> Int]
    OBVIOUS
  <2> QED
    BY <2>1, <2>2, StageMajorTyped
<1>4. CASE mode = "eft"
  BY <1>4 DEF MaterializePlanPlacement, PlanType
<1>5. CASE mode = "band"
  <2>1. \A x \in Task : BandWidth(x.stage) \in Nat \ {0}
    <3> SUFFICES ASSUME NEW x \in Task
                 PROVE  BandWidth(x.stage) \in Nat \ {0}
      OBVIOUS
    <3>1. Count[x.stage] + Grid - 1 \in Nat
      BY TaskFields
    <3>2. (Count[x.stage] + Grid - 1) \div Grid \in Nat
      BY <3>1, DivisionBlock
    <3> QED
      BY <3>2 DEF BandWidth
  <2>2. \A x \in Task : x.logical \div BandWidth(x.stage) \in Nat
    BY <2>1, TaskFields, DivisionBlock
  <2>3. BandOwner \in [Task -> Int]
    BY <2>2, DealtOwner DEF BandOwner
  <2> QED
    BY <1>5, <2>3, StageMajorTyped DEF MaterializePlanPlacement
<1>6. CASE mode = "wavefront"
  <2> DEFINE rank(x) == Position({y \in Task : Level[y] = Level[x]}, x, NodeBefore)
             own == [x \in Task |-> PhysicalWorker[rank(x) % Grid]]
             at(x) == Position({y \in Task : own[y] = own[x]}, x, LevelBefore)
  <2>1. \A x \in Task : rank(x) \in Nat
    <3> SUFFICES ASSUME NEW x \in Task
                 PROVE  rank(x) \in Nat
      OBVIOUS
    <3> DEFINE T == {y \in Task : Level[y] = Level[x]}
               S == {y \in T : NodeBefore(y, x)}
    <3> QED
      BY PositionIsNat DEF Position
  <2>2. own \in [Task -> Int]
    <3> HIDE DEF rank
    <3>1. \A x \in Task : PhysicalWorker[rank(x) % Grid] \in Int
      BY <2>1, DealtOwner
    <3> QED
      BY <3>1
  <2>3. \A x \in Task : at(x) \in Nat
    <3> SUFFICES ASSUME NEW x \in Task
                 PROVE  at(x) \in Nat
      OBVIOUS
    <3> DEFINE T == {y \in Task : own[y] = own[x]}
               S == {y \in T : LevelBefore(y, x)}
    <3> HIDE DEF own
    <3> QED
      BY PositionIsNat DEF Position
  <2>4. [x \in Task |-> at(x)] \in [Task -> Int]
    <3> HIDE DEF at
    <3> QED
      BY <2>3
  <2>5. WavefrontPlan = [owner |-> own, slot |-> [x \in Task |-> at(x)]]
    BY DEF WavefrontPlan
  <2>6. c = WavefrontPlan
    BY <1>6 DEF MaterializePlanPlacement
  <2> HIDE DEF own, at
  <2> QED
    BY <2>2, <2>4, <2>5, <2>6 DEF PlanType
<1>7. CASE mode = "cluster_split"
  <2>1. \A x \in Task : x.logical % Grid \in Int
    BY TaskFields
  <2>2. ClusterSplitOwner \in [Task -> Int]
    BY <2>1 DEF ClusterSplitOwner
  <2>3. c = StageMajorPlan(ClusterSplitOwner)
    BY <1>7 DEF MaterializePlanPlacement
  <2> QED
    BY <2>2, <2>3, StageMajorTyped
<1> QED
  BY <1>1, <1>2, <1>3, <1>4, <1>5, <1>6, <1>7 DEF PlacementMode

-----------------------------------------------------------------------------
(***************************************************************************)
(* The inductive invariant of the loop.  LiftingSound speaks of finished   *)
(* queues; here it is carried task by task, together with what `seen`      *)
(* stands for: the slot of a materialized task that does wait on the row.  *)
(***************************************************************************)
Planned == status \in {"materializing", "idle", "launched"}

Materialized(x) ==
    \/ plan.owner[x] < cursor.worker
    \/ plan.owner[x] = cursor.worker /\ plan.slot[x] < cursor.slot

PlanLegal == BuildPlanQueues(plan) /\ SameWorkerOrder(plan)

SeenSound ==
    \A w \in Worker : \A r \in Row : seen[w][r] # Unseen =>
        \E y \in Task : /\ plan.owner[y] = w /\ plan.slot[y] = seen[w][r]
                        /\ Materialized(y) /\ r \in waits[y]

CoveredSoFar ==
    \A x \in Task : Materialized(x) => \A p \in Predecessors(x) : Covered(p, x)

HostInv ==
    /\ HostTypeOK
    /\ status = "planning" => /\ cursor = [worker |-> 0, slot |-> 0]
                              /\ \A w \in Worker : \A r \in Row : seen[w][r] = Unseen
    /\ Planned => PlanLegal /\ SeenSound /\ CoveredSoFar
    /\ Planned => cursor.worker <= Grid
    /\ status \in {"idle", "launched"} => cursor.worker = Grid

LEMMA QueuePlaced ==
    ASSUME NEW c, BuildPlanQueues(c), NEW x \in Task
    PROVE  /\ c.owner[x] \in Worker
           /\ c.slot[x] \in Nat
           /\ Cardinality(QueueOf(c, c.owner[x])) \in Nat
           /\ c.slot[x] < Cardinality(QueueOf(c, c.owner[x]))
<1> DEFINE w == c.owner[x]
           Q == QueueOf(c, w)
<1>1. w \in Worker
  BY DEF BuildPlanQueues
<1>2. x \in Q
  BY DEF QueueOf
<1>3. Cardinality(Q) \in Nat
  BY PositionIsNat DEF QueueOf
<1>4. {c.slot[y] : y \in Q} = 0 .. (Cardinality(Q) - 1)
  BY <1>1 DEF BuildPlanQueues
<1>5. c.slot[x] \in 0 .. (Cardinality(Q) - 1)
  BY <1>2, <1>4
<1> QED
  BY <1>1, <1>3, <1>5

LEMMA PlanFacts ==
    ASSUME HostTypeOK, PlanLegal, NEW x \in Task
    PROVE  /\ plan.owner[x] \in Worker
           /\ plan.slot[x] \in Nat
           /\ plan.slot[x] < QueueLength(plan.owner[x])
           /\ \A y \in Task : SameWorker(y, x) /\ plan.slot[y] = plan.slot[x] => y = x
           /\ \A p \in Predecessors(x) : SameWorker(p, x) => plan.slot[p] < plan.slot[x]
           /\ QueueLength(plan.owner[x]) \in Nat
<1>1. /\ plan.owner[x] \in Worker
      /\ plan.slot[x] \in Nat
      /\ QueueLength(plan.owner[x]) \in Nat
      /\ plan.slot[x] < QueueLength(plan.owner[x])
  BY QueuePlaced DEF PlanLegal, QueueLength
<1>2. \A y \in Task : SameWorker(y, x) /\ plan.slot[y] = plan.slot[x] => y = x
  BY <1>1 DEF PlanLegal, BuildPlanQueues, SameWorker, QueueOf
<1>3. \A p \in Predecessors(x) : SameWorker(p, x) => plan.slot[p] < plan.slot[x]
  BY DEF PlanLegal, SameWorkerOrder, SameWorker
<1> QED
  BY <1>1, <1>2, <1>3

\* The occupied slots of a queue are exactly those below its length.
LEMMA SlotOccupied ==
    ASSUME HostTypeOK, PlanLegal, NEW w \in Worker,
           NEW k \in Nat, k < QueueLength(w)
    PROVE  \E x \in Task : plan.owner[x] = w /\ plan.slot[x] = k
<1> DEFINE Q == QueueOf(plan, w)
<1>1. Cardinality(Q) \in Nat
  BY PositionIsNat DEF QueueOf
<1>2. k \in 0 .. (Cardinality(Q) - 1)
  BY <1>1 DEF QueueLength
<1>3. k \in {plan.slot[y] : y \in Q}
  BY <1>2 DEF PlanLegal, BuildPlanQueues
<1> QED
  BY <1>3 DEF QueueOf

\* A windowed producer notifies the row of its group.
LEMMA WindowedRow ==
    ASSUME NEW x \in Task, NEW p \in RequiredTasks(x)
    PROVE  /\ p \in Task
           /\ [producer |-> p.stage, group |-> Group(p)] \in Row
           /\ p \in Members([producer |-> p.stage, group |-> Group(p)])
<1>1. PICK d \in Incoming(x.stage) : ~d.all /\ p.stage = d.producer
  BY DEF RequiredTasks
<1>2. p \in Task /\ NeedsFineEvents(p.stage)
  BY <1>1 DEF RequiredTasks, Incoming, NeedsFineEvents
<1>3. [producer |-> p.stage, group |-> Group(p)] \in Row
  BY <1>2 DEF Row
<1> QED
  BY <1>2, <1>3 DEF Members, NotifyRows

LEMMA AggregateRowMember ==
    ASSUME NEW s \in Stage, NEW d \in Incoming(s), d.all
    PROVE  /\ [producer |-> d.producer, group |-> WholeStage] \in Row
           /\ \A p \in Task : p.stage = d.producer =>
                p \in Members([producer |-> d.producer, group |-> WholeStage])
<1>1. d.producer \in Stage /\ NeedsAggregateEvent(d.producer)
  BY GraphAssumption DEF Incoming, NeedsAggregateEvent
<1>2. [producer |-> d.producer, group |-> WholeStage] \in Row
  BY <1>1 DEF Row
<1> QED
  BY <1>2 DEF Members, NotifyRows

LEMMA DesiredRows ==
    ASSUME NEW x \in Task
    PROVE  Desired(x) \subseteq Row
<1>1. x.stage \in Stage
  BY TaskFields
<1>2. \A d \in Incoming(x.stage) : d.all =>
        [producer |-> d.producer, group |-> WholeStage] \in Row
  BY <1>1, AggregateRowMember
<1>3. \A p \in PolledTasks(x) : [producer |-> p.stage, group |-> Group(p)] \in Row
  BY WindowedRow DEF PolledTasks
<1> QED
  BY <1>2, <1>3 DEF Desired

\* Each dependency of a task is sorted into one of the three treatments.
LEMMA DependencySorted ==
    ASSUME NEW x \in Task, NEW p \in Predecessors(x)
    PROVE  \/ p \in FifoTasks(x)
           \/ p \in LocalTasks(x)
           \/ \E r \in Desired(x) : p \in Members(r)
<1>1. PICK d \in Incoming(x.stage) :
        p.stage = d.producer /\ p.logical \in RuntimeDependencyBounds(d, x.logical)
  BY DEF Predecessors
<1>2. p \in Task
  BY DEF Predecessors
<1>3. CASE d.all
  <2>1. [producer |-> d.producer, group |-> WholeStage] \in Desired(x)
    BY <1>3 DEF Desired
  <2>2. p \in Members([producer |-> d.producer, group |-> WholeStage])
    BY <1>1, <1>2, <1>3, TaskFields, AggregateRowMember
  <2> QED
    BY <2>1, <2>2
<1>4. CASE ~d.all
  <2>1. p \in RequiredTasks(x)
    BY <1>1, <1>2, <1>4 DEF RequiredTasks
  <2>2. CASE p \in FifoTasks(x) \cup LocalTasks(x)
    BY <2>2
  <2>3. CASE p \notin FifoTasks(x) \cup LocalTasks(x)
    <3>1. p \in PolledTasks(x)
      BY <2>1, <2>3 DEF PolledTasks
    <3>2. [producer |-> p.stage, group |-> Group(p)] \in Desired(x)
      BY <3>1 DEF Desired
    <3> QED
      BY <2>1, <3>2, WindowedRow
  <2> QED
    BY <2>2, <2>3
<1> QED
  BY <1>3, <1>4

-----------------------------------------------------------------------------
LEMMA HostInit_HostInv ==
    ASSUME HostInit
    PROVE  HostInv
<1>1. HostTypeOK
  BY PlanAssumption, WindowAssumption
     DEF HostInit, HostTypeOK, HostStatus, NoPlan, Worker, Unseen
<1> QED
  BY <1>1 DEF HostInit, HostInv, Planned

\* Nothing of the loop's state changes, and the status only moves on.
LEMMA HostStutter ==
    ASSUME HostInv, UNCHANGED <<plan, cursor, waits, local, seen>>,
           \/ status' = status
           \/ status \in {"idle", "launched"} /\ status' \in {"idle", "launched"}
    PROVE  HostInv'
BY DEF HostInv, HostTypeOK, HostStatus, Planned, PlanLegal, SeenSound, CoveredSoFar,
       Covered, Materialized, SameWorker, BuildPlanQueues, SameWorkerOrder, QueueOf

LEMMA AcceptPlan_HostInv ==
    ASSUME HostInv, status = "planning", NEW mode \in PlacementMode,
           NEW c \in MaterializePlanPlacement(mode), AcceptPlan(c)
    PROVE  HostInv'
<1>1. c \in PlanType
  BY CandidateTyped
<1>2. HostTypeOK'
  BY <1>1 DEF AcceptPlan, HostInv, HostTypeOK, HostStatus, PlanType
<1>3. PlanLegal'
  BY DEF AcceptPlan, CheckPlanLegality, PlanLegal, BuildPlanQueues, SameWorkerOrder, QueueOf
<1>4. cursor' = [worker |-> 0, slot |-> 0]
  BY DEF AcceptPlan, HostInv
<1>5. \A x \in Task : ~Materialized(x)'
  <2> SUFFICES ASSUME NEW x \in Task
               PROVE  ~Materialized(x)'
    OBVIOUS
  <2>1. c.owner[x] \in 0 .. (Grid - 1) /\ c.slot[x] \in Nat
    BY QueuePlaced DEF AcceptPlan, Worker
  <2> QED
    BY <1>4, <2>1, PlanAssumption DEF AcceptPlan, Materialized
<1>6. SeenSound'
  BY DEF AcceptPlan, HostInv, SeenSound
<1>7. CoveredSoFar'
  BY <1>5 DEF CoveredSoFar
<1> QED
  BY <1>2, <1>3, <1>4, <1>6, <1>7, PlanAssumption DEF AcceptPlan, HostInv, Planned

LEMMA RejectPlan_HostInv ==
    ASSUME HostInv, status = "planning", NEW c, RejectPlan(c)
    PROVE  HostInv'
BY DEF RejectPlan, HostInv, HostTypeOK, HostStatus, Planned

\* Distances that enter a local mask fit its W - 1 bits.
LEMMA LocalDistancesFit ==
    ASSUME HostTypeOK, PlanLegal, NEW x \in Task
    PROVE  LocalDistances(x) \subseteq 1 .. (Window - 1)
<1> SUFFICES ASSUME NEW p \in LocalTasks(x)
             PROVE  plan.slot[x] - plan.slot[p] \in 1 .. (Window - 1)
  BY DEF LocalDistances
<1>1. p \in Task /\ SameWorker(p, x) /\ ~BeyondWindow(plan.slot[p], plan.slot[x])
  BY DEF LocalTasks, FifoTasks, RequiredTasks, Elidable
<1>2. p \in Predecessors(x)
  BY DEF LocalTasks, RequiredTasks, Predecessors
<1>3. plan.slot[p] \in Nat /\ plan.slot[x] \in Nat /\ plan.slot[p] < plan.slot[x]
  BY <1>1, <1>2, PlanFacts
<1> QED
  BY <1>1, <1>3, WindowAssumption DEF BeyondWindow

LEMMA MaterializeTask_HostInv ==
    ASSUME HostInv, NEW x \in Task, MaterializeTask(x)
    PROVE  HostInv'
<1> DEFINE w == cursor.worker
<1>1. HostTypeOK /\ PlanLegal /\ SeenSound /\ CoveredSoFar
  BY DEF HostInv, Planned, MaterializeTask
<1>2. plan' = plan /\ status' = status /\ cursor' = [cursor EXCEPT !.slot = cursor.slot + 1]
  BY DEF MaterializeTask
<1>3. plan.owner[x] = w /\ plan.slot[x] = cursor.slot /\ w \in Worker
  BY <1>1, PlanFacts DEF MaterializeTask
<1>4. cursor'.worker = w /\ cursor'.slot = cursor.slot + 1
      /\ w \in Nat /\ cursor.slot \in Nat
  BY <1>1, <1>2 DEF HostTypeOK
<1>5. EmittedWaits(x) \subseteq Row
  BY DesiredRows DEF EmittedWaits
<1>6. HostTypeOK'
  <2>1. cursor' \in [worker : Nat, slot : Nat]
    BY <1>1, <1>2 DEF HostTypeOK
  <2>2. waits' \in [Task -> SUBSET Row]
    BY <1>1, <1>5 DEF HostTypeOK, MaterializeTask
  <2>3. local' \in [Task -> SUBSET (1 .. (Window - 1))]
    BY <1>1, LocalDistancesFit DEF HostTypeOK, MaterializeTask
  <2>4. seen' \in [Worker -> [Row -> Int]]
    BY <1>1, <1>3, PlanFacts DEF HostTypeOK, MaterializeTask
  <2> QED
    BY <1>1, <1>2, <2>1, <2>2, <2>3, <2>4 DEF HostTypeOK
<1>7. PlanLegal'
  BY <1>1, <1>2 DEF PlanLegal
<1>8. ~Materialized(x)
  BY <1>3, <1>4 DEF Materialized
<1>9. \A y \in Task : Materialized(y)' <=> Materialized(y) \/ y = x
  <2> SUFFICES ASSUME NEW y \in Task
               PROVE  Materialized(y)' <=> Materialized(y) \/ y = x
    OBVIOUS
  <2>1. plan.slot[y] \in Nat /\ (plan.owner[y] = w /\ plan.slot[y] = cursor.slot => y = x)
    BY <1>1, <1>3, PlanFacts DEF SameWorker
  <2> QED
    BY <1>2, <1>3, <1>4, <2>1 DEF Materialized
<1>10. /\ \A y \in Task : y # x => waits'[y] = waits[y] /\ local'[y] = local[y]
       /\ waits'[x] = EmittedWaits(x) /\ local'[x] = LocalDistances(x)
  BY <1>1 DEF HostTypeOK, MaterializeTask
<1>11. SeenSound'
  <2> SUFFICES ASSUME NEW v \in Worker, NEW r \in Row, seen'[v][r] # Unseen
               PROVE  \E y \in Task : /\ plan'.owner[y] = v /\ plan'.slot[y] = seen'[v][r]
                                      /\ Materialized(y)' /\ r \in waits'[y]
    BY DEF SeenSound
  <2>1. seen'[v][r] = IF v = w /\ r \in EmittedWaits(x) THEN plan.slot[x] ELSE seen[v][r]
    BY <1>1, <1>3 DEF HostTypeOK, MaterializeTask
  <2>2. CASE v = w /\ r \in EmittedWaits(x)
    BY <1>2, <1>3, <1>9, <1>10, <2>1, <2>2
  <2>3. CASE ~(v = w /\ r \in EmittedWaits(x))
    <3>1. PICK y \in Task : /\ plan.owner[y] = v /\ plan.slot[y] = seen[v][r]
                            /\ Materialized(y) /\ r \in waits[y]
      BY <1>1, <2>1, <2>3 DEF SeenSound
    <3> QED
      BY <1>2, <1>8, <1>9, <1>10, <2>1, <2>3, <3>1
  <2> QED
    BY <2>2, <2>3
<1>12. \A p \in Predecessors(x) : Covered(p, x)'
  <2> SUFFICES ASSUME NEW p \in Predecessors(x)
               PROVE  Covered(p, x)'
    OBVIOUS
  <2>1. CASE p \in FifoTasks(x)
    BY <1>2, <2>1 DEF FifoTasks, Elidable, Covered, SameWorker, BeyondWindow
  <2>2. CASE p \in LocalTasks(x)
    BY <1>2, <1>10, <2>2 DEF LocalTasks, LocalDistances, Elidable, Covered, SameWorker
  <2>3. CASE \E r \in Desired(x) : p \in Members(r)
    <3>1. PICK r \in Desired(x) : p \in Members(r)
      BY <2>3
    <3>2. r \in Row
      BY DesiredRows
    <3>3. CASE r \in EmittedWaits(x)
      BY <1>2, <1>10, <3>1, <3>3 DEF Covered, SameWorker
    <3>4. CASE r \notin EmittedWaits(x)
      <4>1. seen[w][r] # Unseen /\ ~(seen[w][r] + Window > plan.slot[x])
        BY <1>3, <3>4 DEF EmittedWaits, MustEmit
      <4>2. PICK y \in Task : /\ plan.owner[y] = w /\ plan.slot[y] = seen[w][r]
                              /\ Materialized(y) /\ r \in waits[y]
        BY <1>1, <1>3, <3>2, <4>1 DEF SeenSound
      <4>3. BeyondWindow(plan.slot[y], plan.slot[x])
        BY <1>1, <4>1, <4>2, PlanFacts, WindowAssumption DEF BeyondWindow
      <4>4. r \in waits'[y]
        BY <1>8, <1>10, <4>2
      <4> QED
        BY <1>2, <1>3, <3>1, <4>2, <4>3, <4>4 DEF Covered, SameWorker, BeyondWindow
    <3> QED
      BY <3>3, <3>4
  <2> QED
    BY <2>1, <2>2, <2>3, DependencySorted
<1>13. CoveredSoFar'
  <2> SUFFICES ASSUME NEW z \in Task, Materialized(z), z # x, NEW p \in Predecessors(z)
               PROVE  Covered(p, z)'
    BY <1>8, <1>9, <1>12 DEF CoveredSoFar
  <2>1. Covered(p, z)
    BY <1>1 DEF CoveredSoFar
  <2>2. ASSUME NEW y \in Task, NEW r \in waits[y], SameWorker(y, z), p \in Members(r),
               y = z \/ BeyondWindow(plan.slot[y], plan.slot[z])
        PROVE  Covered(p, z)'
    <3>1. plan.slot[y] \in Nat /\ plan.slot[z] \in Nat
      BY <1>1, PlanFacts
    <3>2. Materialized(y)
      BY <2>2, <3>1, <1>4, WindowAssumption DEF Materialized, SameWorker, BeyondWindow
    <3> QED
      BY <1>2, <1>8, <1>10, <2>2, <3>2 DEF Covered, SameWorker, BeyondWindow
  <2> QED
    BY <1>2, <1>10, <2>1, <2>2 DEF Covered, SameWorker, BeyondWindow
<1> QED
  BY <1>2, <1>4, <1>6, <1>7, <1>11, <1>13 DEF HostInv, Planned, MaterializeTask

LEMMA NextWorker_HostInv ==
    ASSUME HostInv, NextWorker
    PROVE  HostInv'
<1>1. HostTypeOK /\ PlanLegal /\ SeenSound /\ CoveredSoFar
  BY DEF HostInv, Planned, NextWorker
<1>2. /\ cursor.worker \in 0 .. (Grid - 1) /\ cursor.slot = QueueLength(cursor.worker)
      /\ cursor' = [worker |-> cursor.worker + 1, slot |-> 0]
      /\ UNCHANGED <<status, plan, waits, local, seen>>
  BY DEF NextWorker, Worker
<1>3. \A y \in Task : Materialized(y)' <=> Materialized(y)
  <2> SUFFICES ASSUME NEW y \in Task
               PROVE  Materialized(y)' <=> Materialized(y)
    OBVIOUS
  <2>1. /\ plan.owner[y] \in 0 .. (Grid - 1) /\ plan.slot[y] \in Nat
        /\ plan.slot[y] < QueueLength(plan.owner[y])
    BY <1>1, PlanFacts DEF Worker
  <2> QED
    BY <1>2, <2>1, PlanAssumption DEF Materialized
<1>4. HostTypeOK'
  BY <1>1, <1>2 DEF HostTypeOK
<1>6. PlanLegal'
  BY <1>1, <1>2 DEF PlanLegal
<1>7. cursor'.worker <= Grid
  BY <1>2, PlanAssumption
<1>5. SeenSound' /\ CoveredSoFar'
  BY <1>1, <1>2, <1>3 DEF SeenSound, CoveredSoFar, Covered, SameWorker
<1>8. status' = "materializing"
  BY DEF NextWorker
<1> QED
  BY <1>4, <1>5, <1>6, <1>7, <1>8 DEF HostInv, Planned

LEMMA UploadSchedule_HostInv ==
    ASSUME HostInv, UploadSchedule
    PROVE  HostInv'
<1>1. HostTypeOK /\ PlanLegal /\ SeenSound /\ CoveredSoFar
  BY DEF HostInv, Planned, UploadSchedule
<1>2. /\ status' = "idle" /\ cursor.worker = Grid
      /\ UNCHANGED <<plan, cursor, waits, local, seen>>
  BY DEF UploadSchedule
<1>3. HostTypeOK'
  BY <1>1, <1>2 DEF HostTypeOK, HostStatus
<1>4. PlanLegal'
  BY <1>1, <1>2 DEF PlanLegal
<1>5. SeenSound' /\ CoveredSoFar'
  BY <1>1, <1>2 DEF SeenSound, CoveredSoFar, Covered, Materialized, SameWorker
<1>6. cursor'.worker = Grid /\ cursor'.worker <= Grid
  BY <1>2, PlanAssumption
<1> QED
  BY <1>2, <1>3, <1>4, <1>5, <1>6 DEF HostInv, Planned

LEMMA HostNext_HostInv ==
    ASSUME HostInv, HostNext
    PROVE  HostInv'
<1>1. CASE \E x \in Task : MaterializeTask(x)
  BY <1>1, MaterializeTask_HostInv
<1>2. CASE NextWorker
  BY <1>2, NextWorker_HostInv
<1>3. CASE UploadSchedule
  BY <1>3, UploadSchedule_HostInv
<1>4. ASSUME status = "planning", NEW mode \in PlacementMode,
             NEW c \in MaterializePlanPlacement(mode),
             AcceptPlan(c) \/ RejectPlan(c)
      PROVE  HostInv'
  BY <1>4, AcceptPlan_HostInv, RejectPlan_HostInv
<1> QED
  BY <1>1, <1>2, <1>3, <1>4 DEF HostNext

\* Once the queues are written every dependency is covered.
LEMMA HostInv_LiftingSound ==
    ASSUME HostInv
    PROVE  LiftingSound
<1> SUFFICES ASSUME status \in {"idle", "launched"}, NEW x \in Task,
                    NEW p \in Predecessors(x)
             PROVE  Covered(p, x)
  BY DEF LiftingSound
<1>1. HostTypeOK /\ PlanLegal /\ CoveredSoFar /\ cursor.worker = Grid
  BY DEF HostInv, Planned
<1>2. plan.owner[x] \in 0 .. (Grid - 1)
  BY <1>1, PlanFacts DEF Worker
<1>3. Materialized(x)
  BY <1>1, <1>2, PlanAssumption DEF Materialized
<1> QED
  BY <1>1, <1>3 DEF CoveredSoFar

-----------------------------------------------------------------------------
(***************************************************************************)
(* The executor.                                                           *)
(***************************************************************************)
Active(w) == pc[w] \in {"run", "notify"}

\* The slots the worker has recorded as complete.
Done(x) ==
    \/ plan.slot[x] < head[plan.owner[x]]
    \/ (plan.slot[x] - head[plan.owner[x]]) \in mask[plan.owner[x]]

Held(x) == Active(plan.owner[x]) /\ cur[plan.owner[x]] = x

\* x has ended but its NotifyTask has not reached row r yet.
Owing(x, r) == r \in toArrive[plan.owner[x]] /\ cur[plan.owner[x]] = x

Uncounted(r) == ~RedPublish /\ SoloRow(r)

DeviceTypeOK ==
    /\ iteration \in Nat
    /\ pc \in [Worker -> {"acquire", "run", "notify"}]
    /\ head \in [Worker -> Nat]
    /\ mask \in [Worker -> SUBSET (1 .. (Window - 1))]
    /\ taken \in [Worker -> Nat]
    /\ probe \in [Worker -> 0 .. Window]
    /\ cur \in [Worker -> Task \cup {NoTask}]
    /\ toArrive \in [Worker -> SUBSET Row]
    /\ toPublish \in [Worker -> SUBSET Row]
    /\ publication \in Publications
    /\ arrivals \in [Row -> Nat]
    /\ epoch \in [Row -> Nat]
    /\ finished \subseteq Task
    /\ arrived \in [Row -> SUBSET Task]

Launched == status = "launched"

\* Nothing on the device moves before the queues are written; between
\* launches every worker is back at the top of its loop and the history is
\* that of no launch or of a whole one.
Between ==
    /\ status \notin {"idle", "launched"} => DeviceInit
    /\ ~Launched => \A w \in Worker : pc[w] = "acquire"
    /\ status = "idle" => finished \in {{}, Task}

\* Rows are owed only while the worker is notifying.
Outbox ==
    \A w \in Worker :
        /\ pc[w] # "notify" => toArrive[w] = {} /\ toPublish[w] = {}
        /\ toArrive[w] \subseteq NotifyRows(cur[w])

\* A held task sits in its worker's window, not yet complete, with the local
\* distances that led to it complete.
Holding ==
    \A w \in Worker : Active(w) =>
        /\ cur[w] \in Task
        /\ plan.owner[cur[w]] = w
        /\ ~Done(cur[w])
        /\ plan.slot[cur[w]] < head[w] + Window
        /\ \A y \in Task :
              SameWorker(y, cur[w]) /\ (plan.slot[cur[w]] - plan.slot[y]) \in local[cur[w]]
                  => Done(y)

History ==
    Launched => \A x \in Task :
        x \in finished <=> Done(x) \/ (Held(x) /\ pc[plan.owner[x]] = "notify")

ArrivedExact ==
    Launched => \A r \in Row :
        /\ arrived[r] \subseteq Members(r)
        /\ \A x \in Members(r) : x \in arrived[r] <=> x \in finished /\ ~Owing(x, r)

Consumed ==
    Launched => \A w \in Worker :
        taken[w] = Cardinality({x \in QueueOf(plan, w) : Done(x)})

\* Monotone counters: the launch's base plus this launch's arrivals.
Counted ==
    \A r \in Row :
        arrivals[r] = IF Uncounted(r) THEN 0
                      ELSE RawEventTriggers(r) * iteration
                             + (IF Launched THEN Cardinality(arrived[r]) ELSE 0)

EpochSound ==
    \A r \in Row :
        /\ epoch[r] <= iteration + 1
        /\ epoch[r] = iteration + 1 => Launched /\ arrived[r] = Members(r)

LastArriver == \A w \in Worker : \A r \in toPublish[w] : arrived[r] = Members(r)

Checked ==
    Launched => \A x \in Task :
        x \in finished \/ Held(x) => \A r \in waits[x] : EventReady(r)

DeviceInv ==
    /\ DeviceTypeOK
    /\ Between
    /\ Outbox
    /\ Holding
    /\ History
    /\ ArrivedExact
    /\ Consumed
    /\ Counted
    /\ EpochSound
    /\ LastArriver
    /\ Checked

IInv == HostInv /\ DeviceInv

-----------------------------------------------------------------------------
(***************************************************************************)
(* Facts about one state.                                                  *)
(***************************************************************************)
LEMMA TriggersAreNat ==
    ASSUME NEW r \in Row
    PROVE  RawEventTriggers(r) \in Nat /\ RawEventTriggers(r) = Cardinality(Members(r))
BY TriggersCountMembers, FS_CardinalityType

\* A row whose arrivals are as many as its members has them all.
LEMMA FullRow ==
    ASSUME NEW r \in Row, NEW A \in SUBSET Members(r)
    PROVE  /\ IsFiniteSet(A) /\ Cardinality(A) \in Nat
           /\ Cardinality(A) <= RawEventTriggers(r)
           /\ Cardinality(A) = RawEventTriggers(r) => A = Members(r)
BY TriggersCountMembers, FS_Subset, FS_CardinalityType

LEMMA IInvFacts ==
    ASSUME IInv
    PROVE  /\ HostTypeOK /\ DeviceTypeOK /\ HostInv /\ Between /\ Outbox /\ Holding
           /\ (Launched \/ status = "idle") => PlanLegal
           /\ Launched => LiftingSound
           /\ \A w \in Worker : Active(w) => Launched
BY HostInv_LiftingSound DEF IInv, DeviceInv, HostInv, Planned, Launched, Between, Active,
                            DeviceInit, DeviceTypeOK

\* In one queue a task is told from another by its slot.
LEMMA HeldByOne ==
    ASSUME IInv, NEW w \in Worker, Active(w)
    PROVE  /\ Launched /\ PlanLegal
           /\ cur[w] \in Task /\ plan.owner[cur[w]] = w /\ Held(cur[w])
           /\ plan.slot[cur[w]] \in Nat /\ head[w] \in Nat
           /\ head[w] <= plan.slot[cur[w]] /\ plan.slot[cur[w]] < head[w] + Window
           /\ (plan.slot[cur[w]] - head[w]) \notin mask[w]
           /\ \A x \in Task : plan.owner[x] = w /\ plan.slot[x] = plan.slot[cur[w]]
                                => x = cur[w]
<1>1. Launched /\ PlanLegal /\ HostTypeOK /\ DeviceTypeOK
  BY IInvFacts
<1>2. /\ cur[w] \in Task /\ plan.owner[cur[w]] = w /\ ~Done(cur[w])
      /\ plan.slot[cur[w]] < head[w] + Window
  BY IInvFacts DEF Holding
<1>3. plan.slot[cur[w]] \in Nat /\ head[w] \in Nat
  BY <1>1, <1>2, PlanFacts DEF DeviceTypeOK
<1>4. \A x \in Task : plan.owner[x] = w /\ plan.slot[x] = plan.slot[cur[w]] => x = cur[w]
  BY <1>1, <1>2, PlanFacts DEF SameWorker
<1> QED
  BY <1>1, <1>2, <1>3, <1>4 DEF Held, Done

\* A row that reads complete is complete.
LEMMA ReadyIsComplete ==
    ASSUME IInv, Launched, NEW r \in Row, EventReady(r)
    PROVE  arrived[r] = Members(r) /\ Members(r) \subseteq finished
<1>1. DeviceTypeOK /\ ArrivedExact /\ Counted /\ EpochSound
  BY DEF IInv, DeviceInv
<1>2. arrived[r] \in SUBSET Members(r)
  BY <1>1 DEF ArrivedExact
<1>3. iteration \in Nat /\ epoch[r] \in Nat
  BY <1>1 DEF DeviceTypeOK
<1>4. arrived[r] = Members(r)
  <2>1. CASE RedPublish
    <3> DEFINE T == RawEventTriggers(r)
               n == Cardinality(arrived[r])
    <3>1. arrivals[r] = T * iteration + n /\ arrivals[r] >= T * (iteration + 1)
      BY <1>1, <2>1 DEF Counted, Uncounted, EventReady
    <3>2. T \in Nat /\ n \in Nat /\ n <= T
      BY <1>2, FullRow, TriggersAreNat
    <3> HIDE DEF T, n
    <3>3. n = T
      BY <1>3, <3>1, <3>2, SMT
    <3> QED
      BY <1>2, <3>3, FullRow DEF T, n
  <2>2. CASE ~RedPublish
    <3>1. epoch[r] = iteration + 1
      BY <1>1, <1>3, <2>2 DEF EpochSound, EventReady
    <3> QED
      BY <1>1, <3>1 DEF EpochSound
  <2> QED
    BY <2>1, <2>2
<1> QED
  BY <1>1, <1>4 DEF ArrivedExact

\* A build publishes its rows one way only.
LEMMA SamePublication ==
    ASSUME publication' = publication
    PROVE  /\ RedPublish' <=> RedPublish
           /\ \A r : Uncounted(r)' <=> Uncounted(r)
BY DEF RedPublish, Uncounted

-----------------------------------------------------------------------------
(***************************************************************************)
(* What the invariant gives a reader.                                      *)
(***************************************************************************)
LEMMA IInv_TypeOK ==
    ASSUME IInv
    PROVE  TypeOK
BY DEF IInv, HostInv, DeviceInv, DeviceTypeOK, TypeOK

LEMMA IInv_EventSound ==
    ASSUME IInv
    PROVE  EventSound
BY ReadyIsComplete DEF EventSound, Launched

LEMMA IInv_WindowPrefix ==
    ASSUME IInv
    PROVE  WindowPrefix
<1> SUFFICES ASSUME NEW w \in Worker, pc[w] = "run", NEW y \in QueueOf(plan, w),
                    BeyondWindow(plan.slot[y], plan.slot[cur[w]])
             PROVE  y \in finished
  BY DEF WindowPrefix
<1>1. y \in Task /\ plan.owner[y] = w
  BY DEF QueueOf
<1>2. /\ Launched /\ HostTypeOK /\ PlanLegal
      /\ plan.slot[cur[w]] \in Nat /\ head[w] \in Nat
      /\ plan.slot[cur[w]] < head[w] + Window
  BY IInvFacts, HeldByOne DEF Active
<1>3. plan.slot[y] \in Nat
  BY <1>1, <1>2, PlanFacts
<1>4. Done(y)
  BY <1>1, <1>2, <1>3, WindowAssumption DEF BeyondWindow, Done
<1> QED
  BY <1>1, <1>2, <1>4 DEF IInv, DeviceInv, History

LEMMA IInv_DependencySafety ==
    ASSUME IInv
    PROVE  DependencySafety
<1> SUFFICES ASSUME NEW w \in Worker, pc[w] = "run", NEW p \in Predecessors(cur[w])
             PROVE  p \in finished
  BY DEF DependencySafety
<1> DEFINE x == cur[w]
<1>1. /\ Launched /\ HostTypeOK /\ PlanLegal /\ LiftingSound
      /\ x \in Task /\ plan.owner[x] = w /\ Held(x)
      /\ plan.slot[x] \in Nat /\ head[w] \in Nat /\ plan.slot[x] < head[w] + Window
  BY IInvFacts, HeldByOne DEF Active
<1>2. p \in Task
  BY DEF Predecessors
<1>3. \A y \in Task : Done(y) => y \in finished
  BY <1>1 DEF IInv, DeviceInv, History
<1>4. \A y \in Task : SameWorker(y, x) /\ BeyondWindow(plan.slot[y], plan.slot[x]) => Done(y)
  <2> SUFFICES ASSUME NEW y \in Task, SameWorker(y, x),
                      BeyondWindow(plan.slot[y], plan.slot[x])
               PROVE  Done(y)
    OBVIOUS
  <2>1. plan.slot[y] \in Nat /\ plan.owner[y] = w
    BY <1>1, PlanFacts DEF SameWorker
  <2> QED
    BY <1>1, <2>1, WindowAssumption DEF BeyondWindow, Done
<1>5. Covered(p, x)
  BY <1>1, <1>2 DEF LiftingSound, Launched
<1>6. CASE SameWorker(p, x) /\ BeyondWindow(plan.slot[p], plan.slot[x])
  BY <1>2, <1>3, <1>4, <1>6
<1>7. CASE SameWorker(p, x) /\ (plan.slot[x] - plan.slot[p]) \in local[x]
  <2>1. Done(p)
    BY <1>2, <1>7, IInvFacts DEF Holding, Active
  <2> QED
    BY <1>2, <1>3, <2>1
<1>8. ASSUME NEW y \in Task, NEW r \in waits[y], SameWorker(y, x),
             y = x \/ BeyondWindow(plan.slot[y], plan.slot[x]), p \in Members(r)
      PROVE  p \in finished
  <2>1. y \in finished \/ Held(y)
    BY <1>1, <1>3, <1>4, <1>8
  <2>2. r \in Row
    BY <1>1 DEF HostTypeOK
  <2>3. EventReady(r)
    BY <1>1, <2>1 DEF IInv, DeviceInv, Checked
  <2> QED
    BY <1>1, <1>8, <2>2, <2>3, ReadyIsComplete
<1> QED
  BY <1>5, <1>6, <1>7, <1>8 DEF Covered

-----------------------------------------------------------------------------
(***************************************************************************)
(* The invariant is inductive: the steps of the host.                      *)
(***************************************************************************)
LEMMA Init_IInv ==
    ASSUME Init
    PROVE  IInv
<1>1. HostInv /\ status = "planning"
  BY HostInit_HostInv DEF Init, HostInit
<1>2. DeviceTypeOK
  BY WindowAssumption DEF Init, DeviceInit, DeviceTypeOK
<1>3. Counted
  BY <1>1, TriggersAreNat DEF Init, DeviceInit, Counted, Launched
<1>4. EpochSound /\ LastArriver
  BY DEF Init, DeviceInit, EpochSound, LastArriver
<1>5. Between /\ Outbox /\ Holding
  BY <1>1 DEF Init, DeviceInit, Between, Outbox, Holding, Active, Launched
<1>6. History /\ ArrivedExact /\ Consumed /\ Checked
  BY <1>1 DEF History, ArrivedExact, Consumed, Checked, Launched
<1> QED
  BY <1>1, <1>2, <1>3, <1>4, <1>5, <1>6 DEF IInv, DeviceInv

LEMMA HostNext_IInv ==
    ASSUME IInv, HostNext, UNCHANGED deviceVars
    PROVE  IInv'
<1> USE DEF deviceVars, workerVars, eventVars, historyVars
<1>1. HostInv'
  BY HostNext_HostInv DEF IInv
<1>2. status \notin {"idle", "launched"} /\ status' # "launched"
  BY DEF HostNext, AcceptPlan, RejectPlan, MaterializeTask, NextWorker, UploadSchedule
<1>3. DeviceInit /\ DeviceTypeOK /\ Counted /\ EpochSound /\ LastArriver
  BY <1>2 DEF IInv, DeviceInv, Between
<1>4. DeviceInit' /\ DeviceTypeOK'
  BY <1>3 DEF DeviceInit, DeviceTypeOK
<1>5. Counted'
  BY <1>2, <1>3, SamePublication DEF Counted, Launched
<1>6. EpochSound' /\ LastArriver'
  BY <1>2, <1>3 DEF EpochSound, LastArriver, Launched
<1>7. Between' /\ Outbox' /\ Holding'
  BY <1>2, <1>4 DEF DeviceInit, Between, Outbox, Holding, Active, Launched
<1>8. History' /\ ArrivedExact' /\ Consumed' /\ Checked'
  BY <1>2 DEF History, ArrivedExact, Consumed, Checked, Launched
<1> QED
  BY <1>1, <1>4, <1>5, <1>6, <1>7, <1>8 DEF IInv, DeviceInv

LEMMA LaunchL2_IInv ==
    ASSUME IInv, LaunchL2
    PROVE  IInv'
<1> USE DEF eventVars
<1>1. HostInv'
  BY HostStutter DEF LaunchL2, IInv
<1>2. status = "idle" /\ status' = "launched" /\ ~Launched /\ PlanLegal /\ HostTypeOK
  BY IInvFacts DEF LaunchL2, Launched
<1>3. /\ DeviceTypeOK /\ Between /\ Outbox /\ Counted /\ EpochSound /\ LastArriver
  BY DEF IInv, DeviceInv
<1>4. DeviceTypeOK'
  BY <1>3, WindowAssumption DEF LaunchL2, DeviceTypeOK
<1>5. /\ \A w \in Worker : toArrive[w] = {} /\ toPublish[w] = {}
      /\ toArrive' = toArrive /\ toPublish' = toPublish
      /\ \A w \in Worker : pc'[w] = "acquire" /\ head'[w] = 0 /\ mask'[w] = {} /\ taken'[w] = 0
      /\ plan' = plan /\ cur' = cur /\ iteration' = iteration /\ arrivals' = arrivals
      /\ publication' = publication /\ epoch' = epoch /\ finished' = {} /\ \A r \in Row : arrived'[r] = {}
  BY <1>2, <1>3 DEF LaunchL2, Between, Outbox
<1>6. \A x \in Task : plan.owner[x] \in Worker /\ plan.slot[x] \in Nat
  BY <1>2, PlanFacts
<1>7. \A x \in Task : ~Done(x)' /\ ~Held(x)'
  BY <1>5, <1>6 DEF Done, Held, Active
<1>8. Between' /\ Outbox' /\ Holding'
  BY <1>2, <1>5 DEF Between, Outbox, Holding, Active, Launched
<1>9. History'
  BY <1>5, <1>7 DEF History
<1>10. ArrivedExact' /\ LastArriver'
  BY <1>5, MembersInTask DEF ArrivedExact, LastArriver
<1>11. Consumed'
  <2> SUFFICES ASSUME NEW w \in Worker
               PROVE  taken'[w] = Cardinality({x \in QueueOf(plan', w) : Done(x)'})
    BY DEF Consumed
  <2>1. {x \in QueueOf(plan', w) : Done(x)'} = {}
    BY <1>7 DEF QueueOf
  <2> QED
    BY <1>5, <2>1, FS_EmptySet
<1>12. Counted'
  <2> SUFFICES ASSUME NEW r \in Row
               PROVE  arrivals'[r] = IF Uncounted(r) THEN 0
                                     ELSE RawEventTriggers(r) * iteration'
                                          + (IF Launched' THEN Cardinality(arrived'[r]) ELSE 0)
    BY <1>5, SamePublication DEF Counted
  <2>1. arrivals[r] = IF Uncounted(r) THEN 0 ELSE RawEventTriggers(r) * iteration + 0
    BY <1>2, <1>3 DEF Counted
  <2>2. Cardinality(arrived'[r]) = 0
    BY <1>5, FS_EmptySet
  <2> QED
    BY <1>5, <2>1, <2>2
<1>13. EpochSound'
  BY <1>2, <1>3, <1>5 DEF EpochSound
<1>14. Checked'
  BY <1>5, <1>7 DEF Checked
<1> QED
  BY <1>1, <1>4, <1>8, <1>9, <1>10, <1>11, <1>12, <1>13, <1>14 DEF IInv, DeviceInv

\* A worker whose queue loop has ended has completed every task it owns.
LEMMA QueueDoneMeans ==
    ASSUME IInv, Launched, NEW w \in Worker, QueueDone(w)
    PROVE  \A x \in Task : plan.owner[x] = w => Done(x)
<1> DEFINE Q == QueueOf(plan, w)
           D == {x \in Q : Done(x)}
<1>1. taken[w] = Cardinality(D)
  BY DEF IInv, DeviceInv, Consumed
<1>2. Cardinality(D) = Cardinality(Q)
  BY <1>1 DEF QueueDone, QueueLength
<1>3. Q \in SUBSET Task /\ D \in SUBSET Q
  BY DEF QueueOf
<1>4. D = Q
  <2> HIDE DEF D, Q
  <2> QED
    BY <1>2, <1>3, TaskFinite, FS_Subset
<1> QED
  BY <1>4 DEF QueueOf

LEMMA EndLaunch_IInv ==
    ASSUME IInv, EndLaunch
    PROVE  IInv'
<1> USE DEF workerVars, eventVars, historyVars
<1>1. HostInv'
  BY HostStutter DEF EndLaunch, IInv
<1>2. Launched /\ status' = "idle" /\ ~Launched' /\ PlanLegal /\ HostTypeOK
  BY IInvFacts DEF EndLaunch, Launched
<1>3. /\ DeviceTypeOK /\ Between /\ Outbox /\ Counted /\ EpochSound /\ LastArriver
      /\ History /\ ArrivedExact
  BY DEF IInv, DeviceInv
<1>4. /\ \A w \in Worker : pc[w] = "acquire" /\ toArrive[w] = {} /\ toPublish[w] = {}
      /\ UNCHANGED <<plan, workerVars, eventVars, historyVars>>
      /\ iteration' = iteration + 1
  BY <1>3 DEF EndLaunch, Outbox
<1>5. DeviceTypeOK'
  BY <1>3, <1>4 DEF DeviceTypeOK
<1>6. finished = Task
  <2>1. \A x \in Task : Done(x)
    BY <1>2, PlanFacts, QueueDoneMeans DEF EndLaunch
  <2> QED
    BY <1>2, <1>3, <2>1 DEF History, DeviceTypeOK
<1>7. \A r \in Row : arrived[r] = Members(r)
  <2> SUFFICES ASSUME NEW r \in Row, NEW x \in Members(r)
               PROVE  x \in arrived[r]
    BY <1>2, <1>3 DEF ArrivedExact
  <2>1. x \in Task /\ plan.owner[x] \in Worker
    BY <1>2, MembersInTask, PlanFacts
  <2> QED
    BY <1>2, <1>3, <1>4, <1>6, <2>1 DEF ArrivedExact, Owing
<1>8. Between' /\ Outbox' /\ Holding'
  BY <1>2, <1>3, <1>4, <1>6 DEF Between, Outbox, Holding, Active
<1>9. History' /\ ArrivedExact' /\ Consumed' /\ Checked'
  BY <1>2 DEF History, ArrivedExact, Consumed, Checked
<1>10. Counted'
  <2> SUFFICES ASSUME NEW r \in Row
               PROVE  arrivals'[r] = IF Uncounted(r) THEN 0
                                     ELSE RawEventTriggers(r) * iteration'
                                          + (IF Launched' THEN Cardinality(arrived'[r]) ELSE 0)
    BY <1>4, SamePublication DEF Counted
  <2>1. arrivals[r] = IF Uncounted(r) THEN 0
                      ELSE RawEventTriggers(r) * iteration + Cardinality(arrived[r])
    BY <1>2, <1>3 DEF Counted
  <2>2. Cardinality(arrived[r]) = RawEventTriggers(r) /\ RawEventTriggers(r) \in Nat
    BY <1>7, TriggersAreNat
  <2>3. iteration \in Nat
    BY <1>3 DEF DeviceTypeOK
  <2>4. RawEventTriggers(r) * iteration + Cardinality(arrived[r])
          = RawEventTriggers(r) * (iteration + 1) + 0
    BY <2>2, <2>3, SMT
  <2> QED
    BY <1>2, <1>4, <2>1, <2>4
<1>11. EpochSound'
  <2> SUFFICES ASSUME NEW r \in Row
               PROVE  epoch[r] < iteration + 2
    BY <1>3, <1>4 DEF EpochSound, DeviceTypeOK
  <2> QED
    BY <1>3 DEF EpochSound, DeviceTypeOK
<1>12. LastArriver'
  BY <1>4 DEF LastArriver
<1> QED
  BY <1>1, <1>5, <1>8, <1>9, <1>10, <1>11, <1>12 DEF IInv, DeviceInv

LEMMA Reset_IInv ==
    ASSUME IInv, Reset
    PROVE  IInv'
<1> USE DEF hostVars, workerVars, historyVars
<1>1. HostInv'
  BY HostStutter DEF Reset, IInv
<1>2. ~Launched /\ ~Launched' /\ status = "idle" /\ status' = "idle"
  BY DEF Reset, Launched
<1>3. DeviceTypeOK /\ Between /\ Outbox /\ LastArriver
  BY DEF IInv, DeviceInv
<1>4. DeviceTypeOK'
  BY <1>3 DEF Reset, DeviceTypeOK
<1>5. Between' /\ Outbox' /\ Holding' /\ LastArriver'
  BY <1>2, <1>3 DEF Reset, Between, Outbox, Holding, LastArriver, Active
<1>6. History' /\ ArrivedExact' /\ Consumed' /\ Checked'
  BY <1>2 DEF History, ArrivedExact, Consumed, Checked
<1>7. Counted'
  BY <1>2, TriggersAreNat DEF Reset, Counted
<1>8. EpochSound'
  BY DEF Reset, EpochSound
<1> QED
  BY <1>1, <1>4, <1>5, <1>6, <1>7, <1>8 DEF IInv, DeviceInv

-----------------------------------------------------------------------------
(***************************************************************************)
(* The invariant is inductive: the steps of a worker that take a task.     *)
(***************************************************************************)
\* A task in the window at a distance k from the head, k not in done_mask.
LEMMA InWindow ==
    ASSUME IInv, NEW w \in Worker, NEW x \in Task, Acquiring(w), NEW k \in 0 .. (Window - 1),
           InSlot(x, w, head[w] + k)
    PROVE  /\ plan.owner[x] = w
           /\ plan.slot[x] = head[w] + k /\ head[w] \in Nat
           /\ plan.slot[x] < head[w] + Window
           /\ Done(x) <=> k \in mask[w]
           /\ HostTypeOK /\ PlanLegal /\ DeviceTypeOK
<1>1. Launched /\ HostTypeOK /\ PlanLegal /\ DeviceTypeOK
  BY IInvFacts DEF Acquiring, Launched
<1>2. plan.owner[x] = w /\ plan.slot[x] = head[w] + k /\ head[w] \in Nat
  BY <1>1 DEF InSlot, DeviceTypeOK
<1>3. /\ plan.slot[x] - head[w] = k
      /\ ~(plan.slot[x] < head[w])
      /\ plan.slot[x] < head[w] + Window
  BY <1>2, WindowAssumption
<1> QED
  BY <1>1, <1>2, <1>3 DEF Done

Takable(w, x) ==
    /\ Acquiring(w) /\ Take(w, x)
    /\ plan.owner[x] = w /\ ~Done(x) /\ plan.slot[x] < head[w] + Window
    /\ ProbeTaskDependencies(x)
    /\ \A y \in Task :
          SameWorker(y, x) /\ (plan.slot[x] - plan.slot[y]) \in local[x] => Done(y)

LEMMA ProbeHit_Takes ==
    ASSUME IInv, NEW w \in Worker, NEW x \in Task, ProbeHit(w, x)
    PROVE  Takable(w, x)
<1> DEFINE k == probe[w]
<1>1. Acquiring(w) /\ InSlot(x, w, head[w] + k) /\ Available(w, k, x) /\ Take(w, x)
  BY DEF ProbeHit
<1>2. k \in 0 .. (Window - 1)
  <2>1. probe[w] \in 0 .. Window /\ head[w] \in Nat
    BY IInvFacts DEF DeviceTypeOK
  <2>2. probe[w] < Span(w)
    BY DEF ProbeHit
  <2>3. QueueLength(w) \in Nat
    BY PositionIsNat DEF QueueLength, QueueOf
  <2>4. Span(w) <= Window
    BY <2>1, <2>3, WindowAssumption DEF Span
  <2> QED
    BY <2>1, <2>2, <2>3, <2>4, WindowAssumption DEF Span
<1>3. /\ plan.owner[x] = w /\ plan.slot[x] = head[w] + k /\ head[w] \in Nat
      /\ plan.slot[x] < head[w] + Window /\ ~Done(x)
      /\ HostTypeOK /\ PlanLegal
  BY <1>1, <1>2, InWindow DEF Available
<1>4. ASSUME NEW y \in Task, SameWorker(y, x), (plan.slot[x] - plan.slot[y]) \in local[x]
      PROVE  Done(y)
  <2> DEFINE d == plan.slot[x] - plan.slot[y]
  <2>1. plan.slot[y] \in Nat /\ plan.owner[y] = w
    BY <1>3, <1>4, PlanFacts DEF SameWorker
  <2>2. d > k \/ (k - d) \in mask[w]
    BY <1>1, <1>2, <1>3, <1>4, <2>1 DEF Available, LocallyBlocked
  <2>3. k - d = plan.slot[y] - head[w]
    BY <1>2, <1>3, <2>1
  <2> QED
    BY <1>2, <1>3, <2>1, <2>2, <2>3 DEF Done
<1> QED
  BY <1>1, <1>3, <1>4 DEF Available, Takable

\* At the head no local distance reaches a slot that is not complete.
LEMMA WaitHead_Takes ==
    ASSUME IInv, NEW w \in Worker, NEW x \in Task, WaitHead(w, x)
    PROVE  Takable(w, x)
<1>1. Acquiring(w) /\ InSlot(x, w, head[w]) /\ ProbeTaskDependencies(x) /\ Take(w, x)
  BY DEF WaitHead
<1>2. head[w] \in Nat /\ 0 \in 0 .. (Window - 1)
  BY IInvFacts, WindowAssumption DEF DeviceTypeOK
<1>3. InSlot(x, w, head[w] + 0)
  BY <1>1, <1>2
<1>4. /\ plan.owner[x] = w /\ plan.slot[x] = head[w] + 0
      /\ plan.slot[x] < head[w] + Window /\ (Done(x) <=> 0 \in mask[w])
      /\ HostTypeOK /\ PlanLegal /\ DeviceTypeOK
  BY <1>1, <1>2, <1>3, InWindow
<1>5. ~Done(x)
  BY <1>4, WindowAssumption DEF DeviceTypeOK
<1>6. ASSUME NEW y \in Task, SameWorker(y, x), (plan.slot[x] - plan.slot[y]) \in local[x]
      PROVE  Done(y)
  <2>1. plan.slot[y] \in Nat /\ plan.owner[y] = w
    BY <1>4, <1>6, PlanFacts DEF SameWorker
  <2>2. plan.slot[x] - plan.slot[y] \in 1 .. (Window - 1)
    BY <1>4, <1>6 DEF HostTypeOK
  <2> QED
    BY <1>2, <1>4, <2>1, <2>2, WindowAssumption DEF Done
<1> QED
  BY <1>1, <1>4, <1>5, <1>6 DEF Takable

\* Taking any task of the window that is not complete and whose polls and
\* local distances are satisfied.
LEMMA Take_IInv ==
    ASSUME IInv, NEW w \in Worker, NEW x \in Task, Takable(w, x)
    PROVE  IInv'
<1> USE DEF hostVars, eventVars, historyVars, Takable
<1>1. HostInv'
  BY HostStutter DEF Take, IInv
<1>2. /\ Launched /\ Launched' /\ DeviceTypeOK /\ Between /\ Outbox /\ Holding /\ History
      /\ ArrivedExact /\ Consumed /\ Counted /\ EpochSound /\ LastArriver /\ Checked
  BY DEF IInv, DeviceInv, Acquiring, Take, Launched
<1>3. /\ UNCHANGED <<status, plan, local, waits, iteration, head, mask, taken, toArrive, toPublish,
                     publication, arrivals, epoch, finished, arrived>>
      /\ pc[w] = "acquire" /\ pc' = [pc EXCEPT ![w] = "run"] /\ cur' = [cur EXCEPT ![w] = x]
      /\ toArrive[w] = {} /\ toPublish[w] = {}
  BY <1>2 DEF Take, Acquiring, Outbox
<1>4. DeviceTypeOK'
  BY <1>2, WindowAssumption DEF Take, DeviceTypeOK
<1>5. /\ pc'[w] = "run" /\ cur'[w] = x
      /\ \A v \in Worker : v # w => pc'[v] = pc[v] /\ cur'[v] = cur[v]
  BY <1>2, <1>3 DEF DeviceTypeOK
<1>6. \A y \in Task : Done(y)' <=> Done(y)
  BY <1>3 DEF Done
<1>7. Between'
  BY <1>2, <1>3 DEF Between, Launched
<1>8. Outbox'
  BY <1>2, <1>3, <1>5 DEF Outbox
<1>9. Holding'
  <2> SUFFICES ASSUME NEW v \in Worker, Active(v)'
               PROVE  /\ cur'[v] \in Task /\ plan.owner[cur'[v]] = v /\ ~Done(cur'[v])
                      /\ plan.slot[cur'[v]] < head[v] + Window
                      /\ \A y \in Task :
                            SameWorker(y, cur'[v])
                               /\ (plan.slot[cur'[v]] - plan.slot[y]) \in local[cur'[v]]
                                  => Done(y)
    BY <1>3 DEF Holding, Done, SameWorker
  <2>1. CASE v = w
    BY <1>5, <2>1
  <2>2. CASE v # w
    BY <1>2, <1>5, <2>2 DEF Holding, Active
  <2> QED
    BY <2>1, <2>2
<1>10. \A y \in Task : /\ plan.owner[y] \in Worker
                       /\ Held(y)' /\ plan.owner[y] # w => Held(y)
                       /\ Held(y)' /\ plan.owner[y] = w => y = x
                       /\ (Held(y) /\ pc[plan.owner[y]] = "notify")'
                            <=> Held(y) /\ pc[plan.owner[y]] = "notify"
  <2>1. \A y \in Task : plan.owner[y] \in Worker
    BY <1>2, IInvFacts, PlanFacts
  <2> QED
    BY <1>3, <1>5, <2>1 DEF Held, Active
<1>11. History'
  BY <1>2, <1>3, <1>6, <1>10 DEF History
<1>12. ArrivedExact'
  <2> SUFFICES ASSUME NEW r \in Row, NEW y \in Members(r)
               PROVE  Owing(y, r)' <=> Owing(y, r)
    BY <1>2, <1>3 DEF ArrivedExact
  <2> QED
    BY <1>3, <1>5, <1>10, MembersInTask DEF Owing
<1>13. Consumed'
  <2> SUFFICES ASSUME NEW v \in Worker
               PROVE  taken[v] = Cardinality({y \in QueueOf(plan, v) : Done(y)'})
    BY <1>3 DEF Consumed
  <2>1. {y \in QueueOf(plan, v) : Done(y)'} = {y \in QueueOf(plan, v) : Done(y)}
    BY <1>6 DEF QueueOf
  <2> QED
    BY <1>2, <2>1 DEF Consumed
<1>14. Counted' /\ EpochSound' /\ LastArriver'
  BY <1>2, <1>3, SamePublication DEF Counted, EpochSound, LastArriver
<1>15. Checked'
  <2>1. \A r : EventReady(r)' <=> EventReady(r)
    BY <1>3, SamePublication DEF EventReady
  <2> SUFFICES ASSUME NEW y \in Task, y \in finished \/ Held(y)', NEW r \in waits[y]
               PROVE  EventReady(r)
    BY <1>3, <2>1 DEF Checked
  <2> QED
    BY <1>2, <1>10 DEF Checked, ProbeTaskDependencies, Held, Active
<1> QED
  BY <1>1, <1>4, <1>7, <1>8, <1>9, <1>11, <1>12, <1>13, <1>14, <1>15 DEF IInv, DeviceInv

LEMMA ProbeMiss_IInv ==
    ASSUME IInv, NEW w \in Worker, NEW x \in Task, ProbeMiss(w, x)
    PROVE  IInv'
<1> USE DEF hostVars, eventVars, historyVars
<1>1. HostInv'
  BY HostStutter DEF ProbeMiss, IInv
<1>2. DeviceTypeOK'
  <2>1. DeviceTypeOK /\ probe[w] \in 0 .. Window /\ head[w] \in Nat
    BY IInvFacts DEF DeviceTypeOK
  <2>2. probe[w] < Span(w) /\ QueueLength(w) \in Nat
    BY PositionIsNat DEF ProbeMiss, QueueLength, QueueOf
  <2>3. probe[w] + 1 \in 0 .. Window
    BY <2>1, <2>2, WindowAssumption DEF Span
  <2> QED
    BY <2>1, <2>3 DEF ProbeMiss, DeviceTypeOK
<1>3. DeviceInv
  BY DEF IInv
<1>4. UNCHANGED <<hostVars, iteration, pc, head, mask, taken, cur, toArrive, toPublish,
                  eventVars, historyVars>> /\ Launched
  BY DEF ProbeMiss, Acquiring, Launched
<1>5. Between' /\ Outbox'
  BY <1>3, <1>4 DEF DeviceInv, Between, Outbox, Launched
<1>6. Holding' /\ History' /\ ArrivedExact' /\ Consumed'
  BY <1>3, <1>4 DEF DeviceInv, Holding, History, ArrivedExact, Consumed, Active, Held, Done,
                    Owing, Launched, SameWorker
<1>7. Counted' /\ EpochSound' /\ LastArriver'
  BY <1>3, <1>4, SamePublication DEF DeviceInv, Counted, EpochSound, LastArriver, Launched
<1>8. Checked'
  BY <1>3, <1>4, SamePublication DEF DeviceInv, Checked, EventReady, Held, Active, Launched
<1> QED
  BY <1>1, <1>2, <1>5, <1>6, <1>7, <1>8 DEF IInv, DeviceInv

-----------------------------------------------------------------------------
(***************************************************************************)
(* The invariant is inductive: running a task and publishing it.           *)
(***************************************************************************)
\* Within a launch a counter that only grows keeps its row ready.
LEMMA ReadyGrows ==
    ASSUME DeviceTypeOK, DeviceTypeOK', iteration' = iteration,
           publication' = publication, NEW r \in Row,
           arrivals'[r] >= arrivals[r], epoch'[r] >= epoch[r], EventReady(r)
    PROVE  EventReady(r)'
<1>1. /\ iteration \in Nat /\ arrivals[r] \in Nat /\ arrivals'[r] \in Nat
      /\ epoch[r] \in Nat /\ epoch'[r] \in Nat
  BY DEF DeviceTypeOK
<1> DEFINE target == RawEventTriggers(r) * (iteration + 1)
<1>2. target \in Int
  BY <1>1, TriggersAreNat
<1> USE DEF RedPublish
<1>3. CASE RedPublish
  <2>1. arrivals[r] >= target
    BY <1>3 DEF EventReady
  <2>2. arrivals'[r] >= target
    <3> HIDE DEF target
    <3> QED
      BY <1>1, <1>2, <2>1
  <2> QED
    BY <1>3, <2>2 DEF EventReady
<1>4. CASE ~RedPublish
  BY <1>1, <1>4 DEF EventReady
<1> QED
  BY <1>3, <1>4

LEMMA RunTask_IInv ==
    ASSUME IInv, NEW w \in Worker, RunTask(w)
    PROVE  IInv'
<1> USE DEF hostVars, eventVars
<1>1. HostInv'
  BY HostStutter DEF RunTask, IInv
<1>2. /\ Launched /\ Launched' /\ DeviceTypeOK /\ Between /\ Outbox /\ Holding /\ History
      /\ ArrivedExact /\ Consumed /\ Counted /\ EpochSound /\ LastArriver /\ Checked
  BY IInvFacts DEF IInv, DeviceInv, RunTask, Active, Launched
<1>3. /\ UNCHANGED <<hostVars, iteration, head, mask, taken, cur, toPublish,
                     publication, arrivals, epoch, arrived>>
      /\ pc[w] = "run" /\ pc' = [pc EXCEPT ![w] = "notify"]
      /\ finished' = finished \cup {cur[w]}
      /\ toArrive' = [toArrive EXCEPT ![w] = NotifyRows(cur[w])]
      /\ toArrive[w] = {} /\ toPublish[w] = {}
  BY <1>2 DEF RunTask, Outbox
<1>4. cur[w] \in Task /\ plan.owner[cur[w]] = w /\ Held(cur[w]) /\ ~Done(cur[w])
  BY <1>2, <1>3, HeldByOne DEF Active, Holding
<1>5. NotifyRows(cur[w]) \subseteq Row
  BY DEF NotifyRows
<1>6. DeviceTypeOK'
  BY <1>2, <1>3, <1>4, <1>5 DEF RunTask, DeviceTypeOK
<1>7. /\ pc'[w] = "notify" /\ toArrive'[w] = NotifyRows(cur[w])
      /\ \A v \in Worker : v # w => pc'[v] = pc[v] /\ toArrive'[v] = toArrive[v]
  BY <1>2, <1>3 DEF DeviceTypeOK
<1>8. \A y \in Task : (Done(y)' <=> Done(y)) /\ (Held(y)' <=> Held(y)) /\ plan.owner[y] \in Worker
  <2>1. \A y \in Task : plan.owner[y] \in Worker
    BY <1>2, IInvFacts, PlanFacts
  <2> QED
    BY <1>3, <1>7, <2>1 DEF Done, Held, Active
<1>9. Between' /\ Outbox'
  BY <1>2, <1>3, <1>7 DEF Between, Outbox, Launched
<1>10. Holding'
  BY <1>2, <1>3, <1>7, <1>8 DEF Holding, Active, SameWorker
<1>11. cur[w] \notin finished
  BY <1>2, <1>3, <1>4 DEF History
<1>12. History'
  <2> SUFFICES ASSUME NEW y \in Task
               PROVE  y \in finished' <=> Done(y) \/ (Held(y) /\ pc'[plan.owner[y]] = "notify")
    BY <1>3, <1>8 DEF History
  <2>1. CASE y = cur[w]
    BY <1>3, <1>4, <1>7, <2>1
  <2>2. CASE y # cur[w] /\ plan.owner[y] = w
    BY <1>2, <1>3, <2>2 DEF History, Held
  <2>3. CASE plan.owner[y] # w
    BY <1>2, <1>3, <1>4, <1>7, <1>8, <2>3 DEF History
  <2> QED
    BY <2>1, <2>2, <2>3
<1>13. ArrivedExact'
  <2> SUFFICES ASSUME NEW r \in Row, NEW y \in Members(r)
               PROVE  y \in arrived[r] <=> y \in finished' /\ ~Owing(y, r)'
    BY <1>2, <1>3 DEF ArrivedExact
  <2>1. y \in Task /\ plan.owner[y] \in Worker /\ r \in NotifyRows(y)
    BY <1>8 DEF Members
  <2>2. y \in arrived[r] <=> y \in finished /\ ~Owing(y, r)
    BY <1>2 DEF ArrivedExact
  <2>3. CASE y = cur[w]
    BY <1>3, <1>4, <1>7, <1>11, <2>1, <2>2, <2>3 DEF Owing
  <2>4. CASE y # cur[w]
    BY <1>3, <1>7, <2>1, <2>2, <2>4 DEF Owing
  <2> QED
    BY <2>3, <2>4
<1>14. Consumed'
  <2> SUFFICES ASSUME NEW v \in Worker
               PROVE  taken[v] = Cardinality({y \in QueueOf(plan, v) : Done(y)'})
    BY <1>3 DEF Consumed
  <2>1. {y \in QueueOf(plan, v) : Done(y)'} = {y \in QueueOf(plan, v) : Done(y)}
    BY <1>8 DEF QueueOf
  <2> QED
    BY <1>2, <2>1 DEF Consumed
<1>15. Counted' /\ EpochSound' /\ LastArriver'
  BY <1>2, <1>3, SamePublication DEF Counted, EpochSound, LastArriver, Launched
<1>16. Checked'
  <2>1. \A r : EventReady(r)' <=> EventReady(r)
    BY <1>3, SamePublication DEF EventReady
  <2> SUFFICES ASSUME NEW y \in Task, y \in finished' \/ Held(y)', NEW r \in waits[y]
               PROVE  EventReady(r)
    BY <1>3, <2>1 DEF Checked
  <2> QED
    BY <1>2, <1>3, <1>4, <1>8 DEF Checked
<1> QED
  BY <1>1, <1>6, <1>9, <1>10, <1>12, <1>13, <1>14, <1>15, <1>16 DEF IInv, DeviceInv

\* What an arrival does apart from the counters, in each of its forms.
LEMMA ArriveKeeps ==
    ASSUME IInv, NEW w \in Worker, NEW r \in toArrive[w], Arrive(w, r),
           toPublish' \in [Worker -> SUBSET Row],
           \A v \in Worker : v # w => toPublish'[v] = toPublish[v]
    PROVE  /\ HostInv' /\ Between' /\ Outbox' /\ Holding' /\ History' /\ ArrivedExact'
           /\ Consumed' /\ Launched /\ Launched' /\ iteration' = iteration
           /\ arrived' \in [Row -> SUBSET Task] /\ toArrive' \in [Worker -> SUBSET Row]
           /\ r \in Row
           /\ Cardinality(arrived'[r]) = Cardinality(arrived[r]) + 1
           /\ Cardinality(arrived'[r]) \in Nat /\ Cardinality(arrived[r]) \in Nat
           /\ arrived'[r] \in SUBSET Members(r)
           /\ arrived[r] # Members(r)
           /\ \A q \in Row : q # r => arrived'[q] = arrived[q]
           /\ \A y \in Task : Held(y)' <=> Held(y)
<1> USE DEF hostVars
<1>1. HostInv'
  BY HostStutter DEF Arrive, IInv
<1>2. /\ Launched /\ Launched' /\ DeviceTypeOK /\ Between /\ Outbox /\ Holding /\ History
      /\ ArrivedExact /\ Consumed
  BY IInvFacts DEF IInv, DeviceInv, Arrive, Active, Launched
<1>3. /\ UNCHANGED <<hostVars, iteration, pc, head, mask, taken, cur, finished>>
      /\ pc[w] = "notify"
      /\ toArrive' = [toArrive EXCEPT ![w] = toArrive[w] \ {r}]
      /\ arrived' = [arrived EXCEPT ![r] = arrived[r] \cup {cur[w]}]
  BY DEF Arrive
<1>4. cur[w] \in Task /\ plan.owner[cur[w]] = w /\ Held(cur[w])
  BY <1>2, <1>3, HeldByOne DEF Active
<1>5. r \in Row /\ cur[w] \in Members(r) /\ cur[w] \in finished
  BY <1>2, <1>3, <1>4 DEF DeviceTypeOK, Outbox, Members, History
<1>6. /\ toArrive'[w] = toArrive[w] \ {r} /\ arrived'[r] = arrived[r] \cup {cur[w]}
      /\ \A v \in Worker : v # w => toArrive'[v] = toArrive[v]
      /\ \A q \in Row : q # r => arrived'[q] = arrived[q]
      /\ arrived' \in [Row -> SUBSET Task] /\ toArrive' \in [Worker -> SUBSET Row]
  BY <1>2, <1>3, <1>4, <1>5 DEF DeviceTypeOK
<1>7. cur[w] \notin arrived[r]
  BY <1>2, <1>4, <1>5 DEF ArrivedExact, Owing
<1>8. arrived'[r] \in SUBSET Members(r) /\ arrived[r] \in SUBSET Members(r)
  BY <1>2, <1>5, <1>6 DEF ArrivedExact
<1>9. /\ Cardinality(arrived'[r]) = Cardinality(arrived[r]) + 1
      /\ Cardinality(arrived'[r]) \in Nat /\ Cardinality(arrived[r]) \in Nat
  BY <1>5, <1>6, <1>7, <1>8, FullRow, FS_AddElement
<1>10. \A y \in Task : (Done(y)' <=> Done(y)) /\ (Held(y)' <=> Held(y)) /\ plan.owner[y] \in Worker
  <2>1. \A y \in Task : plan.owner[y] \in Worker
    BY <1>2, IInvFacts, PlanFacts
  <2> QED
    BY <1>3, <2>1 DEF Done, Held, Active
<1>11. Between' /\ Outbox'
  BY <1>2, <1>3, <1>6 DEF Between, Outbox, Launched
<1>12. Holding' /\ History'
  BY <1>2, <1>3, <1>10 DEF Holding, History, Active, SameWorker
<1>13. ArrivedExact'
  <2> SUFFICES ASSUME NEW q \in Row
               PROVE  /\ arrived'[q] \subseteq Members(q)
                      /\ \A y \in Members(q) :
                            y \in arrived'[q] <=> y \in finished /\ ~Owing(y, q)'
    BY <1>3 DEF ArrivedExact
  <2>1. arrived'[q] \subseteq Members(q)
    BY <1>2, <1>6, <1>8 DEF ArrivedExact
  <2>2. ASSUME NEW y \in Members(q)
        PROVE  y \in arrived'[q] <=> y \in finished /\ ~Owing(y, q)'
    <3>1. y \in Task /\ plan.owner[y] \in Worker
      BY <1>10, MembersInTask
    <3>2. y \in arrived[q] <=> y \in finished /\ ~Owing(y, q)
      BY <1>2 DEF ArrivedExact
    <3>3. CASE y = cur[w] /\ q = r
      BY <1>3, <1>4, <1>5, <1>6, <3>3 DEF Owing
    <3>4. CASE ~(y = cur[w] /\ q = r)
      <4>1. y \in arrived'[q] <=> y \in arrived[q]
        BY <1>6, <3>4
      <4>2. Owing(y, q)' <=> Owing(y, q)
        BY <1>3, <1>6, <3>1, <3>4 DEF Owing
      <4> QED
        BY <3>2, <4>1, <4>2
    <3> QED
      BY <3>3, <3>4
  <2> QED
    BY <2>1, <2>2
<1>14. Consumed'
  <2> SUFFICES ASSUME NEW v \in Worker
               PROVE  taken[v] = Cardinality({y \in QueueOf(plan, v) : Done(y)'})
    BY <1>3 DEF Consumed
  <2>1. {y \in QueueOf(plan, v) : Done(y)'} = {y \in QueueOf(plan, v) : Done(y)}
    BY <1>10 DEF QueueOf
  <2> QED
    BY <1>2, <2>1 DEF Consumed
<1> QED
  BY <1>1, <1>2, <1>3, <1>5, <1>6, <1>7, <1>8, <1>9, <1>10, <1>11, <1>12, <1>13, <1>14

\* An arrival that leaves the counters right keeps the invariant.
LEMMA ArriveCloses ==
    ASSUME IInv, NEW w \in Worker, NEW r \in toArrive[w], Arrive(w, r),
           toPublish' \in [Worker -> SUBSET Row],
           \A v \in Worker : v # w => toPublish'[v] = toPublish[v],
           arrivals' \in [Row -> Nat], epoch' \in [Row -> Nat],
           \A q \in Row : arrivals'[q] >= arrivals[q] /\ epoch'[q] >= epoch[q],
           Counted', EpochSound', LastArriver'
    PROVE  IInv'
<1>1. /\ HostInv' /\ Between' /\ Outbox' /\ Holding' /\ History' /\ ArrivedExact'
      /\ Consumed' /\ Launched /\ Launched' /\ iteration' = iteration
      /\ arrived' \in [Row -> SUBSET Task] /\ toArrive' \in [Worker -> SUBSET Row]
      /\ \A y \in Task : Held(y)' <=> Held(y)
  BY ArriveKeeps
<1>2. /\ HostTypeOK /\ DeviceTypeOK /\ Checked
      /\ UNCHANGED <<waits, pc, head, mask, taken, probe, cur, publication, finished>>
  BY DEF Arrive, IInv, DeviceInv, HostInv, hostVars
<1>3. DeviceTypeOK'
  BY <1>1, <1>2 DEF DeviceTypeOK
<1>4. Checked'
  <2> SUFFICES ASSUME NEW y \in Task, y \in finished \/ Held(y), NEW q \in waits[y]
               PROVE  EventReady(q)'
    BY <1>1, <1>2 DEF Checked
  <2>1. q \in Row
    BY <1>2 DEF HostTypeOK
  <2>2. EventReady(q)
    BY <1>1, <1>2 DEF Checked
  <2> QED
    BY <1>1, <1>2, <1>3, <2>1, <2>2, ReadyGrows
<1> QED
  BY <1>1, <1>3, <1>4 DEF IInv, DeviceInv

\* One more arrival counted at r.
LEMMA CountOne ==
    ASSUME IInv, NEW w \in Worker, NEW r \in toArrive[w], Arrive(w, r),
           toPublish' \in [Worker -> SUBSET Row],
           \A v \in Worker : v # w => toPublish'[v] = toPublish[v],
           ~Uncounted(r), arrivals' = [arrivals EXCEPT ![r] = @ + 1]
    PROVE  /\ Counted'
           /\ arrivals' \in [Row -> Nat]
           /\ \A q \in Row : arrivals'[q] >= arrivals[q]
           /\ arrivals[r] + 1 = RawEventTriggers(r) * iteration + Cardinality(arrived'[r])
<1>1. /\ Launched /\ Launched' /\ iteration' = iteration /\ r \in Row
      /\ Cardinality(arrived'[r]) = Cardinality(arrived[r]) + 1
      /\ Cardinality(arrived[r]) \in Nat
      /\ \A q \in Row : q # r => arrived'[q] = arrived[q]
  BY ArriveKeeps
<1>2. /\ Counted /\ arrivals \in [Row -> Nat] /\ iteration \in Nat
      /\ publication' = publication
  BY DEF IInv, DeviceInv, DeviceTypeOK, Arrive
<1>3. /\ arrivals'[r] = arrivals[r] + 1
      /\ \A q \in Row : q # r => arrivals'[q] = arrivals[q]
      /\ arrivals' \in [Row -> Nat]
  BY <1>1, <1>2
<1>4. arrivals[r] = RawEventTriggers(r) * iteration + Cardinality(arrived[r])
  BY <1>1, <1>2 DEF Counted
<1>5. RawEventTriggers(r) * iteration \in Int
  BY <1>1, <1>2, TriggersAreNat
<1>6. arrivals[r] + 1 = RawEventTriggers(r) * iteration + Cardinality(arrived'[r])
  <2> DEFINE base == RawEventTriggers(r) * iteration
  <2> HIDE DEF base
  <2>1. base \in Int /\ arrivals[r] = base + Cardinality(arrived[r])
    BY <1>4, <1>5 DEF base
  <2>2. arrivals[r] + 1 = base + Cardinality(arrived'[r])
    BY <1>1, <2>1
  <2> QED
    BY <2>2 DEF base
<1>7. Counted'
  <2> SUFFICES ASSUME NEW q \in Row
               PROVE  arrivals'[q] = IF Uncounted(q) THEN 0
                                     ELSE RawEventTriggers(q) * iteration'
                                          + (IF Launched' THEN Cardinality(arrived'[q]) ELSE 0)
    BY <1>2, SamePublication DEF Counted
  <2>1. arrivals[q] = IF Uncounted(q) THEN 0
                      ELSE RawEventTriggers(q) * iteration + Cardinality(arrived[q])
    BY <1>1, <1>2 DEF Counted
  <2>2. CASE q = r
    BY <1>1, <1>3, <1>6, <2>2
  <2>3. CASE q # r
    BY <1>1, <1>3, <2>1, <2>3
  <2> QED
    BY <2>2, <2>3
<1> QED
  BY <1>2, <1>3, <1>6, <1>7

LEMMA ArriveRed_IInv ==
    ASSUME IInv, NEW w \in Worker, NEW r \in toArrive[w], ArriveRed(w, r)
    PROVE  IInv'
<1>1. /\ Arrive(w, r) /\ ~Uncounted(r) /\ arrivals' = [arrivals EXCEPT ![r] = @ + 1]
      /\ toPublish' = toPublish /\ epoch' = epoch
  BY DEF ArriveRed, Uncounted
<1>2. /\ DeviceTypeOK /\ EpochSound /\ LastArriver
      /\ toPublish \in [Worker -> SUBSET Row] /\ epoch \in [Row -> Nat]
  BY DEF IInv, DeviceInv, DeviceTypeOK
<1>3. /\ Launched' /\ iteration' = iteration /\ arrived[r] # Members(r)
      /\ \A q \in Row : q # r => arrived'[q] = arrived[q]
  BY <1>1, <1>2, ArriveKeeps
<1>4. Counted' /\ arrivals' \in [Row -> Nat] /\ \A q \in Row : arrivals'[q] >= arrivals[q]
  BY <1>1, <1>2, CountOne
<1>5. EpochSound'
  BY <1>1, <1>2, <1>3 DEF EpochSound
<1>6. LastArriver'
  BY <1>1, <1>2, <1>3 DEF LastArriver
<1>7. \A q \in Row : epoch'[q] >= epoch[q]
  BY <1>1, <1>2
<1> QED
  BY <1>1, <1>2, <1>4, <1>5, <1>6, <1>7, ArriveCloses

LEMMA ArriveTicket_IInv ==
    ASSUME IInv, NEW w \in Worker, NEW r \in toArrive[w], ArriveTicket(w, r)
    PROVE  IInv'
<1> DEFINE last == arrivals[r] + 1 = RawEventTriggers(r) * (iteration + 1)
<1>1. /\ Arrive(w, r) /\ ~Uncounted(r) /\ arrivals' = [arrivals EXCEPT ![r] = @ + 1]
      /\ epoch' = epoch
      /\ toPublish' = [toPublish EXCEPT ![w] = IF last THEN toPublish[w] \cup {r}
                                               ELSE toPublish[w]]
  BY DEF ArriveTicket, Uncounted
<1>2. /\ DeviceTypeOK /\ EpochSound /\ LastArriver /\ iteration \in Nat
      /\ toPublish \in [Worker -> SUBSET Row] /\ epoch \in [Row -> Nat]
      /\ toArrive[w] \subseteq Row
  BY DEF IInv, DeviceInv, DeviceTypeOK
<1>3. /\ toPublish' \in [Worker -> SUBSET Row]
      /\ toPublish'[w] = IF last THEN toPublish[w] \cup {r} ELSE toPublish[w]
      /\ \A v \in Worker : v # w => toPublish'[v] = toPublish[v]
  <2> HIDE DEF last
  <2> QED
    BY <1>1, <1>2
<1>4. /\ Launched' /\ iteration' = iteration /\ arrived[r] # Members(r) /\ r \in Row
      /\ \A q \in Row : q # r => arrived'[q] = arrived[q]
      /\ arrived'[r] \in SUBSET Members(r) /\ Cardinality(arrived'[r]) \in Nat
  BY <1>1, <1>3, ArriveKeeps
<1>5. /\ Counted' /\ arrivals' \in [Row -> Nat] /\ \A q \in Row : arrivals'[q] >= arrivals[q]
      /\ arrivals[r] + 1 = RawEventTriggers(r) * iteration + Cardinality(arrived'[r])
  BY <1>1, <1>3, CountOne
<1>6. EpochSound'
  BY <1>1, <1>2, <1>4 DEF EpochSound
<1>7. last => arrived'[r] = Members(r)
  <2> SUFFICES ASSUME last
               PROVE  Cardinality(arrived'[r]) = RawEventTriggers(r)
    BY <1>4, FullRow
  <2>1. RawEventTriggers(r) \in Nat
    BY <1>4, TriggersAreNat
  <2> QED
    BY <1>2, <1>4, <1>5, <2>1, SMT
<1>8. LastArriver'
  <2> SUFFICES ASSUME NEW v \in Worker, NEW q \in toPublish'[v]
               PROVE  arrived'[q] = Members(q)
    BY DEF LastArriver
  <2> HIDE DEF last
  <2>1. CASE q = r /\ last
    BY <1>7, <2>1
  <2>2. CASE q \in toPublish[v]
    BY <1>2, <1>4, <2>2 DEF LastArriver
  <2> QED
    BY <1>3, <2>1, <2>2
<1>9. \A q \in Row : epoch'[q] >= epoch[q]
  BY <1>1, <1>2
<1> QED
  BY <1>1, <1>2, <1>3, <1>5, <1>6, <1>8, <1>9, ArriveCloses

LEMMA ArriveSolo_IInv ==
    ASSUME IInv, NEW w \in Worker, NEW r \in toArrive[w], ArriveSolo(w, r)
    PROVE  IInv'
<1>1. /\ Arrive(w, r) /\ Uncounted(r) /\ RawEventTriggers(r) = 1
      /\ epoch' = [epoch EXCEPT ![r] = iteration + 1]
      /\ toPublish' = toPublish /\ arrivals' = arrivals
  BY DEF ArriveSolo, Uncounted, SoloRow
<1>2. /\ DeviceTypeOK /\ EpochSound /\ LastArriver /\ Counted /\ iteration \in Nat
      /\ toPublish \in [Worker -> SUBSET Row] /\ epoch \in [Row -> Nat]
      /\ arrivals \in [Row -> Nat] /\ publication' = publication
  BY DEF IInv, DeviceInv, DeviceTypeOK, ArriveSolo, Arrive
<1>3. /\ Launched /\ Launched' /\ iteration' = iteration /\ arrived[r] # Members(r) /\ r \in Row
      /\ \A q \in Row : q # r => arrived'[q] = arrived[q]
      /\ arrived'[r] \in SUBSET Members(r) /\ Cardinality(arrived'[r]) \in Nat
      /\ Cardinality(arrived[r]) \in Nat
      /\ Cardinality(arrived'[r]) = Cardinality(arrived[r]) + 1
  BY <1>1, <1>2, ArriveKeeps
<1>4. arrived'[r] = Members(r)
  BY <1>1, <1>3, FullRow
<1>5. /\ epoch'[r] = iteration + 1 /\ epoch' \in [Row -> Nat]
      /\ \A q \in Row : q # r => epoch'[q] = epoch[q]
  BY <1>1, <1>2, <1>3
<1>6. EpochSound'
  BY <1>2, <1>3, <1>4, <1>5 DEF EpochSound
<1>7. LastArriver'
  BY <1>1, <1>2, <1>3 DEF LastArriver
<1>8. \A q \in Row : arrivals'[q] >= arrivals[q] /\ epoch'[q] >= epoch[q]
  BY <1>1, <1>2, <1>3, <1>5 DEF EpochSound
<1>9. Counted'
  <2> SUFFICES ASSUME NEW q \in Row
               PROVE  arrivals'[q] = IF Uncounted(q) THEN 0
                                     ELSE RawEventTriggers(q) * iteration'
                                          + (IF Launched' THEN Cardinality(arrived'[q]) ELSE 0)
    BY <1>2, SamePublication DEF Counted
  <2>1. arrivals[q] = IF Uncounted(q) THEN 0
                      ELSE RawEventTriggers(q) * iteration + Cardinality(arrived[q])
    BY <1>2, <1>3 DEF Counted
  <2> QED
    BY <1>1, <1>3, <2>1
<1> QED
  BY <1>1, <1>2, <1>5, <1>6, <1>7, <1>8, <1>9, ArriveCloses

LEMMA PublishEpoch_IInv ==
    ASSUME IInv, NEW w \in Worker, NEW r \in toPublish[w], PublishEpoch(w, r)
    PROVE  IInv'
<1> USE DEF hostVars, historyVars
<1>1. HostInv'
  BY HostStutter DEF PublishEpoch, IInv
<1>2. /\ DeviceTypeOK /\ Between /\ Outbox /\ Holding /\ History /\ HostTypeOK
      /\ ArrivedExact /\ Consumed /\ Counted /\ EpochSound /\ LastArriver /\ Checked
      /\ iteration \in Nat /\ epoch \in [Row -> Nat] /\ r \in Row
      /\ toPublish \in [Worker -> SUBSET Row]
  BY DEF IInv, DeviceInv, DeviceTypeOK, HostInv
<1>3. /\ UNCHANGED <<hostVars, iteration, pc, head, mask, taken, probe, cur,
                     toArrive, publication, arrivals, finished, arrived>>
      /\ epoch' = [epoch EXCEPT ![r] = iteration + 1]
      /\ toPublish' = [toPublish EXCEPT ![w] = toPublish[w] \ {r}]
  BY DEF PublishEpoch
<1>4. pc[w] = "notify" /\ Launched
  <2>1. toPublish[w] # {}
    OBVIOUS
  <2>2. pc[w] = "notify"
    BY <1>2, <2>1 DEF Outbox
  <2> QED
    BY <2>2, IInvFacts DEF Active
<1>5. /\ epoch'[r] = iteration + 1 /\ \A q \in Row : q # r => epoch'[q] = epoch[q]
      /\ toPublish'[w] = toPublish[w] \ {r}
      /\ \A v \in Worker : v # w => toPublish'[v] = toPublish[v]
  BY <1>2, <1>3
<1>6. DeviceTypeOK'
  BY <1>2, <1>3 DEF DeviceTypeOK
<1>7. Between' /\ Outbox'
  BY <1>2, <1>3, <1>4, <1>5 DEF Between, Outbox, Launched
<1>8. Holding'
  BY <1>2, <1>3 DEF Holding, Active, Done, SameWorker
<1>14. Consumed'
  BY <1>2, <1>3 DEF Consumed, Done, Launched
<1>13. History' /\ ArrivedExact'
  BY <1>2, <1>3 DEF History, ArrivedExact, Active, Held, Done, Owing, Launched
<1>9. Counted'
  BY <1>2, <1>3, SamePublication DEF Counted, Launched
<1>10. EpochSound'
  BY <1>2, <1>3, <1>4, <1>5 DEF EpochSound, LastArriver, Launched
<1>11. LastArriver'
  BY <1>2, <1>3, <1>5 DEF LastArriver
<1>12. Checked'
  <2>1. \A q \in Row : arrivals'[q] >= arrivals[q] /\ epoch'[q] >= epoch[q]
    BY <1>2, <1>3, <1>5 DEF EpochSound, DeviceTypeOK
  <2> SUFFICES ASSUME NEW y \in Task, y \in finished \/ Held(y), NEW q \in waits[y]
               PROVE  EventReady(q)'
    BY <1>3 DEF Checked, Held, Active
  <2>2. q \in Row
    BY <1>2 DEF HostTypeOK
  <2>3. EventReady(q)
    BY <1>2, <1>4 DEF Checked
  <2> QED
    BY <1>2, <1>3, <1>6, <2>1, <2>2, <2>3, ReadyGrows
<1> QED
  BY <1>1, <1>6, <1>7, <1>8, <1>9, <1>10, <1>11, <1>12, <1>13, <1>14 DEF IInv, DeviceInv

\* Recording a slot: head advances over the prefix and done_mask shifts with
\* it, so exactly the held task becomes Done.
LEMMA Complete_Done ==
    ASSUME IInv, NEW w \in Worker, Complete(w)
    PROVE  /\ head' \in [Worker -> Nat]
           /\ mask' \in [Worker -> SUBSET (1 .. (Window - 1))]
           /\ \A y \in Task : Done(y)' <=> Done(y) \/ y = cur[w]
<1> DEFINE k == plan.slot[cur[w]] - head[w]
           completed == mask[w] \cup {k}
<1>1. /\ Launched /\ HostTypeOK /\ DeviceTypeOK /\ PlanLegal
      /\ cur[w] \in Task /\ plan.owner[cur[w]] = w
      /\ plan.slot[cur[w]] \in Nat /\ head[w] \in Nat
      /\ head[w] <= plan.slot[cur[w]] /\ plan.slot[cur[w]] < head[w] + Window
      /\ \A x \in Task : plan.owner[x] = w /\ plan.slot[x] = plan.slot[cur[w]] => x = cur[w]
  BY IInvFacts, HeldByOne DEF Complete, Active
<1>2. PICK n \in 0 .. Window :
        /\ n \notin completed
        /\ 0 .. (n - 1) \subseteq completed
        /\ head' = [head EXCEPT ![w] = head[w] + n]
        /\ mask' = [mask EXCEPT ![w] = {b - n : b \in completed \ (0 .. (n - 1))}]
  BY DEF Complete
<1>3. plan' = plan
  BY DEF Complete, hostVars
<1>4. mask[w] \in SUBSET (1 .. (Window - 1)) /\ k \in 0 .. (Window - 1)
  BY <1>1, WindowAssumption DEF DeviceTypeOK
<1>5. completed \subseteq 0 .. (Window - 1)
  BY <1>4, WindowAssumption
<1> DEFINE shifted == {b - n : b \in completed \ (0 .. (n - 1))}
<1>6. shifted \subseteq 1 .. (Window - 1)
  <2> SUFFICES ASSUME NEW b \in completed, b \notin 0 .. (n - 1)
               PROVE  b - n \in 1 .. (Window - 1)
    OBVIOUS
  <2> HIDE DEF completed
  <2>1. b \in 0 .. (Window - 1) /\ b # n
    BY <1>2, <1>5
  <2> QED
    BY <2>1, WindowAssumption
<1>7. /\ head'[w] = head[w] + n /\ mask'[w] = shifted
      /\ \A v \in Worker : v # w => head'[v] = head[v] /\ mask'[v] = mask[v]
      /\ head' \in [Worker -> Nat]
      /\ mask' \in [Worker -> SUBSET (1 .. (Window - 1))]
  <2> HIDE DEF shifted, completed, k
  <2>1. head \in [Worker -> Nat] /\ mask \in [Worker -> SUBSET (1 .. (Window - 1))]
    BY <1>1 DEF DeviceTypeOK
  <2>2. head[w] + n \in Nat
    BY <1>1
  <2> QED
    BY <1>2, <1>6, <2>1, <2>2 DEF shifted
<1>8. ASSUME NEW y \in Task
      PROVE  Done(y)' <=> Done(y) \/ y = cur[w]
  <2>1. plan.slot[y] \in Nat /\ plan.owner[y] \in Worker
    BY <1>1, PlanFacts
  <2>2. CASE plan.owner[y] # w
    BY <1>1, <1>3, <1>7, <2>1, <2>2 DEF Done
  <2>3. CASE plan.owner[y] = w
    <3> DEFINE j == plan.slot[y] - head[w]
    <3>1. Done(y) <=> j < 0 \/ j \in mask[w]
      BY <1>1, <2>1, <2>3 DEF Done
    <3>2. Done(y)' <=> j - n < 0 \/ j - n \in shifted
      <4>1. plan.slot[y] - (head[w] + n) = j - n
        BY <1>1, <2>1
      <4>2. plan.slot[y] < head[w] + n <=> j - n < 0
        BY <1>1, <2>1
      <4> HIDE DEF j, shifted
      <4> QED
        BY <1>3, <1>7, <2>3, <4>1, <4>2 DEF Done
    <3>3. y = cur[w] <=> j = k
      BY <1>1, <2>1, <2>3
    <3>4. j - n \in shifted <=> j \in completed /\ j \notin 0 .. (n - 1)
      <4>1. j \in Int
        BY <1>1, <2>1
      <4>2. completed \subseteq Int
        BY <1>5
      <4> HIDE DEF j, completed
      <4> QED
        BY <4>1, <4>2 DEF shifted
    <3>5. j \in Int
      BY <1>1, <2>1
    <3>6. j - n < 0 <=> j < 0 \/ j \in 0 .. (n - 1)
      <4> HIDE DEF j
      <4> QED
        BY <3>5
    <3>7. Done(y)' <=> j < 0 \/ j \in completed
      <4> HIDE DEF j, completed, shifted
      <4> QED
        BY <1>2, <3>2, <3>4, <3>6
    <3> QED
      BY <3>1, <3>3, <3>7
  <2> QED
    BY <2>2, <2>3
<1> QED
  BY <1>7, <1>8

LEMMA Complete_IInv ==
    ASSUME IInv, NEW w \in Worker, Complete(w)
    PROVE  IInv'
<1> USE DEF hostVars, eventVars, historyVars
<1>1. HostInv'
  BY HostStutter DEF Complete, IInv
<1>2. /\ Launched /\ DeviceTypeOK /\ Between /\ Outbox /\ Holding /\ History
      /\ ArrivedExact /\ Consumed /\ Counted /\ EpochSound /\ LastArriver /\ Checked
      /\ cur[w] \in Task /\ plan.owner[cur[w]] = w /\ Held(cur[w]) /\ ~Done(cur[w])
  BY HeldByOne DEF IInv, DeviceInv, Complete, Active, Holding
<1>3. /\ UNCHANGED <<hostVars, iteration, probe, cur, toArrive, toPublish,
                     publication, arrivals, epoch, finished, arrived>>
      /\ pc[w] = "notify" /\ pc' = [pc EXCEPT ![w] = "acquire"]
      /\ taken' = [taken EXCEPT ![w] = taken[w] + 1]
      /\ toArrive[w] = {} /\ toPublish[w] = {}
  BY DEF Complete
<1>4. /\ head' \in [Worker -> Nat]
      /\ mask' \in [Worker -> SUBSET (1 .. (Window - 1))]
      /\ \A y \in Task : Done(y)' <=> Done(y) \/ y = cur[w]
  BY Complete_Done
<1>5. /\ pc'[w] = "acquire" /\ taken'[w] = taken[w] + 1
      /\ \A v \in Worker : v # w => pc'[v] = pc[v] /\ taken'[v] = taken[v]
      /\ pc' \in [Worker -> {"acquire", "run", "notify"}] /\ taken' \in [Worker -> Nat]
  BY <1>2, <1>3 DEF DeviceTypeOK
<1>6. DeviceTypeOK'
  BY <1>2, <1>3, <1>4, <1>5 DEF DeviceTypeOK
<1>7. \A y \in Task : /\ plan.owner[y] \in Worker
                      /\ Held(y)' <=> Held(y) /\ y # cur[w]
  <2>1. \A y \in Task : plan.owner[y] \in Worker
    BY <1>2, IInvFacts, PlanFacts
  <2> QED
    BY <1>2, <1>3, <1>5, <2>1 DEF Held, Active
<1>8. Between' /\ Outbox'
  BY <1>2, <1>3, <1>5 DEF Between, Outbox, Launched
<1>9. Holding'
  <2> SUFFICES ASSUME NEW v \in Worker, Active(v)'
               PROVE  /\ cur[v] \in Task /\ plan.owner[cur[v]] = v /\ ~Done(cur[v])'
                      /\ plan.slot[cur[v]] < head'[v] + Window
                      /\ \A y \in Task :
                            SameWorker(y, cur[v])
                               /\ (plan.slot[cur[v]] - plan.slot[y]) \in local[cur[v]]
                                  => Done(y)'
    BY <1>3 DEF Holding, Done, SameWorker
  <2>1. v # w /\ Active(v)
    BY <1>5 DEF Active
  <2>2. head'[v] = head[v]
    BY <2>1, <1>2 DEF Complete, DeviceTypeOK
  <2>3. /\ cur[v] \in Task /\ plan.owner[cur[v]] = v /\ ~Done(cur[v])
        /\ plan.slot[cur[v]] < head[v] + Window
        /\ \A y \in Task :
              SameWorker(y, cur[v])
                 /\ (plan.slot[cur[v]] - plan.slot[y]) \in local[cur[v]] => Done(y)
    BY <1>2, <2>1 DEF Holding
  <2>4. cur[v] # cur[w]
    BY <1>2, <2>1, <2>3
  <2>5. ~Done(cur[v])'
    BY <1>3, <1>4, <2>3, <2>4
  <2>6. \A y \in Task : Done(y) => Done(y)'
    BY <1>4
  <2> QED
    BY <2>2, <2>3, <2>5, <2>6
<1>10. History'
  <2> SUFFICES ASSUME NEW y \in Task
               PROVE  y \in finished <=> Done(y)' \/ (Held(y)' /\ pc'[plan.owner[y]] = "notify")
    BY <1>3 DEF History
  <2>1. y \in finished <=> Done(y) \/ (Held(y) /\ pc[plan.owner[y]] = "notify")
    BY <1>2 DEF History
  <2>2. CASE y = cur[w]
    BY <1>2, <1>3, <1>4, <2>1, <2>2
  <2>3. CASE y # cur[w] /\ plan.owner[y] = w
    BY <1>4, <1>7, <2>1, <2>3 DEF Held
  <2>4. CASE plan.owner[y] # w
    BY <1>2, <1>4, <1>5, <1>7, <2>1, <2>4
  <2> QED
    BY <2>2, <2>3, <2>4
<1>11. ArrivedExact'
  BY <1>2, <1>3 DEF ArrivedExact, Owing, Launched
<1>12. Consumed'
  <2> SUFFICES ASSUME NEW v \in Worker
               PROVE  taken'[v] = Cardinality({y \in QueueOf(plan, v) : Done(y)'})
    BY <1>3 DEF Consumed
  <2> DEFINE D == {y \in QueueOf(plan, v) : Done(y)}
             E == {y \in QueueOf(plan, v) : Done(y)'}
  <2>1. taken[v] = Cardinality(D)
    BY <1>2 DEF Consumed
  <2>2. CASE v = w
    <3>1. E = D \cup {cur[w]} /\ cur[w] \notin D
      BY <1>2, <1>4, <2>2 DEF QueueOf
    <3>2. D \in SUBSET Task
      BY DEF QueueOf
    <3> HIDE DEF D, E
    <3>3. Cardinality(E) = Cardinality(D) + 1
      BY <3>1, <3>2, TaskFinite, FS_Subset, FS_AddElement
    <3> QED
      BY <1>5, <2>1, <2>2, <3>3 DEF E
  <2>3. CASE v # w
    <3>1. E = D
      BY <1>2, <1>4, <2>3 DEF QueueOf
    <3> QED
      BY <1>5, <2>1, <2>3, <3>1
  <2> QED
    BY <2>2, <2>3
<1>13. Counted' /\ EpochSound' /\ LastArriver'
  BY <1>2, <1>3, SamePublication DEF Counted, EpochSound, LastArriver, Launched
<1>14. Checked'
  <2>1. \A r : EventReady(r)' <=> EventReady(r)
    BY <1>3, SamePublication DEF EventReady
  <2> SUFFICES ASSUME NEW y \in Task, y \in finished \/ Held(y)', NEW r \in waits[y]
               PROVE  EventReady(r)
    BY <1>3, <2>1 DEF Checked
  <2> QED
    BY <1>2, <1>7 DEF Checked
<1> QED
  BY <1>1, <1>6, <1>8, <1>9, <1>10, <1>11, <1>12, <1>13, <1>14 DEF IInv, DeviceInv

LEMMA Next_IInv ==
    ASSUME IInv, [Next]_vars
    PROVE  IInv'
<1>1. CASE HostNext /\ UNCHANGED deviceVars
  BY <1>1, HostNext_IInv
<1>2. CASE LaunchL2 \/ EndLaunch \/ Reset
  BY <1>2, LaunchL2_IInv, EndLaunch_IInv, Reset_IInv
<1>3. ASSUME NEW w \in Worker, WorkerStep(w)
      PROVE  IInv'
  BY <1>3, ProbeHit_Takes, WaitHead_Takes, Take_IInv, ProbeMiss_IInv, RunTask_IInv, ArriveRed_IInv,
     ArriveSolo_IInv, ArriveTicket_IInv, PublishEpoch_IInv, Complete_IInv DEF WorkerStep
<1>4. CASE UNCHANGED vars
  <2> USE DEF vars, hostVars, deviceVars, workerVars, eventVars, historyVars
  <2>1. HostInv' /\ DeviceInv
    BY <1>4, HostStutter DEF IInv
  <2>2. DeviceTypeOK' /\ Between' /\ Outbox' /\ Counted' /\ EpochSound' /\ LastArriver'
    BY <1>4, <2>1, SamePublication
       DEF DeviceInv, DeviceTypeOK, Between, DeviceInit, Outbox, Counted,
                      EpochSound, LastArriver, Launched
  <2>3. Holding' /\ Consumed'
    BY <1>4, <2>1 DEF DeviceInv, Holding, Consumed, Active, Done, Launched, SameWorker
  <2>4. History' /\ ArrivedExact'
    BY <1>4, <2>1 DEF DeviceInv, History, ArrivedExact, Active, Held, Done, Owing, Launched
  <2>5. Checked'
    BY <1>4, <2>1, SamePublication DEF DeviceInv, Checked, EventReady, Held, Active, Launched
  <2> QED
    BY <2>1, <2>2, <2>3, <2>4, <2>5 DEF IInv, DeviceInv
<1> QED
  BY <1>1, <1>2, <1>3, <1>4 DEF Next

-----------------------------------------------------------------------------
THEOREM Inductive == Spec => []IInv
BY Init_IInv, Next_IInv, PTL DEF Spec

\* Every reachable state is typed: in particular local_mask and done_mask
\* never need more than the W - 1 bits above the head.
THEOREM TypeCorrect == Spec => []TypeOK
BY Inductive, IInv_TypeOK, PTL

\* The materialization loop leaves no dependency unsettled, whatever legal
\* plan it is given.
THEOREM Lifting == Spec => []LiftingSound
<1>1. IInv => LiftingSound
  BY HostInv_LiftingSound DEF IInv
<1> QED
  BY <1>1, Inductive, PTL

\* A satisfied poll means that every member of the row has ended in this
\* launch, for count-based, ticketed and solo publication alike.
THEOREM EventsSound == Spec => []EventSound
BY Inductive, IInv_EventSound, PTL

\* The section 5.7.2 corollary of the window rule.
THEOREM WindowCorollary == Spec => []WindowPrefix
BY Inductive, IInv_WindowPrefix, PTL

\* No task body runs before its producers of the same iteration.
THEOREM Safety == Spec => []DependencySafety
BY Inductive, IInv_DependencySafety, PTL

-----------------------------------------------------------------------------
(***************************************************************************)
(* Every step of the executor is a step of the task graph, or a stutter.   *)
(***************************************************************************)
RunningNow == {cur[w] : w \in {v \in Worker : pc[v] = "run"}}

LEMMA SameGraph ==
    /\ Graph!Task = Task
    /\ \A x : Graph!Predecessors(x) = Predecessors(x)
<1>1. Graph!Task = Task
  BY DEF Graph!Task, Task, Graph!Stage, Stage
<1>2. ASSUME NEW x
      PROVE  Graph!Predecessors(x) = Predecessors(x)
  BY <1>1 DEF Graph!Predecessors, Predecessors, Graph!Incoming, Incoming,
              Graph!RuntimeDependencyBounds, RuntimeDependencyBounds
<1> QED
  BY <1>1, <1>2

LEMMA GraphStutter ==
    ASSUME finished' = finished, RunningNow' = RunningNow
    PROVE  [Graph!Next]_(Graph!graphVars)
BY DEF RunningNow, Graph!graphVars

LEMMA Take_Start ==
    ASSUME IInv, DependencySafety', NEW w \in Worker, NEW x \in Task,
           Takable(w, x)
    PROVE  [Graph!Next]_(Graph!graphVars)
<1> USE DEF historyVars, hostVars, Takable
<1>1. /\ Launched /\ DeviceTypeOK /\ History
      /\ finished' = finished /\ pc[w] = "acquire"
      /\ pc' = [pc EXCEPT ![w] = "run"] /\ cur' = [cur EXCEPT ![w] = x]
  BY DEF IInv, DeviceInv, Take, Acquiring, Launched
<1>2. /\ pc'[w] = "run" /\ cur'[w] = x
      /\ \A v \in Worker : v # w => pc'[v] = pc[v] /\ cur'[v] = cur[v]
  BY <1>1 DEF DeviceTypeOK
<1>3. RunningNow' = RunningNow \cup {x}
  BY <1>1, <1>2 DEF RunningNow
<1>4. Predecessors(x) \subseteq finished
  BY <1>1, <1>2 DEF DependencySafety
<1>5. x \notin finished
  BY <1>1 DEF History, Held
<1>6. x \notin RunningNow
  <2>1. \A v \in Worker : pc[v] = "run" => plan.owner[cur[v]] = v
    BY DEF IInv, DeviceInv, Holding, Active
  <2> QED
    BY <1>1, <2>1 DEF RunningNow
<1>7. Graph!Start(x)
  BY <1>1, <1>3, <1>4, <1>5, <1>6, SameGraph DEF Graph!Start, RunningNow
<1> QED
  BY <1>7, SameGraph DEF Graph!Next

LEMMA RunTask_Finish ==
    ASSUME IInv, NEW w \in Worker, RunTask(w)
    PROVE  [Graph!Next]_(Graph!graphVars)
<1>1. PICK x \in Task :
        /\ x = cur[w]
        /\ \A v \in Worker : pc[v] = "run" /\ v # w => cur[v] # x
  BY DEF RunTask, IInv, DeviceInv, Holding, Active
<1>2. /\ DeviceTypeOK /\ pc[w] = "run" /\ pc' = [pc EXCEPT ![w] = "notify"]
      /\ cur' = cur /\ finished' = finished \cup {x}
  BY <1>1 DEF IInv, DeviceInv, RunTask
<1>3. pc'[w] = "notify" /\ \A v \in Worker : v # w => pc'[v] = pc[v]
  BY <1>2 DEF DeviceTypeOK
<1>4. RunningNow' = RunningNow \ {x} /\ x \in RunningNow
  BY <1>1, <1>2, <1>3 DEF RunningNow
<1>5. Graph!Finish(x)
  BY <1>2, <1>4 DEF Graph!Finish, RunningNow
<1> QED
  BY <1>5, SameGraph DEF Graph!Next

LEMMA LaunchL2_NextIteration ==
    ASSUME IInv, LaunchL2
    PROVE  [Graph!Next]_(Graph!graphVars)
<1>1. /\ finished \in {{}, Task} /\ \A w \in Worker : pc[w] = "acquire"
      /\ finished' = {} /\ \A w \in Worker : pc'[w] = "acquire"
  BY DEF IInv, DeviceInv, Between, LaunchL2, Launched
<1>2. RunningNow = {} /\ RunningNow' = {}
  BY <1>1 DEF RunningNow
<1>3. CASE finished = {}
  BY <1>1, <1>2, <1>3, GraphStutter
<1>4. CASE finished = Task
  <2>1. Graph!NextIteration
    BY <1>1, <1>2, <1>4, SameGraph DEF Graph!NextIteration, RunningNow
  <2> QED
    BY <2>1 DEF Graph!Next
<1> QED
  BY <1>1, <1>3, <1>4

LEMMA Step_Refines ==
    ASSUME IInv, DependencySafety', [Next]_vars
    PROVE  [Graph!Next]_(Graph!graphVars)
<1>1. CASE UNCHANGED <<pc, cur, finished>>
  BY <1>1, GraphStutter DEF RunningNow
<1>2. CASE LaunchL2
  BY <1>2, LaunchL2_NextIteration
<1>3. ASSUME NEW w \in Worker, NEW x \in Task, ProbeHit(w, x) \/ WaitHead(w, x)
      PROVE  [Graph!Next]_(Graph!graphVars)
  BY <1>3, ProbeHit_Takes, WaitHead_Takes, Take_Start
<1>4. ASSUME NEW w \in Worker, RunTask(w)
      PROVE  [Graph!Next]_(Graph!graphVars)
  BY <1>4, RunTask_Finish
<1>5. ASSUME NEW w \in Worker, Complete(w)
      PROVE  [Graph!Next]_(Graph!graphVars)
  <2>1. /\ DeviceTypeOK /\ pc[w] = "notify" /\ pc' = [pc EXCEPT ![w] = "acquire"]
        /\ cur' = cur /\ finished' = finished
    BY <1>5 DEF IInv, DeviceInv, Complete, historyVars
  <2>2. \A v \in Worker : pc'[v] = "run" <=> pc[v] = "run"
    BY <2>1 DEF DeviceTypeOK
  <2>3. RunningNow' = RunningNow
    BY <2>1, <2>2 DEF RunningNow
  <2> QED
    BY <2>1, <2>3, GraphStutter
<1>6. ASSUME NEW w \in Worker, NEW x \in Task, ProbeMiss(w, x)
      PROVE  UNCHANGED <<pc, cur, finished>>
  BY <1>6 DEF ProbeMiss, historyVars
<1>7. ASSUME NEW w \in Worker, NEW r,
             ArriveRed(w, r) \/ ArriveSolo(w, r) \/ ArriveTicket(w, r) \/ PublishEpoch(w, r)
      PROVE  UNCHANGED <<pc, cur, finished>>
  BY <1>7 DEF ArriveRed, ArriveSolo, ArriveTicket, Arrive, PublishEpoch, historyVars
<1>8. EndLaunch \/ Reset \/ UNCHANGED deviceVars \/ UNCHANGED vars
        => UNCHANGED <<pc, cur, finished>>
  BY DEF EndLaunch, Reset, deviceVars, vars, workerVars, historyVars
<1>9. CASE Next
  BY <1>1, <1>2, <1>3, <1>4, <1>5, <1>6, <1>7, <1>8, <1>9 DEF Next, WorkerStep
<1> QED
  BY <1>1, <1>8, <1>9

\* The executor implements the abstract task graph: no body runs twice in an
\* iteration or before its producers, and a new iteration begins only over a
\* complete one.
THEOREM Refinement == Spec => ImplementsTaskGraph
<1>1. Init => Graph!Init
  BY DEF Init, DeviceInit, Graph!Init
<1>2. IInv /\ DependencySafety' /\ [Next]_vars => [Graph!Next]_(Graph!graphVars)
  BY Step_Refines
<1> QED
  BY <1>1, <1>2, Inductive, Safety, PTL DEF Spec, ImplementsTaskGraph, Graph!Spec

-----------------------------------------------------------------------------
(***************************************************************************)
(* "This always makes progress".  The legality check sweeps tasks while a  *)
(* worker polls rows, so the argument needs that a row polled has none but *)
(* ancestors for members (PollsOwnAncestors).  First what the sweep shows: *)
(* its rounds rank the tasks along the dependencies and along every queue. *)
(***************************************************************************)

\* What one more round of the sweep emits.
Sweep(c, earlier) == {x \in Task : MustPrecede(c, x) \subseteq earlier}

Rounds(c, n, f) ==
    f = [m \in 0 .. n |-> IF m = 0 THEN {} ELSE Sweep(c, f[m - 1])]

\* The sweep's recursion has a solution for every number of rounds.
LEMMA RoundsExist ==
    ASSUME NEW c, NEW n \in Nat
    PROVE  \E f : Rounds(c, n, f)
<1> DEFINE Bad == {m \in Nat : ~ \E f : Rounds(c, m, f)}
<1>1. SUFFICES ASSUME Bad # {}
               PROVE  FALSE
  OBVIOUS
<1>2. PICK k \in Bad : \A m \in Bad : k <= m
  <2>1. Bad \in SUBSET Nat
    OBVIOUS
  <2> HIDE DEF Bad
  <2> QED
    BY <1>1, <2>1, LeastNatural
<1>3. k \in Nat /\ ~ \E f : Rounds(c, k, f)
  BY <1>2
<1>4. k # 0
  <2> DEFINE z == [m \in 0 .. 0 |-> {}]
  <2>1. \A m \in 0 .. 0 : m = 0
    OBVIOUS
  <2>2. z = [m \in 0 .. 0 |-> IF m = 0 THEN {} ELSE Sweep(c, z[m - 1])]
    BY <2>1
  <2>3. Rounds(c, 0, z)
    BY <2>2 DEF Rounds
  <2> QED
    BY <1>3, <2>3
<1>5. k - 1 \in Nat /\ k - 1 \notin Bad
  BY <1>2, <1>3, <1>4
<1>6. PICK g : Rounds(c, k - 1, g)
  BY <1>5
<1> DEFINE f == [m \in 0 .. k |-> IF m = k THEN Sweep(c, g[k - 1]) ELSE g[m]]
<1>7. ASSUME NEW m \in 0 .. k
      PROVE  f[m] = IF m = 0 THEN {} ELSE Sweep(c, f[m - 1])
  <2>1. \A i \in 0 .. (k - 1) : g[i] = IF i = 0 THEN {} ELSE Sweep(c, g[i - 1])
    BY <1>6 DEF Rounds
  <2>2. CASE m = k
    <3>1. m - 1 \in 0 .. k /\ m - 1 # k
      BY <1>3, <1>4, <2>2
    <3>2. f[m - 1] = g[k - 1]
      BY <2>2, <3>1
    <3> QED
      BY <1>4, <2>2, <3>2
  <2>3. CASE m # k
    <3>1. m \in 0 .. (k - 1)
      BY <1>3, <2>3
    <3>2. m # 0 => m - 1 \in 0 .. k /\ m - 1 # k
      BY <1>3, <3>1
    <3>3. m # 0 => f[m - 1] = g[m - 1]
      BY <3>2
    <3>4. f[m] = g[m]
      BY <2>3
    <3> QED
      BY <2>1, <3>1, <3>3, <3>4
  <2> QED
    BY <2>2, <2>3
<1>8. f = [m \in 0 .. k |-> IF m = 0 THEN {} ELSE Sweep(c, f[m - 1])]
  <2>1. f = [m \in 0 .. k |-> f[m]]
    OBVIOUS
  <2> HIDE DEF f
  <2> QED
    BY <1>7, <2>1
<1>9. Rounds(c, k, f)
  BY <1>8 DEF Rounds
<1> QED
  BY <1>3, <1>9

LEMMA EmittedRounds ==
    ASSUME NEW c
    PROVE  \E f : Rounds(c, Cardinality(Task), f) /\ Emitted(c) = f[Cardinality(Task)]
<1> DEFINE N == Cardinality(Task)
           F == CHOOSE f : Rounds(c, N, f)
<1>1. N \in Nat
  BY TaskFinite, FS_CardinalityType
<1>2. Rounds(c, N, F)
  <2> HIDE DEF N
  <2> QED
    BY <1>1, RoundsExist
<1>3. Emitted(c) = F[N]
  BY DEF Emitted, Rounds, Sweep
<1> QED
  BY <1>2, <1>3

\* The first round that emits a task: everything it must follow came earlier.
LEMMA SweepRanks ==
    ASSUME NEW c, Emitted(c) = Task
    PROVE  \E rank \in [Task -> Nat] :
              \A x \in Task : \A y \in Task : y \in MustPrecede(c, x) => rank[y] < rank[x]
<1> DEFINE N == Cardinality(Task)
<1>1. N \in Nat
  BY TaskFinite, FS_CardinalityType
<1>2. PICK f : Rounds(c, N, f) /\ Emitted(c) = f[N]
  BY EmittedRounds
<1> HIDE DEF N
<1>3. \A m \in 0 .. N : f[m] = IF m = 0 THEN {} ELSE Sweep(c, f[m - 1])
  BY <1>2 DEF Rounds
<1>4. \A x \in Task : \E m \in 0 .. N : x \in f[m] /\ \A k \in 0 .. N : x \in f[k] => m <= k
  <2> SUFFICES ASSUME NEW x \in Task
               PROVE  \E m \in 0 .. N : x \in f[m] /\ \A k \in 0 .. N : x \in f[k] => m <= k
    OBVIOUS
  <2> DEFINE S == {m \in 0 .. N : x \in f[m]}
  <2>1. N \in S /\ S \in SUBSET Nat
    BY <1>1, <1>2
  <2>2. PICK m \in S : \A k \in S : m <= k
    <3> HIDE DEF S
    <3> QED
      BY <2>1, LeastNatural
  <2> QED
    BY <2>2
<1> DEFINE rank == [x \in Task |-> CHOOSE m \in 0 .. N :
                       x \in f[m] /\ \A k \in 0 .. N : x \in f[k] => m <= k]
<1>5. \A x \in Task : /\ rank[x] \in 0 .. N /\ x \in f[rank[x]]
                      /\ \A k \in 0 .. N : x \in f[k] => rank[x] <= k
  BY <1>4
<1>6. rank \in [Task -> Nat]
  BY <1>1, <1>5
<1>7. ASSUME NEW x \in Task, NEW y \in Task, y \in MustPrecede(c, x)
      PROVE  rank[y] < rank[x]
  <2> HIDE DEF rank
  <2>1. PICK n \in 0 .. N : n = rank[x]
    BY <1>5
  <2>2. x \in f[n] /\ rank[y] \in Nat
    BY <1>1, <1>5, <2>1
  <2>3. n # 0 /\ x \in Sweep(c, f[n - 1])
    BY <1>3, <2>2
  <2>4. n - 1 \in 0 .. N
    BY <1>1, <2>1, <2>3
  <2>6. y \in f[n - 1]
    BY <1>7, <2>3 DEF Sweep
  <2>5. rank[y] <= n - 1
    BY <1>5, <2>4, <2>6
  <2> QED
    BY <2>1, <2>2, <2>5
<1> QED
  BY <1>6, <1>7

\* Along a queue the rank never falls, since each slot follows the one before.
LEMMA QueueRanks ==
    ASSUME HostTypeOK, PlanLegal, NEW rank \in [Task -> Nat],
           \A x \in Task : \A y \in Task : y \in MustPrecede(plan, x) => rank[y] < rank[x],
           NEW y \in Task, NEW x \in Task, SameWorker(y, x), plan.slot[y] <= plan.slot[x]
    PROVE  rank[y] <= rank[x]
<1> DEFINE Late(z) == SameWorker(y, z) /\ plan.slot[y] <= plan.slot[z] /\ rank[z] < rank[y]
           S == {k \in Nat : \E z \in Task : Late(z) /\ plan.slot[z] = k}
<1>1. SUFFICES ASSUME rank[x] < rank[y]
               PROVE  FALSE
  OBVIOUS
<1>2. \A z \in Task : plan.slot[z] \in Nat /\ plan.owner[z] \in Worker
                      /\ plan.slot[z] < QueueLength(plan.owner[z])
                      /\ QueueLength(plan.owner[z]) \in Nat
  BY PlanFacts
<1>3. S # {} /\ S \in SUBSET Nat
  BY <1>1, <1>2
<1>4. PICK k \in S : \A m \in S : k <= m
  <2> HIDE DEF S
  <2> QED
    BY <1>3, LeastNatural
<1>5. PICK z \in Task : Late(z) /\ plan.slot[z] = k
  BY <1>4
<1>6. k \in Nat /\ plan.slot[y] \in Nat /\ plan.slot[y] <= k /\ k < QueueLength(plan.owner[z])
      /\ QueueLength(plan.owner[z]) \in Nat /\ plan.owner[z] \in Worker
  BY <1>2, <1>5
<1>7. plan.slot[y] # k
  <2> SUFFICES ASSUME plan.slot[y] = k
               PROVE  FALSE
    OBVIOUS
  <2>1. y = z
    BY <1>5, PlanFacts
  <2> QED
    BY <1>5, <2>1
<1>8. k - 1 \in Nat /\ k - 1 < QueueLength(plan.owner[z]) /\ plan.slot[y] <= k - 1
  BY <1>6, <1>7
<1>9. PICK v \in Task : plan.owner[v] = plan.owner[z] /\ plan.slot[v] = k - 1
  BY <1>6, <1>8, SlotOccupied
<1>10. v \in MustPrecede(plan, z)
  BY <1>5, <1>6, <1>9 DEF MustPrecede, QueueOf
<1>11. rank[v] < rank[z]
  BY <1>10
<1>12. Late(v)
  BY <1>5, <1>8, <1>9, <1>11 DEF SameWorker
<1>13. k - 1 \in S
  BY <1>8, <1>9, <1>12
<1> QED
  BY <1>4, <1>6, <1>13

-----------------------------------------------------------------------------
(***************************************************************************)
(* Three more facts of every reachable state: the plan in use passed the   *)
(* sweep, no slot polls more rows than its edges name, and a full row has  *)
(* its epoch stored or a worker that still owes it.                        *)
(***************************************************************************)
Swept == Planned => Emitted(plan) = Task

WaitsNamed == \A x \in Task : waits[x] \subseteq EdgeRows(x)

Published ==
    Launched /\ ~RedPublish => \A r \in Row :
        arrived[r] = Members(r) /\ Members(r) # {} =>
            epoch[r] = iteration + 1 \/ \E w \in Worker : r \in toPublish[w]

ProgressInv == Swept /\ WaitsNamed /\ Published

LEMMA Init_ProgressInv ==
    ASSUME Init
    PROVE  ProgressInv
BY DEF Init, HostInit, ProgressInv, Swept, WaitsNamed, Published, Planned, Launched

\* The sweep and the waits are the host's: only a host step disturbs them.
LEMMA HostNext_ProgressInv ==
    ASSUME IInv, ProgressInv, HostNext, UNCHANGED deviceVars
    PROVE  ProgressInv'
<1>1. HostTypeOK
  BY DEF IInv, HostInv
<1>2. Published'
  BY DEF HostNext, AcceptPlan, RejectPlan, MaterializeTask, NextWorker, UploadSchedule,
         Published, Launched
<1>3. ASSUME NEW x \in Task, MaterializeTask(x)
      PROVE  Swept' /\ WaitsNamed'
  <2>1. Desired(x) \subseteq EdgeRows(x)
    BY DEF Desired, EdgeRows, PolledTasks
  <2>2. EmittedWaits(x) \subseteq EdgeRows(x)
    BY <2>1 DEF EmittedWaits
  <2>3. WaitsNamed'
    BY <1>1, <1>3, <2>2 DEF MaterializeTask, ProgressInv, WaitsNamed, HostTypeOK
  <2>4. Swept'
    BY <1>3 DEF MaterializeTask, ProgressInv, Swept, Planned
  <2> QED
    BY <2>3, <2>4
<1>4. ASSUME NEW mode \in PlacementMode, NEW c \in MaterializePlanPlacement(mode),
             AcceptPlan(c) \/ RejectPlan(c)
      PROVE  Swept' /\ WaitsNamed'
  <2>1. AcceptPlan(c) => Emitted(c) = Task /\ plan' = c
    BY DEF AcceptPlan, CheckPlanLegality
  <2>2. AcceptPlan(c) => Swept'
    BY <2>1 DEF Swept
  <2>3. RejectPlan(c) => Swept'
    BY DEF RejectPlan, Swept, Planned
  <2>4. WaitsNamed'
    BY <1>4 DEF AcceptPlan, RejectPlan, ProgressInv, WaitsNamed
  <2> QED
    BY <1>4, <2>2, <2>3, <2>4
<1>5. ASSUME NextWorker \/ UploadSchedule
      PROVE  Swept' /\ WaitsNamed'
  BY <1>5 DEF NextWorker, UploadSchedule, ProgressInv, WaitsNamed, Swept, Planned
<1>6. Swept' /\ WaitsNamed'
  BY <1>3, <1>4, <1>5 DEF HostNext
<1> QED
  BY <1>2, <1>6 DEF ProgressInv

\* A step of the device leaves the plan and the waits alone.
LEMMA DeviceKeeps ==
    ASSUME ProgressInv, UNCHANGED <<plan, waits>>, Planned' => Planned
    PROVE  Swept' /\ WaitsNamed'
BY DEF ProgressInv, Swept, WaitsNamed

LEMMA LaunchSteps_ProgressInv ==
    ASSUME IInv, ProgressInv, LaunchL2 \/ EndLaunch \/ Reset
    PROVE  ProgressInv'
<1>1. Swept' /\ WaitsNamed'
  BY DeviceKeeps DEF LaunchL2, EndLaunch, Reset, Planned, hostVars
<1>2. CASE LaunchL2
  <2>1. \A r \in Row : arrived'[r] = {}
    BY <1>2 DEF LaunchL2
  <2> QED
    BY <1>1, <2>1 DEF Published, ProgressInv
<1>3. CASE EndLaunch \/ Reset
  <2>1. status' # "launched"
    BY <1>3 DEF EndLaunch, Reset, hostVars
  <2> QED
    BY <1>1, <2>1 DEF Published, Launched, ProgressInv
<1> QED
  BY <1>2, <1>3

\* Nothing that bears on publication moves.
LEMMA QuietSteps_ProgressInv ==
    ASSUME ProgressInv, NEW w \in Worker,
           UNCHANGED <<hostVars, iteration, toPublish, eventVars, arrived>>
    PROVE  ProgressInv'
BY DEF hostVars, eventVars, ProgressInv, Swept, WaitsNamed, Published, Planned, Launched,
       RedPublish

\* The rows other than the one arrived at are as they were.
LEMMA Arrive_Published ==
    ASSUME IInv, ProgressInv, NEW w \in Worker, NEW r \in toArrive[w], Arrive(w, r),
           toPublish' \in [Worker -> SUBSET Row],
           \A v \in Worker : v # w => toPublish'[v] = toPublish[v],
           toPublish[w] \subseteq toPublish'[w],
           \A q \in Row : q # r => epoch'[q] = epoch[q],
           ~RedPublish /\ arrived'[r] = Members(r) =>
              epoch'[r] = iteration + 1 \/ r \in toPublish'[w]
    PROVE  ProgressInv'
<1>1. /\ Launched /\ iteration' = iteration /\ r \in Row
      /\ \A q \in Row : q # r => arrived'[q] = arrived[q]
  BY ArriveKeeps
<1>2. Swept' /\ WaitsNamed' /\ publication' = publication
  BY DeviceKeeps DEF Arrive, hostVars, Planned
<1>3. Published'
  <2> SUFFICES ASSUME ~RedPublish, NEW q \in Row, arrived'[q] = Members(q), Members(q) # {}
               PROVE  epoch'[q] = iteration + 1 \/ \E v \in Worker : q \in toPublish'[v]
    BY <1>1, <1>2 DEF Published, RedPublish
  <2>1. CASE q = r
    BY <2>1
  <2>2. CASE q # r
    <3>1. epoch[q] = iteration + 1 \/ \E v \in Worker : q \in toPublish[v]
      BY <1>1, <2>2 DEF ProgressInv, Published
    <3> QED
      BY <2>2, <3>1
  <2> QED
    BY <2>1, <2>2
<1> QED
  BY <1>2, <1>3 DEF ProgressInv

LEMMA ArriveRed_ProgressInv ==
    ASSUME IInv, ProgressInv, NEW w \in Worker, NEW r \in toArrive[w], ArriveRed(w, r)
    PROVE  ProgressInv'
<1>1. toPublish \in [Worker -> SUBSET Row]
  BY DEF IInv, DeviceInv, DeviceTypeOK
<1> QED
  BY <1>1, Arrive_Published DEF ArriveRed

LEMMA ArriveSolo_ProgressInv ==
    ASSUME IInv, ProgressInv, NEW w \in Worker, NEW r \in toArrive[w], ArriveSolo(w, r)
    PROVE  ProgressInv'
<1>1. /\ toPublish \in [Worker -> SUBSET Row] /\ epoch \in [Row -> Nat]
      /\ toArrive[w] \subseteq Row
  BY DEF IInv, DeviceInv, DeviceTypeOK
<1>2. /\ epoch'[r] = iteration + 1 /\ toPublish' = toPublish /\ Arrive(w, r)
      /\ \A q \in Row : q # r => epoch'[q] = epoch[q]
  BY <1>1 DEF ArriveSolo
<1> QED
  BY <1>1, <1>2, Arrive_Published

\* The arrival that fills the row is the one whose ticket says so.
LEMMA ArriveTicket_ProgressInv ==
    ASSUME IInv, ProgressInv, NEW w \in Worker, NEW r \in toArrive[w], ArriveTicket(w, r)
    PROVE  ProgressInv'
<1> DEFINE last == arrivals[r] + 1 = RawEventTriggers(r) * (iteration + 1)
<1>1. /\ Arrive(w, r) /\ ~Uncounted(r) /\ arrivals' = [arrivals EXCEPT ![r] = @ + 1]
      /\ epoch' = epoch
      /\ toPublish' = [toPublish EXCEPT ![w] = IF last THEN toPublish[w] \cup {r}
                                               ELSE toPublish[w]]
  BY DEF ArriveTicket, Uncounted
<1>2. /\ toPublish \in [Worker -> SUBSET Row] /\ toArrive[w] \subseteq Row /\ iteration \in Nat
  BY DEF IInv, DeviceInv, DeviceTypeOK
<1>3. /\ toPublish' \in [Worker -> SUBSET Row]
      /\ toPublish'[w] = IF last THEN toPublish[w] \cup {r} ELSE toPublish[w]
      /\ \A v \in Worker : v # w => toPublish'[v] = toPublish[v]
  <2> HIDE DEF last
  <2> QED
    BY <1>1, <1>2
<1>4. arrived'[r] = Members(r) => last
  <2> SUFFICES ASSUME arrived'[r] = Members(r)
               PROVE  last
    OBVIOUS
  <2>1. r \in Row
    BY <1>2
  <2>2. arrivals[r] + 1 = RawEventTriggers(r) * iteration + Cardinality(arrived'[r])
    BY <1>1, <1>3, CountOne
  <2>3. PICK k \in Nat : k = RawEventTriggers(r) /\ k = Cardinality(Members(r))
    BY <2>1, TriggersAreNat
  <2>4. arrivals[r] + 1 = k * iteration + k
    BY <2>2, <2>3
  <2>5. k * iteration + k = k * (iteration + 1)
    BY <1>2, SMT
  <2> QED
    BY <2>3, <2>4, <2>5
<1> HIDE DEF last
<1> QED
  BY <1>1, <1>3, <1>4, Arrive_Published

LEMMA PublishEpoch_ProgressInv ==
    ASSUME IInv, ProgressInv, NEW w \in Worker, NEW r \in toPublish[w], PublishEpoch(w, r)
    PROVE  ProgressInv'
<1>1. /\ toPublish \in [Worker -> SUBSET Row] /\ epoch \in [Row -> Nat]
  BY DEF IInv, DeviceInv, DeviceTypeOK
<1>2. /\ UNCHANGED <<hostVars, iteration, publication, arrived>>
      /\ epoch' = [epoch EXCEPT ![r] = iteration + 1]
      /\ toPublish' = [toPublish EXCEPT ![w] = toPublish[w] \ {r}]
  BY DEF PublishEpoch, historyVars
<1>3. /\ Swept' /\ WaitsNamed'
      /\ (RedPublish' <=> RedPublish) /\ (Launched' <=> Launched)
  BY <1>2, DeviceKeeps DEF hostVars, Planned, RedPublish, Launched
<1>4. Published'
  <2> SUFFICES ASSUME Launched, ~RedPublish, NEW q \in Row, arrived[q] = Members(q), Members(q) # {}
               PROVE  epoch'[q] = iteration + 1 \/ \E v \in Worker : q \in toPublish'[v]
    BY <1>2, <1>3 DEF Published
  <2>1. CASE q = r
    BY <1>1, <1>2, <2>1
  <2>2. CASE q # r
    <3>1. epoch[q] = iteration + 1 \/ \E v \in Worker : q \in toPublish[v]
      BY DEF ProgressInv, Published
    <3>2. epoch'[q] = epoch[q] /\ \A v \in Worker : q \in toPublish[v] => q \in toPublish'[v]
      BY <1>1, <1>2, <2>2
    <3> QED
      BY <3>1, <3>2
  <2> QED
    BY <2>1, <2>2
<1> QED
  BY <1>3, <1>4 DEF ProgressInv

LEMMA Next_ProgressInv ==
    ASSUME IInv, ProgressInv, [Next]_vars
    PROVE  ProgressInv'
<1>1. CASE HostNext /\ UNCHANGED deviceVars
  BY <1>1, HostNext_ProgressInv
<1>2. CASE LaunchL2 \/ EndLaunch \/ Reset
  BY <1>2, LaunchSteps_ProgressInv
<1>3. ASSUME NEW w \in Worker, WorkerStep(w)
      PROVE  ProgressInv'
  <2>1. ASSUME NEW x \in Task, ProbeHit(w, x) \/ ProbeMiss(w, x) \/ WaitHead(w, x)
        PROVE  ProgressInv'
    BY <2>1, QuietSteps_ProgressInv DEF ProbeHit, ProbeMiss, WaitHead, Take, historyVars
  <2>2. CASE RunTask(w) \/ Complete(w)
    BY <2>2, QuietSteps_ProgressInv DEF RunTask, Complete, historyVars
  <2> QED
    BY <1>3, <2>1, <2>2, ArriveRed_ProgressInv, ArriveSolo_ProgressInv,
       ArriveTicket_ProgressInv, PublishEpoch_ProgressInv DEF WorkerStep
<1>4. CASE UNCHANGED vars
  <2>1. 0 \in Worker
    BY PlanAssumption DEF Worker
  <2> QED
    BY <1>4, <2>1, QuietSteps_ProgressInv DEF vars, deviceVars, workerVars, historyVars
<1> QED
  BY <1>1, <1>2, <1>3, <1>4 DEF Next

THEOREM ProgressInductive == Spec => [](IInv /\ ProgressInv)
BY Init_IInv, Init_ProgressInv, Next_IInv, Next_ProgressInv, PTL DEF Spec

-----------------------------------------------------------------------------
(***************************************************************************)
(* Of the tasks not complete, one of least rank heads a queue, and every   *)
(* member of a row it polls has arrived: the row reads complete.           *)
(***************************************************************************)
\* While nobody notifies, a row all of whose members are complete is ready.
LEMMA FullRowReady ==
    ASSUME IInv, ProgressInv, Launched, \A w \in Worker : pc[w] = "acquire",
           NEW r \in Row, Members(r) # {}, \A x \in Members(r) : Done(x)
    PROVE  EventReady(r)
<1>1. /\ DeviceTypeOK /\ Outbox /\ History /\ ArrivedExact /\ Counted /\ iteration \in Nat
      /\ PlanLegal /\ HostTypeOK
  BY IInvFacts DEF IInv, DeviceInv, DeviceTypeOK
<1>2. \A w \in Worker : toArrive[w] = {} /\ toPublish[w] = {}
  BY <1>1 DEF Outbox
<1>3. arrived[r] = Members(r)
  <2> SUFFICES ASSUME NEW x \in Members(r)
               PROVE  x \in arrived[r]
    BY <1>1 DEF ArrivedExact
  <2>1. x \in Task /\ plan.owner[x] \in Worker
    BY <1>1, MembersInTask, PlanFacts
  <2>2. x \in finished /\ ~Owing(x, r)
    BY <1>1, <1>2, <2>1 DEF History, Owing
  <2> QED
    BY <1>1, <2>2 DEF ArrivedExact
<1>4. CASE RedPublish
  <2>1. PICK k \in Nat : k = RawEventTriggers(r) /\ k = Cardinality(Members(r))
    BY TriggersAreNat
  <2>2. arrivals[r] = k * iteration + k
    BY <1>1, <1>3, <1>4, <2>1 DEF Counted, Uncounted
  <2>3. k * iteration + k = k * (iteration + 1) /\ k * (iteration + 1) \in Int
    BY <1>1, SMT
  <2> QED
    BY <1>4, <2>1, <2>2, <2>3 DEF EventReady
<1>5. CASE ~RedPublish
  <2>1. epoch[r] = iteration + 1
    BY <1>2, <1>3, <1>5 DEF ProgressInv, Published
  <2> QED
    BY <1>1, <1>5, <2>1 DEF EventReady
<1> QED
  BY <1>4, <1>5

LEMMA ProgressInv_HeadProgress ==
    ASSUME PollsOwnAncestors, IInv, ProgressInv
    PROVE  HeadProgress
<1>1. SUFFICES ASSUME Launched, \A w \in Worker : Blocked(w),
                      NEW v \in Worker, ~QueueDone(v)
               PROVE  FALSE
  BY DEF HeadProgress, Launched
<1>2. /\ DeviceTypeOK /\ HostTypeOK /\ PlanLegal /\ Consumed /\ Emitted(plan) = Task
      /\ \A w \in Worker : pc[w] = "acquire"
  BY <1>1, IInvFacts DEF IInv, DeviceInv, Blocked, ProgressInv, Swept, Planned, Launched
<1>3. PICK rank \in [Task -> Nat] :
        \A x \in Task : \A y \in Task : y \in MustPrecede(plan, x) => rank[y] < rank[x]
  BY <1>2, SweepRanks
<1> DEFINE U == {x \in Task : ~Done(x)}
           R == {rank[x] : x \in U}
<1>4. U # {}
  <2> SUFFICES ASSUME U = {}
               PROVE  QueueDone(v)
    BY <1>1
  <2>1. {x \in QueueOf(plan, v) : Done(x)} = QueueOf(plan, v)
    BY DEF QueueOf
  <2> QED
    BY <1>1, <1>2, <2>1 DEF Consumed, QueueDone, QueueLength
<1>5. PICK x \in U : \A y \in U : rank[x] <= rank[y]
  <2>1. R # {} /\ R \in SUBSET Nat
    BY <1>4
  <2>2. PICK m \in R : \A k \in R : m <= k
    <3> HIDE DEF R
    <3> QED
      BY <2>1, LeastNatural
  <2> QED
    BY <2>2
<1>6. PICK w \in Worker : w = plan.owner[x]
  BY <1>2, PlanFacts
<1>7. ~QueueDone(w)
  BY <1>1, <1>6, QueueDoneMeans
<1>8. PICK h \in Task : InSlot(h, w, head[w]) /\ ~ProbeTaskDependencies(h)
  BY <1>1, <1>7 DEF Blocked
<1>9. /\ plan.owner[h] = w /\ plan.slot[h] = head[w] /\ plan.owner[x] = w
      /\ plan.slot[x] \in Nat /\ head[w] \in Nat
  BY <1>2, <1>6, <1>8, PlanFacts DEF InSlot, DeviceTypeOK
<1>10. rank[h] <= rank[x]
  <2>1. plan.slot[h] <= plan.slot[x]
    BY <1>9 DEF Done
  <2>2. SameWorker(h, x)
    BY <1>9 DEF SameWorker
  <2> QED
    BY <1>2, <1>3, <2>1, <2>2, QueueRanks
<1> DEFINE S == {y \in Task : rank[y] < rank[x]}
<1>11. S \in SUBSET Task /\ \A y \in S : Done(y)
  BY <1>5
<1>12. Predecessors(h) \subseteq S
  BY <1>3, <1>10 DEF MustPrecede, Predecessors
<1>13. \A y \in S : Predecessors(y) \subseteq S
  BY <1>3 DEF MustPrecede, Predecessors
<1>14. PICK r \in waits[h] : ~EventReady(r)
  BY <1>8 DEF ProbeTaskDependencies
<1>15. r \in Row /\ r \in EdgeRows(h)
  BY <1>2, <1>14 DEF HostTypeOK, ProgressInv, WaitsNamed
<1>16. Members(r) # {} /\ Members(r) \subseteq S
  <2> HIDE DEF S
  <2> QED
    BY <1>11, <1>12, <1>13, <1>15 DEF PollsOwnAncestors
<1>17. EventReady(r)
  <2> HIDE DEF S
  <2> QED
    BY <1>1, <1>2, <1>11, <1>15, <1>16, FullRowReady
<1> QED
  BY <1>14, <1>17

\* Under an accepted plan the workers are never all blocked on their heads
\* before the launch is over, whatever the graph, the placement, the window and
\* the form of publication, if the rows polled have none but ancestors in them.
THEOREM HeadsProgress ==
    ASSUME PollsOwnAncestors
    PROVE  Spec => []HeadProgress
<1>1. IInv /\ ProgressInv => HeadProgress
  BY ProgressInv_HeadProgress
<1> QED
  BY <1>1, ProgressInductive, PTL

\* Every task publishes a row of its own, and no kAll edge reads an empty stage.
Ungrouped ==
    /\ \A s \in Stage : NeedsFineEvents(s) => Kappa[s] = 1
    /\ \A d \in Dependencies : d.all => Count[d.producer] # 0

\* The hypothesis costs an ungrouped build nothing.
THEOREM UngroupedPolls ==
    ASSUME Ungrouped
    PROVE  PollsOwnAncestors
<1> SUFFICES ASSUME NEW x \in Task, NEW r \in EdgeRows(x)
             PROVE  Members(r) # {} /\ Members(r) \subseteq Predecessors(x)
  BY DEF PollsOwnAncestors
<1>1. ASSUME NEW d \in Incoming(x.stage), d.all,
             r = [producer |-> d.producer, group |-> WholeStage]
      PROVE  Members(r) # {} /\ Members(r) \subseteq Predecessors(x)
  <2>1. d \in Dependencies /\ d.producer \in Stage /\ Count[d.producer] \in Nat \ {0}
    BY <1>1, GraphAssumption DEF Incoming, Ungrouped
  <2>2. r \in Row /\ r.group = WholeStage /\ r.producer = d.producer
    BY <1>1, TaskFields, AggregateRowMember
  <2>3. Members(r) = TasksOf(d.producer)
    BY <2>2, AggregateMembers
  <2>4. [stage |-> d.producer, logical |-> 0] \in TasksOf(d.producer)
    BY <2>1, TaskMembership DEF TasksOf
  <2>5. \A p \in TasksOf(d.producer) : p \in Predecessors(x)
    BY <1>1, <2>1, TaskFields DEF TasksOf, Predecessors, RuntimeDependencyBounds
  <2> QED
    BY <2>3, <2>4, <2>5
<1>2. ASSUME NEW p \in RequiredTasks(x), r = [producer |-> p.stage, group |-> Group(p)]
      PROVE  Members(r) # {} /\ Members(r) \subseteq Predecessors(x)
  <2>1. /\ p \in Task /\ r \in Row /\ p \in Members(r)
        /\ r.producer = p.stage /\ r.group = Group(p)
    BY <1>2, WindowedRow
  <2>2. p \in Predecessors(x)
    BY DEF RequiredTasks, Predecessors
  <2>3. Kappa[p.stage] = 1
    BY <2>1, TaskFields DEF RequiredTasks, Incoming, NeedsFineEvents, Ungrouped
  <2>4. r.group # WholeStage
    BY <2>1, GroupIsNat DEF WholeStage
  <2>5. ASSUME NEW y \in Members(r)
        PROVE  y = p
    <3>1. y \in Task /\ y.stage = p.stage /\ Group(y) = Group(p)
      BY <2>1, <2>4, FineMembers DEF TasksOf
    <3>2. y.logical \in Nat /\ p.logical \in Nat
      BY <2>1, <3>1, TaskFields
    <3>3. Group(y) = y.logical /\ Group(p) = p.logical
      BY <2>3, <3>1, <3>2 DEF Group
    <3>4. /\ y = [stage |-> y.stage, logical |-> y.logical]
          /\ p = [stage |-> p.stage, logical |-> p.logical]
      BY <2>1, <3>1, TaskMembership
    <3> QED
      BY <3>1, <3>3, <3>4
  <2> QED
    BY <2>1, <2>2, <2>5
<1> QED
  BY <1>1, <1>2 DEF EdgeRows

\* With groups of one the workers never block each other.
THEOREM UngroupedProgress ==
    ASSUME Ungrouped
    PROVE  Spec => []HeadProgress
BY UngroupedPolls, HeadsProgress
=============================================================================
