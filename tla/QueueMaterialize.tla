-------------------------- MODULE QueueMaterialize --------------------------
(***************************************************************************)
(* The host side of the L2 executor: choose a plan, check it, then walk    *)
(* each worker's queue in slot order and give every task the event rows it *)
(* polls and the in-window slots it must not overtake (harness::Create).   *)
(*                                                                         *)
(* A row already observed by an earlier slot of the same queue need not be *)
(* polled again, and a producer on the same worker need not be polled at   *)
(* all, but only across a distance the device's window cannot reorder.     *)
(***************************************************************************)
EXTENDS PlanMaterialize

CONSTANT Window     \* W: slots a worker may look ahead (bound_plan.window)

ASSUME WindowAssumption == Window \in Nat \ {0}

VARIABLES
    status,   \* where the host is
    plan,     \* (pi, sigma) once accepted
    cursor,   \* [worker, slot] of the materialization loop
    waits,    \* rows in a task's TaskWait list
    local,    \* distances in a task's local_mask
    seen      \* per worker and row, the slot that last emitted a wait on it

hostVars == <<status, plan, cursor, waits, local, seen>>

HostStatus == {"planning", "rejected", "materializing", "idle", "launched"}

Unseen == -1

NoPlan == [owner |-> [x \in Task |-> 0], slot |-> [x \in Task |-> 0]]

HostInit ==
    /\ status = "planning"
    /\ plan = NoPlan
    /\ cursor = [worker |-> 0, slot |-> 0]
    /\ waits = [x \in Task |-> {}]
    /\ local = [x \in Task |-> {}]
    /\ seen = [w \in Worker |-> [r \in Row |-> Unseen]]

QueueLength(w) == Cardinality(QueueOf(plan, w))

-----------------------------------------------------------------------------
(***************************************************************************)
(* The dependencies of one task, as the materialization loop sorts them.   *)
(***************************************************************************)
SameWorker(p, x) == plan.owner[p] = plan.owner[x]

\* Only a producer with an event of its own may be taken out of the polls.
Elidable(p, x) == Kappa[p.stage] = 1 /\ SameWorker(p, x)

BeyondWindow(i, j) == i + Window <= j

\* Producers of x over windowed edges (kAll edges read the aggregate row).
RequiredTasks(x) ==
    {p \in Task : \E d \in Incoming(x.stage) :
        /\ ~d.all
        /\ p.stage = d.producer
        /\ p.logical \in RuntimeDependencyBounds(d, x.logical)}

\* Discharged by the queue order itself.
FifoTasks(x) ==
    {p \in RequiredTasks(x) :
        Elidable(p, x) /\ BeyondWindow(plan.slot[p], plan.slot[x])}

\* A same-worker producer inside the window becomes a local dependency; with
\* a window of one nothing is kept local and its row is polled instead.
LocalTasks(x) ==
    {p \in RequiredTasks(x) \ FifoTasks(x) : Elidable(p, x) /\ Window > 1}

PolledTasks(x) == RequiredTasks(x) \ (FifoTasks(x) \cup LocalTasks(x))

Desired(x) ==
    {[producer |-> d.producer, group |-> WholeStage] :
        d \in {e \in Incoming(x.stage) : e.all}}
      \cup {[producer |-> p.stage, group |-> Group(p)] : p \in PolledTasks(x)}

LocalDistances(x) == {plan.slot[x] - plan.slot[p] : p \in LocalTasks(x)}

\* Mutant: an earlier slot is trusted to have polled, in-window or not.
MustEmitOnce(r, x) == seen[plan.owner[x]][r] = Unseen

\* L-d: a wait is dropped only if the slot that holds it is a full window back.
MustEmit(r, x) ==
    LET at == seen[plan.owner[x]][r]
    IN  at = Unseen \/ at + Window > plan.slot[x]

EmittedWaits(x) == {r \in Desired(x) : MustEmit(r, x)}

-----------------------------------------------------------------------------
AcceptPlan(candidate) ==
    /\ BuildPlanQueues(candidate)
    /\ CheckPlanLegality(candidate)
    /\ status' = "materializing"
    /\ plan' = candidate
    /\ UNCHANGED <<cursor, waits, local, seen>>

\* The harness prints the reason and exits.
RejectPlan(candidate) ==
    /\ ~(BuildPlanQueues(candidate) /\ CheckPlanLegality(candidate))
    /\ status' = "rejected"
    /\ UNCHANGED <<plan, cursor, waits, local, seen>>

\* One pass of the queue loop.
MaterializeTask(x) ==
    /\ status = "materializing"
    /\ plan.owner[x] = cursor.worker
    /\ plan.slot[x] = cursor.slot
    /\ waits' = [waits EXCEPT ![x] = EmittedWaits(x)]
    /\ local' = [local EXCEPT ![x] = LocalDistances(x)]
    /\ seen' = [seen EXCEPT ![cursor.worker] =
                  [r \in Row |-> IF r \in EmittedWaits(x) THEN plan.slot[x] ELSE @[r]]]
    /\ cursor' = [cursor EXCEPT !.slot = @ + 1]
    /\ UNCHANGED <<status, plan>>

NextWorker ==
    /\ status = "materializing"
    /\ cursor.worker \in Worker
    /\ cursor.slot = QueueLength(cursor.worker)
    /\ cursor' = [worker |-> cursor.worker + 1, slot |-> 0]
    /\ UNCHANGED <<status, plan, waits, local, seen>>

\* Every queue is written: the harness uploads the tables.
UploadSchedule ==
    /\ status = "materializing"
    /\ cursor.worker = Grid
    /\ status' = "idle"
    /\ UNCHANGED <<plan, cursor, waits, local, seen>>

HostNext ==
    \/ /\ status = "planning"
       /\ \E mode \in PlacementMode : \E candidate \in MaterializePlanPlacement(mode) :
             AcceptPlan(candidate) \/ RejectPlan(candidate)
    \/ \E x \in Task : MaterializeTask(x)
    \/ NextWorker
    \/ UploadSchedule

HostTypeOK ==
    /\ status \in HostStatus
    /\ plan \in [owner : [Task -> Int], slot : [Task -> Int]]
    /\ cursor \in [worker : Nat, slot : Nat]
    /\ waits \in [Task -> SUBSET Row]
    /\ local \in [Task -> SUBSET (1 .. (Window - 1))]
    /\ seen \in [Worker -> [Row -> Int]]

\* L-d: once the queues are written, each dependency of a task is settled by
\* FIFO distance, by a local bit, or by a poll its own slot or a slot at least
\* W earlier in its queue makes.
Covered(p, x) ==
    \/ SameWorker(p, x) /\ BeyondWindow(plan.slot[p], plan.slot[x])
    \/ SameWorker(p, x) /\ (plan.slot[x] - plan.slot[p]) \in local[x]
    \/ \E y \in Task : \E r \in waits[y] :
          /\ SameWorker(y, x)
          /\ y = x \/ BeyondWindow(plan.slot[y], plan.slot[x])
          /\ p \in Members(r)

LiftingSound ==
    status \in {"idle", "launched"} =>
        \A x \in Task : \A p \in Predecessors(x) : Covered(p, x)
=============================================================================
