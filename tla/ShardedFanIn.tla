---------------------------- MODULE ShardedFanIn ----------------------------
(***************************************************************************)
(* The dataflow kernel with two-level event rows (TILEMEGA_EVENT_SHARDED). *)
(* A completed task arrives at a first-level counter, its shard; the last  *)
(* arriver of a shard carries one arrival to the row.  Which tasks share a *)
(* shard is tabulated by the host from the owner of each task, and found   *)
(* again on the device from the CTA that runs it.                          *)
(*                                                                         *)
(* In the cluster form the shards of a cluster live in the distributed     *)
(* shared memory of its rank 0 for the time of a launch: rank 0 reads them *)
(* from the global table at the start and writes them back at the end.     *)
(* Counters are never cleared between launches.                            *)
(*                                                                         *)
(* Queues are walked in order and every poll is made; QueueMaterialize and *)
(* L2Executor have the elided polls and the window.                        *)
(***************************************************************************)
EXTENDS RuntimeGraph

CONSTANTS
    Grid,            \* resident CTAs
    ClusterDim,      \* CTAs of a cluster (TILEMEGA_GENERATED_CLUSTER_DIM)
    Builds,          \* compiled forms: [cluster, shards, publish]
    Owners,          \* owner tables the plan may hand over
    MaxIterations    \* bound on launches

Worker == 0 .. (Grid - 1)

\* publish: "epoch" (last arriver), "solo" (and no count for one trigger),
\* "red" (count-based polls), "v3" (TILEMEGA_SYNC_V3).
ASSUME ShardAssumption ==
    /\ {Grid, ClusterDim} \subseteq Nat \ {0}
    /\ Grid % ClusterDim = 0
    /\ Builds \subseteq [cluster : BOOLEAN, shards : Nat \ {0},
                         publish : {"epoch", "solo", "red", "v3"}]
    /\ Owners \subseteq [Task -> Worker]
    /\ MaxIterations \in Nat

\* A build whose arrivals pass the shards by has none.  The harness does not
\* test for the pair, so this is no part of the assumption above.
ShardsAreUsed ==
    \A b \in Builds :
        b.publish = "v3" => (IF b.cluster THEN Grid \div ClusterDim ELSE b.shards) = 1

VARIABLES
    build,       \* the compiled form
    owner,       \* task_owner
    status,      \* "idle" or "launched"
    iteration,   \* launches that have ended
    global,      \* params->shard_arrivals
    local,       \* the counters in distributed shared memory
    arrivals,    \* EventCounter::arrivals
    epoch,       \* EventCounter::epoch
    pc,          \* per CTA: what it is doing
    cur,         \* per CTA: the task at the head of its queue
    rows,        \* per CTA: rows NotifyTask has still to arrive at
    finished     \* history: tasks whose body has ended in this launch

tableVars == <<build, owner>>
counterVars == <<global, local, arrivals, epoch>>
launchVars == <<status, iteration>>
vars == <<tableVars, launchVars, counterVars, pc, cur, rows, finished>>

NoTask == [stage |-> -1, logical |-> -1]

-----------------------------------------------------------------------------
(***************************************************************************)
(* The tables of harness::Create.                                          *)
(***************************************************************************)
Cluster(w) == w \div ClusterDim
Rank(w) == w % ClusterDim

ShardCount == IF build.cluster THEN Grid \div ClusterDim ELSE build.shards

\* Rows of one member, and grids of one shard, keep the one-level form.
TwoLevel(r) == RawEventTriggers(r) > 1 /\ ShardCount > 1

FirstCluster(r) ==
    CHOOSE c \in {Cluster(owner[x]) : x \in Members(r)} :
        \A x \in Members(r) : c <= Cluster(owner[x])

Modulus(r) ==
    IF RawEventTriggers(r) < ShardCount THEN RawEventTriggers(r) ELSE ShardCount

\* The shard of row r that an arrival of CTA w belongs to.
ShardOf(r, w) ==
    IF build.cluster THEN Cluster(w) - FirstCluster(r) ELSE w % Modulus(r)

ShardTarget(r, k) == Cardinality({x \in Members(r) : ShardOf(r, owner[x]) = k})

Nonempty(r) == Cardinality({ShardOf(r, owner[x]) : x \in Members(r)})

\* Mutant: the consumer's target ignores the first level.
EventTriggersRaw(r) == RawEventTriggers(r)

EventTriggers(r) == IF TwoLevel(r) THEN Nonempty(r) ELSE RawEventTriggers(r)

Shard == Row \X (0 .. (Grid - 1))

Init ==
    /\ build \in Builds
    /\ owner \in Owners
    /\ status = "idle"
    /\ iteration = 0
    /\ global = [k \in Shard |-> 0]
    /\ local = [k \in Shard |-> 0]
    /\ arrivals = [r \in Row |-> 0]
    /\ epoch = [r \in Row |-> 0]
    /\ pc = [w \in Worker |-> "done"]
    /\ cur = [w \in Worker |-> NoTask]
    /\ rows = [w \in Worker |-> {}]
    /\ finished = {}

-----------------------------------------------------------------------------
(***************************************************************************)
(* A launch: in the cluster form it begins with rank 0 fetching its        *)
(* cluster's counters and ends with rank 0 storing them, each behind a     *)
(* cluster barrier.                                                        *)
(***************************************************************************)
Launch ==
    /\ status = "idle"
    /\ iteration < MaxIterations
    /\ status' = "launched"
    /\ pc' = [w \in Worker |->
                IF ~build.cluster THEN "next"
                ELSE IF Rank(w) = 0 THEN "load" ELSE "sync"]
    /\ cur' = [w \in Worker |-> NoTask]
    /\ finished' = {}
    /\ UNCHANGED <<tableVars, iteration, counterVars, rows>>

\* What shared memory held is gone when the kernel is.
EndLaunch ==
    /\ status = "launched"
    /\ \A w \in Worker : pc[w] = "done"
    /\ status' = "idle"
    /\ iteration' = iteration + 1
    /\ local' = [k \in Shard |-> 0]
    /\ UNCHANGED <<tableVars, global, arrivals, epoch, pc, cur, rows, finished>>

\* cluster_shard_indices: the shards whose arrivals come from cluster c.
ShardsOf(c) ==
    {k \in Shard : TwoLevel(k[1]) /\ k[2] = c - FirstCluster(k[1])}

LoadCounters(w) ==
    /\ pc[w] = "load"
    /\ local' = [k \in Shard |-> IF k \in ShardsOf(Cluster(w)) THEN global[k] ELSE local[k]]
    /\ pc' = [pc EXCEPT ![w] = "sync"]
    /\ UNCHANGED <<tableVars, launchVars, global, arrivals, epoch, cur, rows, finished>>

SyncIn(c) ==
    /\ \A w \in Worker : Cluster(w) = c => pc[w] = "sync"
    /\ pc' = [w \in Worker |-> IF Cluster(w) = c THEN "next" ELSE pc[w]]
    /\ UNCHANGED <<tableVars, launchVars, counterVars, cur, rows, finished>>

\* No CTA leaves while another still reaches into its shared memory.
SyncOut(c) ==
    /\ \A w \in Worker : Cluster(w) = c => pc[w] = "close"
    /\ pc' = [w \in Worker |->
                IF Cluster(w) # c THEN pc[w]
                ELSE IF Rank(w) = 0 THEN "save" ELSE "done"]
    /\ UNCHANGED <<tableVars, launchVars, counterVars, cur, rows, finished>>

SaveCounters(w) ==
    /\ pc[w] = "save"
    /\ global' = [k \in Shard |-> IF k \in ShardsOf(Cluster(w)) THEN local[k] ELSE global[k]]
    /\ pc' = [pc EXCEPT ![w] = "done"]
    /\ UNCHANGED <<tableVars, launchVars, local, arrivals, epoch, cur, rows, finished>>

-----------------------------------------------------------------------------
(***************************************************************************)
(* One task: wait for its rows, run, arrive at the rows it belongs to.     *)
(***************************************************************************)
Queue(w) == {x \in Task : owner[x] = w}

NextTask(w) ==
    /\ pc[w] = "next"
    /\ \E x \in Queue(w) :
          /\ cur[w] = NoTask \/ NodeBefore(cur[w], x)
          /\ \A y \in Queue(w) :
                NodeBefore(y, x) => cur[w] # NoTask /\ ~NodeBefore(cur[w], y)
          /\ cur' = [cur EXCEPT ![w] = x]
    /\ pc' = [pc EXCEPT ![w] = "wait"]
    /\ UNCHANGED <<tableVars, launchVars, counterVars, rows, finished>>

QueueEmpty(w) ==
    /\ pc[w] = "next"
    /\ \A x \in Queue(w) : cur[w] # NoTask /\ ~NodeBefore(cur[w], x)
    /\ pc' = [pc EXCEPT ![w] = IF build.cluster THEN "close" ELSE "done"]
    /\ UNCHANGED <<tableVars, launchVars, counterVars, cur, rows, finished>>

Desired(x) ==
    {r \in Row : \E d \in Incoming(x.stage) :
        /\ r.producer = d.producer
        /\ IF d.all THEN r.group = WholeStage
           ELSE \E p \in RuntimeDependencyBounds(d, x.logical) :
                    r.group = p \div Kappa[d.producer]}

CountBased == build.publish \in {"red", "v3"}

EventReady(r) ==
    IF CountBased THEN arrivals[r] >= EventTriggers(r) * (iteration + 1)
    ELSE epoch[r] >= iteration + 1

WaitTaskDependencies(w) ==
    /\ pc[w] = "wait"
    /\ \A r \in Desired(cur[w]) : EventReady(r)
    /\ pc' = [pc EXCEPT ![w] = "run"]
    /\ UNCHANGED <<tableVars, launchVars, counterVars, cur, rows, finished>>

RunTask(w) ==
    /\ pc[w] = "run"
    /\ finished' = finished \cup {cur[w]}
    /\ rows' = [rows EXCEPT ![w] = NotifyRows(cur[w])]
    /\ pc' = [pc EXCEPT ![w] = "notify"]
    /\ UNCHANGED <<tableVars, launchVars, counterVars, cur>>

NotifyDone(w) ==
    /\ pc[w] = "notify"
    /\ rows[w] = {}
    /\ pc' = [pc EXCEPT ![w] = "next"]
    /\ UNCHANGED <<tableVars, launchVars, counterVars, cur, rows, finished>>

\* NotifyTask arrives at the fine row first.
RowOf(w) ==
    CHOOSE r \in rows[w] : \A q \in rows[w] : q.group <= r.group

RowDone(w) == rows' = [rows EXCEPT ![w] = @ \ {RowOf(w)}]

ArrivesAtShard(w) ==
    pc[w] = "notify" /\ rows[w] # {} /\ build.publish # "v3" /\ TwoLevel(RowOf(w))

ShardCounter(k) == IF build.cluster THEN local[k] ELSE global[k]

CountShard(k) ==
    IF build.cluster
    THEN local' = [local EXCEPT ![k] = @ + 1] /\ UNCHANGED global
    ELSE global' = [global EXCEPT ![k] = @ + 1] /\ UNCHANGED local

\* Mutant: whoever is not the last of its shard goes on to the row as well.
ArriveShardOnward(w) ==
    /\ ArrivesAtShard(w)
    /\ CountShard(<<RowOf(w), ShardOf(RowOf(w), w)>>)
    /\ pc' = [pc EXCEPT ![w] = "combine"]
    /\ UNCHANGED <<tableVars, launchVars, arrivals, epoch, cur, rows, finished>>

ArriveShard(w) ==
    LET r == RowOf(w)
        k == ShardOf(r, w)
    IN  /\ ArrivesAtShard(w)
        /\ CountShard(<<r, k>>)
        /\ IF ShardCounter(<<r, k>>) + 1 = ShardTarget(r, k) * (iteration + 1)
           THEN pc' = [pc EXCEPT ![w] = "combine"] /\ UNCHANGED rows
           ELSE RowDone(w) /\ UNCHANGED pc
        /\ UNCHANGED <<tableVars, launchVars, arrivals, epoch, cur, finished>>

AtRow(w) ==
    \/ pc[w] = "combine"
    \/ pc[w] = "notify" /\ rows[w] # {} /\ ~ArrivesAtShard(w)

\* triggers of ArriveEvent once the first level is behind.
Triggers(w) ==
    IF pc[w] = "combine" THEN Nonempty(RowOf(w)) ELSE RawEventTriggers(RowOf(w))

Solo(w) == build.publish = "solo" /\ Triggers(w) = 1

ArriveRed(w) ==
    /\ AtRow(w)
    /\ CountBased
    /\ arrivals' = [arrivals EXCEPT ![RowOf(w)] = @ + 1]
    /\ RowDone(w)
    /\ pc' = [pc EXCEPT ![w] = "notify"]
    /\ UNCHANGED <<tableVars, launchVars, global, local, epoch, cur, finished>>

ArriveSolo(w) ==
    /\ AtRow(w)
    /\ Solo(w)
    /\ pc' = [pc EXCEPT ![w] = "publish"]
    /\ UNCHANGED <<tableVars, launchVars, counterVars, cur, rows, finished>>

ArriveTicket(w) ==
    LET r == RowOf(w)
    IN  /\ AtRow(w)
        /\ ~CountBased
        /\ ~Solo(w)
        /\ arrivals' = [arrivals EXCEPT ![r] = @ + 1]
        /\ IF arrivals[r] + 1 = Triggers(w) * (iteration + 1)
           THEN pc' = [pc EXCEPT ![w] = "publish"] /\ UNCHANGED rows
           ELSE pc' = [pc EXCEPT ![w] = "notify"] /\ RowDone(w)
        /\ UNCHANGED <<tableVars, launchVars, global, local, epoch, cur, finished>>

PublishEpoch(w) ==
    /\ pc[w] = "publish"
    /\ epoch' = [epoch EXCEPT ![RowOf(w)] = iteration + 1]
    /\ RowDone(w)
    /\ pc' = [pc EXCEPT ![w] = "notify"]
    /\ UNCHANGED <<tableVars, launchVars, global, local, arrivals, cur, finished>>

-----------------------------------------------------------------------------
WorkerStep(w) ==
    \/ LoadCounters(w) \/ SaveCounters(w)
    \/ NextTask(w) \/ QueueEmpty(w)
    \/ WaitTaskDependencies(w) \/ RunTask(w) \/ NotifyDone(w)
    \/ ArriveShard(w) \/ ArriveRed(w) \/ ArriveSolo(w) \/ ArriveTicket(w)
    \/ PublishEpoch(w)

ClusterStep(c) == SyncIn(c) \/ SyncOut(c)

Next ==
    \/ Launch \/ EndLaunch
    \/ \E w \in Worker : WorkerStep(w)
    \/ \E w \in Worker : Rank(w) = 0 /\ ClusterStep(Cluster(w))

Spec == Init /\ [][Next]_vars

\* Resident CTAs keep being scheduled, the hardware completes a cluster
\* barrier all have reached, and a kernel all of them left ends.
FairSpec ==
    /\ Spec
    /\ \A w \in Worker : WF_vars(WorkerStep(w))
    /\ \A w \in Worker : Rank(w) = 0 => WF_vars(ClusterStep(Cluster(w)))
    /\ WF_vars(EndLaunch)

-----------------------------------------------------------------------------
\* Two levels of counters, tabulated by one side and indexed by the other,
\* release a consumer exactly as one counter would: every task runs once per
\* launch, after its producers.
Graph == INSTANCE TaskGraph WITH
    running <- {cur[w] : w \in {v \in Worker : pc[v] = "run"}},
    finished <- finished

ImplementsTaskGraph == Graph!Spec

\* No shard is left one arrival short, in particular not by the fetch and
\* store of a cluster's counters around a launch: every launch comes back.
LaunchReturns == (status = "launched") ~> (status = "idle")

\* A row that satisfies its consumer has heard of every member of this
\* launch, although its target counts shards and its arrivals count members
\* that speak for a shard.
RowMeansMembers ==
    \A r \in Row : status = "launched" /\ EventReady(r) => Members(r) \subseteq finished
=============================================================================
