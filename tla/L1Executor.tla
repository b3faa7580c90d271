----------------------------- MODULE L1Executor -----------------------------
(***************************************************************************)
(* The stage-synchronous megakernel: every CTA walks the generated stage   *)
(* table, runs its grid-stride share of each stage and meets the others at *)
(* a grid barrier before the next stage (tilemega_l1_kernel), for one      *)
(* decode step or for several in one launch (tilemega_l1_loop_kernel).     *)
(* The barrier's counters are never cleared between iterations: iteration  *)
(* i is complete at i + 1 times the number of parties (section 8.2).       *)
(*                                                                         *)
(* A stage whose output is reduced from partials may be elided: the last   *)
(* producer of an output to take a ticket runs the reduction in place.     *)
(***************************************************************************)
EXTENDS RuntimeGraph

CONSTANTS
    Grid,             \* resident CTAs
    Builds,           \* compiled forms: CTAs of a cluster, count-based barrier
    PlacedBlock,      \* first GEMM ordinal of each CTA
    GemmStages,       \* stages that start from PlacedBlock
    SpreadHead,       \* stages dealt by ServingSpreadTailTask
    AttentionHeads,   \* per stage: batch * groups if dealt prefix-first, else 0
    HandoffReduce,    \* per stage: the elided stage it reduces into, or NoStage
    Producers,        \* per stage: partials of one reduced output
    MaxSteps,         \* bound on decode steps of one launch
    MaxIterations     \* bound on iterations between two resets

Worker == 0 .. (Grid - 1)
NoStage == -1

HandoffOutput(x) == [stage |-> HandoffReduce[x.stage],
                     logical |-> x.logical \div Producers[x.stage]]

\* PrepareEpochHandoffs: a reducer has one earlier owner, which produces all
\* the partials it reads, and is itself no kind that may own a reducer; its
\* other operands come from stages before that.
ASSUME L1Assumption ==
    /\ StageCount > 0
    /\ Grid \in Nat \ {0}
    /\ Builds \subseteq [cluster : {n \in 1 .. Grid : Grid % n = 0}, red : BOOLEAN]
    /\ PlacedBlock \in [Worker -> Worker]
    /\ \A v, w \in Worker : PlacedBlock[v] = PlacedBlock[w] => v = w
    /\ GemmStages \subseteq Stage /\ SpreadHead \subseteq GemmStages
    /\ AttentionHeads \in [Stage \ GemmStages -> Nat]
    /\ \A s \in Stage \ GemmStages :
          AttentionHeads[s] > 0 => Count[s] % AttentionHeads[s] = 0
    /\ HandoffReduce \in [Stage -> Stage \cup {NoStage}]
    /\ Producers \in [Stage -> Nat \ {0}]
    /\ \A s, t \in Stage :
          s # t /\ HandoffReduce[s] # NoStage => HandoffReduce[s] # HandoffReduce[t]
    /\ \A s \in {t \in Stage : HandoffReduce[t] # NoStage} :
          /\ s < HandoffReduce[s]
          /\ HandoffReduce[HandoffReduce[s]] = NoStage
          /\ Count[s] = Producers[s] * Count[HandoffReduce[s]]
          /\ \A y \in TasksOf(HandoffReduce[s]) : \A p \in Predecessors(y) :
                p.stage < s \/ (p.stage = s /\ HandoffOutput(p) = y)
    /\ MaxSteps \in Nat \ {0} /\ MaxIterations \in Nat \ {0}

Elided(s) == \E t \in Stage : HandoffReduce[t] = s

-----------------------------------------------------------------------------
(***************************************************************************)
(* Which task a CTA's ordinal names.                                       *)
(***************************************************************************)
Coprime(a, b) == \A k \in 2 .. b : ~(a % k = 0 /\ b % k = 0)

\* The first stride from 3/8 of the grid on that is a unit of Z/Grid.
SpreadStride ==
    LET from == (Grid * 3) \div 8 + 1
    IN  CHOOSE n \in from .. (from + Grid) :
            /\ Coprime(n, Grid)
            /\ \A m \in from .. (n - 1) : ~Coprime(m, Grid)

ServingSpreadTailTask(o) ==
    (o \div Grid) * Grid + (((o % Grid) * SpreadStride) % Grid)

\* Mutant: the row stride of the prefix-first deal is the head count.
ServingAttentionL1TaskTransposed(s, o) ==
    LET heads == AttentionHeads[s]
    IN  (o % heads) * heads + (o \div heads)

ServingAttentionL1Task(s, o) ==
    LET heads == AttentionHeads[s]
    IN  (o % heads) * (Count[s] \div heads) + (o \div heads)

ServingL1Task(s, o) ==
    IF s \in SpreadHead THEN ServingSpreadTailTask(o)
    ELSE IF s \notin GemmStages /\ AttentionHeads[s] > 0 THEN ServingAttentionL1Task(s, o)
    ELSE o

\* A spread stage is walked to whole waves; its padded slots hold no task.
ServingL1TaskLimit(s) ==
    IF s \in SpreadHead THEN ((Count[s] + Grid - 1) \div Grid) * Grid ELSE Count[s]

FirstOrdinal(s, w) == IF s \in GemmStages THEN PlacedBlock[w] ELSE w

-----------------------------------------------------------------------------
VARIABLES
    build,       \* the compiled form
    status,      \* "idle" or "launched"
    iteration,   \* next_iteration: the base of the running or next launch
    steps,       \* decode steps of the running launch
    pc,          \* program point of each CTA
    at,          \* per CTA: step, stage and ordinal of its loops
    cur,         \* the task a CTA runs
    arrivals,    \* per stage: EventCounter::arrivals of its barrier
    epoch,       \* per stage: EventCounter::epoch of its barrier
    ticket,      \* per reduced output: its monotonic handoff ticket
    ended        \* history: how often a task ended in this launch

ctaVars == <<pc, at, cur>>
counterVars == <<arrivals, epoch, ticket>>
vars == <<build, status, iteration, steps, ctaVars, counterVars, ended>>

\* TILEMEGA_GENERATED_CLUSTER_DIM, and TILEMEGA_SYNC_V3: wait on the count.
ClusterDim == build.cluster
RedBarrier == build.red
Clusters == Grid \div ClusterDim

NoTask == [stage |-> -1, logical |-> -1]

Output == {x \in Task : Elided(x.stage)}

\* The stage loop from s on, past elided stages, into the next decode step.
EnterStage(w, n, s) ==
    LET live(from) == {t \in from .. (StageCount - 1) : ~Elided(t)}
        first(S) == CHOOSE t \in S : \A u \in S : t <= u
        place(m, t) == [step |-> m, stage |-> t, ordinal |-> FirstOrdinal(t, w)]
    IN  IF live(s) # {} THEN place(n, first(live(s)))
        ELSE place(n + 1, first(live(0)))

Init ==
    /\ build \in Builds
    /\ status = "idle"
    /\ iteration = 0
    /\ steps = 0
    /\ pc = [w \in Worker |-> "done"]
    /\ at = [w \in Worker |-> EnterStage(w, 0, 0)]
    /\ cur = [w \in Worker |-> NoTask]
    /\ arrivals = [s \in Stage |-> 0]
    /\ epoch = [s \in Stage |-> 0]
    /\ ticket = [y \in Output |-> 0]
    /\ ended = [x \in Task |-> 0]

\* The iteration a CTA is in: base_iteration + step.
Iteration(w) == iteration + at[w].step

-----------------------------------------------------------------------------
\* The host accepts a launch only at next_iteration.
LaunchL1(n) ==
    /\ status = "idle"
    /\ iteration + n <= MaxIterations
    /\ status' = "launched"
    /\ steps' = n
    /\ pc' = [w \in Worker |-> "task"]
    /\ at' = [w \in Worker |-> EnterStage(w, 0, 0)]
    /\ ended' = [x \in Task |-> 0]
    /\ UNCHANGED <<build, iteration, cur, counterVars>>

EndLaunch ==
    /\ status = "launched"
    /\ \A w \in Worker : pc[w] = "done"
    /\ status' = "idle"
    /\ iteration' = iteration + steps
    /\ UNCHANGED <<build, steps, ctaVars, counterVars, ended>>

\* Mutant: the ticket bank is not cleared with the events.
ResetEventsOnly ==
    /\ status = "idle"
    /\ iteration > 0
    /\ iteration' = 0
    /\ arrivals' = [s \in Stage |-> 0]
    /\ epoch' = [s \in Stage |-> 0]
    /\ UNCHANGED <<build, status, steps, ctaVars, ticket, ended>>

Reset ==
    /\ status = "idle"
    /\ iteration > 0
    /\ iteration' = 0
    /\ arrivals' = [s \in Stage |-> 0]
    /\ epoch' = [s \in Stage |-> 0]
    /\ ticket' = [y \in Output |-> 0]
    /\ UNCHANGED <<build, status, steps, ctaVars, ended>>

-----------------------------------------------------------------------------
InStage(w) == pc[w] = "task" /\ at[w].ordinal < ServingL1TaskLimit(at[w].stage)

Addressed(w) == [stage |-> at[w].stage,
                 logical |-> ServingL1Task(at[w].stage, at[w].ordinal)]

Stride(w) == at' = [at EXCEPT ![w].ordinal = @ + Grid]

StartTask(w) ==
    /\ InStage(w)
    /\ Addressed(w) \in Task
    /\ pc' = [pc EXCEPT ![w] = "run"]
    /\ cur' = [cur EXCEPT ![w] = Addressed(w)]
    /\ UNCHANGED <<build, status, iteration, steps, at, counterVars, ended>>

SkipPadding(w) ==
    /\ InStage(w)
    /\ Addressed(w) \notin Task
    /\ Stride(w)
    /\ UNCHANGED <<build, status, iteration, steps, pc, cur, counterVars, ended>>

EndBody(w) == ended' = [ended EXCEPT ![cur[w]] = @ + 1]

RunTask(w) ==
    /\ pc[w] = "run"
    /\ EndBody(w)
    /\ IF HandoffReduce[at[w].stage] = NoStage
       THEN pc' = [pc EXCEPT ![w] = "task"] /\ Stride(w)
       ELSE pc' = [pc EXCEPT ![w] = "handoff"] /\ UNCHANGED at
    /\ UNCHANGED <<build, status, iteration, steps, cur, counterVars>>

TicketTarget(w) == Producers[at[w].stage] * (Iteration(w) + 1)

LastArriver(w) == ticket[HandoffOutput(cur[w])] + 1 = TicketTarget(w)

\* EpochLastArriver::Run: the last arriver keeps the CTA for the reduction.
Handoff(w) ==
    /\ pc[w] = "handoff"
    /\ ticket' = [ticket EXCEPT ![HandoffOutput(cur[w])] = @ + 1]
    /\ \/ /\ LastArriver(w)
          /\ pc' = [pc EXCEPT ![w] = "reduce"]
          /\ cur' = [cur EXCEPT ![w] = HandoffOutput(@)]
          /\ UNCHANGED at
       \/ /\ ~LastArriver(w)
          /\ pc' = [pc EXCEPT ![w] = "task"]
          /\ Stride(w)
          /\ UNCHANGED cur
    /\ UNCHANGED <<build, status, iteration, steps, arrivals, epoch, ended>>

Reduce(w) ==
    /\ pc[w] = "reduce"
    /\ EndBody(w)
    /\ pc' = [pc EXCEPT ![w] = "task"]
    /\ Stride(w)
    /\ UNCHANGED <<build, status, iteration, steps, cur, counterVars>>

-----------------------------------------------------------------------------
(***************************************************************************)
(* The grid barrier.  With clusters, the CTAs of one gather in hardware,   *)
(* rank 0 alone meets the other clusters, and the cluster is scattered.    *)
(***************************************************************************)
Clustered == ClusterDim > 1 /\ ~RedBarrier
PartiesEveryCta == Grid    \* Mutant: counts the CTAs that never arrive.
Parties == IF Clustered THEN Clusters ELSE Grid
Cluster(c) == {w \in Worker : w \div ClusterDim = c}
Rank(w) == w % ClusterDim

Needed(w) == Parties * (Iteration(w) + 1)

StageWalked(w) == pc[w] = "task" /\ at[w].ordinal >= ServingL1TaskLimit(at[w].stage)

\* CTAs of S go on to the next stage of the loop, or return.
Leave(S) ==
    LET next(w) == EnterStage(w, at[w].step, at[w].stage + 1)
    IN  /\ at' = [w \in Worker |-> IF w \in S THEN next(w) ELSE at[w]]
        /\ pc' = [w \in Worker |->
                    IF w \notin S THEN pc[w]
                    ELSE IF next(w).step = steps THEN "done" ELSE "task"]

AtBarrier(w) == IF Clustered THEN pc[w] = "gathered" ELSE StageWalked(w)

ArriveBarrier(w) ==
    /\ AtBarrier(w)
    /\ arrivals' = [arrivals EXCEPT ![at[w].stage] = @ + 1]
    /\ pc' = [pc EXCEPT ![w] =
                IF ~RedBarrier /\ arrivals[at[w].stage] + 1 = Needed(w)
                THEN "publish" ELSE "wait"]
    /\ UNCHANGED <<build, status, iteration, steps, at, cur, epoch, ticket, ended>>

\* Past the global half: alone, or with the rest of the cluster still to tell.
Released(w) ==
    IF Clustered
    THEN pc' = [pc EXCEPT ![w] = "scatter"] /\ UNCHANGED at
    ELSE Leave({w})

PublishBarrier(w) ==
    /\ pc[w] = "publish"
    /\ epoch' = [epoch EXCEPT ![at[w].stage] = Iteration(w) + 1]
    /\ Released(w)
    /\ UNCHANGED <<build, status, iteration, steps, cur, arrivals, ticket, ended>>

BarrierOpen(w) ==
    IF RedBarrier THEN arrivals[at[w].stage] >= Needed(w)
    ELSE epoch[at[w].stage] >= Iteration(w) + 1

AwaitBarrier(w) ==
    /\ pc[w] = "wait"
    /\ BarrierOpen(w)
    /\ Released(w)
    /\ UNCHANGED <<build, status, iteration, steps, cur, counterVars, ended>>

\* Mutant: rank 0 arrives for its cluster without gathering it.
ClusterGatherRankZero(c) ==
    /\ Clustered
    /\ \A w \in Cluster(c) : Rank(w) = 0 => StageWalked(w)
    /\ pc' = [w \in Worker |->
                IF w \notin Cluster(c) \/ ~StageWalked(w) THEN pc[w]
                ELSE IF Rank(w) = 0 THEN "gathered" ELSE "scatter"]
    /\ UNCHANGED <<build, status, iteration, steps, at, cur, counterVars, ended>>

\* First cluster.sync(): a lone cluster needs no more than that.
ClusterGather(c) ==
    /\ Clustered
    /\ \A w \in Cluster(c) : StageWalked(w)
    /\ IF Clusters <= 1 THEN Leave(Cluster(c))
       ELSE /\ pc' = [w \in Worker |->
                        IF w \notin Cluster(c) THEN pc[w]
                        ELSE IF Rank(w) = 0 THEN "gathered" ELSE "scatter"]
            /\ UNCHANGED at
    /\ UNCHANGED <<build, status, iteration, steps, cur, counterVars, ended>>

\* Second cluster.sync(): rank 0 brings the grid's release.
ClusterScatter(c) ==
    /\ \A w \in Cluster(c) : pc[w] = "scatter"
    /\ Leave(Cluster(c))
    /\ UNCHANGED <<build, status, iteration, steps, cur, counterVars, ended>>

-----------------------------------------------------------------------------
CtaStep(w) ==
    \/ StartTask(w) \/ SkipPadding(w) \/ RunTask(w)
    \/ Handoff(w) \/ Reduce(w)
    \/ ArriveBarrier(w) \/ PublishBarrier(w) \/ AwaitBarrier(w)

ClusterStep(c) == ClusterGather(c) \/ ClusterScatter(c)

Next ==
    \/ \E n \in 1 .. MaxSteps : LaunchL1(n)
    \/ EndLaunch
    \/ Reset
    \/ \E w \in Worker : CtaStep(w)
    \/ \E w \in Worker : Rank(w) = 0 /\ ClusterStep(w \div ClusterDim)

Spec == Init /\ [][Next]_vars

\* Resident CTAs and clusters keep being scheduled; a finished grid ends.
FairSpec ==
    /\ Spec
    /\ \A w \in Worker : WF_vars(CtaStep(w))
    /\ \A w \in Worker : WF_vars(Rank(w) = 0 /\ ClusterStep(w \div ClusterDim))
    /\ WF_vars(EndLaunch)

-----------------------------------------------------------------------------

\* Two bodies that run at once belong to one stage of one step: a stage may
\* overwrite a buffer any earlier stage read, which no dependency records.
Busy(w) == pc[w] \in {"run", "handoff", "reduce"}

StagesDoNotOverlap ==
    \A v, w \in Worker : Busy(v) /\ Busy(w) =>
        at[v].step = at[w].step /\ at[v].stage = at[w].stage

\* The trap of EpochLastArriver: a ticket is always inside the epoch of the
\* CTA that draws it, one below its target at most.
NoTrap ==
    \A w \in Worker : pc[w] = "handoff" =>
        LET previous == ticket[HandoffOutput(cur[w])]
        IN  /\ previous >= TicketTarget(w) - Producers[at[w].stage]
            /\ previous < TicketTarget(w)

\* The task graph, a decode step at a time: the round is that of the CTA
\* furthest ahead, and a task counts as finished once it ended in that round.
Round ==
    LET seen == {at[w].step : w \in Worker} IN CHOOSE n \in seen : \A m \in seen : m <= n

Graph == INSTANCE TaskGraph WITH
    running <- {cur[w] : w \in {v \in Worker : pc[v] \in {"run", "reduce"}}},
    finished <- {x \in Task : ended[x] > Round}

\* Each task once per step, elided reductions included, after its producers.
ImplementsTaskGraph == Graph!Spec

\* Every launch comes back, however its CTAs are interleaved.
LaunchReturns == (status = "launched") ~> (status = "idle")
=============================================================================
