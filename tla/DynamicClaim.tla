---------------------------- MODULE DynamicClaim ----------------------------
(***************************************************************************)
(* The dataflow kernel with dynamic expert stages (TILEMEGA_MOE_DYNAMIC).  *)
(* Every worker walks the stages in order.  A static stage is its own      *)
(* range of the schedule; the tasks of a dynamic stage go to whoever       *)
(* claims them from a shared counter, which is never cleared: iteration i  *)
(* hands out the tickets of [i * count, (i + 1) * count).  There is no     *)
(* barrier between stages; a task waits for its own event rows.            *)
(*                                                                         *)
(* A row counts as complete here when its last member has been notified;   *)
(* L2Executor has the counters behind that.                                *)
(***************************************************************************)
EXTENDS RuntimeGraph, Sequences

CONSTANTS
    Worker,           \* resident CTAs
    Expert,           \* stages whose operand is expert-indirect
    Ranges,           \* per worker and stage: its slots of the sorted schedule
    MaxIterations     \* bound on launches

\* What the harness verifies of the ranges: no task twice, none missing.
ASSUME RangeAssumption ==
    /\ Expert \subseteq Stage
    /\ Ranges \in [Worker -> [Stage -> Seq(Task)]]
    /\ \A w \in Worker, s \in Stage :
          \A i \in DOMAIN Ranges[w][s] : Ranges[w][s][i].stage = s
    /\ \A w, v \in Worker, s \in Stage :
          \A i \in DOMAIN Ranges[w][s], j \in DOMAIN Ranges[v][s] :
              Ranges[w][s][i] = Ranges[v][s][j] => w = v /\ i = j
    /\ \A x \in Task : \E w \in Worker : \E i \in DOMAIN Ranges[w][x.stage] :
          Ranges[w][x.stage][i] = x

ASSUME LaunchAssumption == MaxIterations \in Nat

VARIABLES
    status,      \* "idle" or "launched"
    iteration,   \* plan->next_iteration of the L2 mode
    claims,      \* params->dynamic_claims
    stage,       \* per worker: DynamicTaskCursor::stage
    local,       \* per worker: DynamicTaskCursor::local
    observed,    \* per worker: the counter as ClaimDynamicTask last saw it
    pc,          \* per worker: what it is doing
    cur,         \* per worker: the task it was handed
    handed,      \* history: tasks handed to some worker in this launch
    finished,    \* history: tasks whose body has ended in this launch
    notified     \* tasks whose NotifyTask is over in this launch

cursorVars == <<stage, local, observed>>
historyVars == <<handed, finished, notified>>
vars == <<status, iteration, claims, cursorVars, pc, cur, historyVars>>

NoTask == [stage |-> -1, logical |-> -1]

Init ==
    /\ status = "idle"
    /\ iteration = 0
    /\ claims = [s \in Stage |-> 0]
    /\ stage = [w \in Worker |-> 0]
    /\ local = [w \in Worker |-> 0]
    /\ observed = [w \in Worker |-> 0]
    /\ pc = [w \in Worker |-> "done"]
    /\ cur = [w \in Worker |-> NoTask]
    /\ handed = {}
    /\ finished = {}
    /\ notified = {}

\* tm_plan_launch: one stream, so the launch before has ended.
Launch ==
    /\ status = "idle"
    /\ iteration < MaxIterations
    /\ status' = "launched"
    /\ stage' = [w \in Worker |-> 0]
    /\ local' = [w \in Worker |-> 0]
    /\ pc' = [w \in Worker |-> "next"]
    /\ handed' = {}
    /\ finished' = {}
    /\ notified' = {}
    /\ UNCHANGED <<iteration, claims, observed, cur>>

EndLaunch ==
    /\ status = "launched"
    /\ \A w \in Worker : pc[w] = "done"
    /\ status' = "idle"
    /\ iteration' = iteration + 1
    /\ UNCHANGED <<claims, cursorVars, pc, cur, historyVars>>

-----------------------------------------------------------------------------
(***************************************************************************)
(* DynamicTaskCursor::Next and ClaimDynamicTask.                           *)
(***************************************************************************)
Dynamic(s) == s \in Expert /\ Count[s] > 0

ClaimBegin(s) == iteration * Count[s]

ClaimEnd(s) == ClaimBegin(s) + Count[s]

NextStage(w) ==
    /\ stage' = [stage EXCEPT ![w] = @ + 1]
    /\ local' = [local EXCEPT ![w] = 0]

Hand(w, x) ==
    /\ cur' = [cur EXCEPT ![w] = x]
    /\ handed' = handed \cup {x}
    /\ pc' = [pc EXCEPT ![w] = "wait"]
    /\ UNCHANGED <<status, iteration, finished, notified>>

NextStatic(w) ==
    /\ pc[w] = "next"
    /\ stage[w] \in Stage
    /\ ~Dynamic(stage[w])
    /\ local[w] < Len(Ranges[w][stage[w]])
    /\ local' = [local EXCEPT ![w] = @ + 1]
    /\ Hand(w, Ranges[w][stage[w]][local[w] + 1])
    /\ UNCHANGED <<claims, stage, observed>>

RangeDone(w) ==
    /\ pc[w] = "next"
    /\ stage[w] \in Stage
    /\ ~Dynamic(stage[w])
    /\ local[w] = Len(Ranges[w][stage[w]])
    /\ NextStage(w)
    /\ UNCHANGED <<status, iteration, claims, observed, pc, cur, historyVars>>

\* atomicAdd(counter, 0)
Observe(w) ==
    /\ pc[w] = "next"
    /\ stage[w] \in Stage
    /\ Dynamic(stage[w])
    /\ observed' = [observed EXCEPT ![w] = claims[stage[w]]]
    /\ pc' = [pc EXCEPT ![w] = "claim"]
    /\ UNCHANGED <<status, iteration, claims, stage, local, cur, historyVars>>

\* Mutant: the ticket is taken by an addition, idle workers included.
ExhaustedAdds(w) ==
    /\ pc[w] = "claim"
    /\ observed[w] >= ClaimEnd(stage[w])
    /\ claims' = [claims EXCEPT ![stage[w]] = @ + 1]
    /\ NextStage(w)
    /\ pc' = [pc EXCEPT ![w] = "next"]
    /\ UNCHANGED <<status, iteration, observed, cur, historyVars>>

\* No ticket of this iteration is left.
Exhausted(w) ==
    /\ pc[w] = "claim"
    /\ observed[w] >= ClaimEnd(stage[w])
    /\ NextStage(w)
    /\ pc' = [pc EXCEPT ![w] = "next"]
    /\ UNCHANGED <<status, iteration, claims, observed, cur, historyVars>>

\* Mutant: the ticket is stored without looking at the counter again.
ClaimUnchecked(w) ==
    LET s == stage[w]
    IN  /\ pc[w] = "claim"
        /\ observed[w] < ClaimEnd(s)
        /\ observed[w] >= ClaimBegin(s)
        /\ claims' = [claims EXCEPT ![s] = observed[w] + 1]
        /\ Hand(w, [stage |-> s, logical |-> observed[w] - ClaimBegin(s)])
        /\ UNCHANGED cursorVars

\* The compare-and-swap finds the counter where it was: take the ticket.
Claim(w) ==
    LET s == stage[w]
    IN  /\ pc[w] = "claim"
        /\ observed[w] < ClaimEnd(s)
        /\ claims[s] = observed[w]
        /\ IF observed[w] < ClaimBegin(s)
           THEN /\ claims' = [claims EXCEPT ![s] = ClaimBegin(s)]
                /\ observed' = [observed EXCEPT ![w] = ClaimBegin(s)]
                /\ UNCHANGED <<status, iteration, pc, cur, historyVars>>
           ELSE /\ claims' = [claims EXCEPT ![s] = observed[w] + 1]
                /\ Hand(w, [stage |-> s, logical |-> observed[w] - ClaimBegin(s)])
                /\ UNCHANGED observed
        /\ UNCHANGED <<stage, local>>

\* Another worker was faster: look again from what it left.
Lost(w) ==
    /\ pc[w] = "claim"
    /\ observed[w] < ClaimEnd(stage[w])
    /\ claims[stage[w]] # observed[w]
    /\ observed' = [observed EXCEPT ![w] = claims[stage[w]]]
    /\ UNCHANGED <<status, iteration, claims, stage, local, pc, cur, historyVars>>

\* Past the last stage the kernel ends.
Leave(w) ==
    /\ pc[w] = "next"
    /\ stage[w] = StageCount
    /\ pc' = [pc EXCEPT ![w] = "done"]
    /\ UNCHANGED <<status, iteration, claims, cursorVars, cur, historyVars>>

-----------------------------------------------------------------------------
(***************************************************************************)
(* One task: wait, run, notify.  With dynamic stages every poll is kept.   *)
(***************************************************************************)
Desired(x) ==
    {r \in Row : \E d \in Incoming(x.stage) :
        /\ r.producer = d.producer
        /\ IF d.all THEN r.group = WholeStage
           ELSE \E p \in RuntimeDependencyBounds(d, x.logical) :
                    r.group = p \div Kappa[d.producer]}

RowComplete(r) == Members(r) \subseteq notified

Ready(w) == \A r \in Desired(cur[w]) : RowComplete(r)

WaitTaskDependencies(w) ==
    /\ pc[w] = "wait"
    /\ Ready(w)
    /\ pc' = [pc EXCEPT ![w] = "run"]
    /\ UNCHANGED <<status, iteration, claims, cursorVars, cur, historyVars>>

RunTask(w) ==
    /\ pc[w] = "run"
    /\ finished' = finished \cup {cur[w]}
    /\ pc' = [pc EXCEPT ![w] = "notify"]
    /\ UNCHANGED <<status, iteration, claims, cursorVars, cur, handed, notified>>

NotifyTask(w) ==
    /\ pc[w] = "notify"
    /\ notified' = notified \cup {cur[w]}
    /\ pc' = [pc EXCEPT ![w] = "next"]
    /\ UNCHANGED <<status, iteration, claims, cursorVars, cur, handed, finished>>

-----------------------------------------------------------------------------
WorkerStep(w) ==
    \/ NextStatic(w) \/ RangeDone(w)
    \/ Observe(w) \/ Exhausted(w) \/ Claim(w) \/ Lost(w)
    \/ Leave(w)
    \/ WaitTaskDependencies(w) \/ RunTask(w) \/ NotifyTask(w)

Next == Launch \/ EndLaunch \/ \E w \in Worker : WorkerStep(w)

Spec == Init /\ [][Next]_vars

\* Resident CTAs keep being scheduled; a kernel all of them left ends.
FairSpec ==
    /\ Spec
    /\ \A w \in Worker : WF_vars(WorkerStep(w))
    /\ WF_vars(EndLaunch)

-----------------------------------------------------------------------------
\* Every variable has its type.
TypeOK ==
    /\ status \in {"idle", "launched"}
    /\ iteration \in Nat
    /\ claims \in [Stage -> Nat]
    /\ stage \in [Worker -> 0 .. StageCount]
    /\ local \in [Worker -> Nat]
    /\ observed \in [Worker -> Nat]
    /\ pc \in [Worker -> {"next", "claim", "wait", "run", "notify", "done"}]
    /\ cur \in [Worker -> Task \cup {NoTask}]
    /\ handed \subseteq Task
    /\ finished \subseteq handed
    /\ notified \subseteq finished

\* However the claims interleave, the tickets handed out are a prefix of this
\* iteration's: no claim moves the counter past the origin of the next
\* iteration, and between launches it stands exactly there.
ClaimsAreExact ==
    \A s \in Stage : Dynamic(s) =>
        IF status = "idle" THEN claims[s] = ClaimBegin(s)
        ELSE /\ claims[s] \in ClaimBegin(s) .. ClaimEnd(s)
             /\ handed \cap TasksOf(s) =
                   {x \in TasksOf(s) : x.logical < claims[s] - ClaimBegin(s)}

\* Each task of the model runs once per launch, after its producers, whoever
\* claims it; and a launch ends over a complete iteration only.
Graph == INSTANCE TaskGraph WITH
    running <- {cur[w] : w \in {v \in Worker : pc[v] = "run"}},
    finished <- finished

ImplementsTaskGraph == Graph!Spec

\* Every launch comes back although a claimer may wait for rows of tasks that
\* other workers have claimed but not run.
LaunchReturns == (status = "launched") ~> (status = "idle")
=============================================================================
