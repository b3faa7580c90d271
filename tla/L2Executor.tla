----------------------------- MODULE L2Executor -----------------------------
(***************************************************************************)
(* The dataflow megakernel (tilemega_l2_kernel) running the queues that    *)
(* QueueMaterialize wrote.  Each worker is one resident CTA: it takes a    *)
(* slot inside its look-ahead window, runs the task, arrives at the task's *)
(* event rows, and advances.  The counters are monotone across launches:   *)
(* iteration i is complete at i + 1 times the row's members.               *)
(*                                                                         *)
(* A worker is modelled at CTA granularity.  Its polls are acquires of     *)
(* values that only grow during a launch, so a poll over several rows is   *)
(* taken at the last load of a success and at the failing load of a        *)
(* failure.  A task's rows may be arrived at in any order, which is what   *)
(* the two publishing lanes of TILEMEGA_ASYNC_PUBLISH do.                  *)
(***************************************************************************)
EXTENDS QueueMaterialize

CONSTANTS
    Publications,    \* forms of publishing a row the build may use
    EventSolo,       \* TILEMEGA_EVENT_SOLO: a one-member row skips the count
    MaxIterations    \* bound on launches between two resets

ASSUME ExecutorAssumption ==
    /\ Publications \subseteq {"count", "epoch"}
    /\ EventSolo \in BOOLEAN
    /\ MaxIterations \in Nat \ {0}

VARIABLES
    iteration,   \* launches since the event counters were zeroed
    pc,          \* per worker: "acquire", "run" or "notify"
    head,        \* lowest slot of the queue not yet complete
    mask,        \* done_mask: completed slots as distances from head
    taken,       \* slots consumed so far by the queue loop
    probe,       \* next window offset the acquire scan looks at
    cur,         \* the task a worker holds
    toArrive,    \* rows its NotifyTask has still to arrive at
    toPublish,   \* rows it was the last to arrive at, epoch not yet stored
    publication, \* what the build's consumers test of a row
    arrivals,    \* per row: EventCounter::arrivals
    epoch,       \* per row: EventCounter::epoch
    finished,    \* history: tasks whose body has ended in this launch
    arrived      \* history: tasks that have arrived at a row in this launch

workerVars == <<pc, head, mask, taken, probe, cur, toArrive, toPublish>>
eventVars == <<publication, arrivals, epoch>>
historyVars == <<finished, arrived>>
deviceVars == <<iteration, workerVars, eventVars, historyVars>>
vars == <<hostVars, deviceVars>>

NoTask == [stage |-> -1, logical |-> -1]

\* TILEMEGA_EVENT_RED_PUBLISH: consumers test the count, not an epoch.
RedPublish == publication = "count"

DeviceInit ==
    /\ iteration = 0
    /\ pc = [w \in Worker |-> "acquire"]
    /\ head = [w \in Worker |-> 0]
    /\ mask = [w \in Worker |-> {}]
    /\ taken = [w \in Worker |-> 0]
    /\ probe = [w \in Worker |-> 0]
    /\ cur = [w \in Worker |-> NoTask]
    /\ toArrive = [w \in Worker |-> {}]
    /\ toPublish = [w \in Worker |-> {}]
    /\ publication \in Publications
    /\ arrivals = [r \in Row |-> 0]
    /\ epoch = [r \in Row |-> 0]
    /\ finished = {}
    /\ arrived = [r \in Row |-> {}]

-----------------------------------------------------------------------------
\* LaunchL2: the next iteration on counters left where they were.
LaunchL2 ==
    /\ status = "idle"
    /\ iteration < MaxIterations
    /\ status' = "launched"
    /\ pc' = [w \in Worker |-> "acquire"]
    /\ head' = [w \in Worker |-> 0]
    /\ mask' = [w \in Worker |-> {}]
    /\ taken' = [w \in Worker |-> 0]
    /\ probe' = [w \in Worker |-> 0]
    /\ finished' = {}
    /\ arrived' = [r \in Row |-> {}]
    /\ UNCHANGED <<plan, cursor, waits, local, seen, iteration, cur,
                   toArrive, toPublish, eventVars>>

QueueDone(w) == taken[w] = QueueLength(w)

\* The kernel ends when every CTA has left its queue loop.
EndLaunch ==
    /\ status = "launched"
    /\ \A w \in Worker : pc[w] = "acquire" /\ QueueDone(w)
    /\ status' = "idle"
    /\ iteration' = iteration + 1
    /\ UNCHANGED <<plan, cursor, waits, local, seen, workerVars, eventVars,
                   historyVars>>

\* Mutant: the epochs of the event buffer are left as they were.
ResetKeepsEpoch ==
    /\ status = "idle"
    /\ iteration > 0
    /\ iteration' = 0
    /\ arrivals' = [r \in Row |-> 0]
    /\ UNCHANGED <<hostVars, workerVars, publication, epoch, historyVars>>

\* Reset between rounds: counters to zero and iterations from zero again.
Reset ==
    /\ status = "idle"
    /\ iteration > 0
    /\ iteration' = 0
    /\ arrivals' = [r \in Row |-> 0]
    /\ epoch' = [r \in Row |-> 0]
    /\ UNCHANGED <<hostVars, workerVars, publication, historyVars>>

-----------------------------------------------------------------------------
EventReady(r) ==
    IF RedPublish
    THEN arrivals[r] >= RawEventTriggers(r) * (iteration + 1)
    ELSE epoch[r] >= iteration + 1

ProbeTaskDependencies(x) == \A r \in waits[x] : EventReady(r)

\* Slots of [head, head + W) that exist.
Span(w) ==
    LET room == QueueLength(w) - head[w]
    IN  IF Window < room THEN Window ELSE room

InSlot(x, w, k) == plan.owner[x] = w /\ plan.slot[x] = k

\* A predecessor below head is complete, so only distances up to k can block.
LocallyBlocked(w, k, x) == \E d \in local[x] : d <= k /\ (k - d) \notin mask[w]

\* Mutant: the scan offers a slot that has already run.
AvailableAgain(w, k, x) == ~LocallyBlocked(w, k, x) /\ ProbeTaskDependencies(x)

Available(w, k, x) ==
    /\ k \notin mask[w]
    /\ ~LocallyBlocked(w, k, x)
    /\ ProbeTaskDependencies(x)

Acquiring(w) == status = "launched" /\ pc[w] = "acquire" /\ taken[w] < QueueLength(w)

Take(w, x) ==
    /\ pc' = [pc EXCEPT ![w] = "run"]
    /\ cur' = [cur EXCEPT ![w] = x]
    /\ probe' = [probe EXCEPT ![w] = 0]
    /\ UNCHANGED <<hostVars, iteration, head, mask, taken, toArrive, toPublish,
                   eventVars, historyVars>>

ProbeHit(w, x) ==
    /\ Acquiring(w)
    /\ probe[w] < Span(w)
    /\ InSlot(x, w, head[w] + probe[w])
    /\ Available(w, probe[w], x)
    /\ Take(w, x)

ProbeMiss(w, x) ==
    /\ Acquiring(w)
    /\ probe[w] < Span(w)
    /\ InSlot(x, w, head[w] + probe[w])
    /\ ~Available(w, probe[w], x)
    /\ probe' = [probe EXCEPT ![w] = @ + 1]
    /\ UNCHANGED <<hostVars, iteration, pc, head, mask, taken, cur, toArrive,
                   toPublish, eventVars, historyVars>>

\* Nothing in the window was ready: block on the head, local bits unread.
WaitHead(w, x) ==
    /\ Acquiring(w)
    /\ probe[w] = Span(w)
    /\ InSlot(x, w, head[w])
    /\ ProbeTaskDependencies(x)
    /\ Take(w, x)

RunTask(w) ==
    /\ pc[w] = "run"
    /\ finished' = finished \cup {cur[w]}
    /\ toArrive' = [toArrive EXCEPT ![w] = NotifyRows(cur[w])]
    /\ pc' = [pc EXCEPT ![w] = "notify"]
    /\ UNCHANGED <<hostVars, iteration, head, mask, taken, probe, cur, toPublish,
                   eventVars, arrived>>

-----------------------------------------------------------------------------
(***************************************************************************)
(* ArriveEvent, in the three forms it is compiled in.                      *)
(***************************************************************************)
Arrive(w, r) ==
    /\ pc[w] = "notify"
    /\ r \in toArrive[w]
    /\ toArrive' = [toArrive EXCEPT ![w] = @ \ {r}]
    /\ arrived' = [arrived EXCEPT ![r] = @ \cup {cur[w]}]
    /\ UNCHANGED <<hostVars, iteration, pc, head, mask, taken, probe, cur,
                   publication, finished>>

SoloRow(r) == EventSolo /\ RawEventTriggers(r) = 1

\* A reduction without a result: nobody learns it was last.
ArriveRed(w, r) ==
    /\ RedPublish
    /\ Arrive(w, r)
    /\ arrivals' = [arrivals EXCEPT ![r] = @ + 1]
    /\ UNCHANGED <<toPublish, epoch>>

\* The only arriver of a row publishes it without counting.
ArriveSolo(w, r) ==
    /\ ~RedPublish /\ SoloRow(r)
    /\ Arrive(w, r)
    /\ epoch' = [epoch EXCEPT ![r] = iteration + 1]
    /\ UNCHANGED <<toPublish, arrivals>>

\* Mutant: the ticket is compared as if the counter had started from zero.
ArriveTicketUnbased(w, r) ==
    /\ ~RedPublish /\ ~SoloRow(r)
    /\ Arrive(w, r)
    /\ arrivals' = [arrivals EXCEPT ![r] = @ + 1]
    /\ toPublish' = [toPublish EXCEPT ![w] =
          IF arrivals[r] + 1 = RawEventTriggers(r) THEN @ \cup {r} ELSE @]
    /\ UNCHANGED epoch

\* The ticket tells the last arriver, which then owes the row its epoch.
ArriveTicket(w, r) ==
    /\ ~RedPublish /\ ~SoloRow(r)
    /\ Arrive(w, r)
    /\ arrivals' = [arrivals EXCEPT ![r] = @ + 1]
    /\ toPublish' = [toPublish EXCEPT ![w] =
          IF arrivals[r] + 1 = RawEventTriggers(r) * (iteration + 1)
          THEN @ \cup {r} ELSE @]
    /\ UNCHANGED epoch

PublishEpoch(w, r) ==
    /\ r \in toPublish[w]
    /\ epoch' = [epoch EXCEPT ![r] = iteration + 1]
    /\ toPublish' = [toPublish EXCEPT ![w] = @ \ {r}]
    /\ UNCHANGED <<hostVars, iteration, pc, head, mask, taken, probe, cur,
                   toArrive, publication, arrivals, historyVars>>

\* Record the slot and move head over the completed prefix.
Complete(w) ==
    /\ pc[w] = "notify"
    /\ toArrive[w] = {} /\ toPublish[w] = {}
    /\ LET completed == mask[w] \cup {plan.slot[cur[w]] - head[w]}
       IN  \E n \in 0 .. Window :
             /\ n \notin completed
             /\ 0 .. (n - 1) \subseteq completed
             /\ head' = [head EXCEPT ![w] = @ + n]
             /\ mask' = [mask EXCEPT ![w] = {b - n : b \in completed \ (0 .. (n - 1))}]
    /\ taken' = [taken EXCEPT ![w] = @ + 1]
    /\ pc' = [pc EXCEPT ![w] = "acquire"]
    /\ UNCHANGED <<hostVars, iteration, probe, cur, toArrive, toPublish,
                   eventVars, historyVars>>

-----------------------------------------------------------------------------
Init == HostInit /\ DeviceInit

WorkerStep(w) ==
    \/ \E x \in Task : ProbeHit(w, x) \/ ProbeMiss(w, x) \/ WaitHead(w, x)
    \/ RunTask(w)
    \/ \E r \in toArrive[w] : ArriveRed(w, r) \/ ArriveSolo(w, r) \/ ArriveTicket(w, r)
    \/ \E r \in toPublish[w] : PublishEpoch(w, r)
    \/ Complete(w)

Next ==
    \/ HostNext /\ UNCHANGED deviceVars
    \/ LaunchL2
    \/ EndLaunch
    \/ Reset
    \/ \E w \in Worker : WorkerStep(w)

Spec == Init /\ [][Next]_vars

\* Every CTA is resident, so each keeps being scheduled; a kernel whose CTAs
\* have all returned ends.
FairSpec ==
    /\ Spec
    /\ \A w \in Worker : WF_vars(WorkerStep(w))
    /\ WF_vars(EndLaunch)

-----------------------------------------------------------------------------
\* Every variable has its type; local_mask and done_mask keep within the
\* W - 1 bits the executor gives them.
TypeOK ==
    /\ HostTypeOK
    /\ iteration \in Nat
    /\ pc \in [Worker -> {"acquire", "run", "notify"}]
    /\ head \in [Worker -> Nat]
    /\ mask \in [Worker -> SUBSET (1 .. (Window - 1))]
    /\ taken \in [Worker -> Nat]
    /\ probe \in [Worker -> 0 .. Window]
    /\ cur \in [Worker -> Task \cup {NoTask}]
    /\ toArrive \in [Worker -> SUBSET Row]
    /\ toPublish \in [Worker -> SUBSET Row]
    /\ publication \in Publications
    /\ arrivals \in [Row -> Nat]
    /\ epoch \in [Row -> Nat]
    /\ finished \subseteq Task
    /\ arrived \in [Row -> SUBSET Task]

\* A task body never runs before all its producers of this iteration ended,
\* although most of its dependencies are not polled by its own slot.
DependencySafety ==
    \A w \in Worker : pc[w] = "run" => Predecessors(cur[w]) \subseteq finished

\* Corollary of the window rule: when slot j is running, every slot up to
\* j - W of its queue has ended.
WindowPrefix ==
    \A w \in Worker : pc[w] = "run" =>
        \A y \in QueueOf(plan, w) :
            BeyondWindow(plan.slot[y], plan.slot[cur[w]]) => y \in finished

\* A row that reads complete at this iteration's target is complete: no
\* arrival of an earlier launch, and no missing member, satisfies a poll.
EventSound ==
    status = "launched" =>
        \A r \in Row : EventReady(r) => Members(r) \subseteq finished

\* Between launches every counter stands exactly at the next launch's base.
CountersExact ==
    status = "idle" =>
        \A r \in Row :
            /\ arrivals[r] = IF ~RedPublish /\ SoloRow(r) THEN 0
                             ELSE RawEventTriggers(r) * iteration
            /\ epoch[r] = IF RedPublish THEN 0 ELSE iteration

\* Every event row an edge of x could make it poll.
EdgeRows(x) ==
    {[producer |-> d.producer, group |-> WholeStage] :
        d \in {e \in Incoming(x.stage) : e.all}}
      \cup {[producer |-> p.stage, group |-> Group(p)] : p \in RequiredTasks(x)}

\* What the legality check takes for granted when it sweeps tasks and not rows:
\* a row a task may poll has members, all of them ancestors of that task.
PollsOwnAncestors ==
    \A x \in Task : \A r \in EdgeRows(x) :
        /\ Members(r) # {}
        /\ \A S \in SUBSET Task :
              Predecessors(x) \subseteq S /\ (\A y \in S : Predecessors(y) \subseteq S)
                  => Members(r) \subseteq S

\* "This always makes progress": the workers of an accepted plan are never
\* all blocked on their heads (or done) before the launch is over.
Blocked(w) ==
    /\ pc[w] = "acquire"
    /\ \/ QueueDone(w)
       \/ /\ probe[w] = Span(w)
          /\ \E x \in Task : InSlot(x, w, head[w]) /\ ~ProbeTaskDependencies(x)

HeadProgress ==
    status = "launched" /\ (\A w \in Worker : Blocked(w)) =>
        \A w \in Worker : QueueDone(w)

\* The executor implements the task graph: no body runs twice in a launch, none
\* before its producers, and a launch starts over a complete iteration only.
Graph == INSTANCE TaskGraph WITH
    running <- {cur[w] : w \in {v \in Worker : pc[v] = "run"}},
    finished <- finished

ImplementsTaskGraph == Graph!Spec

\* Every launch of an accepted plan comes back.
LaunchCompletes == (status = "launched") ~> (status = "idle")
=============================================================================
