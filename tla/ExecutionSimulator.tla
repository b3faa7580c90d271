------------------------- MODULE ExecutionSimulator -------------------------
(***************************************************************************)
(* The event loop that replays a plan (SimulateExecution).  A worker runs  *)
(* its queue in order, one task at a time; the tasks of the workers on one *)
(* SM share it, so that each change of that set re-prices what is left of  *)
(* every member.  Completions and wakes wait in one heap; equal times come *)
(* out in any order.  Stale completions, which the code leaves in the heap *)
(* and skips by their version, are taken out here.                         *)
(*                                                                         *)
(* Sharing is by the size of the set, without lane vectors.                *)
(***************************************************************************)
EXTENDS PlanTiming, SequencesExt

CONSTANTS
    Instance,  \* task graphs with their costs
    Plan,      \* queues, one per worker
    Placement  \* per worker, its SM

VARIABLES
    instance, plan, sm,
    now,
    begun,     \* the first heads were tried
    sim        \* the loop's tables, see Start

vars == <<instance, plan, sm, now, begun, sim>>

Nodes == Node(instance)
Worker == DOMAIN plan
Idle == 0
Never == -1
OwnerOf(n) == Owner(plan, n)

Wake(time, w) == [time |-> time, kind |-> "wake", target |-> w]
Completion(time, n) == [time |-> time, kind |-> "completion", target |-> n]

-----------------------------------------------------------------------------
(* The lambdas of SimulateExecution, as functions of the tables. *)

InFlight(s, m) == {s.busy[w] : w \in {v \in Worker : sm[v] = m /\ s.busy[v] # Idle}}

\* Mutant: a task is priced when it starts and never again.
Refresh_Once(s, m, time) ==
    LET set == InFlight(s, m)
        fresh == {n \in set : s.stretch[n] = 0}
    IN [s EXCEPT !.stretch = [n \in Nodes |-> IF n \in fresh THEN Cardinality(set) ELSE s.stretch[n]],
                 !.pending = @ \cup {Completion(time + s.left[n] * Cardinality(set), n) : n \in fresh}]

\* Drain the set up to now, and publish its completions anew.
Refresh(s, m, time) ==
    LET set == InFlight(s, m)
        drained(n) == IF s.stretch[n] = 0 THEN s.left[n]
                      ELSE Max({0, s.left[n] - (time - s.updated[n]) \div s.stretch[n]})
        left == [n \in Nodes |-> IF n \in set THEN drained(n) ELSE s.left[n]]
    IN [s EXCEPT
          !.left = left,
          !.updated = [n \in Nodes |-> IF n \in set THEN time ELSE s.updated[n]],
          !.stretch = [n \in Nodes |-> IF n \in set THEN Cardinality(set) ELSE s.stretch[n]],
          !.pending = {e \in @ : e.kind = "wake" \/ e.target \notin set}
                      \cup {Completion(time + left[n] * Cardinality(set), n) : n \in set}]

\* Mutant: a worker takes its next head while it is busy.
MayRun_Free(s, w) == s.head[w] <= Len(plan[w])

MayRun(s, w) == s.busy[w] = Idle /\ s.head[w] <= Len(plan[w])

\* Mutant: no event wakes a head that is ready in the future.
Later_NoWake(s, w, start) == s

\* A head that is ready in the future needs an event of its own.
Later(s, w, start) == [s EXCEPT !.pending = @ \cup {Wake(start, w)}]

\* The head of w begins when its worker and its inputs are there.
TryStart(s, w, time) ==
    IF ~ MayRun(s, w) THEN s
    ELSE LET n == plan[w][s.head[w]]
             start == Max({s.free_at[w], Arrival(instance, plan, s.end, n)})
                      + WaitCost(instance, plan, n)
         IN IF \E p \in instance.preds[n] : s.end[p] = Never THEN s
            ELSE IF start > time THEN Later(s, w, start)
            ELSE Refresh([s EXCEPT !.start[n] = start,
                                   !.left[n] = Duration(instance, plan, n),
                                   !.updated[n] = start,
                                   !.head[w] = @ + 1,
                                   !.busy[w] = n], sm[w], start)

\* The released successors' workers, in node order, and then the own worker.
StartAll(s, workers, time) ==
    FoldLeft(LAMBDA t, w : TryStart(t, w, time), s, workers)

Complete(s, n, time) ==
    LET w == OwnerOf(n)
        ended == [s EXCEPT !.end[n] = time,
                           !.busy[w] = Idle,
                           !.free_at[w] = time + Publication(instance, plan, n)]
        released == {t \in Nodes : /\ n \in instance.preds[t] /\ OwnerOf(t) # w
                                   /\ \A p \in instance.preds[t] : ended.end[p] # Never}
        order == SetToSortSeq(released, <)
    IN StartAll(Refresh(ended, sm[w], time),
                Append([k \in DOMAIN order |-> OwnerOf(order[k])], w), time)

-----------------------------------------------------------------------------
(* The loop. *)

Start ==
    LET zero == [n \in Nodes |-> 0]
    IN [head |-> [w \in Worker |-> 1],
        free_at |-> [w \in Worker |-> 0],
        busy |-> [w \in Worker |-> Idle],
        start |-> zero, left |-> zero, updated |-> zero,
        stretch |-> zero,                       \* 1 / rate; 0 before the first refresh
        end |-> [n \in Nodes |-> Never],
        pending |-> {}]

Init ==
    /\ instance \in Instance /\ plan \in Plan /\ sm \in Placement
    /\ now = 0 /\ begun = FALSE
    /\ sim = Start

Begin ==
    /\ ~ begun /\ begun' = TRUE
    /\ sim' = StartAll(sim, [w \in Worker |-> w], now)
    /\ UNCHANGED <<instance, plan, sm, now>>

Earliest(e) == \A f \in sim.pending : e.time <= f.time
Popped(e) == [sim EXCEPT !.pending = @ \ {e}]

PopWake ==
    /\ \E e \in sim.pending :
          /\ Earliest(e) /\ e.kind = "wake"
          /\ now' = Max({now, e.time})
          /\ sim' = TryStart(Popped(e), e.target, now')
    /\ UNCHANGED <<instance, plan, sm, begun>>

PopCompletion ==
    /\ \E e \in sim.pending :
          /\ Earliest(e) /\ e.kind = "completion"
          /\ now' = Max({now, e.time})
          /\ sim' = Complete(Popped(e), e.target, now')
    /\ UNCHANGED <<instance, plan, sm, begun>>

Next == Begin \/ PopWake \/ PopCompletion

Spec == Init /\ [][Next]_vars

-----------------------------------------------------------------------------
(* Properties. *)

Returned == begun /\ sim.pending = {}
Succeeded == Returned /\ \A n \in Nodes : sim.end[n] # Never
Makespan == Max({sim.end[n] + Publication(instance, plan, n) : n \in Nodes})
Alone == \A v, w \in Worker : sm[v] = sm[w] => v = w

\* The loop gives up exactly on the plans no order can run: no head is ever
\* forgotten, however its inputs and its worker become available.
DeadlockIsReal == Returned => (Succeeded <=> ~ Cyclic(instance, plan))

\* Where nothing is shared, the events fall where the recurrence of the fast
\* path puts them, whatever the order of equal times; sharing only delays.
MatchesRecurrence ==
    Succeeded =>
        LET end == Recurrence(instance, plan)
        IN \A n \in Nodes : /\ sim.end[n] >= end[n]
                            /\ Alone => sim.end[n] = end[n]

\* The time at which some task runs on m.
BusyTime(m) ==
    LET on == {n \in Nodes : sm[OwnerOf(n)] = m}
        times == {sim.start[n] : n \in on} \cup {sim.end[n] : n \in on}
        after(t) == {u \in times : u > t}
    IN FoldSet(LAMBDA t, total : total +
                  IF \E n \in on : sim.start[n] <= t /\ t < sim.end[n] THEN Min(after(t)) - t ELSE 0,
               0, times)

\* An SM whose tasks slow each other down is never slower than their sum: the
\* time it is busy is exactly the solo time of what ran on it.
SharingConservesWork ==
    Succeeded =>
        \A m \in {sm[w] : w \in Worker} :
            BusyTime(m) = Sum([n \in Nodes |-> Duration(instance, plan, n)],
                              {n \in Nodes : sm[OwnerOf(n)] = m})

\* RankPlans sorts and cuts by the maximum of three lower bounds.  The work
\* bound knows of no prefetch, and is one only where none is hidden.
LowerBoundHolds ==
    Succeeded => /\ Makespan >= QueueBound(instance, plan)
                 /\ Makespan >= BindingBound(instance, plan)
                 /\ (\A n \in Nodes : instance.prefetch[n] = 0) =>
                        Makespan * Len(plan) >= WorkBound(instance)
=============================================================================
