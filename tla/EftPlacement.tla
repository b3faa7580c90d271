---------------------------- MODULE EftPlacement ----------------------------
(***************************************************************************)
(* Earliest-finish placement (EftPlacement.cpp): the ready node of the     *)
(* largest upward rank goes to the worker where it ends first.  The        *)
(* arrival of its inputs at every worker comes from one scan that keeps    *)
(* the latest and the latest of another owner.  Tasks on sibling workers   *)
(* still running at the start stretch the new one, by their number.        *)
(***************************************************************************)
EXTENDS ExecutionSimulator

CONSTANTS
    Placeable,  \* the task graphs to place, with their costs
    Siblings    \* per worker of the grid, its SM

VARIABLE end_ns  \* per placed node, when it is promised to end

replayVars == <<vars, end_ns>>

Nobody == 0
Unplaced == {n \in Nodes : \A w \in Worker : n \notin Queued(plan[w])}
worker(n) == IF n \in Unplaced THEN Nobody ELSE OwnerOf(n)

Successors(n) == {s \in Nodes : n \in instance.preds[s]}
HopCost(n) == IF Successors(n) = {} THEN 0 ELSE instance.hop

\* Upward rank: the weight of the heaviest path from n on.
Rank ==
    LET rank[n \in Nodes] ==
            instance.time[n] + Max({0} \cup {HopCost(n) + rank[s] : s \in Successors(n)})
    IN rank

Ready == {n \in Unplaced : instance.preds[n] \cap Unplaced = {}}
IsTop(n) == \A m \in Ready : Rank[m] < Rank[n] \/ (Rank[m] = Rank[n] /\ n <= m)

\* Mutant: the old best is forgotten when another owner's arrival is later.
ScanStep_Late(scan, p) ==
    LET arrival == end_ns[p] + HopCost(p)
    IN IF arrival > scan.best
       THEN [best |-> arrival, second |-> scan.second, owner |-> worker(p)]
       ELSE IF worker(p) # scan.owner /\ arrival > scan.second
       THEN [scan EXCEPT !.second = arrival]
       ELSE scan

\* The reduction of the predecessors to the latest arrival and its owner, and
\* the latest that another owner sends.
ScanStep(scan, p) ==
    LET arrival == end_ns[p] + HopCost(p)
    IN IF arrival > scan.best
       THEN [best |-> arrival, owner |-> worker(p),
             second |-> IF worker(p) # scan.owner THEN scan.best ELSE scan.second]
       ELSE IF worker(p) # scan.owner /\ arrival > scan.second
       THEN [scan EXCEPT !.second = arrival]
       ELSE scan
Scan(n) ==
    FoldLeft(ScanStep, [best |-> 0, second |-> 0, owner |-> Nobody],
             SetToSortSeq(instance.preds[n], <))

WorkerFree(w) == IF plan[w] = <<>> THEN 0 ELSE end_ns[Last(plan[w])]
StartOn(n, w) ==
    LET scan == Scan(n)
    IN Max({WorkerFree(w), IF scan.owner = w THEN scan.second ELSE scan.best})

\* The new task and the last ones of the siblings that are still running.
Members(start, w) ==
    1 + Cardinality({v \in Worker \ {w} : sm[v] = sm[w] /\ WorkerFree(v) > start})
FinishOn(n, w) == StartOn(n, w) + instance.time[n] * Members(StartOn(n, w), w)

\* The first worker on which n ends first.
Chosen(n, w) ==
    \A v \in Worker : FinishOn(n, w) < FinishOn(n, v) \/ (FinishOn(n, w) = FinishOn(n, v) /\ w <= v)

Place(n) ==
    /\ n \in Ready /\ IsTop(n)
    /\ \E w \in Worker :
          /\ Chosen(n, w)
          /\ plan' = [plan EXCEPT ![w] = Append(@, n)]
          /\ end_ns' = [end_ns EXCEPT ![n] = FinishOn(n, w)]
    /\ UNCHANGED <<instance, sm, now, begun, sim>>

\* Nothing is placed yet.
PlacementInit ==
    /\ instance \in Placeable /\ sm \in Siblings
    /\ plan = [w \in DOMAIN sm |-> <<>>]
    /\ now = 0 /\ begun = FALSE
    /\ sim = Start

\* A plan from anywhere, or one that is placed here; then its replay.
ReplayInit ==
    /\ Init \/ PlacementInit
    /\ end_ns = [n \in Nodes |-> 0]

Replay == Unplaced = {} /\ Next /\ UNCHANGED end_ns

ReplayNext == Replay \/ \E n \in Nodes : Place(n)

ReplaySpec == ReplayInit /\ [][ReplayNext]_replayVars

-----------------------------------------------------------------------------
PlacedHere == \E n \in Nodes : end_ns[n] > 0

\* The queues it returns are a plan the workers can run, and replaying that
\* plan gives the ends it was chosen by: exactly where no SM is shared, and
\* without the sharing no later than promised where siblings were charged for.
ReplayAgrees ==
    PlacedHere /\ Returned =>
        /\ Succeeded
        /\ LET unshared == Recurrence(instance, plan)
           IN \A n \in Nodes : /\ unshared[n] <= end_ns[n]
                               /\ Alone => sim.end[n] = end_ns[n]
=============================================================================
