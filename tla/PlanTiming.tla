----------------------------- MODULE PlanTiming -----------------------------
(***************************************************************************)
(* What a plan costs, as the solver counts it without replaying it: the    *)
(* weighted recurrence over task edges and worker queues, and the bounds   *)
(* plans are ranked by (ExecutionSimulator.cpp).  An instance holds the    *)
(* task graph and its costs; a plan is one queue of nodes per worker.      *)
(* Every hop costs the same.                                               *)
(***************************************************************************)
EXTENDS Integers, Sequences, FiniteSets, FiniteSetsExt

Node(i) == DOMAIN i.time
Sum(f, S) == FoldSet(LAMBDA n, total : total + f[n], 0, S)
Queued(w) == {w[k] : k \in DOMAIN w}

\* A plan has every node in one place of one queue.
Owner(queue, n) == CHOOSE w \in DOMAIN queue : n \in Queued(queue[w])
Before(queue, n) ==
    LET w == queue[Owner(queue, n)]
    IN {w[k - 1] : k \in {j \in DOMAIN w : j > 1 /\ w[j] = n}}

Foreign(i, queue, n) == {p \in i.preds[n] : Owner(queue, p) # Owner(queue, n)}
Publishes(i, queue, n) == \E s \in Node(i) : n \in Foreign(i, queue, s)

Publication(i, queue, n) == IF Publishes(i, queue, n) THEN i.publication ELSE 0
WaitCost(i, queue, n) == IF Foreign(i, queue, n) # {} THEN i.wait ELSE 0

\* A task hides its frontier under the one before it in the queue, and never
\* more than that one lasts.
Gain(i, queue, n) == Max({0} \cup {Min({i.prefetch[n], i.time[p]}) : p \in Before(queue, n)})
Duration(i, queue, n) == i.time[n] - Gain(i, queue, n)

\* When the results of n's predecessors have reached it, if they ended at end.
Arrival(i, queue, end, n) ==
    Max({0} \cup {end[p] : p \in i.preds[n]}
            \cup {end[p] + Publication(i, queue, p) + i.hop : p \in Foreign(i, queue, n)})

\* No order of the tasks respects both the edges and the queues.
Cyclic(i, queue) ==
    \E S \in SUBSET Node(i) \ {{}} :
        \A n \in S : (i.preds[n] \cup Before(queue, n)) \cap S # {}

\* With a processor for each worker, a task begins when it and its worker can.
Recurrence(i, queue) ==
    LET end[n \in Node(i)] ==
            Max({Arrival(i, queue, end, n)} \cup
                {end[p] + Publication(i, queue, p) : p \in Before(queue, n)})
            + WaitCost(i, queue, n) + Duration(i, queue, n)
    IN end

-----------------------------------------------------------------------------
(* EvaluatePlanBounds. *)

QueueBound(i, queue) ==
    Max({Sum([n \in Node(i) |-> Duration(i, queue, n)], Queued(queue[w])) : w \in DOMAIN queue})

\* Mutant: a publication is charged whether the edge leaves the worker or not.
BindingBound_Published(i, queue) ==
    LET end[n \in Node(i)] ==
            Max({0} \cup {end[p] + i.publication : p \in i.preds[n] \cup Before(queue, n)})
            + Duration(i, queue, n)
    IN Max({end[n] : n \in Node(i)})

\* The longest path through edges and queues, with no synchronization.
BindingBound(i, queue) ==
    LET end[n \in Node(i)] ==
            Max({0} \cup {end[p] : p \in i.preds[n] \cup Before(queue, n)}) + Duration(i, queue, n)
    IN Max({end[n] : n \in Node(i)})

\* work_lb is the work of all tasks over the workers: here, times their number.
WorkBound(i) == Sum(i.time, Node(i))
=============================================================================
