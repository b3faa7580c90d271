----------------------------- MODULE DecodeLoop -----------------------------
(***************************************************************************)
(* What a device loop over decode steps promises, whatever the executor    *)
(* does.  The buffers are the same in every step, so a task may run for a  *)
(* step only when its producers have run for that step, when its readers   *)
(* of the step before have read what it is about to overwrite, and when    *)
(* the producers of the lag edges have run for the step before: the token  *)
(* an embedding looks up, the keys and values an attention goes back to.   *)
(***************************************************************************)
EXTENDS RuntimeGraph

CONSTANTS
    Steps,    \* decode steps of the loop
    Lag       \* edges from one step to the next: [producer, consumer] stages

VARIABLES
    running,    \* tasks whose body is being executed
    done        \* per task, the steps it has run for

loopVars == <<running, done>>

Init == running = {} /\ done = [x \in Task |-> 0]

Settled(p, n) == p \notin running /\ done[p] = n

Runnable(x) ==
    /\ x \notin running
    /\ done[x] < Steps
    /\ \A p \in Predecessors(x) : Settled(p, done[x] + 1)
    /\ \A y \in Task : x \in Predecessors(y) => Settled(y, done[x])
    /\ \A l \in Lag : l.consumer = x.stage =>
          \A p \in TasksOf(l.producer) \ {x} : done[p] >= done[x]

\* A reducer that runs in its last producer computes all rows of its tile.
Start(X) ==
    /\ \A x \in X : Runnable(x)
    /\ running' = running \cup X
    /\ UNCHANGED done

Finish(X) ==
    /\ X \subseteq running
    /\ running' = running \ X
    /\ done' = [x \in Task |-> done[x] + (IF x \in X THEN 1 ELSE 0)]

Next == \E s \in Stage : \E X \in SUBSET TasksOf(s) : Start(X) \/ Finish(X)

Spec == Init /\ [][Next]_loopVars
=============================================================================
