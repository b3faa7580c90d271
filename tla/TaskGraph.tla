----------------------------- MODULE TaskGraph -----------------------------
(***************************************************************************)
(* What one launch of a megakernel promises, whatever the executor does:   *)
(* every task of the bound model runs once per iteration, and only after   *)
(* all its producers of that same iteration have finished.                 *)
(***************************************************************************)
EXTENDS RuntimeGraph

VARIABLES
    running,    \* tasks whose body is being executed
    finished    \* tasks whose body has ended in this iteration

graphVars == <<running, finished>>

Init == running = {} /\ finished = {}

Start(x) ==
    /\ x \notin running \cup finished
    /\ Predecessors(x) \subseteq finished
    /\ running' = running \cup {x}
    /\ UNCHANGED finished

Finish(x) ==
    /\ x \in running
    /\ running' = running \ {x}
    /\ finished' = finished \cup {x}

\* Only a complete iteration may be followed by another.
NextIteration ==
    /\ finished = Task
    /\ finished' = {}
    /\ UNCHANGED running

Next == (\E x \in Task : Start(x) \/ Finish(x)) \/ NextIteration

Spec == Init /\ [][Next]_graphVars
=============================================================================
