--------------------------- MODULE MCElidedQueue ---------------------------
(***************************************************************************)
(* A norm, two partial products that read it, their elided combine, and a  *)
(* last stage whose first task reads the combine and whose second reads    *)
(* the norm alone.                                                         *)
(***************************************************************************)
EXTENDS ElidedQueue, TLC

Edge(p, c, sc, of, n) ==
    [producer |-> p, consumer |-> c, all |-> FALSE,
     div |-> 1, scale |-> sc, offset |-> of, count |-> n]

Counts1212 == 0 :> 1 @@ 1 :> 2 @@ 2 :> 1 @@ 3 :> 2
SplitEdges == {Edge(0, 1, 0, 0, 1), Edge(1, 2, 0, 0, 2),
               Edge(2, 3, 1, 0, 1), Edge(0, 3, 1, -1, 1)}

Kappa1 == [s \in Stage |-> 1]
Forward == [s \in Stage |-> s]
Identity == [w \in Worker |-> w]
NoChunks == [s \in Stage |-> 0]
NoOwners == {}

\* Every dense table of two workers whose norm is on the first.
DenseTables ==
    {[owner |-> owner,
      slot |-> [x \in Task |-> Cardinality({y \in Task : owner[y] = owner[x] /\ order[y] < order[x]})]] :
        owner \in {o \in [Task -> Worker] : \A x \in TasksOf(0) : o[x] = 0},
        order \in {o \in [Task -> 1 .. Cardinality(Task)] :
                      \A x, y \in Task : o[x] = o[y] => x = y}}
=============================================================================
