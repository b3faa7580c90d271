-------------------------- MODULE MCCountedExperts --------------------------
(***************************************************************************)
(* A routed layer: the dispatch, the expert tasks over all blocks there    *)
(* can be, a combine, and an expert stage with no active task.             *)
(***************************************************************************)
EXTENDS CountedExperts, TLC, SequencesExt

Edge(p, c, whole, dv, sc, of, n) ==
    [producer |-> p, consumer |-> c, all |-> whole,
     div |-> dv, scale |-> sc, offset |-> of, count |-> n]

\* The rows of the experts reach the combine through counters, not events.
LayerCounts ==
    0 :> 1 @@ 1 :> Capacity * SubTiles * TilesN
        @@ 2 :> CeilDiv(Tokens, TokenGroup) * TilesN @@ 3 :> 0
LayerEdges == {Edge(0, 1, TRUE, 1, 0, 0, 1)}
Kappa1 == [s \in Stage |-> 1]

Workers == 0 .. 1

\* Three tokens, two ranks each: an expert with a row of every token, one with
\* two rows, one with a single row; and one expert left out.
Skewed == 0 :> 0 @@ 1 :> 1 @@ 2 :> 1 @@ 3 :> 0 @@ 4 :> 0 @@ 5 :> 2
TwoOfThree == 0 :> 2 @@ 1 :> 1 @@ 2 :> 1 @@ 3 :> 2 @@ 4 :> 1 @@ 5 :> 2
LayerRoutings == {Skewed, TwoOfThree}

\* The grid-stride owner of each task, and each worker's slots of a stage.
StrideRanges ==
    [w \in Worker |-> [s \in Stage |->
        SetToSortSeq({x \in TasksOf(s) : x.logical % Cardinality(Worker) = w},
                     LAMBDA x, y : x.logical < y.logical)]]
=============================================================================
