---------------------------- MODULE MCL1Executor ----------------------------
(***************************************************************************)
(* A small stage table for the stage-synchronous executor.                 *)
(***************************************************************************)
EXTENDS L1Executor, TLC

Edge(p, c, whole, dv, sc, of, n) ==
    [producer |-> p, consumer |-> c, all |-> whole,
     div |-> dv, scale |-> sc, offset |-> of, count |-> n]

\* Attention partials (2 heads of 3 chunks), their merge, and an lm_head.
CountsMerge == 0 :> 6 @@ 1 :> 2 @@ 2 :> 5
MergeEdges == {Edge(0, 1, FALSE, 1, 3, 0, 3), Edge(1, 2, TRUE, 1, 0, 0, 1)}
MergeReduce == 0 :> 1 @@ 1 :> NoStage @@ 2 :> NoStage
MergeProducers == 0 :> 3 @@ 1 :> 1 @@ 2 :> 1
MergeHeads == 0 :> 2 @@ 1 :> 0

Kappa1 == [s \in Stage |-> 1]
Reversed == [w \in Worker |-> Grid - 1 - w]

Build(c, r) == [cluster |-> c, red |-> r]
ShippedBuilds == {Build(1, FALSE), Build(1, TRUE), Build(2, FALSE), Build(4, FALSE)}
=============================================================================
