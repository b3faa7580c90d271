--------------------------- MODULE MCShardedFanIn ---------------------------
(***************************************************************************)
(* Two clusters of two CTAs; a stage of three tasks in groups of two, read *)
(* by a halo edge and as a whole.  The producers on any CTAs from the      *)
(* first of either cluster upwards.                                        *)
(***************************************************************************)
EXTENDS ShardedFanIn, TLC

Counts31 == 0 :> 3 @@ 1 :> 2
Kappas21 == 0 :> 2 @@ 1 :> 1

Edge(p, c, whole, n) ==
    [producer |-> p, consumer |-> c, all |-> whole,
     div |-> 1, scale |-> 2, offset |-> 0, count |-> n]

HaloAndWhole == {Edge(0, 1, FALSE, 2), Edge(0, 1, TRUE, 1)}

\* The two consumers sit on one CTA of each cluster.
ProducersUpwards ==
    {o \in [Task -> Worker] :
        /\ \A x \in TasksOf(1) : o[x] = (x.logical * 3) % Grid
        /\ \A x, y \in TasksOf(0) :
              /\ x.logical = 0 => Rank(o[x]) = 0
              /\ x.logical < y.logical => o[x] <= o[y]}

Build(c, s, p) == [cluster |-> c, shards |-> s, publish |-> p]

ShippedBuilds ==
    {Build(FALSE, 2, "epoch"), Build(FALSE, 2, "red"), Build(FALSE, 4, "solo"),
     Build(TRUE, 1, "epoch"), Build(TRUE, 1, "red")}

\* The hypothesis of the theorems holds of these builds.
ASSUME ShardsAssumption == ShardsAreUsed
=============================================================================
