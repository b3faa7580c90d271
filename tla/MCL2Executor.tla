---------------------------- MODULE MCL2Executor ----------------------------
(***************************************************************************)
(* Small bound models for TLC: stage counts, edges, and the plans an EFT   *)
(* table may ask for (every dense table, and two that are not).            *)
(***************************************************************************)
EXTENDS L2Executor, TLC

Edge(p, c, whole, dv, sc, of, n) ==
    [producer |-> p, consumer |-> c, all |-> whole,
     div |-> dv, scale |-> sc, offset |-> of, count |-> n]

\* Three producers in groups of two, a combiner of them all, and two consumers
\* of the combiner that also read a halo of the producers, its end clipped.
Counts312 == 0 :> 3 @@ 1 :> 1 @@ 2 :> 2
PipelineEdges == {Edge(0, 1, TRUE, 1, 0, 0, 1), Edge(1, 2, FALSE, 2, 1, 0, 1),
                  Edge(0, 2, FALSE, 1, 1, 1, 2)}

Kappa2First == [s \in Stage |-> IF s = 0 THEN 2 ELSE 1]

\* Stage 0 publishes groups of two, and still no task polls a row with a member
\* that is not its ancestor: the hypothesis of the theorem on HeadProgress.
ASSUME PollsAssumption == PollsOwnAncestors

Forward == [s \in Stage |-> s]
Swapped == [w \in Worker |-> Grid - 1 - w]
NoChunks == [s \in Stage |-> 0]

AllOwners == [Task -> Worker]

EveryOtherSlot == [owner |-> [x \in Task |-> 0], slot |-> [x \in Task |-> 2 * x.logical]]
OutsideGrid == [owner |-> [x \in Task |-> Grid], slot |-> [x \in Task |-> 0]]

\* Every way to deal the tasks to the workers, each queue in any order.
DenseTables ==
    {[owner |-> owner,
      slot |-> [x \in Task |-> Cardinality({y \in Task : owner[y] = owner[x] /\ order[y] < order[x]})]] :
        owner \in [Task -> Worker],
        order \in {o \in [Task -> 1 .. Cardinality(Task)] :
                      \A x, y \in Task : o[x] = o[y] => x = y}}

AllTables == DenseTables \cup {EveryOtherSlot, OutsideGrid}
=============================================================================
