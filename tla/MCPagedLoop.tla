---------------------------- MODULE MCPagedLoop ----------------------------
(***************************************************************************)
(* A small serving model for TLC: one request, its cache in two blocks.    *)
(***************************************************************************)
EXTENDS PagedLoop, TLC

Edge(p, c, whole, dv, sc, of, n) ==
    [producer |-> p, consumer |-> c, all |-> whole,
     div |-> dv, scale |-> sc, offset |-> of, count |-> n]
T(s, i) == [stage |-> s, logical |-> i]
None == -1
ByStage(seq) == [s \in Stage |-> seq[s + 1]]

\* Embedding, attention whose two tasks share an event, its merge (elided), a
\* router, the expert stage gated by it, the token (elided).
ServingCounts == ByStage(<<1, 2, 1, 1, 2, 1>>)
ServingKappa == ByStage(<<1, 2, 1, 1, 1, 1>>)
ServingEdges == {Edge(0, 1, FALSE, 2, 1, 0, 1), Edge(1, 2, FALSE, 1, 0, 0, 2),
                 Edge(2, 3, FALSE, 1, 1, 0, 1), Edge(3, 4, TRUE, 1, 0, 0, 1),
                 Edge(4, 5, TRUE, 1, 0, 0, 1)}
ServingReducer == ByStage(<<None, 2, None, None, 5, None>>)
ServingOpaque == ByStage(<<None, None, None, None, 3, None>>)
ServingLag == {[producer |-> 5, consumer |-> 0], [producer |-> 2, consumer |-> 1]}
ServingQueues == 0 :> <<T(0, 0), T(1, 0), T(3, 0), T(4, 0)>>
                 @@ 1 :> <<T(1, 1)>> @@ 2 :> <<T(4, 1)>> @@ 3 :> <<>>
ServingPages == ByStage(<<0, 1, 0, 0, 1, 0>>)
=============================================================================
