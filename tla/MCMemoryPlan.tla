---------------------------- MODULE MCMemoryPlan ----------------------------
(***************************************************************************)
(* Plans of four stages with every choice of sizes, readers and tiles;     *)
(* and longer ones where each stage reads the one or two before it, so     *)
(* that a slot has a third occupant while the first still has readers, or  *)
(* is passed over for a later one whose buffers are of the right kind.     *)
(***************************************************************************)
EXTENDS MemoryPlan

Chain(size, tile, layout, reads, whole, inexact, outputs) ==
    [owner |-> [s \in 1..Len(size) |-> [e \in 1..size[s] |-> (e - 1) \div tile]],
     layout |-> layout, reads |-> reads,
     whole |-> whole, inexact |-> inexact, outputs |-> outputs]

Alike(n) == [s \in 1..n |-> 1]

Earlier == {f \in [1..4 -> SUBSET (1..3)] : \A s \in 1..4 : f[s] \subseteq 1..(s - 1)}

Short ==
    {Chain(size, tile, Alike(4), reads, whole, {}, {}) :
        size \in [1..4 -> 1..2], tile \in 1..2, whole \in {{}, 1..4}, reads \in Earlier}

Mixed ==
    {Chain(<<1, 2, 2, 1>>, 1, Alike(4), reads, {}, inexact, {1, 4}) :
        reads \in Earlier, inexact \in {{2}, {3}}}

Long ==
    {Chain(size, 1, layout, reads, {}, {}, {5}) :
        size \in [1..5 -> {1, 3}],
        layout \in {Alike(5), <<1, 2, 3, 2, 1>>, <<1, 1, 2, 1, 1>>},
        reads \in {[s \in 1..5 |-> {d \in 1..(s - 1) : d >= s - back}] : back \in 1..2}}

Programs == Short \cup Mixed \cup Long
Both == {"greedy", "l2"}
=============================================================================
