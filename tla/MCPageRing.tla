----------------------------- MODULE MCPageRing -----------------------------
(***************************************************************************)
(* Small page streams.                                                     *)
(***************************************************************************)
EXTENDS PageRing

PageUse(waves, group, owners, hold) ==
    [waves |-> waves, group |-> group, owners |-> owners, hold |-> hold]

\* Warp-private attention between two GEMMs whose group fills the ring.
Private == <<PageUse(1, 2, 2, FALSE), PageUse(4, 1, 1, FALSE), PageUse(2, 2, 2, FALSE)>>

\* Packed attention on four warps, then a pipelined GEMM.
Packed == <<PageUse(2, 1, 2, FALSE), PageUse(3, 1, 4, TRUE)>>

\* A pipelined GEMM straight before warp-private attention.
Mixed == <<PageUse(3, 1, 2, TRUE), PageUse(3, 1, 1, FALSE)>>

ThreeStreams == {[warps |-> 2, tasks |-> Private], [warps |-> 4, tasks |-> Packed],
                 [warps |-> 2, tasks |-> Mixed]}
=============================================================================
