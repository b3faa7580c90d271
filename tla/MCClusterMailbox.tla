-------------------------- MODULE MCClusterMailbox --------------------------
(***************************************************************************)
(* Episodes whose tiles differ in size, as GEMM tiles of two variants do.  *)
(***************************************************************************)
EXTENDS ClusterMailbox

\* Two pieces and one, so that a slot's later episode may be the smaller.
Uneven == [e \in 0 .. (Episodes - 1) |-> IF e \in {0, 1, 4} THEN 2 ELSE 1]
=============================================================================
