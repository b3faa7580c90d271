------------------------------ MODULE Mbarrier ------------------------------
(***************************************************************************)
(* The wait on a shared-memory barrier (Async.cuh, ClusterMailbox.cuh): a  *)
(* warp names a phase by its parity and goes on when the phase of that     *)
(* parity is not the current one.                                          *)
(***************************************************************************)
EXTENDS Integers

PhaseDone(completed, parity) == completed % 2 # parity
=============================================================================
