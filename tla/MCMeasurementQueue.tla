------------------------- MODULE MCMeasurementQueue -------------------------
(***************************************************************************)
(* A small queue: a build, a timed round that needs it, and a diagnosis of *)
(* the build that runs whatever its verdict.                               *)
(***************************************************************************)
EXTENDS MeasurementQueue, TLC

Diagnosed == {"build", "round", "diagnosis"}
DiagnosedRequires == "build" :> {} @@ "round" :> {"build"} @@ "diagnosis" :> {}
DiagnosedComesAfter == "build" :> {} @@ "round" :> {} @@ "diagnosis" :> {"build"}
DiagnosedOrder == "round" :> 0 @@ "build" :> 1 @@ "diagnosis" :> 2

\* One queue file for all of them.
OneCohort == {Diagnosed}
=============================================================================
