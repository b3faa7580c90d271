----------------------- MODULE MCDenseTensorParallel -----------------------
(***************************************************************************)
(* Two ranks of two CTAs, two layers, two requests of three steps, one of  *)
(* them past the prompt.                                                   *)
(***************************************************************************)
EXTENDS DenseTensorParallel

TwoEach == <<2, 2>>

Build(e, g, l) == [embed |-> e, groups |-> g, loop |-> l]
ServedBuilds == {Build(TRUE, TRUE, TRUE), Build(TRUE, FALSE, FALSE),
                 Build(FALSE, TRUE, FALSE)}
=============================================================================
