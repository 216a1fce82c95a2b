-------------------------- MODULE MCServiceScaling --------------------------
(* Instances of ServiceScaling for TLC. *)
EXTENDS ServiceScaling, TLC

\* Sandboxes are interchangeable. (Safety runs only.)
Symmetry == Permutations(Sandbox)
=============================================================================
