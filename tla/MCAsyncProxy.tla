---------------------------- MODULE MCAsyncProxy ----------------------------
(* Instances of AsyncProxy for TLC. *)
EXTENDS AsyncProxy, TLC

\* Requests are interchangeable. (Safety runs only.)
Symmetry == Permutations(Code)
=============================================================================
