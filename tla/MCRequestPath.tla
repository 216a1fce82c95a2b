---------------------------- MODULE MCRequestPath ----------------------------
(* Instances of RequestPath for TLC. *)
EXTENDS RequestPath, TLC

\* Requests are interchangeable, and so are endpoints. (Safety runs only.)
Symmetry == Permutations(Request) \cup Permutations(Endpoint)
=============================================================================
