----------------------------- MODULE MCWorkerNode -----------------------------
(* Instances of WorkerNode.  *)
EXTENDS WorkerNode, TLC

Symmetry == Permutations(Sandbox) \cup Permutations(Port)
=============================================================================
