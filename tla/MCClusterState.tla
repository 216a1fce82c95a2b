--------------------------- MODULE MCClusterState ---------------------------
(* Instances of ClusterState: the replicas are symmetric, and what an idle
   call or an object that nobody uses any more has left behind is no part of
   the state.  *)
EXTENDS ClusterState, TLC

Symmetry == Permutations(Replica)

Used == Object \cap ({Current(r) : r \in Replica} \cup {obj[k] : k \in {m \in Key : pc[m] # "idle"}})

View ==
  <<leadership, redis, pc, phase, restarts, history, listed, crashes,
    [d \in {e \in DataPlane : phase[e] # "down"} |-> <<deployed[d], synced[d]>>],
    [o \in Used |-> <<members[o], lock[o], monitor[o]>>],
    [k \in {m \in Key : pc[m] # "idle"} |-> <<op[k], obj[k]>>]>>

\* For instances without data planes, and properties that are not about who
\* was alone: no action reads that history.
RegistryView ==
  <<leadership, redis, pc, answered, listed, crashes,
    [o \in Used |-> <<members[o], lock[o], monitor[o]>>],
    [k \in {m \in Key : pc[m] # "idle"} |-> <<op[k], obj[k]>>]>>
=============================================================================
