-------------------------- MODULE MCControlPlaneApi --------------------------
(* Instances of ControlPlaneApi.  *)
EXTENDS ControlPlaneApi, TLC

Symmetry == Permutations(Replica) \cup Permutations(Call)

(* Nobody reads what a call that has ended or a revision that is over leaves
   in its variables, nor what runs at a replica that is down or while HAProxy
   is restarted: states that differ in these alone have the same behaviours.  *)
Ended(c) == pc[c] \in Answer /\ step[c] = "none"
Over(a) == step[a] = "none" /\ (a \in Call => Ended(a))

View ==
  <<election, loop, storage, addressToName, backend, disturbed,
    [r \in Replica |-> IF main[r] = "down" \/ restarting[r] THEN <<None, main[r] # "down">>
                       ELSE <<running[r], FALSE>>],
    [c \in Call |-> IF Ended(c) THEN <<"success", "none", None, None, {}>>
                    ELSE <<pc[c], op[c], dataplane[c], at[c], target[c]>>],
    [a \in Actor |-> IF Over(a) THEN <<"none", None, FALSE, {}, {}, NoEdits, FALSE>>
                     ELSE <<step[a], place[a], valid[a], keep[a], todo[a], edits[a], changes[a]>>]>>
=============================================================================
