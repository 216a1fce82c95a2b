-------------------------- MODULE MCLeaderElection --------------------------
(* Small instances of LeaderElection. *)
EXTENDS LeaderElection, TLC

Symmetry == Permutations(Server)

\* Without late replies terms only grow, so a timer of a past term can only
\* return, and a reply to a past term is never taken up: states that differ
\* in these alone have the same behaviours.
View ==
    <<currentTerm, votedFor, state, currentLeaderID,
      [n \in Server |-> timers[n] \cap {currentTerm[n]}], electionVars,
      {c \in calls : c.type \in {"VoteReply", "BeatReply"} =>
                        c.term = currentTerm[c.src]},
      announce, wasLeaderBefore>>
=============================================================================
