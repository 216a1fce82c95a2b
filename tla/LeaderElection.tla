--------------------------- MODULE LeaderElection ---------------------------
(***************************************************************************)
(* The leader election between control plane replicas                      *)
(* (internal/control_plane/leader_election), together with the part of the *)
(* master node that listens to it (cmd/master_node/state_management).      *)
(*                                                                         *)
(* Every handler of ConsensusModule runs under cm.mu and is one action     *)
(* here. An RPC is a goroutine of the caller: it is a record in calls,     *)
(* first as a request, then as the reply the callee computed. gRPC never   *)
(* delivers a call twice; a call that fails is a record that is never      *)
(* taken up again. Elapsed time is abstracted: electionResetEvent only     *)
(* delays a timer, so a running timer may expire at any moment. A timer    *)
(* goroutine reads termStarted when it first gets cm.mu; reading it late   *)
(* could only make it a second timer of a term that has one of its own, so *)
(* here a timer has the term in which it was started.                      *)
(*                                                                         *)
(* announceLeadership is a channel of capacity one, so it is its content.  *)
(* A handler that has to announce waits, with cm.mu held, until the main   *)
(* loop has emptied it; here such a handler is enabled only when the       *)
(* channel is empty, which is the same order of critical sections.         *)
(***************************************************************************)
EXTENDS Naturals, FiniteSets

CONSTANTS
    Server,        \* the control plane replicas
    None,          \* votedFor = -1, currentLeaderID not set yet
    MaxElections,  \* bound: elections started, over all replicas
    MaxRestarts,   \* bound: process crashes, over all replicas
    Stoppable,     \* replicas on which Shutdown may be called
    LateReplies    \* may a reply reach the caller in a later term of his?

ASSUME ElectionAssumption ==
    /\ IsFiniteSet(Server)
    /\ None \notin Server
    /\ MaxElections \in Nat
    /\ MaxRestarts \in Nat
    /\ Stoppable \subseteq Server
    /\ LateReplies \in BOOLEAN

VARIABLES
    currentTerm,      \* fields of ConsensusModule
    votedFor,
    state,
    currentLeaderID,
    timers,           \* termStarted of each runElectionTimer goroutine
    elections,        \* number of calls of startElection so far
    candidate,        \* of each of these elections: the replica,
    savedCurrentTerm, \*   its term
    votesReceived,    \*   and who has voted (one goroutine asks one peer)
    calls,            \* RPCs in flight
    announce,         \* content of the announceLeadership channel
    wasLeaderBefore,  \* CurrentState.wasLeaderBefore of the main loop
    restarts

cmVars == <<currentTerm, votedFor, state, timers, announce>>
electionVars == <<elections, candidate, savedCurrentTerm, votesReceived>>
vars == <<cmVars, currentLeaderID, electionVars, calls, wasLeaderBefore,
          restarts>>

----------------------------------------------------------------------------
(* Data *)

CMState == {"Follower", "Candidate", "Leader", "Dead"}

\* Mutant of Peers: an unset replica ID among the peers.
PeersWithUnset(n) == (Server \cup {None}) \ {n}

Peers(n) == Server \ {n}

ElectionID == 1..MaxElections

VoteRequest == [type : {"VoteRequest"}, src : Server, dst : Server,
                term : Nat, eid : ElectionID]
VoteReply   == [type : {"VoteReply"}, src : Server, dst : Server,
                term : Nat, eid : ElectionID, rterm : Nat, granted : BOOLEAN]
BeatRequest == [type : {"BeatRequest"}, src : Server, dst : Server, term : Nat]
BeatReply   == [type : {"BeatReply"}, src : Server, dst : Server,
                term : Nat, rterm : Nat]

\* The records the RPC goroutines are made of; src is always the caller.
RequestVoteArgs(n, p, t, e) ==
    [type |-> "VoteRequest", src |-> n, dst |-> p, term |-> t, eid |-> e]

RequestVoteReply(c, t, g) ==
    [type |-> "VoteReply", src |-> c.src, dst |-> c.dst, term |-> c.term,
     eid |-> c.eid, rterm |-> t, granted |-> g]

AppendEntriesArgs(n, p, t) ==
    [type |-> "BeatRequest", src |-> n, dst |-> p, term |-> t]

AppendEntriesReply(c, t) ==
    [type |-> "BeatReply", src |-> c.src, dst |-> c.dst, term |-> c.term,
     rterm |-> t]

\* votesReceived*2 > len(cm.peerIds)+1
Majority(V) == Cardinality(V) * 2 > Cardinality(Server)

----------------------------------------------------------------------------
(* NewConsensusModule. Without peers the replica is the leader at once and *)
(* never waits for an election; with peers its first timer starts when the *)
(* mesh is ready.                                                          *)

Init ==
    /\ currentTerm = [n \in Server |-> 0]
    /\ votedFor = [n \in Server |-> None]
    /\ state = [n \in Server |->
                  IF Peers(n) = {} THEN "Leader" ELSE "Follower"]
    /\ currentLeaderID = [n \in Server |-> None]
    /\ timers = [n \in Server |-> IF Peers(n) = {} THEN {} ELSE {0}]
    /\ elections = 0
    /\ candidate = [e \in ElectionID |-> None]
    /\ savedCurrentTerm = [e \in ElectionID |-> 0]
    /\ votesReceived = [e \in ElectionID |-> {}]
    /\ calls = {}
    /\ announce = [n \in Server |->
                     IF Peers(n) = {} THEN "leader" ELSE "empty"]
    /\ wasLeaderBefore = [n \in Server |-> FALSE]
    /\ restarts = 0

----------------------------------------------------------------------------
(* Steps shared by the handlers *)

\* Mutants of becomeFollower: no new timer; no announcement.
becomeFollowerNoTimer(n, t, vote) ==
    /\ announce[n] = "empty"
    /\ announce' = [announce EXCEPT ![n] = "follower"]
    /\ state' = [state EXCEPT ![n] = "Follower"]
    /\ currentTerm' = [currentTerm EXCEPT ![n] = t]
    /\ votedFor' = [votedFor EXCEPT ![n] = vote]
    /\ UNCHANGED timers

becomeFollowerSilently(n, t, vote) ==
    /\ state' = [state EXCEPT ![n] = "Follower"]
    /\ currentTerm' = [currentTerm EXCEPT ![n] = t]
    /\ votedFor' = [votedFor EXCEPT ![n] = vote]
    /\ timers' = [timers EXCEPT ![n] = @ \cup {t}]
    /\ UNCHANGED announce

\* becomeFollower(term); vote is what the caller stores in votedFor after
\* the reset to None, if it stores anything.
becomeFollower(n, t, vote) ==
    /\ announce[n] = "empty"
    /\ announce' = [announce EXCEPT ![n] = "follower"]
    /\ state' = [state EXCEPT ![n] = "Follower"]
    /\ currentTerm' = [currentTerm EXCEPT ![n] = t]
    /\ votedFor' = [votedFor EXCEPT ![n] = vote]
    /\ timers' = [timers EXCEPT ![n] = @ \cup {t}]

startLeader(n) ==
    /\ announce[n] = "empty"
    /\ announce' = [announce EXCEPT ![n] = "leader"]
    /\ state' = [state EXCEPT ![n] = "Leader"]
    /\ UNCHANGED <<currentTerm, votedFor, timers>>

\* The callee answers call c with reply r.
Answer(c, r) == calls' = (calls \ {c}) \cup {r}

----------------------------------------------------------------------------
(* Election timer *)

\* runElectionTimer expires in its own term: startElection.
startElection(n) ==
    LET t == currentTerm[n] + 1
        e == elections + 1
    IN  /\ state[n] \in {"Follower", "Candidate"}
        /\ currentTerm[n] \in timers[n]
        /\ elections < MaxElections
        /\ state' = [state EXCEPT ![n] = "Candidate"]
        /\ currentTerm' = [currentTerm EXCEPT ![n] = t]
        /\ votedFor' = [votedFor EXCEPT ![n] = n]
        /\ elections' = e
        /\ candidate' = [candidate EXCEPT ![e] = n]
        /\ savedCurrentTerm' = [savedCurrentTerm EXCEPT ![e] = t]
        /\ votesReceived' = [votesReceived EXCEPT ![e] = {n}]
        /\ calls' = calls \cup {RequestVoteArgs(n, p, t, e) : p \in Peers(n)}
        /\ timers' = [timers EXCEPT ![n] = (@ \ {currentTerm[n]}) \cup {t}]
        /\ UNCHANGED <<currentLeaderID, announce, wasLeaderBefore, restarts>>

\* A timer of another term, or of a replica that leads or is dead, returns.
TimerBailsOut(n, t) ==
    /\ t \in timers[n]
    /\ t # currentTerm[n] \/ state[n] \notin {"Follower", "Candidate"}
    /\ timers' = [timers EXCEPT ![n] = @ \ {t}]
    /\ UNCHANGED <<currentTerm, votedFor, state, announce, currentLeaderID,
                   electionVars, calls, wasLeaderBefore, restarts>>

----------------------------------------------------------------------------
(* RequestVote, at the callee and back at the caller *)

\* Mutant of MayVote: one vote per term forgotten.
MayVoteAgain(n, c) == TRUE

\* cm.votedFor == -1 || cm.votedFor == args.CandidateID
MayVote(n, c) == votedFor[n] \in {None, c.src}

RequestVote(c) ==
    LET n == c.dst IN
    /\ c.type = "VoteRequest"
    /\ state[n] # "Dead"
    /\ \/ /\ c.term > currentTerm[n]
          /\ becomeFollower(n, c.term, c.src)
          /\ Answer(c, RequestVoteReply(c, c.term, TRUE))
       \/ /\ c.term = currentTerm[n]
          /\ MayVote(n, c)
          /\ votedFor' = [votedFor EXCEPT ![n] = c.src]
          /\ Answer(c, RequestVoteReply(c, c.term, TRUE))
          /\ UNCHANGED <<currentTerm, state, timers, announce>>
       \/ /\ \/ c.term < currentTerm[n]
             \/ c.term = currentTerm[n] /\ ~MayVote(n, c)
          /\ Answer(c, RequestVoteReply(c, currentTerm[n], FALSE))
          /\ UNCHANGED cmVars
    /\ UNCHANGED <<currentLeaderID, electionVars, wasLeaderBefore, restarts>>

\* The timing the election relies on: a reply arrives while its caller is
\* still in the term in which it asked. The code does not enforce it.
Timely(c) == LateReplies \/ currentTerm[c.src] = c.term

\* The second half of the goroutine that startElection starts for each peer.
HandleRequestVoteReply(c) ==
    LET n == c.src
        voters == votesReceived[c.eid] \cup {c.dst}
        counts == state[n] = "Candidate" /\ c.rterm = c.term /\ c.granted
        behind == state[n] = "Candidate" /\ c.rterm > c.term
    IN  /\ c.type = "VoteReply"
        /\ Timely(c)
        /\ calls' = calls \ {c}
        /\ \/ behind /\ becomeFollower(n, c.rterm, None)
              /\ UNCHANGED votesReceived
           \/ /\ counts
              /\ votesReceived' = [votesReceived EXCEPT ![c.eid] = voters]
              /\ \/ Majority(voters) /\ startLeader(n)
                 \/ ~Majority(voters) /\ UNCHANGED cmVars
           \/ ~counts /\ ~behind /\ UNCHANGED <<cmVars, votesReceived>>
        /\ UNCHANGED <<currentLeaderID, elections, candidate, savedCurrentTerm,
                       wasLeaderBefore, restarts>>

----------------------------------------------------------------------------
(* AppendEntries, the heartbeat *)

leaderSendHeartbeats(n) ==
    /\ state[n] = "Leader"
    /\ calls' = calls \cup
                {AppendEntriesArgs(n, p, currentTerm[n]) : p \in Peers(n)}
    /\ UNCHANGED <<cmVars, currentLeaderID, electionVars, wasLeaderBefore,
                   restarts>>

\* Mutant of MakesFollower: any heartbeat.
MakesFollowerAgain(n, c) == c.term >= currentTerm[n]

\* The two calls of becomeFollower in AppendEntries; only one can happen.
MakesFollower(n, c) ==
    \/ c.term > currentTerm[n]
    \/ c.term = currentTerm[n] /\ state[n] # "Follower"

AppendEntries(c) ==
    LET n == c.dst IN
    /\ c.type = "BeatRequest"
    /\ state[n] # "Dead"
    /\ currentLeaderID' = [currentLeaderID EXCEPT ![n] = c.src]
    /\ \/ /\ MakesFollower(n, c)
          /\ becomeFollower(n, c.term, None)
          /\ Answer(c, AppendEntriesReply(c, c.term))
       \/ /\ ~MakesFollower(n, c)
          /\ Answer(c, AppendEntriesReply(c, currentTerm[n]))
          /\ UNCHANGED cmVars
    /\ UNCHANGED <<electionVars, wasLeaderBefore, restarts>>

\* Mutant of HandleAppendEntriesReply: the reply's term is not looked at.
HandleAppendEntriesReplyIgnored(c) ==
    /\ c.type = "BeatReply"
    /\ Timely(c)
    /\ calls' = calls \ {c}
    /\ UNCHANGED <<cmVars, currentLeaderID, electionVars, wasLeaderBefore,
                   restarts>>

\* The second half of a heartbeat goroutine: it looks at the terms only.
HandleAppendEntriesReply(c) ==
    LET n == c.src IN
    /\ c.type = "BeatReply"
    /\ Timely(c)
    /\ calls' = calls \ {c}
    /\ \/ c.rterm > c.term /\ becomeFollower(n, c.rterm, None)
       \/ c.rterm <= c.term /\ UNCHANGED cmVars
    /\ UNCHANGED <<currentLeaderID, electionVars, wasLeaderBefore, restarts>>

\* A dead replica answers nil. The caller gets an error or a reply of term
\* zero without a vote, and does nothing with either.
CallFails(c) ==
    /\ c.type \in {"VoteRequest", "BeatRequest"}
    /\ state[c.dst] = "Dead"
    /\ calls' = calls \ {c}
    /\ UNCHANGED <<cmVars, currentLeaderID, electionVars, wasLeaderBefore,
                   restarts>>

----------------------------------------------------------------------------
(* The main loop, shutdown and crashes *)

\* The main loop receives an announcement: UpdateLeadership.
UpdateLeadership(n) ==
    /\ announce[n] # "empty"
    /\ announce' = [announce EXCEPT ![n] = "empty"]
    /\ wasLeaderBefore' = [wasLeaderBefore EXCEPT
                             ![n] = announce[n] = "leader" /\ ~wasLeaderBefore[n]]
    /\ UNCHANGED <<currentTerm, votedFor, state, timers, currentLeaderID,
                   electionVars, calls, restarts>>

Stop(n) ==
    /\ n \in Stoppable
    /\ state[n] # "Dead"
    /\ state' = [state EXCEPT ![n] = "Dead"]
    /\ UNCHANGED <<currentTerm, votedFor, timers, announce, currentLeaderID,
                   electionVars, calls, wasLeaderBefore, restarts>>

\* The process crashes and NewConsensusModule runs again: nothing of the
\* replica's state survives, and neither do the goroutines of its calls.
Restart(n) ==
    /\ restarts < MaxRestarts
    /\ Peers(n) # {}
    /\ restarts' = restarts + 1
    /\ currentTerm' = [currentTerm EXCEPT ![n] = 0]
    /\ votedFor' = [votedFor EXCEPT ![n] = None]
    /\ state' = [state EXCEPT ![n] = "Follower"]
    /\ currentLeaderID' = [currentLeaderID EXCEPT ![n] = None]
    /\ timers' = [timers EXCEPT ![n] = {0}]
    /\ announce' = [announce EXCEPT ![n] = "empty"]
    /\ wasLeaderBefore' = [wasLeaderBefore EXCEPT ![n] = FALSE]
    /\ calls' = {c \in calls : c.src # n}
    /\ UNCHANGED electionVars

----------------------------------------------------------------------------

Next ==
    \/ \E n \in Server :
          \/ startElection(n)
          \/ \E t \in timers[n] : TimerBailsOut(n, t)
          \/ leaderSendHeartbeats(n)
          \/ UpdateLeadership(n)
          \/ Stop(n)
          \/ Restart(n)
    \/ \E c \in calls :
          \/ RequestVote(c)
          \/ HandleRequestVoteReply(c)
          \/ AppendEntries(c)
          \/ HandleAppendEntriesReply(c)
          \/ CallFails(c)

Spec == Init /\ [][Next]_vars

\* Goroutines are scheduled and heartbeats get through, in both directions,
\* between any two replicas; whether a timer expires, a vote arrives, or a
\* replica is shut down or crashes is left open.
Fairness ==
    /\ \A n \in Server : /\ WF_vars(leaderSendHeartbeats(n))
                         /\ WF_vars(UpdateLeadership(n))
    /\ \A n, m \in Server :
          /\ WF_vars(\E c \in calls : c.src = n /\ c.dst = m /\ AppendEntries(c))
          /\ WF_vars(\E c \in calls :
                        c.src = n /\ c.dst = m /\ HandleAppendEntriesReply(c))

FairSpec == Spec /\ Fairness

----------------------------------------------------------------------------
(* Properties *)

\* The values of the fields of ConsensusModule, of the calls under way and of
\* the announcements.
TypeOK ==
    /\ currentTerm \in [Server -> Nat]
    /\ votedFor \in [Server -> Server \cup {None}]
    /\ state \in [Server -> CMState]
    /\ currentLeaderID \in [Server -> Server \cup {None}]
    /\ timers \in [Server -> SUBSET Nat]
    /\ elections \in 0..MaxElections
    /\ candidate \in [ElectionID -> Server \cup {None}]
    /\ savedCurrentTerm \in [ElectionID -> Nat]
    /\ votesReceived \in [ElectionID -> SUBSET Server]
    /\ calls \subseteq VoteRequest \cup VoteReply \cup BeatRequest \cup BeatReply
    /\ announce \in [Server -> {"empty", "leader", "follower"}]
    /\ wasLeaderBefore \in [Server -> BOOLEAN]
    /\ restarts \in 0..MaxRestarts

\* At most one replica is the leader of a term. It relies on Timely and on
\* MaxRestarts = 0; ElectionLateReplies.cfg and ElectionRestart.cfg show that the code
\* does not give it without them.
ElectionSafety ==
    \A n, m \in Server :
        /\ state[n] = "Leader" /\ state[m] = "Leader"
        /\ currentTerm[n] = currentTerm[m]
        => n = m

\* Each heartbeat under way was sent by a replica a majority voted for in
\* the term it carries.
HeartbeatsAreElected ==
    \A c \in calls :
        c.type \in {"BeatRequest", "BeatReply"} =>
            \E e \in ElectionID :
                /\ candidate[e] = c.src
                /\ savedCurrentTerm[e] = c.term
                /\ Majority(votesReceived[e])

\* A replica that may still be elected has an election timer running for the
\* very term it is in, however often the term changed while timers ran.
TimerAlive ==
    \A n \in Server :
        state[n] \in {"Follower", "Candidate"} => currentTerm[n] \in timers[n]

\* What the main loop has been told last, counting what is still in the
\* channel, is whether the replica leads: no announcement is missing, and
\* UpdateLeadership, which takes a second "leader" for a "follower", never
\* receives two in a row.
Announced(n) ==
    IF announce[n] = "empty" THEN wasLeaderBefore[n]
                             ELSE announce[n] = "leader"

AnnouncementsTrackState ==
    \A n \in Server :
        /\ state[n] # "Dead" => (Announced(n) <=> state[n] = "Leader")
        /\ announce[n] = "leader" => ~wasLeaderBefore[n]

\* The term of a replica never decreases.
TermMonotonic ==
    [][\A n \in Server : currentTerm'[n] >= currentTerm[n]]_vars

\* A vote given to another replica is not taken back within its term.
VoteStable ==
    [][\A n \in Server :
          /\ currentTerm'[n] = currentTerm[n]
          /\ votedFor[n] \notin {None, n}
          => votedFor'[n] = votedFor[n]]_vars

\* Stop stops the replica: a dead replica stays dead.
DeadIsFinal ==
    [][\A n \in Server : state[n] = "Dead" => state'[n] = "Dead"]_vars

\* A leader whose term a live replica has left behind finds out and steps
\* down, unless that replica dies or loses its term in a crash first.
StaleLeaderStepsDown ==
    \A n, m \in Server :
        (/\ state[n] = "Leader"
         /\ state[m] # "Dead"
         /\ currentTerm[m] > currentTerm[n])
        ~> \/ state[n] # "Leader"
           \/ state[m] = "Dead"
           \/ currentTerm[m] <= currentTerm[n]

----------------------------------------------------------------------------
(* Why ElectionSafety holds while replies are timely and nobody crashes:   *)
(* an invariant that every step preserves.                                 *)

Started == 1..elections

\* d has voted in election e, counted or not yet.
VotedIn(d, e) ==
    \/ d \in votesReceived[e]
    \/ \E c \in calls : /\ c.type = "VoteReply" /\ c.granted
                        /\ c.dst = d /\ c.eid = e

Won(e) == e \in Started /\ Majority(votesReceived[e])

SameTerm(e, f) == savedCurrentTerm[e] = savedCurrentTerm[f]

\* A replica starts at most one election per term, and votes for itself.
ElectionsOK ==
    \A e \in Started :
        /\ candidate[e] \in Server
        /\ savedCurrentTerm[e] <= currentTerm[candidate[e]]
        /\ \A f \in Started :
              SameTerm(e, f) /\ candidate[e] = candidate[f] => e = f

\* A call carries the term in which its caller asked; a heartbeat comes from
\* an election won in its term.
CallsOK ==
    \A c \in calls :
        /\ c.src # c.dst
        /\ c.term <= currentTerm[c.src]
        /\ c.type \in {"VoteRequest", "VoteReply"} =>
              /\ c.eid \in Started
              /\ candidate[c.eid] = c.src
              /\ savedCurrentTerm[c.eid] = c.term
        /\ c.type \in {"BeatRequest", "BeatReply"} =>
              \E e \in Started : /\ Won(e)
                                 /\ candidate[e] = c.src
                                 /\ savedCurrentTerm[e] = c.term

\* Who has voted for another is bound by it, as a follower, for that term.
VotesBind ==
    \A e \in Started : \A d \in Server \ {candidate[e]} :
        VotedIn(d, e) =>
            /\ currentTerm[d] >= savedCurrentTerm[e]
            /\ currentTerm[d] = savedCurrentTerm[e] =>
                  votedFor[d] = candidate[e] /\ state[d] \in {"Follower", "Dead"}

\* Nobody but a candidate votes in two elections of a term,
VotesUnique ==
    \A e, f \in Started : \A d \in Server \ {candidate[e], candidate[f]} :
        SameTerm(e, f) /\ VotedIn(d, e) /\ VotedIn(d, f) => e = f

\* and a candidate that has won in no other.
WinnersLoyal ==
    \A e, f \in Started :
        Won(e) /\ SameTerm(e, f) /\ VotedIn(candidate[e], f) => e = f

RolesElected ==
    /\ \A e \in Started :
          Won(e) /\ currentTerm[candidate[e]] = savedCurrentTerm[e]
          => votedFor[candidate[e]] = candidate[e]
    /\ \A n \in Server :
          /\ state[n] = "Candidate" => votedFor[n] = n
          /\ state[n] = "Leader" /\ Peers(n) # {} =>
                \E e \in Started : /\ Won(e)
                                   /\ candidate[e] = n
                                   /\ savedCurrentTerm[e] = currentTerm[n]

\* All of it: what the elections, votes and calls of the replicas have to do
\* with each other, whatever startElection, RequestVote and AppendEntries do.
ElectionInv ==
    /\ ElectionsOK
    /\ CallsOK
    /\ VotesBind
    /\ VotesUnique
    /\ WinnersLoyal
    /\ RolesElected

=============================================================================
