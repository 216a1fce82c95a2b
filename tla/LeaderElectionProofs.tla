------------------------ MODULE LeaderElectionProofs ------------------------
(***************************************************************************)
(* Theorems of LeaderElection, for every set of replicas and every bound.  *)
(***************************************************************************)
EXTENDS LeaderElection, FiniteSetTheorems, TLAPS

----------------------------------------------------------------------------
(* Type correctness *)

\* Every state the replicas reach is of the declared types, whichever
\* handlers of ConsensusModule run in whichever order.
THEOREM TypeCorrect == Spec => []TypeOK
<1>1. Init => TypeOK
  BY ElectionAssumption DEF Init, TypeOK, ElectionID, CMState
<1>2. TypeOK /\ [Next]_vars => TypeOK'
  <2> SUFFICES ASSUME TypeOK, [Next]_vars PROVE TypeOK'
    OBVIOUS
  <2> USE ElectionAssumption DEF TypeOK, CMState
  <2>1. ASSUME NEW n \in Server, startElection(n) PROVE TypeOK'
    <3>1. elections + 1 \in ElectionID /\ elections + 1 \in 0..MaxElections
      BY <2>1 DEF startElection, ElectionID
    <3>2. \A p \in Peers(n) :
             RequestVoteArgs(n, p, currentTerm[n] + 1, elections + 1) \in VoteRequest
      BY <3>1 DEF RequestVoteArgs, VoteRequest, Peers
    <3>3. calls' \subseteq VoteRequest \cup VoteReply \cup BeatRequest \cup BeatReply
      BY <2>1, <3>2 DEF startElection
    <3> QED BY <2>1, <3>1, <3>3 DEF startElection
  <2>2. ASSUME NEW n \in Server, NEW t \in timers[n], TimerBailsOut(n, t)
        PROVE TypeOK'
    BY <2>2 DEF TimerBailsOut, electionVars
  <2>3. ASSUME NEW n \in Server, leaderSendHeartbeats(n) PROVE TypeOK'
    <3>1. \A p \in Peers(n) : AppendEntriesArgs(n, p, currentTerm[n]) \in BeatRequest
      BY DEF AppendEntriesArgs, BeatRequest, Peers
    <3> QED BY <2>3, <3>1 DEF leaderSendHeartbeats, cmVars, electionVars
  <2>4. ASSUME NEW n \in Server, UpdateLeadership(n) PROVE TypeOK'
    BY <2>4 DEF UpdateLeadership, electionVars
  <2>5. ASSUME NEW n \in Server, Stop(n) PROVE TypeOK'
    BY <2>5 DEF Stop, electionVars
  <2>6. ASSUME NEW n \in Server, Restart(n) PROVE TypeOK'
    BY <2>6 DEF Restart, electionVars
  <2>7. ASSUME NEW c \in calls, RequestVote(c) PROVE TypeOK'
    <3>1. c \in VoteRequest
      BY <2>7 DEF RequestVote, VoteRequest, VoteReply, BeatRequest, BeatReply
    <3>2. \A t \in Nat, g \in BOOLEAN : RequestVoteReply(c, t, g) \in VoteReply
      BY <3>1 DEF RequestVoteReply, VoteRequest, VoteReply
    <3>3. c.src \in Server /\ c.dst \in Server /\ c.term \in Nat
      BY <3>1 DEF VoteRequest
    <3>4. \E t \in Nat, g \in BOOLEAN : Answer(c, RequestVoteReply(c, t, g))
      BY <2>7, <3>3 DEF RequestVote
    <3>5. calls' \subseteq VoteRequest \cup VoteReply \cup BeatRequest \cup BeatReply
      BY <3>2, <3>4 DEF Answer
    <3>6. /\ currentTerm' \in [Server -> Nat]
          /\ votedFor' \in [Server -> Server \cup {None}]
          /\ state' \in [Server -> CMState]
          /\ timers' \in [Server -> SUBSET Nat]
          /\ announce' \in [Server -> {"empty", "leader", "follower"}]
      <4>1. CASE becomeFollower(c.dst, c.term, c.src)
        BY <4>1, <3>3 DEF becomeFollower
      <4>2. CASE /\ votedFor' = [votedFor EXCEPT ![c.dst] = c.src]
                 /\ UNCHANGED <<currentTerm, state, timers, announce>>
        BY <4>2, <3>3
      <4>3. CASE UNCHANGED cmVars
        BY <4>3 DEF cmVars
      <4> QED BY <2>7, <4>1, <4>2, <4>3 DEF RequestVote
    <3> QED BY <2>7, <3>5, <3>6 DEF RequestVote, electionVars
  <2>8. ASSUME NEW c \in calls, HandleRequestVoteReply(c) PROVE TypeOK'
    <3>1. c \in VoteReply
      BY <2>8 DEF HandleRequestVoteReply, VoteRequest, VoteReply, BeatRequest, BeatReply
    <3>2. /\ c.src \in Server /\ c.dst \in Server /\ c.rterm \in Nat
          /\ c.eid \in ElectionID
      BY <3>1 DEF VoteReply
    <3> QED BY <2>8, <3>2
            DEF HandleRequestVoteReply, becomeFollower, startLeader, cmVars
  <2>9. ASSUME NEW c \in calls, AppendEntries(c) PROVE TypeOK'
    <3>1. c \in BeatRequest
      BY <2>9 DEF AppendEntries, VoteRequest, VoteReply, BeatRequest, BeatReply
    <3>2. \A t \in Nat : AppendEntriesReply(c, t) \in BeatReply
      BY <3>1 DEF AppendEntriesReply, BeatRequest, BeatReply
    <3>3. c.src \in Server /\ c.dst \in Server /\ c.term \in Nat
      BY <3>1 DEF BeatRequest
    <3> QED BY <2>9, <3>2, <3>3
            DEF AppendEntries, becomeFollower, Answer, cmVars, electionVars
  <2>10. ASSUME NEW c \in calls, HandleAppendEntriesReply(c) PROVE TypeOK'
    <3>1. c.src \in Server /\ c.rterm \in Nat
      BY <2>10 DEF HandleAppendEntriesReply, VoteRequest, VoteReply, BeatRequest,
                   BeatReply
    <3> QED BY <2>10, <3>1
            DEF HandleAppendEntriesReply, becomeFollower, cmVars, electionVars
  <2>11. ASSUME NEW c \in calls, CallFails(c) PROVE TypeOK'
    BY <2>11 DEF CallFails, cmVars, electionVars
  <2>12. CASE UNCHANGED vars
    BY <2>12 DEF vars, cmVars, electionVars
  <2> QED BY <2>1, <2>2, <2>3, <2>4, <2>5, <2>6, <2>7, <2>8, <2>9, <2>10,
             <2>11, <2>12 DEF Next
<1> QED BY <1>1, <1>2, PTL DEF Spec

----------------------------------------------------------------------------
(* What each replica keeps to itself: its timers and its announcements.    *)
(* Both hold with late replies, shutdowns and crashes. They are inductive  *)
(* as they stand, given the types.                                         *)

LocalInv == TimerAlive /\ AnnouncementsTrackState

\* becomeFollower starts a timer for the term it enters and announces that
\* the replica does not lead.
LEMMA FollowerKeepsLocalInv ==
    ASSUME TypeOK, LocalInv, NEW n \in Server, NEW t \in Nat, NEW v,
           becomeFollower(n, t, v), UNCHANGED wasLeaderBefore
    PROVE  LocalInv'
  BY DEF TypeOK, LocalInv, TimerAlive, AnnouncementsTrackState, Announced,
         becomeFollower

\* startLeader announces to a main loop that has not been told of a leader.
LEMMA LeaderKeepsLocalInv ==
    ASSUME TypeOK, LocalInv, NEW n \in Server, state[n] = "Candidate",
           startLeader(n), UNCHANGED wasLeaderBefore
    PROVE  LocalInv'
  BY DEF TypeOK, LocalInv, TimerAlive, AnnouncementsTrackState, Announced,
         startLeader

LEMMA UnchangedKeepsLocalInv ==
    ASSUME LocalInv, UNCHANGED <<currentTerm, state, timers, announce, wasLeaderBefore>>
    PROVE  LocalInv'
  BY DEF LocalInv, TimerAlive, AnnouncementsTrackState, Announced

\* A replica that may be elected always has a timer running for the term it
\* is in (runElectionTimer, becomeFollower, startElection), and the main loop
\* has been told whether the replica leads, UpdateLeadership never receiving
\* two "leader" announcements in a row.
THEOREM LocalInvariant == Spec => [](TimerAlive /\ AnnouncementsTrackState)
<1>1. Init => LocalInv
  BY DEF Init, LocalInv, TimerAlive, AnnouncementsTrackState, Announced
<1>2. TypeOK /\ LocalInv /\ [Next]_vars => LocalInv'
  <2> SUFFICES ASSUME TypeOK, LocalInv, [Next]_vars PROVE LocalInv'
    OBVIOUS
  <2>1. ASSUME NEW n \in Server, startElection(n) PROVE LocalInv'
    BY <2>1 DEF startElection, TypeOK, LocalInv, TimerAlive,
                AnnouncementsTrackState, Announced
  <2>2. ASSUME NEW n \in Server, NEW t \in timers[n], TimerBailsOut(n, t)
        PROVE LocalInv'
    BY <2>2 DEF TimerBailsOut, TypeOK, LocalInv, TimerAlive,
                AnnouncementsTrackState, Announced
  <2>3. ASSUME NEW n \in Server, leaderSendHeartbeats(n) PROVE LocalInv'
    BY <2>3, UnchangedKeepsLocalInv DEF leaderSendHeartbeats, cmVars
  <2>4. ASSUME NEW n \in Server, UpdateLeadership(n) PROVE LocalInv'
    BY <2>4 DEF UpdateLeadership, TypeOK, LocalInv, TimerAlive,
                AnnouncementsTrackState, Announced
  <2>5. ASSUME NEW n \in Server, Stop(n) PROVE LocalInv'
    BY <2>5 DEF Stop, TypeOK, LocalInv, TimerAlive,
                AnnouncementsTrackState, Announced
  <2>6. ASSUME NEW n \in Server, Restart(n) PROVE LocalInv'
    BY <2>6 DEF Restart, TypeOK, LocalInv, TimerAlive,
                AnnouncementsTrackState, Announced
  <2>7. ASSUME NEW c \in calls, RequestVote(c) PROVE LocalInv'
    <3>1. c.src \in Server /\ c.dst \in Server /\ c.term \in Nat
      BY DEF TypeOK, VoteRequest, VoteReply, BeatRequest, BeatReply
    <3> QED BY <2>7, <3>1, FollowerKeepsLocalInv, UnchangedKeepsLocalInv
            DEF RequestVote, cmVars
  <2>8. ASSUME NEW c \in calls, HandleRequestVoteReply(c) PROVE LocalInv'
    <3>1. c.src \in Server /\ c.rterm \in Nat
      BY <2>8 DEF HandleRequestVoteReply, TypeOK, VoteRequest, VoteReply,
                  BeatRequest, BeatReply
    <3> QED BY <2>8, <3>1, FollowerKeepsLocalInv, LeaderKeepsLocalInv,
               UnchangedKeepsLocalInv
            DEF HandleRequestVoteReply, cmVars
  <2>9. ASSUME NEW c \in calls, AppendEntries(c) PROVE LocalInv'
    <3>1. c.src \in Server /\ c.dst \in Server /\ c.term \in Nat
      BY DEF TypeOK, VoteRequest, VoteReply, BeatRequest, BeatReply
    <3> QED BY <2>9, <3>1, FollowerKeepsLocalInv, UnchangedKeepsLocalInv
            DEF AppendEntries, cmVars
  <2>10. ASSUME NEW c \in calls, HandleAppendEntriesReply(c) PROVE LocalInv'
    <3>1. c.src \in Server /\ c.rterm \in Nat
      BY <2>10 DEF HandleAppendEntriesReply, TypeOK, VoteRequest, VoteReply,
                   BeatRequest, BeatReply
    <3> QED BY <2>10, <3>1, FollowerKeepsLocalInv, UnchangedKeepsLocalInv
            DEF HandleAppendEntriesReply, cmVars
  <2>11. ASSUME NEW c \in calls, CallFails(c) PROVE LocalInv'
    BY <2>11, UnchangedKeepsLocalInv DEF CallFails, cmVars
  <2>12. CASE UNCHANGED vars
    BY <2>12, UnchangedKeepsLocalInv DEF vars, cmVars
  <2> QED BY <2>1, <2>2, <2>3, <2>4, <2>5, <2>6, <2>7, <2>8, <2>9, <2>10,
             <2>11, <2>12 DEF Next
<1> QED BY <1>1, <1>2, TypeCorrect, PTL DEF Spec, LocalInv

\* Half of it, for itself: whatever becomeFollower, startElection and the
\* timers that bail out do, a replica that may be elected keeps a timer that
\* can start the next election of its term, through crashes and late replies.
THEOREM TimersAreKept == Spec => []TimerAlive
<1> QED BY LocalInvariant, PTL

----------------------------------------------------------------------------
(* One leader per term. The votes of a term decide it: two elections with  *)
(* a majority share a voter, and a voter is bound for the term (VotesBind, *)
(* VotesUnique) unless it is a candidate, whose own vote WinnersLoyal      *)
(* covers.                                                                 *)

LEMMA StartedTypes ==
    ASSUME TypeOK, ElectionInv
    PROVE  \A e \in Started : /\ candidate[e] \in Server
                              /\ savedCurrentTerm[e] \in Nat
                              /\ e \in ElectionID
  BY ElectionAssumption DEF TypeOK, ElectionInv, ElectionsOK, Started, ElectionID

\* Two majorities of the replicas share one.
LEMMA QuorumsIntersect ==
    ASSUME TypeOK, NEW e, NEW f, Won(e), Won(f)
    PROVE  \E d \in Server : d \in votesReceived[e] /\ d \in votesReceived[f]
<1>1. /\ votesReceived[e] \subseteq Server /\ votesReceived[f] \subseteq Server
      /\ IsFiniteSet(Server)
  BY ElectionAssumption DEF TypeOK, Won, Started, ElectionID
<1>2. /\ Cardinality(votesReceived[e]) \in Nat
      /\ Cardinality(votesReceived[f]) \in Nat
      /\ Cardinality(Server) \in Nat
  BY <1>1, FS_CardinalityType, FS_Subset
<1>3. Cardinality(votesReceived[e]) + Cardinality(votesReceived[f])
         > Cardinality(Server)
  BY <1>2 DEF Won, Majority
<1>4. votesReceived[e] \cap votesReceived[f] # {}
  BY <1>1, <1>3, FS_MajoritiesIntersect
<1> QED BY <1>1, <1>4

\* At most one election of a term is won.
LEMMA WonUnique ==
    ASSUME TypeOK, ElectionInv, NEW e, NEW f, Won(e), Won(f), SameTerm(e, f)
    PROVE  e = f
<1>1. PICK d \in Server : d \in votesReceived[e] /\ d \in votesReceived[f]
  BY QuorumsIntersect
<1>2. VotedIn(d, e) /\ VotedIn(d, f) /\ SameTerm(f, e)
  BY <1>1 DEF VotedIn, SameTerm
<1>3. e \in Started /\ f \in Started
  BY DEF Won
<1>4. CASE d = candidate[e]
  BY <1>2, <1>3, <1>4 DEF ElectionInv, WinnersLoyal
<1>5. CASE d = candidate[f]
  BY <1>2, <1>3, <1>5 DEF ElectionInv, WinnersLoyal
<1>6. CASE d \notin {candidate[e], candidate[f]}
  BY <1>2, <1>3, <1>6 DEF ElectionInv, VotesUnique
<1> QED BY <1>4, <1>5, <1>6

LEMMA InvImpliesSafety ==
    ASSUME TypeOK, ElectionInv PROVE ElectionSafety
<1> SUFFICES ASSUME NEW n \in Server, NEW m \in Server,
                    state[n] = "Leader", state[m] = "Leader",
                    currentTerm[n] = currentTerm[m], n # m
             PROVE  FALSE
  BY DEF ElectionSafety
<1>1. Peers(n) # {} /\ Peers(m) # {}
  BY DEF Peers
<1>2. PICK e \in Started : Won(e) /\ candidate[e] = n
                          /\ savedCurrentTerm[e] = currentTerm[n]
  BY <1>1 DEF ElectionInv, RolesElected
<1>3. PICK f \in Started : Won(f) /\ candidate[f] = m
                          /\ savedCurrentTerm[f] = currentTerm[m]
  BY <1>1 DEF ElectionInv, RolesElected
<1>4. e = f
  BY <1>2, <1>3, WonUnique DEF SameTerm
<1> QED BY <1>2, <1>3, <1>4

\* What a step that starts no election and adds no vote may do to a replica.
\* It stays as it is, enters a later term, dies, or, within its term, falls
\* back from a candidature that was not won.
QuietAt(n) ==
    \/ /\ currentTerm'[n] = currentTerm[n]
       /\ votedFor'[n] = votedFor[n]
       /\ state'[n] \in {state[n], "Dead"}
    \/ currentTerm'[n] > currentTerm[n] /\ state'[n] = "Follower"
    \/ /\ currentTerm'[n] = currentTerm[n]
       /\ state[n] \in {"Candidate", "Leader"}
       /\ state'[n] = "Follower"
       /\ \A e \in Started :
             Won(e) /\ candidate[e] = n => savedCurrentTerm[e] # currentTerm[n]

\* A call that such a step may make: no vote, and what CallsOK asks for.
QuietCall(c) ==
    /\ c.src \in Server
    /\ c.src # c.dst
    /\ c.term \in Nat
    /\ c.term <= currentTerm[c.src]
    /\ c.type = "VoteReply" => ~c.granted
    /\ c.type \in {"VoteRequest", "VoteReply"} =>
          /\ c.eid \in Started
          /\ candidate[c.eid] = c.src
          /\ savedCurrentTerm[c.eid] = c.term
    /\ c.type \in {"BeatRequest", "BeatReply"} =>
          \E e \in Started : /\ Won(e)
                             /\ candidate[e] = c.src
                             /\ savedCurrentTerm[e] = c.term

LEMMA QuietStep ==
    ASSUME TypeOK, TypeOK', ElectionInv, UNCHANGED electionVars,
           \A n \in Server : QuietAt(n),
           \A c \in calls' : c \in calls \/ QuietCall(c)
    PROVE  ElectionInv'
<1>1. /\ elections' = elections /\ candidate' = candidate
      /\ savedCurrentTerm' = savedCurrentTerm /\ votesReceived' = votesReceived
      /\ Started' = Started
  BY DEF electionVars, Started
<1>2. \A n \in Server : /\ currentTerm[n] \in Nat /\ currentTerm'[n] \in Nat
                        /\ currentTerm'[n] >= currentTerm[n]
  BY DEF TypeOK, QuietAt
<1>3. \A d, e : VotedIn(d, e)' => VotedIn(d, e)
  BY <1>1 DEF VotedIn, QuietCall
<1>4. \A e : Won(e)' <=> Won(e)
  BY <1>1 DEF Won, Majority
<1>5. \A e, f : SameTerm(e, f)' <=> SameTerm(e, f)
  BY <1>1 DEF SameTerm
<1>6. \A e \in Started : candidate[e] \in Server /\ savedCurrentTerm[e] \in Nat
  BY StartedTypes
<1>7. ElectionsOK'
  BY <1>1, <1>2, <1>5, <1>6 DEF ElectionInv, ElectionsOK
<1>8. CallsOK'
  <2> SUFFICES ASSUME NEW c \in calls'
               PROVE  /\ c.src # c.dst
                      /\ c.term <= currentTerm'[c.src]
                      /\ c.type \in {"VoteRequest", "VoteReply"} =>
                            /\ c.eid \in Started
                            /\ candidate[c.eid] = c.src
                            /\ savedCurrentTerm[c.eid] = c.term
                      /\ c.type \in {"BeatRequest", "BeatReply"} =>
                            \E e \in Started : /\ Won(e)
                                               /\ candidate[e] = c.src
                                               /\ savedCurrentTerm[e] = c.term
    BY <1>1, <1>4 DEF CallsOK
  <2>1. c.src \in Server /\ c.term \in Nat
    BY DEF TypeOK, VoteRequest, VoteReply, BeatRequest, BeatReply
  <2>2. CASE c \in calls
    BY <2>1, <2>2, <1>2 DEF ElectionInv, CallsOK
  <2>3. CASE QuietCall(c)
    BY <2>1, <2>3, <1>2 DEF QuietCall
  <2> QED BY <2>2, <2>3
<1>9. VotesBind'
  <2> SUFFICES ASSUME NEW e \in Started, NEW d \in Server \ {candidate[e]},
                      VotedIn(d, e)'
               PROVE  /\ currentTerm'[d] >= savedCurrentTerm[e]
                      /\ currentTerm'[d] = savedCurrentTerm[e] =>
                            /\ votedFor'[d] = candidate[e]
                            /\ state'[d] \in {"Follower", "Dead"}
    BY <1>1 DEF VotesBind
  <2>1. /\ currentTerm[d] >= savedCurrentTerm[e]
        /\ currentTerm[d] = savedCurrentTerm[e] =>
              votedFor[d] = candidate[e] /\ state[d] \in {"Follower", "Dead"}
    BY <1>3 DEF ElectionInv, VotesBind
  <2> QED BY <2>1, <1>2, <1>6 DEF QuietAt
<1>10. VotesUnique'
  BY <1>1, <1>3, <1>5 DEF ElectionInv, VotesUnique
<1>11. WinnersLoyal'
  BY <1>1, <1>3, <1>4, <1>5 DEF ElectionInv, WinnersLoyal
<1>12. RolesElected'
  <2>1. \A e \in Started :
           Won(e) /\ currentTerm'[candidate[e]] = savedCurrentTerm[e]
           => votedFor'[candidate[e]] = candidate[e]
    <3> SUFFICES ASSUME NEW e \in Started, Won(e),
                        currentTerm'[candidate[e]] = savedCurrentTerm[e]
                 PROVE  votedFor'[candidate[e]] = candidate[e]
      OBVIOUS
    <3>1. currentTerm[candidate[e]] >= savedCurrentTerm[e]
      BY <1>2, <1>6 DEF ElectionInv, ElectionsOK
    <3>2. /\ currentTerm[candidate[e]] = savedCurrentTerm[e]
          /\ votedFor[candidate[e]] = candidate[e]
      BY <3>1, <1>2, <1>6 DEF ElectionInv, RolesElected
    <3> QED BY <3>2, <1>2, <1>6 DEF QuietAt
  <2>2. \A n \in Server : state'[n] = "Candidate" => votedFor'[n] = n
    BY DEF QuietAt, ElectionInv, RolesElected
  <2>3. \A n \in Server :
           state'[n] = "Leader" /\ Peers(n) # {} =>
              \E e \in Started : Won(e) /\ candidate[e] = n
                                 /\ savedCurrentTerm[e] = currentTerm'[n]
    BY DEF QuietAt, ElectionInv, RolesElected
  <2> QED BY <1>1, <1>4, <2>1, <2>2, <2>3 DEF RolesElected, Peers
<1> QED BY <1>7, <1>8, <1>9, <1>10, <1>11, <1>12 DEF ElectionInv

\* A vote that RequestVote grants binds the voter, who had given no other
\* vote in that term.
LEMMA GrantStep ==
    ASSUME TypeOK, TypeOK', ElectionInv, UNCHANGED electionVars,
           NEW c \in calls, c.type = "VoteRequest",
           \/ c.term > currentTerm[c.dst] /\ state'[c.dst] = "Follower"
           \/ /\ c.term = currentTerm[c.dst] /\ MayVote(c.dst, c)
              /\ state[c.dst] # "Dead" /\ state'[c.dst] = state[c.dst],
           currentTerm' = [currentTerm EXCEPT ![c.dst] = c.term],
           votedFor' = [votedFor EXCEPT ![c.dst] = c.src],
           \A m \in Server \ {c.dst} : state'[m] = state[m],
           Answer(c, RequestVoteReply(c, c.term, TRUE))
    PROVE  ElectionInv'
<1> DEFINE n == c.dst
<1>1. /\ elections' = elections /\ candidate' = candidate
      /\ savedCurrentTerm' = savedCurrentTerm /\ votesReceived' = votesReceived
      /\ Started' = Started
  BY DEF electionVars, Started
<1>2. /\ c.eid \in Started /\ candidate[c.eid] = c.src /\ c.src # n
      /\ savedCurrentTerm[c.eid] = c.term
      /\ n \in Server /\ c.src \in Server /\ c.term \in Nat
  BY DEF ElectionInv, CallsOK, TypeOK, VoteRequest, VoteReply, BeatRequest, BeatReply
<1>3. /\ \A m \in Server : /\ currentTerm[m] \in Nat /\ currentTerm'[m] \in Nat
                           /\ currentTerm'[m] >= currentTerm[m]
      /\ currentTerm'[n] = c.term /\ votedFor'[n] = c.src
      /\ \A m \in Server \ {n} : currentTerm'[m] = currentTerm[m]
                                /\ votedFor'[m] = votedFor[m]
  BY <1>2 DEF TypeOK
<1>4. /\ RequestVoteReply(c, c.term, TRUE).type = "VoteReply"
      /\ RequestVoteReply(c, c.term, TRUE).src = c.src
      /\ RequestVoteReply(c, c.term, TRUE).dst = n
      /\ RequestVoteReply(c, c.term, TRUE).term = c.term
      /\ RequestVoteReply(c, c.term, TRUE).eid = c.eid
  BY DEF RequestVoteReply
<1>5. \A d, e : VotedIn(d, e)' => VotedIn(d, e) \/ (d = n /\ e = c.eid)
  <2> SUFFICES ASSUME NEW d, NEW e, VotedIn(d, e)'
               PROVE  VotedIn(d, e) \/ (d = n /\ e = c.eid)
    OBVIOUS
  <2>1. calls' \subseteq calls \cup {RequestVoteReply(c, c.term, TRUE)}
    BY DEF Answer
  <2> QED BY <1>1, <1>4, <2>1 DEF VotedIn
<1>6. \A e : Won(e)' <=> Won(e)
  BY <1>1 DEF Won, Majority
<1>7. \A e, f : SameTerm(e, f)' <=> SameTerm(e, f)
  BY <1>1 DEF SameTerm
<1>8. \A e \in Started : candidate[e] \in Server /\ savedCurrentTerm[e] \in Nat
  BY StartedTypes
\* The voter is a follower: a candidate and a leader have voted themselves.
<1>9. state'[n] = "Follower"
  <2> SUFFICES ASSUME c.term = currentTerm[n], MayVote(n, c), state[n] # "Dead"
               PROVE  state[n] = "Follower"
    OBVIOUS
  <2>1. votedFor[n] # n
    BY <1>2, ElectionAssumption DEF MayVote
  <2>2. state[n] # "Candidate"
    BY <1>2, <2>1 DEF ElectionInv, RolesElected
  <2>3. state[n] # "Leader"
    BY <1>2, <2>1 DEF ElectionInv, RolesElected, Peers
  <2> QED BY <1>2, <2>2, <2>3 DEF TypeOK, CMState
\* Its votes in that term went to the same candidate.
<1>10. \A e \in Started : VotedIn(n, e) /\ candidate[e] # n /\ SameTerm(e, c.eid)
                          => e = c.eid
  <2> SUFFICES ASSUME NEW e \in Started, VotedIn(n, e), candidate[e] # n,
                      SameTerm(e, c.eid)
               PROVE  e = c.eid
    OBVIOUS
  <2>1. /\ currentTerm[n] >= c.term
        /\ currentTerm[n] = c.term => votedFor[n] = candidate[e]
    BY <1>2 DEF SameTerm, ElectionInv, VotesBind
  <2>2. MayVote(n, c) /\ currentTerm[n] = c.term
    BY <1>2, <1>3, <2>1
  <2>3. candidate[e] = c.src
    BY <2>1, <2>2, <1>8, ElectionAssumption DEF MayVote
  <2> QED BY <1>2, <2>3 DEF ElectionInv, ElectionsOK
<1>11. ElectionsOK'
  BY <1>1, <1>3, <1>7, <1>8 DEF ElectionInv, ElectionsOK
<1>12. CallsOK'
  <2> SUFFICES ASSUME NEW k \in calls'
               PROVE  /\ k.src # k.dst
                      /\ k.term <= currentTerm'[k.src]
                      /\ k.type \in {"VoteRequest", "VoteReply"} =>
                            /\ k.eid \in Started
                            /\ candidate[k.eid] = k.src
                            /\ savedCurrentTerm[k.eid] = k.term
                      /\ k.type \in {"BeatRequest", "BeatReply"} =>
                            \E e \in Started : /\ Won(e)
                                               /\ candidate[e] = k.src
                                               /\ savedCurrentTerm[e] = k.term
    BY <1>1, <1>6 DEF CallsOK
  <2>1. k.src \in Server /\ k.term \in Nat
    BY DEF TypeOK, VoteRequest, VoteReply, BeatRequest, BeatReply
  <2>2. CASE k \in calls
    BY <2>1, <2>2, <1>3 DEF ElectionInv, CallsOK
  <2>3. CASE k = RequestVoteReply(c, c.term, TRUE)
    <3>1. c.term <= currentTerm[c.src]
      BY DEF ElectionInv, CallsOK
    <3>2. /\ k.src = c.src /\ k.dst = c.dst /\ k.term = c.term /\ k.eid = c.eid /\ k.type = "VoteReply"
      BY <2>3 DEF RequestVoteReply
    <3>3. k.term <= currentTerm'[k.src]
      BY <2>1, <3>1, <3>2, <1>3
    <3> QED BY <3>2, <3>3, <1>2, <1>4
  <2> QED BY <2>2, <2>3 DEF Answer
<1>13. VotesBind'
  <2> SUFFICES ASSUME NEW e \in Started, NEW d \in Server \ {candidate[e]},
                      VotedIn(d, e)'
               PROVE  /\ currentTerm'[d] >= savedCurrentTerm[e]
                      /\ currentTerm'[d] = savedCurrentTerm[e] =>
                            /\ votedFor'[d] = candidate[e]
                            /\ state'[d] \in {"Follower", "Dead"}
    BY <1>1 DEF VotesBind
  <2>1. CASE e = c.eid /\ d = n
    BY <2>1, <1>2, <1>3, <1>9
  <2>2. CASE VotedIn(d, e) /\ d # n
    BY <2>2, <1>3 DEF ElectionInv, VotesBind
  <2>3. CASE VotedIn(d, e) /\ d = n
    <3>1. currentTerm[n] >= savedCurrentTerm[e]
      BY <2>3 DEF ElectionInv, VotesBind
    <3>2. CASE savedCurrentTerm[e] = c.term
      <4>1. e = c.eid
        BY <2>3, <3>2, <1>2, <1>10 DEF SameTerm
      <4> QED BY <2>1, <2>3, <4>1
    <3> QED BY <2>3, <3>1, <3>2, <1>2, <1>3, <1>8
  <2> QED BY <2>1, <2>2, <2>3, <1>5
<1>14. VotesUnique'
  <2> SUFFICES ASSUME NEW e \in Started, NEW f \in Started,
                      NEW d \in Server \ {candidate[e], candidate[f]},
                      SameTerm(e, f), VotedIn(d, e)', VotedIn(d, f)'
               PROVE  e = f
    BY <1>1, <1>7 DEF VotesUnique
  <2>1. SameTerm(f, e)
    BY DEF SameTerm
  <2>2. CASE VotedIn(d, e) /\ VotedIn(d, f)
    BY <2>2 DEF ElectionInv, VotesUnique
  <2> QED BY <2>1, <2>2, <1>5, <1>10
<1>15. WinnersLoyal'
  <2> SUFFICES ASSUME NEW e \in Started, NEW f \in Started, Won(e),
                      SameTerm(e, f), VotedIn(candidate[e], f)'
               PROVE  e = f
    BY <1>1, <1>6, <1>7 DEF WinnersLoyal
  <2>1. CASE VotedIn(candidate[e], f)
    BY <2>1 DEF ElectionInv, WinnersLoyal
  <2>2. CASE candidate[e] = n /\ f = c.eid
    <3>1. savedCurrentTerm[e] = c.term
      BY <2>2, <1>2 DEF SameTerm
    <3>2. currentTerm[n] = c.term /\ MayVote(n, c)
      BY <2>2, <3>1, <1>2, <1>3 DEF ElectionInv, ElectionsOK
    <3>3. votedFor[n] = n
      BY <2>2, <3>1, <3>2 DEF ElectionInv, RolesElected
    <3> QED BY <3>2, <3>3, <1>2, ElectionAssumption DEF MayVote
  <2> QED BY <2>1, <2>2, <1>1, <1>5
<1>16. RolesElected'
  <2>1. \A e \in Started :
           Won(e) /\ currentTerm'[candidate[e]] = savedCurrentTerm[e]
           => votedFor'[candidate[e]] = candidate[e]
    <3> SUFFICES ASSUME NEW e \in Started, Won(e),
                        currentTerm'[candidate[e]] = savedCurrentTerm[e]
                 PROVE  votedFor'[candidate[e]] = candidate[e]
      OBVIOUS
    <3>1. currentTerm[candidate[e]] >= savedCurrentTerm[e]
      BY <1>3, <1>8 DEF ElectionInv, ElectionsOK
    <3>2. /\ currentTerm[candidate[e]] = savedCurrentTerm[e]
          /\ votedFor[candidate[e]] = candidate[e]
      BY <3>1, <1>3, <1>8 DEF ElectionInv, RolesElected
    <3>3. candidate[e] # n
      BY <3>2, <1>2, <1>3, ElectionAssumption DEF MayVote
    <3> QED BY <3>2, <3>3, <1>3, <1>8
  <2>2. \A m \in Server : state'[m] = "Candidate" => votedFor'[m] = m
    BY <1>3, <1>9 DEF ElectionInv, RolesElected
  <2>3. \A m \in Server :
           state'[m] = "Leader" /\ Peers(m) # {} =>
              \E e \in Started : Won(e) /\ candidate[e] = m
                                 /\ savedCurrentTerm[e] = currentTerm'[m]
    BY <1>3, <1>9 DEF ElectionInv, RolesElected
  <2> QED BY <1>1, <1>6, <2>1, <2>2, <2>3 DEF RolesElected, Peers
<1> QED BY <1>11, <1>12, <1>13, <1>14, <1>15, <1>16 DEF ElectionInv

\* A vote that is counted was given before it is counted. The reply is
\* timely, so an election it decides is of the term the winner is in.
LEMMA CountStep ==
    ASSUME TypeOK, TypeOK', ElectionInv, NEW c \in calls,
           c.type = "VoteReply", c.granted, currentTerm[c.src] = c.term,
           state[c.src] = "Candidate",
           UNCHANGED <<currentTerm, votedFor, elections, candidate,
                       savedCurrentTerm>>,
           votesReceived' = [votesReceived EXCEPT ![c.eid] = @ \cup {c.dst}],
           \/ Majority(votesReceived[c.eid] \cup {c.dst})
              /\ state' = [state EXCEPT ![c.src] = "Leader"]
           \/ ~Majority(votesReceived[c.eid] \cup {c.dst}) /\ UNCHANGED state,
           calls' = calls \ {c}
    PROVE  ElectionInv'
<1> DEFINE n == c.src
<1>1. Started' = Started
  BY DEF Started
<1>2. /\ c.eid \in Started /\ candidate[c.eid] = n
      /\ savedCurrentTerm[c.eid] = currentTerm[n]
      /\ n \in Server /\ c.dst \in Server
  BY DEF ElectionInv, CallsOK, TypeOK, VoteRequest, VoteReply, BeatRequest, BeatReply
<1>3. /\ \A e \in Started : e # c.eid => votesReceived'[e] = votesReceived[e]
      /\ votesReceived'[c.eid] = votesReceived[c.eid] \cup {c.dst}
  BY <1>2, StartedTypes DEF TypeOK
<1>4. \A d, e : e \in Started /\ VotedIn(d, e)' => VotedIn(d, e)
  BY <1>2, <1>3 DEF VotedIn
<1>5. \A e, f : SameTerm(e, f)' <=> SameTerm(e, f)
  BY DEF SameTerm
<1>6. \A e : e # c.eid => (Won(e)' <=> Won(e))
  BY <1>1, <1>3 DEF Won, Majority
<1>7. Won(c.eid)' <=> Majority(votesReceived[c.eid] \cup {c.dst})
  BY <1>1, <1>2, <1>3 DEF Won, Majority
<1>8. Won(c.eid) => Won(c.eid)'
  <2>1. /\ votesReceived[c.eid] \cup {c.dst} \in SUBSET Server
        /\ votesReceived[c.eid] \in SUBSET (votesReceived[c.eid] \cup {c.dst})
        /\ IsFiniteSet(Server)
    BY <1>2, StartedTypes, ElectionAssumption DEF TypeOK
  <2>2. IsFiniteSet(votesReceived[c.eid] \cup {c.dst})
    BY <2>1, FS_Subset
  <2>3. /\ Cardinality(votesReceived[c.eid])
              <= Cardinality(votesReceived[c.eid] \cup {c.dst})
        /\ Cardinality(votesReceived[c.eid]) \in Nat
        /\ Cardinality(votesReceived[c.eid] \cup {c.dst}) \in Nat
        /\ Cardinality(Server) \in Nat
    BY <2>1, <2>2, FS_Subset, FS_CardinalityType
  <2> QED BY <1>7, <2>3 DEF Won, Majority
<1>9. \A e : Won(e) => Won(e)'
  BY <1>6, <1>8
<1>10. ElectionsOK'
  BY <1>1, <1>5 DEF ElectionInv, ElectionsOK
<1>11. CallsOK'
  BY <1>1, <1>9 DEF ElectionInv, CallsOK
\* A candidate has voted for no other in its term.
<1>12. \A f \in Started : VotedIn(n, f) /\ SameTerm(c.eid, f) => f = c.eid
  <2> SUFFICES ASSUME NEW f \in Started, VotedIn(n, f), SameTerm(c.eid, f)
               PROVE  f = c.eid
    OBVIOUS
  <2>1. candidate[f] = n
    <3> SUFFICES ASSUME n \in Server \ {candidate[f]}
                 PROVE  FALSE
      BY <1>2
    <3>1. currentTerm[n] = savedCurrentTerm[f] => state[n] \in {"Follower", "Dead"}
      BY DEF ElectionInv, VotesBind
    <3> QED BY <1>2, <3>1 DEF SameTerm
  <2> QED BY <2>1, <1>2 DEF ElectionInv, ElectionsOK
<1>13. VotesBind'
  <2> SUFFICES ASSUME NEW e \in Started, NEW d \in Server \ {candidate[e]},
                      VotedIn(d, e)'
               PROVE  /\ currentTerm[d] >= savedCurrentTerm[e]
                      /\ currentTerm[d] = savedCurrentTerm[e] =>
                            /\ votedFor[d] = candidate[e]
                            /\ state'[d] \in {"Follower", "Dead"}
    BY <1>1 DEF VotesBind
  <2>1. /\ currentTerm[d] >= savedCurrentTerm[e]
        /\ currentTerm[d] = savedCurrentTerm[e] =>
              votedFor[d] = candidate[e] /\ state[d] \in {"Follower", "Dead"}
    BY <1>4 DEF ElectionInv, VotesBind
  <2>2. state'[d] = state[d] \/ d = n
    BY <1>2 DEF TypeOK
  <2> QED BY <2>1, <2>2
<1>14. VotesUnique'
  BY <1>1, <1>4, <1>5 DEF ElectionInv, VotesUnique
<1>15. WinnersLoyal'
  <2> SUFFICES ASSUME NEW e \in Started, NEW f \in Started, Won(e)',
                      SameTerm(e, f), VotedIn(candidate[e], f)
               PROVE  e = f
    BY <1>1, <1>4, <1>5 DEF WinnersLoyal
  <2>1. CASE e = c.eid
    BY <2>1, <1>2, <1>12
  <2>2. CASE e # c.eid
    BY <2>2, <1>6 DEF ElectionInv, WinnersLoyal
  <2> QED BY <2>1, <2>2
<1>16. RolesElected'
  <2>1. \A e \in Started :
           Won(e)' /\ currentTerm[candidate[e]] = savedCurrentTerm[e]
           => votedFor[candidate[e]] = candidate[e]
    BY <1>2, <1>6 DEF ElectionInv, RolesElected
  <2>2. \A m \in Server : state'[m] = "Candidate" => votedFor[m] = m
    BY <1>2 DEF TypeOK, ElectionInv, RolesElected
  <2>3. \A m \in Server :
           state'[m] = "Leader" /\ Peers(m) # {} =>
              \E e \in Started : Won(e)' /\ candidate[e] = m
                                 /\ savedCurrentTerm[e] = currentTerm[m]
    BY <1>2, <1>7, <1>9 DEF TypeOK, ElectionInv, RolesElected
  <2> QED BY <1>1, <2>1, <2>2, <2>3 DEF RolesElected, Peers
<1> QED BY <1>10, <1>11, <1>13, <1>14, <1>15, <1>16 DEF ElectionInv

\* startElection enters a term in which the replica has not voted yet.
LEMMA StartStep ==
    ASSUME TypeOK, TypeOK', ElectionInv, NEW n \in Server, startElection(n)
    PROVE  ElectionInv'
<1> DEFINE new == elections + 1
           t == currentTerm[n] + 1
<1>1. /\ elections' = new /\ new \in ElectionID /\ elections \in Nat
      /\ Started' = Started \cup {new} /\ new \notin Started
  BY ElectionAssumption DEF startElection, TypeOK, Started, ElectionID
<1>2. /\ currentTerm'[n] = t /\ votedFor'[n] = n /\ state'[n] = "Candidate"
      /\ \A m \in Server \ {n} : /\ currentTerm'[m] = currentTerm[m]
                                /\ votedFor'[m] = votedFor[m]
                                /\ state'[m] = state[m]
      /\ \A m \in Server : currentTerm[m] \in Nat
  BY DEF startElection, TypeOK
<1>3. /\ candidate'[new] = n /\ savedCurrentTerm'[new] = t
      /\ votesReceived'[new] = {n}
      /\ \A e \in Started : /\ candidate'[e] = candidate[e]
                            /\ savedCurrentTerm'[e] = savedCurrentTerm[e]
                            /\ votesReceived'[e] = votesReceived[e]
  BY <1>1, StartedTypes DEF startElection, TypeOK
<1>4. \A e \in Started : /\ candidate[e] \in Server /\ savedCurrentTerm[e] \in Nat
                         /\ savedCurrentTerm[e] <= currentTerm[candidate[e]]
  BY StartedTypes DEF ElectionInv, ElectionsOK
<1>5. \A c \in calls' : c \in calls \/ \E p \in Peers(n) : c = RequestVoteArgs(n, p, t, new)
  BY DEF startElection
<1>6. \A c \in calls' : c.type = "VoteReply" => c \in calls /\ c.eid \in Started
  BY <1>5 DEF RequestVoteArgs, ElectionInv, CallsOK
<1>7. \A d, e : e \in Started /\ VotedIn(d, e)' => VotedIn(d, e)
  BY <1>3, <1>6 DEF VotedIn
<1>8. \A d, e : e = new /\ VotedIn(d, e)' => d = n
  BY <1>1, <1>3, <1>6 DEF VotedIn
<1>9. \A e \in Started : Won(e)' <=> Won(e)
  BY <1>1, <1>3 DEF Won, Majority
<1>10. \A e \in Started : (candidate[e] = n \/ VotedIn(n, e)) => savedCurrentTerm[e] < t
  BY <1>2, <1>4 DEF ElectionInv, VotesBind
<1>11. ElectionsOK'
  <2> SUFFICES ASSUME NEW e \in Started'
               PROVE  /\ candidate'[e] \in Server
                      /\ savedCurrentTerm'[e] <= currentTerm'[candidate'[e]]
                      /\ \A f \in Started' :
                            savedCurrentTerm'[e] = savedCurrentTerm'[f]
                            /\ candidate'[e] = candidate'[f] => e = f
    BY DEF ElectionsOK, SameTerm
  <2>1. CASE e = new
    BY <2>1, <1>1, <1>2, <1>3, <1>4, <1>10
  <2>2. CASE e \in Started
    <3>1. \A f \in Started : savedCurrentTerm[e] = savedCurrentTerm[f]
                             /\ candidate[e] = candidate[f] => e = f
      BY <2>2 DEF ElectionInv, ElectionsOK, SameTerm
    <3> QED BY <2>2, <3>1, <1>1, <1>2, <1>3, <1>4, <1>10
  <2> QED BY <2>1, <2>2, <1>1
<1>12. CallsOK'
  <2> SUFFICES ASSUME NEW c \in calls'
               PROVE  /\ c.src # c.dst
                      /\ c.term <= currentTerm'[c.src]
                      /\ c.type \in {"VoteRequest", "VoteReply"} =>
                            /\ c.eid \in Started'
                            /\ candidate'[c.eid] = c.src
                            /\ savedCurrentTerm'[c.eid] = c.term
                      /\ c.type \in {"BeatRequest", "BeatReply"} =>
                            \E e \in Started' : /\ Won(e)'
                                                /\ candidate'[e] = c.src
                                                /\ savedCurrentTerm'[e] = c.term
    BY DEF CallsOK
  <2>1. CASE c \in calls
    <3>1. c.src \in Server /\ c.term \in Nat
      BY <2>1 DEF TypeOK, VoteRequest, VoteReply, BeatRequest, BeatReply
    <3>2. /\ c.src # c.dst
          /\ c.term <= currentTerm[c.src]
          /\ c.type \in {"VoteRequest", "VoteReply"} =>
                /\ c.eid \in Started
                /\ candidate[c.eid] = c.src
                /\ savedCurrentTerm[c.eid] = c.term
          /\ c.type \in {"BeatRequest", "BeatReply"} =>
                \E e \in Started : /\ Won(e)
                                   /\ candidate[e] = c.src
                                   /\ savedCurrentTerm[e] = c.term
      BY <2>1 DEF ElectionInv, CallsOK
    <3>3. c.term <= currentTerm'[c.src]
      BY <3>1, <3>2, <1>2
    <3> QED BY <3>2, <3>3, <1>1, <1>3, <1>9
  <2>2. CASE \E p \in Peers(n) : c = RequestVoteArgs(n, p, t, new)
    BY <2>2, <1>1, <1>2, <1>3 DEF RequestVoteArgs, Peers
  <2> QED BY <2>1, <2>2, <1>5
<1>13. VotesBind'
  <2> SUFFICES ASSUME NEW e \in Started', NEW d \in Server \ {candidate'[e]},
                      VotedIn(d, e)'
               PROVE  /\ currentTerm'[d] >= savedCurrentTerm'[e]
                      /\ currentTerm'[d] = savedCurrentTerm'[e] =>
                            /\ votedFor'[d] = candidate'[e]
                            /\ state'[d] \in {"Follower", "Dead"}
    BY DEF VotesBind
  <2>1. e \in Started
    BY <1>1, <1>3, <1>8
  <2>2. VotedIn(d, e) /\ d # candidate[e]
    BY <2>1, <1>3, <1>7
  <2>3. /\ currentTerm[d] >= savedCurrentTerm[e]
        /\ currentTerm[d] = savedCurrentTerm[e] =>
              votedFor[d] = candidate[e] /\ state[d] \in {"Follower", "Dead"}
    BY <2>1, <2>2 DEF ElectionInv, VotesBind
  <2>4. CASE d = n
    BY <2>1, <2>2, <2>4, <1>2, <1>3, <1>4, <1>10
  <2>5. CASE d # n
    BY <2>1, <2>3, <2>5, <1>2, <1>3
  <2> QED BY <2>4, <2>5
<1>14. VotesUnique'
  <2> SUFFICES ASSUME NEW e \in Started', NEW f \in Started',
                      NEW d \in Server \ {candidate'[e], candidate'[f]},
                      savedCurrentTerm'[e] = savedCurrentTerm'[f],
                      VotedIn(d, e)', VotedIn(d, f)'
               PROVE  e = f
    BY DEF VotesUnique, SameTerm
  <2>1. e \in Started /\ f \in Started
    BY <1>1, <1>3, <1>8
  <2>2. VotedIn(d, e) /\ VotedIn(d, f) /\ SameTerm(e, f)
    BY <2>1, <1>3, <1>7 DEF SameTerm
  <2> QED BY <2>1, <2>2, <1>3 DEF ElectionInv, VotesUnique
<1>15. WinnersLoyal'
  <2> SUFFICES ASSUME NEW e \in Started', NEW f \in Started', Won(e)', NEW d,
                      d = candidate'[e],
                      savedCurrentTerm'[e] = savedCurrentTerm'[f], VotedIn(d, f)'
               PROVE  e = f
    BY DEF WinnersLoyal, SameTerm
  <2>1. CASE e = new /\ f # new
    BY <2>1, <1>1, <1>2, <1>3, <1>4, <1>7, <1>10
  <2>2. CASE e # new /\ f = new
    <3>1. e \in Started /\ candidate[e] = n
      BY <2>2, <1>1, <1>3, <1>8
    <3> QED BY <2>2, <3>1, <1>2, <1>3, <1>4, <1>10
  <2>3. CASE e # new /\ f # new
    <3>1. e \in Started /\ f \in Started
      BY <2>3, <1>1
    <3>2. Won(e) /\ SameTerm(e, f) /\ VotedIn(candidate[e], f)
      BY <3>1, <1>3, <1>7, <1>9 DEF SameTerm
    <3> QED BY <3>1, <3>2 DEF ElectionInv, WinnersLoyal
  <2> QED BY <2>1, <2>2, <2>3
<1>16. RolesElected'
  <2>1. \A e \in Started' :
           Won(e)' /\ currentTerm'[candidate'[e]] = savedCurrentTerm'[e]
           => votedFor'[candidate'[e]] = candidate'[e]
    <3> SUFFICES ASSUME NEW e \in Started', Won(e)',
                        currentTerm'[candidate'[e]] = savedCurrentTerm'[e]
                 PROVE  votedFor'[candidate'[e]] = candidate'[e]
      OBVIOUS
    <3>1. CASE candidate'[e] = n
      BY <3>1, <1>2
    <3>2. CASE candidate'[e] # n
      <4>1. e \in Started /\ Won(e)
        BY <3>2, <1>1, <1>3, <1>9
      <4> QED BY <3>2, <4>1, <1>2, <1>3, <1>4 DEF ElectionInv, RolesElected
    <3> QED BY <3>1, <3>2
  <2>2. \A m \in Server : state'[m] = "Candidate" => votedFor'[m] = m
    BY <1>2 DEF ElectionInv, RolesElected
  <2>3. ASSUME NEW m \in Server, state'[m] = "Leader", Peers(m) # {}
        PROVE  \E e \in Started' : Won(e)' /\ candidate'[e] = m
                                   /\ savedCurrentTerm'[e] = currentTerm'[m]
    <3>1. m # n
      BY <2>3, <1>2
    <3>2. PICK e \in Started : Won(e) /\ candidate[e] = m
                              /\ savedCurrentTerm[e] = currentTerm[m]
      BY <2>3, <3>1, <1>2 DEF ElectionInv, RolesElected
    <3> QED BY <3>1, <3>2, <1>1, <1>2, <1>3, <1>9
  <2> QED BY <2>1, <2>2, <2>3 DEF RolesElected, Peers
<1> QED BY <1>11, <1>12, <1>13, <1>14, <1>15, <1>16 DEF ElectionInv

\* A timely reply of a later term takes its caller to that term.
LEMMA StaleCallerStep ==
    ASSUME TypeOK, TypeOK', ElectionInv, UNCHANGED electionVars,
           NEW c \in calls, c.src \in Server, c.rterm \in Nat,
           c.rterm > currentTerm[c.src], becomeFollower(c.src, c.rterm, None),
           calls' = calls \ {c}
    PROVE  ElectionInv'
<1>1. \A n \in Server : QuietAt(n)
  BY DEF becomeFollower, QuietAt, TypeOK
<1> QED BY <1>1, QuietStep

LEMMA NoChangeStep ==
    ASSUME TypeOK, TypeOK', ElectionInv, UNCHANGED electionVars,
           UNCHANGED <<currentTerm, votedFor, state>>, calls' \subseteq calls
    PROVE  ElectionInv'
<1>1. \A n \in Server : QuietAt(n)
  BY DEF QuietAt, TypeOK
<1> QED BY <1>1, QuietStep

\* The invariant is inductive while replies are timely and nobody crashes.
LEMMA ElectionInvStep ==
    ASSUME LateReplies = FALSE, MaxRestarts = 0,
           TypeOK, TypeOK', ElectionInv, [Next]_vars
    PROVE  ElectionInv'
<1>1. ASSUME NEW n \in Server, startElection(n) PROVE ElectionInv'
  BY <1>1, StartStep
<1>2. ASSUME NEW n \in Server, NEW t \in timers[n], TimerBailsOut(n, t)
      PROVE ElectionInv'
  BY <1>2, NoChangeStep DEF TimerBailsOut
<1>3. ASSUME NEW n \in Server, leaderSendHeartbeats(n) PROVE ElectionInv'
  <2>1. \A m \in Server : QuietAt(m)
    BY <1>3 DEF leaderSendHeartbeats, cmVars, QuietAt, TypeOK
  <2>2. ASSUME NEW p \in Peers(n)
        PROVE  QuietCall(AppendEntriesArgs(n, p, currentTerm[n]))
    BY <1>3 DEF leaderSendHeartbeats, QuietCall, AppendEntriesArgs, Peers, TypeOK,
                ElectionInv, RolesElected
  <2> QED BY <1>3, <2>1, <2>2, QuietStep DEF leaderSendHeartbeats
<1>4. ASSUME NEW n \in Server, UpdateLeadership(n) PROVE ElectionInv'
  BY <1>4, NoChangeStep DEF UpdateLeadership
<1>5. ASSUME NEW n \in Server, Stop(n) PROVE ElectionInv'
  <2>1. \A m \in Server : QuietAt(m)
    BY <1>5 DEF Stop, QuietAt, TypeOK
  <2> QED BY <1>5, <2>1, QuietStep DEF Stop
<1>6. ASSUME NEW n \in Server, Restart(n) PROVE ElectionInv'
  BY <1>6 DEF Restart, TypeOK
<1>7. ASSUME NEW c \in calls, RequestVote(c) PROVE ElectionInv'
  <2>1. /\ c \in VoteRequest
        /\ c.src \in Server /\ c.dst \in Server /\ c.term \in Nat
        /\ UNCHANGED electionVars
    BY <1>7 DEF RequestVote, TypeOK, VoteRequest, VoteReply, BeatRequest, BeatReply
  <2>2. CASE c.term > currentTerm[c.dst] /\ becomeFollower(c.dst, c.term, c.src)
             /\ Answer(c, RequestVoteReply(c, c.term, TRUE))
    <3>1. /\ state'[c.dst] = "Follower"
          /\ \A m \in Server \ {c.dst} : state'[m] = state[m]
      BY <2>1, <2>2 DEF becomeFollower, TypeOK
    <3> QED BY <1>7, <2>1, <2>2, <3>1, GrantStep DEF RequestVote, becomeFollower
  <2>3. CASE /\ c.term = currentTerm[c.dst] /\ MayVote(c.dst, c)
             /\ votedFor' = [votedFor EXCEPT ![c.dst] = c.src]
             /\ Answer(c, RequestVoteReply(c, c.term, TRUE))
             /\ UNCHANGED <<currentTerm, state, timers, announce>>
    <3>1. currentTerm' = [currentTerm EXCEPT ![c.dst] = c.term]
      BY <2>1, <2>3 DEF TypeOK
    <3> QED BY <1>7, <2>1, <2>3, <3>1, GrantStep DEF RequestVote
  <2>4. CASE /\ Answer(c, RequestVoteReply(c, currentTerm[c.dst], FALSE))
             /\ UNCHANGED cmVars
    <3>1. \A m \in Server : QuietAt(m)
      BY <2>4 DEF QuietAt, cmVars, TypeOK
    <3>2. QuietCall(RequestVoteReply(c, currentTerm[c.dst], FALSE))
      BY <1>7, <2>1 DEF RequestVote, QuietCall, RequestVoteReply, ElectionInv, CallsOK
    <3> QED BY <2>1, <2>4, <3>1, <3>2, QuietStep DEF Answer
  <2> QED BY <1>7, <2>2, <2>3, <2>4 DEF RequestVote
<1>8. ASSUME NEW c \in calls, HandleRequestVoteReply(c) PROVE ElectionInv'
  <2>1. /\ c \in VoteReply /\ c.type = "VoteReply"
        /\ c.src \in Server /\ c.dst \in Server /\ c.term \in Nat /\ c.rterm \in Nat
        /\ currentTerm[c.src] = c.term
        /\ calls' = calls \ {c}
        /\ UNCHANGED <<elections, candidate, savedCurrentTerm>>
    BY <1>8 DEF HandleRequestVoteReply, Timely, TypeOK, VoteRequest, VoteReply,
                BeatRequest, BeatReply
  <2>2. CASE c.rterm > c.term /\ becomeFollower(c.src, c.rterm, None)
             /\ UNCHANGED votesReceived
    BY <2>1, <2>2, StaleCallerStep DEF electionVars
  <2>3. CASE /\ state[c.src] = "Candidate" /\ c.granted
             /\ votesReceived' = [votesReceived EXCEPT
                                    ![c.eid] = votesReceived[c.eid] \cup {c.dst}]
             /\ \/ Majority(votesReceived[c.eid] \cup {c.dst}) /\ startLeader(c.src)
                \/ ~Majority(votesReceived[c.eid] \cup {c.dst}) /\ UNCHANGED cmVars
    <3>1. /\ UNCHANGED <<currentTerm, votedFor, elections, candidate, savedCurrentTerm>>
          /\ \/ Majority(votesReceived[c.eid] \cup {c.dst})
                /\ state' = [state EXCEPT ![c.src] = "Leader"]
             \/ ~Majority(votesReceived[c.eid] \cup {c.dst}) /\ UNCHANGED state
      BY <2>1, <2>3 DEF startLeader, cmVars
    <3> QED BY <2>1, <2>3, <3>1, CountStep
  <2>4. CASE UNCHANGED <<cmVars, votesReceived>>
    BY <2>1, <2>4, NoChangeStep DEF cmVars, electionVars
  <2> QED BY <1>8, <2>2, <2>3, <2>4 DEF HandleRequestVoteReply
<1>9. ASSUME NEW c \in calls, AppendEntries(c) PROVE ElectionInv'
  <2>1. /\ c \in BeatRequest /\ c.type = "BeatRequest"
        /\ c.src \in Server /\ c.dst \in Server /\ c.term \in Nat
        /\ UNCHANGED electionVars
    BY <1>9 DEF AppendEntries, TypeOK, VoteRequest, VoteReply, BeatRequest, BeatReply
  <2>2. ASSUME NEW t PROVE QuietCall(AppendEntriesReply(c, t))
    BY <2>1 DEF QuietCall, AppendEntriesReply, ElectionInv, CallsOK
  <2>3. CASE MakesFollower(c.dst, c) /\ becomeFollower(c.dst, c.term, None)
    <3>1. \A e \in Started : Won(e) /\ candidate[e] = c.dst
                             => savedCurrentTerm[e] # c.term
      <4>1. PICK f \in Started : /\ Won(f) /\ candidate[f] = c.src
                                 /\ savedCurrentTerm[f] = c.term
        BY <2>1 DEF ElectionInv, CallsOK
      <4>2. c.src # c.dst
        BY DEF ElectionInv, CallsOK
      <4> QED BY <4>1, <4>2, WonUnique DEF SameTerm
    <3>2. state[c.dst] # "Dead"
      BY <1>9 DEF AppendEntries
    <3>3. \A m \in Server : QuietAt(m)
      BY <2>1, <2>3, <3>1, <3>2
      DEF MakesFollower, becomeFollower, QuietAt, TypeOK, CMState
    <3> QED BY <1>9, <2>1, <2>2, <3>3, QuietStep DEF AppendEntries, Answer
  <2>4. CASE UNCHANGED cmVars
    <3>1. \A m \in Server : QuietAt(m)
      BY <2>4 DEF QuietAt, cmVars, TypeOK
    <3> QED BY <1>9, <2>1, <2>2, <3>1, QuietStep DEF AppendEntries, Answer
  <2> QED BY <1>9, <2>3, <2>4 DEF AppendEntries
<1>10. ASSUME NEW c \in calls, HandleAppendEntriesReply(c) PROVE ElectionInv'
  <2>1. /\ c.src \in Server /\ c.rterm \in Nat
        /\ currentTerm[c.src] = c.term
        /\ calls' = calls \ {c} /\ UNCHANGED electionVars
    BY <1>10 DEF HandleAppendEntriesReply, Timely, TypeOK, VoteRequest, VoteReply,
                 BeatRequest, BeatReply
  <2>2. CASE c.rterm > c.term /\ becomeFollower(c.src, c.rterm, None)
    BY <2>1, <2>2, StaleCallerStep
  <2>3. CASE UNCHANGED cmVars
    BY <2>1, <2>3, NoChangeStep DEF cmVars
  <2> QED BY <1>10, <2>2, <2>3 DEF HandleAppendEntriesReply
<1>11. ASSUME NEW c \in calls, CallFails(c) PROVE ElectionInv'
  BY <1>11, NoChangeStep DEF CallFails, cmVars
<1>12. CASE UNCHANGED vars
  BY <1>12, NoChangeStep DEF vars, cmVars
<1> QED BY <1>1, <1>2, <1>3, <1>4, <1>5, <1>6, <1>7, <1>8, <1>9, <1>10, <1>11,
           <1>12 DEF Next

\* While every reply reaches its caller in the term in which it asked and no
\* process crashes, no term has two leaders, however many replicas there are
\* and however elections, votes and heartbeats interleave.
THEOREM OneLeaderPerTerm ==
    ASSUME LateReplies = FALSE, MaxRestarts = 0
    PROVE  Spec => [](ElectionInv /\ ElectionSafety)
<1>1. Init => ElectionInv
  <2> SUFFICES ASSUME Init PROVE ElectionInv
    OBVIOUS
  <2>1. Started = {} /\ calls = {}
    BY DEF Init, Started
  <2>2. \A n \in Server : /\ state[n] # "Candidate"
                          /\ Peers(n) # {} => state[n] # "Leader"
    BY DEF Init
  <2> QED BY <2>1, <2>2 DEF ElectionInv, ElectionsOK, CallsOK, VotesBind,
                           VotesUnique, WinnersLoyal, RolesElected
<1>2. TypeOK /\ TypeOK' /\ ElectionInv /\ [Next]_vars => ElectionInv'
  BY ElectionInvStep
<1>3. TypeOK /\ ElectionInv => ElectionSafety
  BY InvImpliesSafety
<1> QED BY <1>1, <1>2, <1>3, TypeCorrect, PTL DEF Spec

\* In that regime each heartbeat under way, sent by startLeader or answered by
\* AppendEntries, is of a replica a majority has voted for in the term that the
\* heartbeat carries, although its sender may have been deposed since.
THEOREM OnlyElectedSend ==
    ASSUME LateReplies = FALSE, MaxRestarts = 0
    PROVE  Spec => []HeartbeatsAreElected
<1>1. TypeOK /\ ElectionInv => HeartbeatsAreElected
  <2> SUFFICES ASSUME TypeOK, ElectionInv, NEW c \in calls,
                      c.type \in {"BeatRequest", "BeatReply"}
               PROVE  \E e \in ElectionID : /\ candidate[e] = c.src
                                            /\ savedCurrentTerm[e] = c.term
                                            /\ Majority(votesReceived[e])
    BY DEF HeartbeatsAreElected
  <2>1. PICK e \in Started : /\ Won(e)
                             /\ candidate[e] = c.src
                             /\ savedCurrentTerm[e] = c.term
    BY DEF ElectionInv, CallsOK
  <2>2. e \in ElectionID
    BY <2>1, ElectionAssumption DEF TypeOK, Started, ElectionID
  <2> QED BY <2>1, <2>2 DEF Won
<1> QED BY <1>1, OneLeaderPerTerm, TypeCorrect, PTL

----------------------------------------------------------------------------
(* What a step may never do to a term or a vote *)

\* Terms grow, and within a term only the replica's own candidature is given
\* up: the step from one state to the next that VoteStable is about.
TermAndVoteKept(n) ==
    /\ currentTerm'[n] >= currentTerm[n]
    /\ /\ currentTerm'[n] = currentTerm[n]
       /\ votedFor[n] \notin {None, n}
       => votedFor'[n] = votedFor[n]

\* A heartbeat of its own term makes only a candidate or a leader a follower,
\* and both have voted for themselves.
LEMMA HeartbeatKeepsVote ==
    ASSUME TypeOK, ElectionInv, NEW c \in calls, AppendEntries(c), NEW n \in Server
    PROVE  TermAndVoteKept(n)
<1>1. /\ c.src \in Server /\ c.dst \in Server /\ c.term \in Nat
      /\ c.src # c.dst /\ state[c.dst] # "Dead"
  BY DEF AppendEntries, TypeOK, VoteRequest, VoteReply, BeatRequest, BeatReply,
         ElectionInv, CallsOK
<1>2. CASE UNCHANGED cmVars
  BY <1>2 DEF cmVars, TermAndVoteKept, TypeOK
<1>3. CASE MakesFollower(c.dst, c) /\ becomeFollower(c.dst, c.term, None)
  <2>1. CASE c.term > currentTerm[c.dst]
    BY <1>1, <1>3, <2>1 DEF becomeFollower, TermAndVoteKept, TypeOK
  <2>2. CASE c.term = currentTerm[c.dst] /\ state[c.dst] # "Follower"
    <3>1. votedFor[c.dst] = c.dst
      <4>1. CASE state[c.dst] = "Candidate"
        BY <1>1, <4>1 DEF ElectionInv, RolesElected
      <4>2. CASE state[c.dst] = "Leader"
        <5>1. Peers(c.dst) # {}
          BY <1>1 DEF Peers
        <5>2. PICK e \in Started : /\ Won(e) /\ candidate[e] = c.dst
                                   /\ savedCurrentTerm[e] = currentTerm[c.dst]
          BY <1>1, <4>2, <5>1 DEF ElectionInv, RolesElected
        <5> QED BY <5>2 DEF ElectionInv, RolesElected
      <4> QED BY <1>1, <2>2, <4>1, <4>2 DEF TypeOK, CMState
    <3> QED BY <1>1, <1>3, <2>2, <3>1 DEF becomeFollower, TermAndVoteKept, TypeOK
  <2> QED BY <1>3, <2>1, <2>2 DEF MakesFollower
<1> QED BY <1>2, <1>3 DEF AppendEntries

LEMMA StepKeepsTermAndVote ==
    ASSUME LateReplies = FALSE, MaxRestarts = 0, TypeOK, ElectionInv, [Next]_vars,
           NEW n \in Server
    PROVE  TermAndVoteKept(n)
<1> USE DEF TermAndVoteKept, TypeOK
<1>1. ASSUME NEW m \in Server, startElection(m) PROVE TermAndVoteKept(n)
  BY <1>1 DEF startElection
<1>2. ASSUME NEW m \in Server, NEW t \in timers[m], TimerBailsOut(m, t)
      PROVE TermAndVoteKept(n)
  BY <1>2 DEF TimerBailsOut
<1>3. ASSUME NEW m \in Server, leaderSendHeartbeats(m) \/ UpdateLeadership(m) \/ Stop(m)
      PROVE TermAndVoteKept(n)
  BY <1>3 DEF leaderSendHeartbeats, UpdateLeadership, Stop, cmVars
<1>4. ASSUME NEW m \in Server, Restart(m) PROVE FALSE
  BY <1>4 DEF Restart
<1>5. ASSUME NEW c \in calls, RequestVote(c) PROVE TermAndVoteKept(n)
  <2>1. c.src \in Server /\ c.dst \in Server /\ c.term \in Nat
    BY <1>5 DEF RequestVote, VoteRequest, VoteReply, BeatRequest, BeatReply
  <2>2. CASE c.term > currentTerm[c.dst] /\ becomeFollower(c.dst, c.term, c.src)
    BY <2>1, <2>2 DEF becomeFollower
  <2>3. CASE /\ MayVote(c.dst, c)
             /\ votedFor' = [votedFor EXCEPT ![c.dst] = c.src]
             /\ UNCHANGED <<currentTerm, state, timers, announce>>
    BY <2>1, <2>3 DEF MayVote
  <2>4. CASE UNCHANGED cmVars
    BY <2>4 DEF cmVars
  <2> QED BY <1>5, <2>2, <2>3, <2>4 DEF RequestVote
<1>6. ASSUME NEW c \in calls, HandleRequestVoteReply(c) PROVE TermAndVoteKept(n)
  <2>1. c.src \in Server /\ c.rterm \in Nat /\ currentTerm[c.src] = c.term
    BY <1>6 DEF HandleRequestVoteReply, Timely, VoteRequest, VoteReply, BeatRequest, BeatReply
  <2>2. \/ c.rterm > c.term /\ becomeFollower(c.src, c.rterm, None)
        \/ startLeader(c.src)
        \/ UNCHANGED cmVars
    BY <1>6 DEF HandleRequestVoteReply
  <2> QED BY <2>1, <2>2 DEF becomeFollower, startLeader, cmVars
<1>7. ASSUME NEW c \in calls, AppendEntries(c) PROVE TermAndVoteKept(n)
  BY <1>7, HeartbeatKeepsVote
<1>8. ASSUME NEW c \in calls, HandleAppendEntriesReply(c) PROVE TermAndVoteKept(n)
  <2>1. c.src \in Server /\ c.rterm \in Nat /\ currentTerm[c.src] = c.term
    BY <1>8 DEF HandleAppendEntriesReply, Timely, VoteRequest, VoteReply, BeatRequest, BeatReply
  <2> QED BY <1>8, <2>1 DEF HandleAppendEntriesReply, becomeFollower, cmVars
<1>9. ASSUME NEW c \in calls, CallFails(c) PROVE TermAndVoteKept(n)
  BY <1>9 DEF CallFails, cmVars
<1>10. CASE UNCHANGED vars
  BY <1>10 DEF vars, cmVars
<1> QED BY <1>1, <1>2, <1>3, <1>4, <1>5, <1>6, <1>7, <1>8, <1>9, <1>10 DEF Next

\* In the same regime terms never decrease, and a vote that RequestVote has
\* given to another replica is not taken back in its term, though
\* becomeFollower resets votedFor: that only ever meets a replica that enters
\* a later term or has voted for itself.
THEOREM VotesAreKept ==
    ASSUME LateReplies = FALSE, MaxRestarts = 0
    PROVE  Spec => TermMonotonic /\ VoteStable
<1>1. TypeOK /\ ElectionInv /\ [Next]_vars =>
        /\ [\A n \in Server : currentTerm'[n] >= currentTerm[n]]_vars
        /\ [\A n \in Server :
              /\ currentTerm'[n] = currentTerm[n]
              /\ votedFor[n] \notin {None, n}
              => votedFor'[n] = votedFor[n]]_vars
  BY StepKeepsTermAndVote DEF TermAndVoteKept
<1> QED BY <1>1, TypeCorrect, OneLeaderPerTerm, PTL
        DEF Spec, TermMonotonic, VoteStable
=============================================================================
