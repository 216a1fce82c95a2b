------------------------ MODULE ControlPlaneApiProofs ------------------------
(***************************************************************************)
(* Proofs about the replicas' main loops and load balancers, for any       *)
(* number of replicas, data planes, calls and terms.  That HAProxy runs    *)
(* what is committed is Revisions: each lemma is about the steps that      *)
(* disturb the same part of it.  Leaderships and Succession are about the  *)
(* elections and the main loops, Agreement about the load balancers.       *)
(***************************************************************************)
EXTENDS ControlPlaneApi, WellFoundedInduction, TLAPS

(* The steps of the election and of the main loops change no configuration:
   a main loop that moves on is not revising, before or after.  *)
LEMMA LoopStep ==
  ASSUME Revisions,
         UNCHANGED <<pc, at, backend, running, restarting, step, place, todo, edits, changes, target>>,
         peerClients' \in [Replica -> SUBSET Replica],
         \/ UNCHANGED main
         \/ \E r \in Replica :
              /\ step[r] = "none" /\ main[r] # "down"
              /\ \E to \in {"select", "elected", "deposed", "reconstruct", "monitor"} :
                   main' = [main EXCEPT ![r] = to]
  PROVE  Revisions'
  <1>1. RevisionTypes'
    BY DEF Revisions, RevisionTypes
  <1>2. ASSUME NEW r \in Replica
        PROVE  (main'[r] # "down" => main[r] # "down") /\ (main'[r] # main[r] => step[r] = "none")
    BY DEF Revisions, RevisionTypes
  <1>3. ASSUME NEW r \in Replica
        PROVE  LoopOccupied(r)' /\ Restarted(r)'
    <2>1. LoopOccupied(r)'
      BY <1>2 DEF Revisions, LoopOccupied
    <2>2. Restarted(r)'
      BY <1>2 DEF Revisions, Restarted, Existing
    <2> QED
      BY <2>1, <2>2
  <1>4. ASSUME NEW c \in Call
        PROVE  CallOccupied(c)'
    BY DEF Revisions, CallOccupied
  <1>5. ASSUME NEW a \in Actor
        PROVE  ChangesFound(a)'
    BY <1>2 DEF Revisions, ChangesFound, Revising, Actor
  <1> QED
    BY <1>1, <1>3, <1>4, <1>5 DEF Revisions

(* A leader reads the data planes and starts to revise its load balancer.  *)
LEMMA ReconstructStep ==
  ASSUME Revisions, NEW r \in Replica, ReconstructState(r)
  PROVE  Revisions'
  <1>1. /\ UNCHANGED <<peerClients, pc, at, backend, running, restarting, todo, edits, changes, target>>
        /\ main[r] = "reconstruct" /\ main' = [main EXCEPT ![r] = "revise"]
        /\ place' = [place EXCEPT ![r] = r] /\ step' = [step EXCEPT ![r] = "version"]
    BY DEF ReconstructState, Loop, election, haproxy, calls
  <1>2. step[r] = "none" /\ r \in Actor
    BY <1>1 DEF Revisions, LoopOccupied, Actor
  <1>3. RevisionTypes'
    BY <1>1, <1>2 DEF Revisions, RevisionTypes
  <1>4. ASSUME NEW q \in Replica
        PROVE  LoopOccupied(q)'
    BY <1>1, <1>2 DEF Revisions, RevisionTypes, LoopOccupied, Actor
  <1>5. ASSUME NEW q \in Replica
        PROVE  Restarted(q)'
    <2> SUFFICES ASSUME main'[q] # "down", ~restarting'[q], running'[q] \notin {Existing(q)', None}
                 PROVE  \E a \in Actor : step'[a] = "servers" /\ place'[a] = q /\ changes'[a]
      BY DEF Restarted
    <2>1. main[q] # "down" /\ ~restarting[q] /\ running[q] \notin {Existing(q), None}
      BY <1>1 DEF Revisions, RevisionTypes, Existing
    <2>2. PICK a \in Actor : step[a] = "servers" /\ place[a] = q /\ changes[a]
      BY <2>1 DEF Revisions, Restarted
    <2>3. a # r
      BY <1>2, <2>2
    <2> QED
      BY <1>1, <2>2, <2>3 DEF Revisions, RevisionTypes
  <1>6. ASSUME NEW c \in Call
        PROVE  CallOccupied(c)'
    BY <1>1, ApiAssumption DEF Revisions, RevisionTypes, CallOccupied, Actor
  <1>7. ASSUME NEW a \in Actor
        PROVE  ChangesFound(a)'
    BY <1>1, <1>2, ApiAssumption DEF Revisions, RevisionTypes, ChangesFound, Revising, Actor
  <1>8. (todo = [b \in Actor |-> todo[b]])'
    BY <1>1 DEF Revisions
  <1> QED
    BY <1>3, <1>4, <1>5, <1>6, <1>7, <1>8 DEF Revisions

(* A process that ends takes the revisions of its own load balancer with it,
   and those of its main loop; its calls go on revising those of the peers.  *)
LEMMA FatalStep ==
  ASSUME Revisions, NEW r \in Replica, Fatal(r),
         UNCHANGED <<peerClients, at, backend, running, restarting, place, todo, edits, changes, target>>
  PROVE  Revisions'
  <1>1. /\ main' = [main EXCEPT ![r] = "down"]
        /\ pc' = [c \in Call |-> IF at[c] = r /\ pc[c] \notin Answer \cup {"idle"} THEN "error" ELSE pc[c]]
        /\ step' = [a \in Actor |-> IF a = r \/ place[a] = r THEN "none" ELSE step[a]]
    BY DEF Fatal
  <1>2. RevisionTypes'
    <2>1. pc' \in [Call -> Answer \cup {"idle", "handlerGetLeader", "IsLeader", "GetLeader", "serve", "edit", "config",
                                        "disseminate"}]
      BY <1>1 DEF Revisions, RevisionTypes, Answer
    <2>2. step' \in [Actor -> {"none", "version", "edit", "servers"}]
      BY <1>1 DEF Revisions, RevisionTypes
    <2> QED
      BY <1>1, <2>1, <2>2 DEF Revisions, RevisionTypes
  <1>3. ASSUME NEW q \in Replica
        PROVE  LoopOccupied(q)'
    BY <1>1 DEF Revisions, RevisionTypes, LoopOccupied, Actor
  <1>4. ASSUME NEW q \in Replica
        PROVE  Restarted(q)'
    <2> SUFFICES ASSUME main'[q] # "down", ~restarting'[q], running'[q] \notin {Existing(q)', None}
                 PROVE  \E a \in Actor : step'[a] = "servers" /\ place'[a] = q /\ changes'[a]
      BY DEF Restarted
    <2>1. q # r /\ main[q] # "down" /\ ~restarting[q] /\ running[q] \notin {Existing(q), None}
      BY <1>1 DEF Revisions, RevisionTypes, Existing
    <2>2. PICK a \in Actor : step[a] = "servers" /\ place[a] = q /\ changes[a]
      BY <2>1 DEF Revisions, Restarted
    <2>3. a # r /\ place[a] # r
      BY <2>1, <2>2, ApiAssumption DEF Revisions, LoopOccupied
    <2> QED
      BY <1>1, <2>2, <2>3 DEF Revisions, RevisionTypes
  <1>5. ASSUME NEW c \in Call
        PROVE  CallOccupied(c)'
    BY <1>1, ApiAssumption DEF Revisions, RevisionTypes, CallOccupied, Actor, Answer
  <1>6. ASSUME NEW a \in Actor
        PROVE  ChangesFound(a)'
    <2> SUFFICES ASSUME Revising(a)', step'[a] = "edit"
                 PROVE  Revising(a) /\ step[a] = "edit"
      BY DEF Revisions, ChangesFound
    <2>1. a # r /\ place[a] # r /\ step[a] = "edit"
      BY <1>1
    <2>2. CASE a \in Call
      BY <1>1, <2>1, <2>2 DEF Revisions, CallOccupied, Revising
    <2>3. CASE a \notin Call
      BY <1>1, <2>1, <2>3 DEF Revisions, RevisionTypes, Revising, Actor
    <2> QED
      BY <2>1, <2>2, <2>3
  <1> QED
    BY <1>2, <1>3, <1>4, <1>5, <1>6 DEF Revisions

-----------------------------------------------------------------------------
(* A step of one call that changes no load balancer: when the call is changing
   one neither before nor after the step, or only begins to, everything else is
   left as it was.  *)
LEMMA CallStep ==
  ASSUME Revisions, NEW c \in Call, step[c] \in {"none", "version"},
         UNCHANGED <<peerClients, main, backend, running, restarting, todo, edits, changes>>,
         target' \in [Actor -> SUBSET Replica],
         at' \in [Call -> Replica \cup {None}], place' \in [Actor -> Replica \cup {None}],
         \A b \in Call \ {c} : at'[b] = at[b],
         \A b \in Actor \ {c} : place'[b] = place[b],
         NEW pc1 \in Answer \cup {"IsLeader", "GetLeader", "handlerGetLeader", "serve", "edit", "config", "disseminate"},
         pc' = [pc EXCEPT ![c] = pc1],
         NEW step1 \in {"none", "version", "edit"}, step' = [step EXCEPT ![c] = step1],
         CallOccupied(c)',
         step1 = "edit" => pc1 = "edit"
  PROVE  Revisions'
  <1>1. c \in Actor /\ c \notin Replica
    BY ApiAssumption DEF Actor
  <1>2. RevisionTypes'
    BY <1>1 DEF Revisions, RevisionTypes
  <1>3. ASSUME NEW q \in Replica
        PROVE  LoopOccupied(q)'
    BY <1>1 DEF Revisions, RevisionTypes, LoopOccupied, Actor
  <1>4. ASSUME NEW q \in Replica
        PROVE  Restarted(q)'
    <2> SUFFICES ASSUME main'[q] # "down", ~restarting'[q], running'[q] \notin {Existing(q)', None}
                 PROVE  \E a \in Actor : step'[a] = "servers" /\ place'[a] = q /\ changes'[a]
      BY DEF Restarted
    <2>1. main[q] # "down" /\ ~restarting[q] /\ running[q] \notin {Existing(q), None}
      BY DEF Existing
    <2>2. PICK a \in Actor : step[a] = "servers" /\ place[a] = q /\ changes[a]
      BY <2>1 DEF Revisions, Restarted
    <2>3. a # c
      BY <2>2
    <2> QED
      BY <2>2, <2>3 DEF Revisions, RevisionTypes
  <1>5. ASSUME NEW b \in Call, b # c
        PROVE  CallOccupied(b)'
    BY <1>5 DEF Revisions, RevisionTypes, CallOccupied, Actor
  <1>6. ASSUME NEW a \in Actor
        PROVE  ChangesFound(a)'
    BY <1>1 DEF Revisions, RevisionTypes, ChangesFound, Revising, Actor
  <1> QED
    BY <1>2, <1>3, <1>4, <1>5, <1>6 DEF Revisions

(* A call arrives, is forwarded, answered or served, reads the version of the
   file or the configuration of the leader, or turns to the next peer.  *)
LEMMA HandleStep ==
  ASSUME Revisions, NEW c \in Call,
         \/ Arrive(c) \/ CheckLeader(c) \/ GetLeader(c) \/ ServeOther(c) \/ ServeDataplane(c) \/ GetVersion(c)
         \/ GetHAProxyConfig(c) \/ DisseminateHAProxyConfig(c)
  PROVE  Revisions'
  <1>1. c \in Actor /\ CallOccupied(c) /\ RevisionTypes
    BY DEF Revisions, Actor
  <1>2. CASE Arrive(c)
    <2>1. PICK r \in Replica : registrationHandler(c, r) \/ \E d \in DataPlane : CallApi(c, r, d)
      BY <1>2 DEF Arrive
    <2>2. /\ pc[c] = "idle" /\ at' = [at EXCEPT ![c] = r]
          /\ UNCHANGED <<peerClients, main, backend, running, restarting, todo, edits, changes, target, place, step>>
          /\ \E s \in {"rejected", "IsLeader", "handlerGetLeader", "serve", "GetLeader"} : pc' = [pc EXCEPT ![c] = s]
      BY <2>1 DEF registrationHandler, CallApi, Arrives, election, loop, haproxy, revision
    <2>3. PICK s \in {"rejected", "IsLeader", "handlerGetLeader", "serve", "GetLeader"} : pc' = [pc EXCEPT ![c] = s]
      BY <2>2
    <2>4. step[c] = "none" /\ step' = [step EXCEPT ![c] = "none"]
      BY <1>1, <2>2 DEF CallOccupied, RevisionTypes
    <2>5. at' \in [Call -> Replica \cup {None}] /\ \A b \in Call \ {c} : at'[b] = at[b]
      BY <1>1, <2>2 DEF RevisionTypes
    <2>6. CallOccupied(c)'
      BY <1>1, <2>2, <2>3, <2>4 DEF CallOccupied, RevisionTypes
    <2>7. s \in Answer \cup {"IsLeader", "GetLeader", "handlerGetLeader", "serve", "edit", "config", "disseminate"}
      BY DEF Answer
    <2> QED
      BY <1>1, <2>2, <2>3, <2>4, <2>5, <2>6, <2>7, CallStep DEF RevisionTypes
  <1>3. CASE CheckLeader(c) \/ ServeOther(c)
    <2>1. UNCHANGED <<peerClients, main, backend, running, restarting, todo, edits, changes, target, place, step, at>>
      BY <1>3 DEF CheckLeader, ServeOther, election, loop, haproxy, revision
    <2>2. PICK s \in {"serve", "GetLeader", "success", "error"} : pc' = [pc EXCEPT ![c] = s]
      BY <1>3 DEF CheckLeader, ServeOther, Goes
    <2>3. pc[c] \in {"IsLeader", "serve"}
      BY <1>3 DEF CheckLeader, ServeOther, Goes
    <2>4. step[c] = "none" /\ step' = [step EXCEPT ![c] = "none"] /\ at[c] \in Replica
      BY <1>1, <2>1, <2>3 DEF CallOccupied, RevisionTypes
    <2>6. CallOccupied(c)'
      BY <1>1, <2>1, <2>2, <2>4 DEF CallOccupied, RevisionTypes
    <2>7. s \in Answer \cup {"IsLeader", "GetLeader", "handlerGetLeader", "serve", "edit", "config", "disseminate"}
      BY DEF Answer
    <2> QED
      BY <1>1, <2>1, <2>2, <2>4, <2>6, <2>7, CallStep DEF RevisionTypes
  <1>4. CASE GetLeader(c)
    <2>1. UNCHANGED <<peerClients, main, backend, running, restarting, todo, edits, changes, target, place, step>>
      BY <1>4 DEF GetLeader, election, loop, haproxy, revision
    <2>2. PICK s \in {"failure", "aborted", "error", "IsLeader"} : pc' = [pc EXCEPT ![c] = s]
      BY <1>4 DEF GetLeader, Goes
    <2>3. pc[c] \in {"GetLeader", "handlerGetLeader"}
      BY <1>4 DEF GetLeader
    <2>4. step[c] = "none" /\ step' = [step EXCEPT ![c] = "none"] /\ at[c] \in Replica
      BY <1>1, <2>1, <2>3 DEF CallOccupied, RevisionTypes
    <2>5. UNCHANGED at \/ \E r \in Replica : at' = [at EXCEPT ![c] = r]
      BY <1>1, <1>4, <2>4 DEF GetLeader, Leader, RevisionTypes
    <2>6. at' \in [Call -> Replica \cup {None}] /\ at'[c] \in Replica /\ \A b \in Call \ {c} : at'[b] = at[b]
      BY <1>1, <2>4, <2>5 DEF RevisionTypes
    <2>7. CallOccupied(c)'
      BY <1>1, <2>1, <2>2, <2>4, <2>6 DEF CallOccupied, RevisionTypes
    <2>8. s \in Answer \cup {"IsLeader", "GetLeader", "handlerGetLeader", "serve", "edit", "config", "disseminate"}
      BY DEF Answer
    <2> QED
      BY <1>1, <2>1, <2>2, <2>4, <2>6, <2>7, <2>8, CallStep DEF RevisionTypes
  <1>5. CASE ServeDataplane(c)
    <2>1. UNCHANGED <<peerClients, main, backend, running, restarting, todo, edits, changes, target, at>> /\ pc[c] = "serve"
      BY <1>5 DEF ServeDataplane, election, loop, haproxy
    <2>2. step[c] = "none" /\ at[c] \in Replica
      BY <1>1, <2>1 DEF CallOccupied
    <2>3. CASE pc' = [pc EXCEPT ![c] = "success"] /\ UNCHANGED <<step, place>>
      <3>1. step' = [step EXCEPT ![c] = "none"]
        BY <1>1, <2>2, <2>3 DEF RevisionTypes
      <3>2. CallOccupied(c)'
        BY <1>1, <2>1, <2>2, <2>3, <3>1 DEF CallOccupied, RevisionTypes
      <3>3. "success" \in Answer
        BY DEF Answer
      <3> QED
        BY <1>1, <2>1, <2>2, <2>3, <3>1, <3>2, <3>3, CallStep DEF RevisionTypes
    <2>4. CASE /\ pc' = [pc EXCEPT ![c] = "edit"] /\ step' = [step EXCEPT ![c] = "version"]
               /\ place' = [place EXCEPT ![c] = at[c]]
      <3>1. place' \in [Actor -> Replica \cup {None}] /\ \A b \in Actor \ {c} : place'[b] = place[b]
        BY <1>1, <2>2, <2>4 DEF RevisionTypes
      <3>2. CallOccupied(c)'
        BY <1>1, <2>1, <2>2, <2>4 DEF CallOccupied, RevisionTypes
      <3> QED
        BY <1>1, <2>1, <2>2, <2>4, <3>1, <3>2, CallStep DEF RevisionTypes
    <2> QED
      BY <1>5, <2>3, <2>4 DEF ServeDataplane, Goes
  <1>6. CASE GetVersion(c)
    <2>1. /\ UNCHANGED <<peerClients, main, backend, running, restarting, todo, edits, changes, target, at, place>>
          /\ pc[c] = "edit" /\ pc' = [pc EXCEPT ![c] = "edit"] /\ step[c] = "version"
          /\ step' = [step EXCEPT ![c] = "edit"]
      BY <1>6 DEF GetVersion, Goes, election, loop, haproxy
    <2>2. CallOccupied(c)'
      BY <1>1, <2>1 DEF CallOccupied, RevisionTypes
    <2> QED
      BY <1>1, <2>1, <2>2, CallStep DEF RevisionTypes
  <1>7. CASE GetHAProxyConfig(c)
    <2>1. /\ UNCHANGED <<peerClients, main, backend, running, restarting, todo, edits, changes, at, place, step>>
          /\ pc[c] = "config" /\ pc' = [pc EXCEPT ![c] = "disseminate"]
          /\ target' = [target EXCEPT ![c] = peerClients[at[c]]]
      BY <1>7 DEF GetHAProxyConfig, Goes, election, loop, haproxy
    <2>2. step[c] = "none" /\ step' = [step EXCEPT ![c] = "none"] /\ at[c] \in Replica
      BY <1>1, <2>1 DEF CallOccupied, RevisionTypes
    <2>3. target' \in [Actor -> SUBSET Replica]
      BY <1>1, <2>1, <2>2 DEF RevisionTypes
    <2>4. CallOccupied(c)'
      BY <1>1, <2>1, <2>2 DEF CallOccupied, RevisionTypes
    <2> QED
      BY <1>1, <2>1, <2>2, <2>3, <2>4, CallStep DEF RevisionTypes
  <1>8. CASE DisseminateHAProxyConfig(c)
    <2>1. /\ UNCHANGED <<peerClients, main, backend, running, restarting, todo, edits, changes, at>>
          /\ pc[c] = "disseminate" /\ step[c] = "none"
      BY <1>8 DEF DisseminateHAProxyConfig, Goes, election, loop, haproxy
    <2>2. at[c] \in Replica
      BY <1>1, <2>1 DEF CallOccupied
    <2>3. CASE pc' = [pc EXCEPT ![c] = "success"] /\ UNCHANGED <<step, place, target>>
      <3>1. step' = [step EXCEPT ![c] = "none"]
        BY <1>1, <2>1, <2>3 DEF RevisionTypes
      <3>2. CallOccupied(c)'
        BY <1>1, <2>1, <2>2, <2>3, <3>1 DEF CallOccupied, RevisionTypes
      <3>3. "success" \in Answer
        BY DEF Answer
      <3> QED
        BY <1>1, <2>1, <2>2, <2>3, <3>1, <3>2, <3>3, CallStep DEF RevisionTypes
    <2>4. ASSUME NEW p \in target[c], NEW s \in {"none", "version"},
                 pc' = [pc EXCEPT ![c] = "disseminate"], target' = [target EXCEPT ![c] = @ \ {p}],
                 place' = [place EXCEPT ![c] = p], step' = [step EXCEPT ![c] = s]
          PROVE  Revisions'
      <3>1. p \in Replica /\ target' \in [Actor -> SUBSET Replica]
        BY <1>1, <2>4 DEF RevisionTypes
      <3>2. place' \in [Actor -> Replica \cup {None}] /\ \A b \in Actor \ {c} : place'[b] = place[b]
        BY <1>1, <2>4, <3>1 DEF RevisionTypes
      <3>3. CallOccupied(c)'
        BY <1>1, <2>1, <2>2, <2>4 DEF CallOccupied, RevisionTypes
      <3> QED
        BY <1>1, <2>1, <2>2, <2>4, <3>1, <3>2, <3>3, CallStep DEF RevisionTypes
    <2>5. CASE target[c] = {} /\ Goes(c, "disseminate", "success") /\ UNCHANGED <<step, place, target>>
      BY <2>3, <2>5 DEF Goes
    <2>6. CASE \E p \in target[c] :
                 /\ Goes(c, "disseminate", "disseminate")
                 /\ target' = [target EXCEPT ![c] = @ \ {p}]
                 /\ place' = [place EXCEPT ![c] = p]
                 /\ step' = [step EXCEPT ![c] = IF main[p] = "down" THEN "none" ELSE "version"]
      <3>1. PICK p \in target[c] :
                 /\ Goes(c, "disseminate", "disseminate")
                 /\ target' = [target EXCEPT ![c] = @ \ {p}]
                 /\ place' = [place EXCEPT ![c] = p]
                 /\ step' = [step EXCEPT ![c] = IF main[p] = "down" THEN "none" ELSE "version"]
        BY <2>6
      <3>2. CASE main[p] = "down"
        BY <2>4, <3>1, <3>2 DEF Goes
      <3>3. CASE main[p] # "down"
        BY <2>4, <3>1, <3>3 DEF Goes
      <3> QED
        BY <3>2, <3>3
    <2> QED
      BY <1>8, <2>5, <2>6 DEF DisseminateHAProxyConfig
  <1> QED
    BY <1>2, <1>3, <1>4, <1>5, <1>6, <1>7, <1>8

-----------------------------------------------------------------------------
(* An edit leaves a number of servers that is one of a configuration.  *)
LEMMA EditedType ==
  ASSUME NEW servers \in [DataPlane -> Nat], NEW d \in DataPlane, NEW edit
  PROVE  Edited(servers, d, edit) \in Nat
  BY DEF Edited

(* A load balancer that is neither restarted nor waits for a restart keeps the
   reason when an actor that is not that reason has moved.  *)
LEMMA StillRestarted ==
  ASSUME Revisions, NEW q \in Replica, NEW a \in Actor, step[a] # "servers",
         \A b \in Actor \ {a} : step'[b] = step[b] /\ place'[b] = place[b] /\ changes'[b] = changes[b],
         main'[q] # "down" => main[q] # "down",
         restarting'[q] = restarting[q], running'[q] = running[q], backend'[q] = backend[q]
  PROVE  Restarted(q)'
  <1> SUFFICES ASSUME main'[q] # "down", ~restarting'[q], running'[q] \notin {Existing(q)', None}
               PROVE  \E b \in Actor : step'[b] = "servers" /\ place'[b] = q /\ changes'[b]
    BY DEF Restarted
  <1>1. main[q] # "down" /\ ~restarting[q] /\ running[q] \notin {Existing(q), None}
    BY DEF Existing
  <1>2. PICK b \in Actor : step[b] = "servers" /\ place[b] = q /\ changes[b]
    BY <1>1 DEF Revisions, Restarted
  <1> QED
    BY <1>2

(* What a call changes in the file of its replica is followed by a restart.  *)
LEMMA EditStep ==
  ASSUME Revisions, NEW c \in Call, AddOrRemoveDataplane(c)
  PROVE  Revisions'
  <1> DEFINE r == at[c]
  <1>1. c \in Actor /\ c \notin Replica /\ CallOccupied(c) /\ RevisionTypes
    BY ApiAssumption DEF Revisions, Actor
  <1>2. /\ UNCHANGED <<peerClients, main, running, todo, edits, changes, target, at, place>>
        /\ pc[c] = "edit" /\ pc' = [pc EXCEPT ![c] = "config"] /\ step[c] = "edit"
        /\ step' = [step EXCEPT ![c] = "none"]
        /\ restarting' = [restarting EXCEPT ![r] = TRUE]
    BY DEF AddOrRemoveDataplane, Goes, election, loop
  <1>3. UNCHANGED backend \/ \E d, e : backend' = [backend EXCEPT ![r][d] = Edited(backend[r], d, e)]
    BY DEF AddOrRemoveDataplane
  <1>4. r \in Replica
    BY <1>1, <1>2 DEF CallOccupied
  <1>5. backend' \in [Replica -> [DataPlane -> Nat]] /\ \A q \in Replica \ {r} : backend'[q] = backend[q]
    <2>1. ASSUME NEW d, NEW e, backend' = [backend EXCEPT ![r][d] = Edited(backend[r], d, e)]
          PROVE  backend' \in [Replica -> [DataPlane -> Nat]] /\ \A q \in Replica \ {r} : backend'[q] = backend[q]
      <3>1. backend[r] \in [DataPlane -> Nat] /\ backend \in [Replica -> [DataPlane -> Nat]]
        BY <1>1, <1>4 DEF RevisionTypes
      <3>2. d \in DataPlane => Edited(backend[r], d, e) \in Nat
        BY <3>1, EditedType
      <3> HIDE DEF r
      <3> QED
        BY <1>4, <2>1, <3>1, <3>2
    <2> QED
      BY <1>1, <1>3, <2>1 DEF RevisionTypes
  <1>6. RevisionTypes'
    BY <1>1, <1>2, <1>4, <1>5 DEF RevisionTypes
  <1>7. ASSUME NEW q \in Replica
        PROVE  LoopOccupied(q)'
    BY <1>1, <1>2 DEF Revisions, RevisionTypes, LoopOccupied, Actor
  <1>8. ASSUME NEW q \in Replica
        PROVE  Restarted(q)'
    <2>1. CASE q = r
      BY <1>1, <1>2, <1>4, <2>1 DEF RevisionTypes, Restarted
    <2>2. CASE q # r
      BY <1>1, <1>2, <1>4, <1>5, <2>2, StillRestarted DEF RevisionTypes
    <2> QED
      BY <2>1, <2>2
  <1>9. ASSUME NEW b \in Call
        PROVE  CallOccupied(b)'
    BY <1>1, <1>2 DEF Revisions, RevisionTypes, CallOccupied, Actor
  <1>10. ASSUME NEW a \in Actor
         PROVE  ChangesFound(a)'
    BY <1>1, <1>2 DEF Revisions, RevisionTypes, ChangesFound, Revising, Actor
  <1>11. (todo = [b \in Actor |-> todo[b]])'
    BY <1>2 DEF Revisions
  <1> QED
    BY <1>6, <1>7, <1>8, <1>9, <1>10, <1>11 DEF Revisions

(* An actor that revises is where it may be with any step.  *)
LEMMA ReviserOccupied ==
  ASSUME Revisions, NEW a \in Actor, Revising(a), UNCHANGED <<main, pc, at, place>>,
         NEW s \in {"none", "version", "edit", "servers"}, step' = [step EXCEPT ![a] = s]
  PROVE  (\A q \in Replica : LoopOccupied(q)') /\ (\A c \in Call : CallOccupied(c)')
  <1>1. ASSUME NEW q \in Replica
        PROVE  LoopOccupied(q)'
    BY ApiAssumption DEF Revisions, RevisionTypes, LoopOccupied, Revising, Actor
  <1>2. ASSUME NEW c \in Call
        PROVE  CallOccupied(c)'
    BY ApiAssumption DEF Revisions, RevisionTypes, CallOccupied, Revising, Actor
  <1> QED
    BY <1>1, <1>2

(* A transaction starts without edits, and with changes when there are any
   servers to add or to remove.  *)
LEMMA StartStep ==
  ASSUME Revisions, NEW a \in Actor, StartTransaction(a)
  PROVE  Revisions'
  <1>1. /\ UNCHANGED <<peerClients, main, pc, at, backend, running, restarting, place, target>>
        /\ Revising(a) /\ step[a] = "version" /\ step' = [step EXCEPT ![a] = "edit"]
        /\ changes' = [changes EXCEPT ![a] = todo'[a] # {}]
        /\ edits' = [edits EXCEPT ![a] = NoEdits]
    BY DEF StartTransaction, election, loop, haproxy, calls
  <1>2. /\ todo' = [b \in Actor |-> todo'[b]]
        /\ \A b \in Actor \ {a} : todo'[b] = todo[b]
    <2>1. PICK t : todo' = [todo EXCEPT ![a] = t]
      BY DEF StartTransaction
    <2>2. todo = [b \in Actor |-> todo[b]]
      BY DEF Revisions
    <2> QED
      BY <2>1, <2>2
  <1>3. RevisionTypes'
    <2>1. NoEdits \in [DataPlane -> {"none", "add", "delete"}] /\ (todo'[a] # {}) \in BOOLEAN
      BY DEF NoEdits
    <2> QED
      BY <1>1, <2>1 DEF Revisions, RevisionTypes
  <1>4. (\A q \in Replica : LoopOccupied(q)') /\ (\A c \in Call : CallOccupied(c)')
    BY <1>1, ReviserOccupied
  <1>5. ASSUME NEW q \in Replica
        PROVE  Restarted(q)'
    <2>1. \A b \in Actor \ {a} : step'[b] = step[b] /\ place'[b] = place[b] /\ changes'[b] = changes[b]
      BY <1>1 DEF Revisions, RevisionTypes
    <2> QED
      BY <1>1, <2>1, StillRestarted
  <1>6. ASSUME NEW b \in Actor
        PROVE  ChangesFound(b)'
    <2>1. CASE b = a
      <3>1. changes'[a] = (todo'[a] # {}) /\ edits'[a] = NoEdits
        BY <1>1 DEF Revisions, RevisionTypes
      <3> QED
        BY <2>1, <3>1 DEF ChangesFound
    <2>2. CASE b # a
      BY <1>1, <1>2, <2>2 DEF Revisions, RevisionTypes, ChangesFound, Revising
    <2> QED
      BY <2>1, <2>2
  <1> QED
    BY <1>2, <1>3, <1>4, <1>5, <1>6 DEF Revisions

(* A revision that looks at a server has found changes.  *)
LEMMA ReviseServerStep ==
  ASSUME Revisions, NEW a \in Actor, NEW d \in DataPlane, ReviseServer(a, d)
  PROVE  Revisions'
  <1>1. /\ UNCHANGED <<peerClients, main, pc, at, backend, running, restarting, step, place, changes, target>>
        /\ Revising(a) /\ step[a] = "edit" /\ d \in todo[a] /\ todo' = [todo EXCEPT ![a] = @ \ {d}]
    BY DEF ReviseServer, election, loop, calls
  <1>2. PICK e \in {"none", "add", "delete"} : edits' = [edits EXCEPT ![a][d] = e]
    BY DEF ReviseServer, Edit
  <1>3. changes[a]
    BY <1>1 DEF Revisions, ChangesFound
  <1>4. RevisionTypes'
    <2>1. edits' \in [Actor -> [DataPlane -> {"none", "add", "delete"}]]
      BY <1>2 DEF Revisions, RevisionTypes
    <2> QED
      BY <1>1, <2>1 DEF Revisions, RevisionTypes
  <1>5. todo' = [b \in Actor |-> todo'[b]] /\ \A b \in Actor \ {a} : todo'[b] = todo[b] /\ edits'[b] = edits[b]
    <2>1. todo = [b \in Actor |-> todo[b]] /\ edits = [b \in Actor |-> edits[b]]
      BY DEF Revisions, RevisionTypes
    <2> QED
      BY <1>1, <1>2, <2>1
  <1>6. (\A q \in Replica : LoopOccupied(q)' /\ Restarted(q)') /\ (\A c \in Call : CallOccupied(c)')
    BY <1>1 DEF Revisions, LoopOccupied, CallOccupied, Restarted, Existing
  <1>7. ASSUME NEW b \in Actor
        PROVE  ChangesFound(b)'
    <2>1. CASE b = a
      BY <1>1, <1>3, <2>1 DEF ChangesFound
    <2>2. CASE b # a
      BY <1>1, <1>5, <2>2 DEF Revisions, ChangesFound, Revising
    <2> QED
      BY <2>1, <2>2
  <1> QED
    BY <1>4, <1>5, <1>6, <1>7 DEF Revisions

(* A transaction that changes the file has found changes, and its actor is on
   the way to the restart; one that has found none changes nothing.  *)
LEMMA CommitStep ==
  ASSUME Revisions, NEW a \in Actor, CommitTransaction(a)
  PROVE  Revisions'
  <1> DEFINE p == place[a]
  <1>1. /\ UNCHANGED <<peerClients, main, pc, at, running, restarting, place, todo, changes, target>>
        /\ Revising(a) /\ step[a] = "edit" /\ edits' = [edits EXCEPT ![a] = NoEdits]
    BY DEF CommitTransaction, election, loop, calls
  <1>2. \/ /\ backend' = [backend EXCEPT ![p] = [d \in DataPlane |-> Edited(@, d, edits[a][d])]]
           /\ step' = [step EXCEPT ![a] = "servers"]
        \/ UNCHANGED backend /\ step' = [step EXCEPT ![a] = "version"]
    BY DEF CommitTransaction
  <1>3. PICK s \in {"servers", "version"} : step' = [step EXCEPT ![a] = s]
    BY <1>2
  <1>4. backend' \in [Replica -> [DataPlane -> Nat]] /\ \A q \in Replica \ {p} : backend'[q] = backend[q]
    <2>1. ASSUME NEW q \in Replica
          PROVE  [d \in DataPlane |-> Edited(backend[q], d, edits[a][d])] \in [DataPlane -> Nat]
      BY EditedType DEF Revisions, RevisionTypes
    <2>2. backend \in [Replica -> [DataPlane -> Nat]]
      BY DEF Revisions, RevisionTypes
    <2>3. CASE backend' = [backend EXCEPT ![p] = [d \in DataPlane |-> Edited(@, d, edits[a][d])]]
      <3>1. \A q \in Replica :
              backend'[q] = IF q = p THEN [d \in DataPlane |-> Edited(backend[q], d, edits[a][d])] ELSE backend[q]
        BY <2>2, <2>3
      <3>2. backend' = [q \in Replica |-> backend'[q]]
        BY <2>2, <2>3
      <3>3. \A q \in Replica : backend'[q] \in [DataPlane -> Nat]
        BY <2>1, <2>2, <3>1
      <3> QED
        BY <3>1, <3>2, <3>3
    <2> QED
      BY <1>2, <2>2, <2>3
  <1>5. RevisionTypes'
    <2>1. NoEdits \in [DataPlane -> {"none", "add", "delete"}]
      BY DEF NoEdits
    <2> QED
      BY <1>1, <1>3, <1>4, <2>1 DEF Revisions, RevisionTypes
  <1>6. (\A q \in Replica : LoopOccupied(q)') /\ (\A c \in Call : CallOccupied(c)')
    BY <1>1, <1>3, ReviserOccupied
  <1>7. \A b \in Actor \ {a} : step'[b] = step[b] /\ place'[b] = place[b] /\ changes'[b] = changes[b]
    BY <1>1, <1>3 DEF Revisions, RevisionTypes
  <1>8. ASSUME NEW q \in Replica
        PROVE  Restarted(q)'
    <2>1. CASE backend'[q] = backend[q]
      BY <1>1, <1>7, <2>1, StillRestarted
    <2>2. CASE backend'[q] # backend[q]
      <3>1. q = p /\ step'[a] = "servers"
        BY <1>2, <1>4, <2>2 DEF Revisions, RevisionTypes
      <3>2. changes[a]
        <4> SUFFICES ASSUME ~changes[a]
                     PROVE  FALSE
          OBVIOUS
        <4>1. edits[a] = NoEdits
          BY <1>1 DEF Revisions, ChangesFound
        <4>2. \A d \in DataPlane : Edited(backend[p], d, edits[a][d]) = backend[p][d]
          BY <4>1 DEF NoEdits, Edited
        <4>3. backend[p] = [d \in DataPlane |-> backend[p][d]]
          BY <3>1 DEF Revisions, RevisionTypes
        <4>4. backend'[p] = [d \in DataPlane |-> Edited(backend[p], d, edits[a][d])]
          BY <1>2, <2>2, <3>1 DEF Revisions, RevisionTypes
        <4> QED
          BY <2>2, <3>1, <4>2, <4>3, <4>4
      <3> QED
        BY <1>1, <3>1, <3>2 DEF Restarted
    <2> QED
      BY <2>1, <2>2
  <1>9. ASSUME NEW b \in Actor
        PROVE  ChangesFound(b)'
    <2>1. CASE b = a
      BY <1>3, <2>1 DEF Revisions, RevisionTypes, ChangesFound
    <2>2. CASE b # a
      BY <1>1, <1>3, <2>2 DEF Revisions, RevisionTypes, ChangesFound, Revising
    <2> QED
      BY <2>1, <2>2
  <1>10. (todo = [b \in Actor |-> todo[b]])'
    BY <1>1 DEF Revisions
  <1> QED
    BY <1>5, <1>6, <1>8, <1>9, <1>10 DEF Revisions

(* The reason to restart becomes the restart.  *)
LEMMA ServersStep ==
  ASSUME Revisions, NEW a \in Actor, ReviseRegistrationServers(a)
  PROVE  Revisions'
  <1>1. /\ UNCHANGED <<peerClients, main, pc, at, backend, running, place, todo, edits, target>>
        /\ Revising(a) /\ step[a] = "servers" /\ step' = [step EXCEPT ![a] = "none"]
        /\ changes' = [changes EXCEPT ![a] = FALSE]
    BY DEF ReviseRegistrationServers, election, loop, calls
  <1>2. PICK rs \in BOOLEAN : restarting' = [restarting EXCEPT ![place[a]] = @ \/ changes[a] \/ rs]
    BY DEF ReviseRegistrationServers
  <1>3. /\ restarting' \in [Replica -> BOOLEAN]
        /\ \A q \in Replica : restarting[q] \/ (q = place[a] /\ changes[a]) => restarting'[q]
    BY <1>2 DEF Revisions, RevisionTypes
  <1>4. RevisionTypes'
    BY <1>1, <1>3 DEF Revisions, RevisionTypes
  <1>5. (\A q \in Replica : LoopOccupied(q)') /\ (\A c \in Call : CallOccupied(c)')
    BY <1>1, ReviserOccupied
  <1>6. ASSUME NEW q \in Replica
        PROVE  Restarted(q)'
    <2> SUFFICES ASSUME main'[q] # "down", ~restarting'[q], running'[q] \notin {Existing(q)', None}
                 PROVE  \E b \in Actor : step'[b] = "servers" /\ place'[b] = q /\ changes'[b]
      BY DEF Restarted
    <2>1. main[q] # "down" /\ ~restarting[q] /\ running[q] \notin {Existing(q), None} /\ ~(q = place[a] /\ changes[a])
      BY <1>1, <1>3 DEF Existing
    <2>2. PICK b \in Actor : step[b] = "servers" /\ place[b] = q /\ changes[b]
      BY <2>1 DEF Revisions, Restarted
    <2>3. b # a
      BY <2>1, <2>2
    <2> QED
      BY <1>1, <2>2, <2>3 DEF Revisions, RevisionTypes
  <1>7. ASSUME NEW b \in Actor
        PROVE  ChangesFound(b)'
    BY <1>1 DEF Revisions, RevisionTypes, ChangesFound, Revising
  <1>8. (todo = [b \in Actor |-> todo[b]])'
    BY <1>1 DEF Revisions
  <1> QED
    BY <1>4, <1>5, <1>6, <1>7, <1>8 DEF Revisions

(* The restart reads the file, or fails.  *)
LEMMA RestartStep ==
  ASSUME Revisions, NEW r \in Replica, RestartHAProxy(r)
  PROVE  Revisions'
  <1>1. /\ UNCHANGED <<peerClients, main, pc, at, backend, step, place, todo, edits, changes, target>>
        /\ running' = [running EXCEPT ![r] = Existing(r)] \/ running' = [running EXCEPT ![r] = None]
        /\ restarting' = [restarting EXCEPT ![r] = FALSE]
    BY DEF RestartHAProxy, election, loop, calls, revision
  <1>2. Existing(r) \in SUBSET DataPlane /\ \A q \in Replica : Existing(q)' = Existing(q)
    BY <1>1 DEF Existing
  <1>3. RevisionTypes'
    <2>1. running \in [Replica -> (SUBSET DataPlane) \cup {None}] /\ restarting \in [Replica -> BOOLEAN]
      BY DEF Revisions, RevisionTypes
    <2>2. running' \in [Replica -> (SUBSET DataPlane) \cup {None}]
      <3> DEFINE Known == (SUBSET DataPlane) \cup {None}
      <3>1. running \in [Replica -> Known] /\ Existing(r) \in Known /\ None \in Known
        BY <1>2, <2>1
      <3> HIDE DEF Known
      <3>2. running' \in [Replica -> Known]
        BY <1>1, <3>1
      <3> QED
        BY <3>2 DEF Known
    <2>3. restarting' \in [Replica -> BOOLEAN]
      BY <1>1, <2>1
    <2> QED
      BY <1>1, <2>2, <2>3 DEF Revisions, RevisionTypes
  <1>4. ASSUME NEW q \in Replica
        PROVE  LoopOccupied(q)' /\ Restarted(q)'
    <2>1. CASE q = r
      BY <1>1, <1>2, <2>1 DEF Revisions, RevisionTypes, Restarted, LoopOccupied
    <2>2. CASE q # r
      <3>1. running'[q] = running[q] /\ restarting'[q] = restarting[q]
        BY <1>1, <2>2 DEF Revisions, RevisionTypes
      <3>2. LoopOccupied(q)'
        BY <1>1 DEF Revisions, LoopOccupied
      <3>3. Restarted(q)'
        BY <1>1, <1>2, <3>1 DEF Revisions, Restarted
      <3> QED
        BY <3>2, <3>3
    <2> QED
      BY <2>1, <2>2
  <1>5. (\A c \in Call : CallOccupied(c)') /\ \A a \in Actor : ChangesFound(a)'
    BY <1>1 DEF Revisions, CallOccupied, ChangesFound, Revising
  <1>6. (todo = [b \in Actor |-> todo[b]])'
    BY <1>1 DEF Revisions
  <1> QED
    BY <1>3, <1>4, <1>5, <1>6 DEF Revisions

-----------------------------------------------------------------------------
(* Nothing is being changed at first.  *)
LEMMA RevisionsInit == Init => Revisions
  <1> SUFFICES ASSUME Init
               PROVE  Revisions
    OBVIOUS
  <1>1. RevisionTypes /\ todo = [a \in Actor |-> todo[a]]
    BY DEF Init, RevisionTypes, NoEdits, Answer
  <1>2. \A r \in Replica : LoopOccupied(r) /\ Restarted(r)
    BY DEF Init, LoopOccupied, Restarted, Existing, Actor
  <1>3. (\A c \in Call : CallOccupied(c)) /\ \A a \in Actor : ChangesFound(a)
    BY DEF Init, CallOccupied, ChangesFound, Actor
  <1> QED
    BY <1>1, <1>2, <1>3 DEF Revisions

(* Every step is one of those above.  *)
LEMMA RevisionsNext == Revisions /\ [Next]_vars => Revisions'
  <1> SUFFICES ASSUME Revisions, [Next]_vars
               PROVE  Revisions'
    OBVIOUS
  <1>1. ASSUME NEW r \in Replica, Election(r) \/ Announced(r)
        PROVE  Revisions'
    <2>1. UNCHANGED <<main, pc, at, backend, running, restarting, step, place, todo, edits, changes, target>>
      BY <1>1 DEF Election, Announced, startLeader, HearOfTerm, AppendEntries, ConnectToPeer, loop, haproxy, calls, revision
    <2>2. UNCHANGED peerClients \/ \E q \in Replica : peerClients' = [peerClients EXCEPT ![r] = @ \cup {q}]
      BY <1>1 DEF Election, Announced, startLeader, HearOfTerm, AppendEntries, ConnectToPeer
    <2>3. peerClients' \in [Replica -> SUBSET Replica]
      <3>1. peerClients \in [Replica -> SUBSET Replica]
        BY DEF Revisions, RevisionTypes
      <3> QED
        BY <2>2, <3>1
    <2> QED
      BY <2>1, <2>3, LoopStep
  <1>2. ASSUME NEW r \in Replica,
               \/ EstablishLeaderElectionMesh(r) \/ UpdateLeadership(r) \/ destroyStateFromPreviousElectionTerm(r)
               \/ Reconstructed(r) \/ StartNodeMonitoringLoop(r)
        PROVE  Revisions'
    <2>1. UNCHANGED <<peerClients, pc, at, backend, running, restarting, step, place, todo, edits, changes, target>>
      BY <1>2 DEF EstablishLeaderElectionMesh, UpdateLeadership, destroyStateFromPreviousElectionTerm, Reconstructed,
                  StartNodeMonitoringLoop, election, haproxy, calls, revision
    <2>2. \E to \in {"select", "elected", "deposed", "reconstruct", "monitor"} : main' = [main EXCEPT ![r] = to]
      BY <1>2 DEF EstablishLeaderElectionMesh, UpdateLeadership, destroyStateFromPreviousElectionTerm, Reconstructed,
                  StartNodeMonitoringLoop, Loop
    <2>3. main[r] # "down" /\ (main[r] = "revise" => step[r] = "none")
      BY <1>2 DEF EstablishLeaderElectionMesh, UpdateLeadership, destroyStateFromPreviousElectionTerm, Reconstructed,
                  StartNodeMonitoringLoop, Loop
    <2>4. step[r] = "none"
      BY <2>3 DEF Revisions, LoopOccupied
    <2>5. peerClients' \in [Replica -> SUBSET Replica]
      BY <2>1 DEF Revisions, RevisionTypes
    <2> QED
      BY <2>1, <2>2, <2>3, <2>4, <2>5, LoopStep
  <1>3. ASSUME NEW r \in Replica, ReconstructionFails(r)
        PROVE  Revisions'
    BY <1>3, FatalStep DEF ReconstructionFails, haproxy
  <1>4. ASSUME NEW c \in Call, GetLeaderFatal(c)
        PROVE  Revisions'
    <2>1. at[c] \in Replica
      BY <1>4 DEF Revisions, CallOccupied, GetLeaderFatal
    <2> QED
      BY <1>4, <2>1, FatalStep DEF GetLeaderFatal, haproxy
  <1>5. ASSUME NEW c \in Call, Arrive(c) \/ Handle(c)
        PROVE  Revisions'
    BY <1>4, <1>5, HandleStep, EditStep DEF Handle
  <1>6. ASSUME NEW a \in Actor, Revise(a)
        PROVE  Revisions'
    BY <1>6, StartStep, ReviseServerStep, CommitStep, ServersStep DEF Revise
  <1>7. CASE UNCHANGED vars
    <2>1. UNCHANGED <<peerClients, main, pc, at, backend, running, restarting, step, place, todo, edits, changes, target>>
      BY <1>7 DEF vars, election, loop, haproxy, calls, revision
    <2> QED
      BY <2>1, LoopStep DEF Revisions, RevisionTypes
  <1> QED
    BY <1>1, <1>2, <1>3, <1>5, <1>6, <1>7, ReconstructStep, RestartStep DEF Next, Main

(* However the calls and the revisions of a load balancer overlap, fail, try
   again or end with the process that makes them: when nobody is changing it
   and no restart is under way, HAProxy runs what its file says, or its last
   restart has failed.  *)
THEOREM CommittedRuns == Spec => []RunningIsCommitted
  <1>1. Revisions => RunningIsCommitted
    BY DEF Revisions, Restarted, RunningIsCommitted, Busy
  <1> QED
    BY <1>1, RevisionsInit, RevisionsNext, PTL DEF Spec

-----------------------------------------------------------------------------
(* Terms and leaderships *)

(* A set of numbers that is bounded has a greatest one.  *)
LEMMA Greatest ==
  ASSUME NEW n \in Nat, NEW S, S \subseteq 0 .. n, S # {}
  PROVE  \E t \in S : \A u \in S : u <= t
  <1> DEFINE T == {n - u : u \in S}
  <1>0. \A u \in S : n - u \in Nat
    OBVIOUS
  <1>1. T \subseteq Nat /\ T # {}
    BY <1>0
  <1>2. PICK x \in T : \A y \in T : ~(<<y, x>> \in OpToRel(<, Nat))
    BY <1>1, WFMin, NatLessThanWellFounded
  <1>3. \A y \in T : ~(y < x)
    BY <1>1, <1>2 DEF OpToRel
  <1>4. PICK t \in S : x = n - t
    OBVIOUS
  <1>5. ASSUME NEW u \in S PROVE u <= t
    <2>1. n - u \in T
      OBVIOUS
    <2>2. ~(n - u < n - t)
      BY <1>3, <1>4, <2>1
    <2>3. u \in Int /\ t \in Int
      OBVIOUS
    <2> QED
      BY <2>2, <2>3
  <1> QED
    BY <1>5

(* Newest is the latest term that a replica has.  *)
LEMMA NewestTerm ==
  ASSUME TypeOK
  PROVE  Newest \in 0 .. MaxTerm /\ \A q \in Replica : term[q] <= Newest
  <1> DEFINE S == {term[q] : q \in Replica}
  <1>1. S \subseteq 0 .. MaxTerm /\ S # {} /\ MaxTerm \in Nat
    BY ApiAssumption DEF TypeOK, OtherTypes
  <1>2. PICK t \in S : \A u \in S : u <= t
    BY <1>1, Greatest
  <1>3. /\ t \in 0 .. MaxTerm /\ (\E q \in Replica : term[q] = t)
        /\ \A q \in Replica : term[q] <= t
    BY <1>1, <1>2
  <1> HIDE DEF S
  <1> QED
    BY <1>3 DEF Newest

(* A call that registers or deregisters is one of a data plane.  *)
LEMMA CalledNext ==
  ASSUME Called, TypeOK, [Next]_vars PROVE Called'
  <1>1. CASE UNCHANGED <<op, dataplane>>
    BY <1>1 DEF Called
  <1>2. ASSUME NEW c \in Call, Arrive(c)
        PROVE  Called'
    <2>1. /\ \E o \in {"register", "deregister", "other"} : op' = [op EXCEPT ![c] = o]
          /\ \/ UNCHANGED dataplane /\ op' = [op EXCEPT ![c] = "other"]
             \/ \E d \in DataPlane : dataplane' = [dataplane EXCEPT ![c] = d]
      <3>1. ASSUME NEW r \in Replica, registrationHandler(c, r)
            PROVE  UNCHANGED dataplane /\ op' = [op EXCEPT ![c] = "other"]
        BY <3>1 DEF registrationHandler, Arrives
      <3>2. ASSUME NEW r \in Replica, NEW d \in DataPlane, CallApi(c, r, d)
            PROVE  /\ \E o \in {"register", "deregister", "other"} : op' = [op EXCEPT ![c] = o]
                   /\ dataplane' = [dataplane EXCEPT ![c] = d]
        BY <3>2 DEF CallApi, Arrives
      <3> QED
        BY <1>2, <3>1, <3>2 DEF Arrive
    <2>2. op \in [Call -> {"none", "register", "deregister", "other"}] /\ dataplane \in [Call -> DataPlane \cup {None}]
      BY DEF TypeOK, OtherTypes
    <2> QED
      BY <2>1, <2>2 DEF Called
  <1>3. ASSUME NEW c \in Call, Handle(c)
        PROVE  UNCHANGED <<op, dataplane>>
    BY <1>3 DEF Handle, CheckLeader, GetLeader, GetLeaderFatal, ServeOther, ServeDataplane, GetVersion,
                AddOrRemoveDataplane, GetHAProxyConfig, DisseminateHAProxyConfig
  <1>4. ASSUME NEW r \in Replica, Election(r) \/ Announced(r) \/ RestartHAProxy(r)
        PROVE  UNCHANGED <<op, dataplane>>
    BY <1>4 DEF Election, Announced, RestartHAProxy, startLeader, HearOfTerm, AppendEntries, ConnectToPeer, calls
  <1>5. ASSUME NEW r \in Replica, Main(r)
        PROVE  UNCHANGED <<op, dataplane>>
    BY <1>5 DEF Main, EstablishLeaderElectionMesh, UpdateLeadership, destroyStateFromPreviousElectionTerm,
                ReconstructState, ReconstructionFails, Reconstructed, StartNodeMonitoringLoop, calls
  <1>6. ASSUME NEW a \in Actor, Revise(a)
        PROVE  UNCHANGED <<op, dataplane>>
    BY <1>6 DEF Revise, StartTransaction, CommitTransaction, ReviseRegistrationServers, ReviseServer, calls
  <1> QED
    BY <1>1, <1>2, <1>3, <1>4, <1>5, <1>6 DEF Next, vars, calls

(* The names of a load balancer are still names when one has changed; and what
   becomes of an announcement, and of the versions that others hold.  *)
LEMMA NamesTypes ==
  ASSUME addressToName \in [Replica -> [DataPlane -> {"none", "server", "ghost"}]], NEW p, NEW n,
         p \in Replica => n \in [DataPlane -> {"none", "server", "ghost"}],
         addressToName' = [addressToName EXCEPT ![p] = n]
  PROVE  addressToName' \in [Replica -> [DataPlane -> {"none", "server", "ghost"}]]
  OBVIOUS

LEMMA AnnounceTypes ==
  ASSUME announceLeadership \in [Replica -> {"empty", "leader", "follower"}],
         announcing \in [Replica -> {"nothing", "leader", "follower"}],
         NEW r \in Replica, NEW x \in {"leader", "follower"}, Announce(r, x)
  PROVE  /\ announceLeadership' \in [Replica -> {"empty", "leader", "follower"}]
         /\ announcing' \in [Replica -> {"nothing", "leader", "follower"}]
  BY DEF Announce

LEMMA ValidTypes ==
  ASSUME valid \in [Actor -> BOOLEAN], NEW a, OthersFail(a) \/ UNCHANGED valid
  PROVE  valid' \in [Actor -> BOOLEAN]
  <1>1. \A b \in Actor : (valid[b] /\ place[b] # place[a]) \in BOOLEAN
    OBVIOUS
  <1> QED
    BY <1>1 DEF OthersFail

(* What the election and the main loops keep of the types.  *)
LEMMA ElectionTypes ==
  ASSUME TypeOK, NEW r \in Replica, Election(r) \/ Announced(r) \/ RestartHAProxy(r) \/ Main(r)
  PROVE  OtherTypes'
  <1> USE DEF TypeOK, OtherTypes, election, loop, storage, haproxy, calls, revision
  <1>a. ASSUME NEW x \in {"leader", "follower"}, Announce(r, x)
        PROVE  /\ announceLeadership' \in [Replica -> {"empty", "leader", "follower"}]
               /\ announcing' \in [Replica -> {"nothing", "leader", "follower"}]
    BY <1>a, AnnounceTypes
  <1>1. CASE startLeader(r)
    <2>1. term' \in [Replica -> 0 .. MaxTerm]
      <3>1. Newest + 1 \in 0 .. MaxTerm
        BY <1>1, NewestTerm, ApiAssumption DEF startLeader
      <3> QED
        BY <1>1, <3>1 DEF startLeader
    <2> QED
      BY <1>1, <1>a, <2>1 DEF startLeader
  <1>b. ASSUME NEW q \in Replica, becomeFollower(r, term[q])
        PROVE  /\ announceLeadership' \in [Replica -> {"empty", "leader", "follower"}]
               /\ announcing' \in [Replica -> {"nothing", "leader", "follower"}]
               /\ term' \in [Replica -> 0 .. MaxTerm] /\ state' \in [Replica -> {"Leader", "Follower"}]
    BY <1>a, <1>b DEF becomeFollower
  <1>2. ASSUME NEW q \in Replica, HearOfTerm(r, q)
        PROVE  OtherTypes'
    BY <1>2, <1>b DEF HearOfTerm
  <1>3. ASSUME NEW q \in Replica, AppendEntries(r, q)
        PROVE  OtherTypes'
    <2>1. leaderID' \in [Replica -> Replica \cup {None}]
      BY <1>3 DEF AppendEntries
    <2>2. CASE becomeFollower(r, term[q])
      BY <1>3, <1>b, <2>1, <2>2 DEF AppendEntries
    <2>3. CASE UNCHANGED <<term, state, announceLeadership, announcing>>
      BY <1>3, <2>1, <2>3 DEF AppendEntries
    <2> QED
      BY <1>3, <2>2, <2>3 DEF AppendEntries
  <1>4. ASSUME NEW q \in Replica, ConnectToPeer(r, q)
        PROVE  OtherTypes'
    BY <1>4 DEF ConnectToPeer
  <1>5. CASE Announced(r)
    BY <1>5 DEF Announced
  <1>6. CASE RestartHAProxy(r)
    BY <1>6 DEF RestartHAProxy
  <1>7. CASE EstablishLeaderElectionMesh(r) \/ UpdateLeadership(r) \/ Reconstructed(r)
    <2>1. CASE EstablishLeaderElectionMesh(r) \/ Reconstructed(r)
      BY <2>1 DEF EstablishLeaderElectionMesh, Reconstructed
    <2>2. CASE UpdateLeadership(r)
      BY <2>2 DEF UpdateLeadership
    <2> QED
      BY <1>7, <2>1, <2>2
  <1>8. CASE destroyStateFromPreviousElectionTerm(r)
    <2>1. wasLeaderBefore' \in [Replica -> BOOLEAN]
      BY <1>8 DEF destroyStateFromPreviousElectionTerm
    <2>2. monitors' \in [Replica -> 0 .. 1] /\ connections' \in [Replica -> SUBSET DataPlane]
      BY <1>8 DEF destroyStateFromPreviousElectionTerm
    <2> QED
      BY <1>8, <2>1, <2>2 DEF destroyStateFromPreviousElectionTerm
  <1>9. CASE ReconstructState(r)
    <2>1. connections' \in [Replica -> SUBSET DataPlane]
      BY <1>9 DEF ReconstructState
    <2>2. keep' \in [Actor -> SUBSET DataPlane]
      BY <1>9, <2>1 DEF ReconstructState
    <2> QED
      BY <1>9, <2>1, <2>2 DEF ReconstructState
  <1>10. CASE ReconstructionFails(r)
    BY <1>10 DEF ReconstructionFails, Fatal
  <1>11. CASE StartNodeMonitoringLoop(r)
    BY <1>11 DEF StartNodeMonitoringLoop
  <1> QED
    BY <1>1, <1>2, <1>3, <1>4, <1>5, <1>6, <1>7, <1>8, <1>9, <1>10, <1>11 DEF Election, Main

(* What the calls keep of them.  *)
LEMMA ApiTypes ==
  ASSUME TypeOK, Revisions, Called, NEW c \in Call, Arrive(c) \/ Handle(c)
  PROVE  OtherTypes'
  <1> USE DEF TypeOK, OtherTypes, election, loop, storage, haproxy, calls, revision
  <1>1. CASE Arrive(c)
    <2>1. /\ op' \in [Call -> {"none", "register", "deregister", "other"}]
          /\ dataplane' \in [Call -> DataPlane \cup {None}]
      <3>1. PICK o \in {"register", "deregister", "other"} : op' = [op EXCEPT ![c] = o]
        BY <1>1 DEF Arrive, registrationHandler, CallApi, Arrives
      <3>2. dataplane' = dataplane \/ \E d \in DataPlane : dataplane' = [dataplane EXCEPT ![c] = d]
        BY <1>1 DEF Arrive, registrationHandler, CallApi
      <3> QED
        BY <3>1, <3>2
    <2> QED
      BY <1>1, <2>1 DEF Arrive, registrationHandler, CallApi
  <1>2. CASE CheckLeader(c) \/ GetLeader(c) \/ ServeOther(c)
    BY <1>2 DEF CheckLeader, GetLeader, ServeOther
  <1>3. CASE GetLeaderFatal(c)
    BY <1>3 DEF GetLeaderFatal, Fatal
  <1>4. CASE ServeDataplane(c)
    <2>1. UNCHANGED <<election, loop, haproxy, op, dataplane, at, valid, keep, todo, edits, changes, target>>
      BY <1>4 DEF ServeDataplane
    <2>2. disturbed' \in BOOLEAN
      BY <1>4 DEF ServeDataplane
    <2>3. connections' \in [Replica -> SUBSET DataPlane] /\ database' \in SUBSET DataPlane
      <3>1. CASE UNCHANGED storage
        BY <3>1
      <3>2. CASE /\ op[c] \in {"register", "deregister"}
                 /\ connections' = [connections EXCEPT ![at[c]] =
                                      IF op[c] = "register" THEN @ \cup {dataplane[c]} ELSE @ \ {dataplane[c]}]
                 /\ \/ database' = database \cup {dataplane[c]} \/ database' = database \ {dataplane[c]}
                    \/ database' = database
        <4>1. dataplane[c] \in DataPlane
          BY <3>2 DEF Called
        <4>2. connections \in [Replica -> SUBSET DataPlane] /\ database \in SUBSET DataPlane
          OBVIOUS
        <4> HIDE DEF TypeOK, OtherTypes
        <4>3. connections' \in [Replica -> SUBSET DataPlane]
          BY <3>2, <4>1, <4>2
        <4> QED
          BY <3>2, <4>1, <4>2, <4>3
      <3>3. ASSUME op[c] \in IF dataplane[c] \in connections[at[c]] THEN {"deregister"} ELSE {"register", "deregister"}
            PROVE  op[c] \in {"register", "deregister"}
        BY <3>3
      <3> QED
        BY <1>4, <3>1, <3>2, <3>3 DEF ServeDataplane
    <2> QED
      BY <2>1, <2>2, <2>3
  <1>5. CASE GetVersion(c)
    BY <1>5 DEF GetVersion
  <1>6. CASE AddOrRemoveDataplane(c)
    <2>1. UNCHANGED <<election, loop, storage, op, dataplane, at, place, keep, todo, edits, changes, target, disturbed>>
      BY <1>6 DEF AddOrRemoveDataplane
    <2>2. valid' \in [Actor -> BOOLEAN]
      <3>1. OthersFail(c) \/ UNCHANGED valid
        BY <1>6 DEF AddOrRemoveDataplane
      <3> QED
        BY <3>1, ValidTypes
    <2>3. PICK n : /\ addressToName' = [addressToName EXCEPT ![at[c]] = n]
                   /\ \/ n = addressToName[at[c]]
                      \/ \E x \in {"none", "server", "ghost"} : n = [addressToName[at[c]] EXCEPT ![dataplane[c]] = x]
                      \/ \E x, y \in {"none", "server", "ghost"} :
                           n = [[addressToName[at[c]] EXCEPT ![dataplane[c]] = x] EXCEPT ![dataplane[c]] = y]
      BY <1>6 DEF AddOrRemoveDataplane, addServer, removeServerByName
    <2>4. at[c] \in Replica
      BY <1>6 DEF Revisions, CallOccupied, AddOrRemoveDataplane, Goes
    <2>5. n \in [DataPlane -> {"none", "server", "ghost"}]
      <3>1. addressToName[at[c]] \in [DataPlane -> {"none", "server", "ghost"}]
        BY <2>4
      <3> HIDE DEF TypeOK, OtherTypes
      <3> QED
        BY <2>3, <3>1
    <2>6. addressToName' \in [Replica -> [DataPlane -> {"none", "server", "ghost"}]]
      BY <2>3, <2>5, NamesTypes
    <2> QED
      BY <2>1, <2>2, <2>6
  <1>7. CASE GetHAProxyConfig(c)
    <2>1. at[c] \in Replica
      BY <1>7 DEF Revisions, CallOccupied, GetHAProxyConfig
    <2> QED
      BY <1>7, <2>1 DEF GetHAProxyConfig
  <1>8. CASE DisseminateHAProxyConfig(c)
    <2>1. UNCHANGED <<election, loop, storage, haproxy, op, dataplane, at, valid, todo, edits, changes>>
      BY <1>8 DEF DisseminateHAProxyConfig
    <2>2. keep' \in [Actor -> SUBSET DataPlane] /\ disturbed' \in BOOLEAN
      BY <1>8 DEF DisseminateHAProxyConfig
    <2> QED
      BY <2>1, <2>2
  <1> QED
    BY <1>1, <1>2, <1>3, <1>4, <1>5, <1>6, <1>7, <1>8 DEF Handle

(* What the revisions keep of them.  *)
LEMMA ReviseTypes ==
  ASSUME TypeOK, NEW a \in Actor, Revise(a)
  PROVE  OtherTypes'
  <1> USE DEF TypeOK, OtherTypes, election, loop, storage, haproxy, calls, revision
  <1>1. CASE StartTransaction(a)
    <2>1. todo' \in [Actor -> SUBSET DataPlane]
      BY <1>1 DEF StartTransaction, Existing
    <2> QED
      BY <1>1, <2>1 DEF StartTransaction
  <1>2. ASSUME NEW d \in DataPlane, ReviseServer(a, d)
        PROVE  OtherTypes'
    <2>1. PICK n : /\ addressToName' = [addressToName EXCEPT ![place[a]] = n]
                   /\ \/ n = addressToName[place[a]]
                      \/ \E x \in {"none", "server"} : n = [addressToName[place[a]] EXCEPT ![d] = x]
      BY <1>2 DEF ReviseServer, addServer, removeServerByName
    <2>2. addressToName' \in [Replica -> [DataPlane -> {"none", "server", "ghost"}]]
      <3>1. ASSUME place[a] \in Replica
            PROVE  n \in [DataPlane -> {"none", "server", "ghost"}]
        <4>1. addressToName[place[a]] \in [DataPlane -> {"none", "server", "ghost"}]
          BY <3>1
        <4> HIDE DEF TypeOK, OtherTypes
        <4> QED
          BY <2>1, <4>1
      <3> QED
        BY <2>1, <3>1, NamesTypes
    <2>3. todo' \in [Actor -> SUBSET DataPlane]
      BY <1>2 DEF ReviseServer
    <2> QED
      BY <1>2, <2>2, <2>3 DEF ReviseServer
  <1>3. CASE CommitTransaction(a)
    <2>1. valid' \in [Actor -> BOOLEAN]
      <3>1. OthersFail(a) \/ UNCHANGED valid
        BY <1>3 DEF CommitTransaction
      <3> QED
        BY <3>1, ValidTypes
    <2>2. \/ addressToName' = addressToName
          \/ addressToName' = [addressToName EXCEPT ![place[a]] = [d \in DataPlane |->
               IF edits[a][d] = "add" /\ @[d] = "server" THEN "ghost" ELSE @[d]]]
      BY <1>3 DEF CommitTransaction
    <2>3. addressToName' \in [Replica -> [DataPlane -> {"none", "server", "ghost"}]]
      <3> DEFINE n == [d \in DataPlane |-> IF edits[a][d] = "add" /\ addressToName[place[a]][d] = "server"
                                           THEN "ghost" ELSE addressToName[place[a]][d]]
      <3>1. addressToName' = addressToName \/ addressToName' = [addressToName EXCEPT ![place[a]] = n]
        BY <2>2
      <3>2. ASSUME place[a] \in Replica
            PROVE  n \in [DataPlane -> {"none", "server", "ghost"}]
        <4>1. addressToName[place[a]] \in [DataPlane -> {"none", "server", "ghost"}]
          BY <3>2
        <4> HIDE DEF TypeOK, OtherTypes
        <4> QED
          BY <4>1
      <3> HIDE DEF n
      <3> QED
        BY <3>1, <3>2, NamesTypes
    <2> QED
      BY <1>3, <2>1, <2>3 DEF CommitTransaction
  <1>4. CASE ReviseRegistrationServers(a)
    BY <1>4 DEF ReviseRegistrationServers, OthersFail
  <1> QED
    BY <1>1, <1>2, <1>3, <1>4 DEF Revise

(* The states that elections, main loops, calls and revisions reach are of
   the declared types: in particular terms and monitoring loops stay within
   their bounds, and only data planes are registered.  *)
THEOREM TypeCorrect == Spec => [](TypeOK /\ Revisions /\ Called)
  <1>1. Init => TypeOK /\ Revisions /\ Called
    <2> SUFFICES ASSUME Init
                 PROVE  TypeOK /\ Revisions /\ Called
      OBVIOUS
    <2>1. Revisions /\ RevisionTypes
      BY RevisionsInit DEF Revisions
    <2>2. OtherTypes
      <3>1. term \in [Replica -> 0 .. MaxTerm] /\ monitors \in [Replica -> 0 .. 1]
        BY ApiAssumption DEF Init
      <3>2. valid \in [Actor -> BOOLEAN] /\ disturbed \in BOOLEAN /\ wasLeaderBefore \in [Replica -> BOOLEAN]
        BY DEF Init
      <3> QED
        BY <3>1, <3>2 DEF Init, OtherTypes
    <2>3. Called
      BY DEF Init, Called
    <2> QED
      BY <2>1, <2>2, <2>3 DEF TypeOK
  <1>2. TypeOK /\ Revisions /\ Called /\ [Next]_vars => (TypeOK /\ Revisions /\ Called)'
    <2> SUFFICES ASSUME TypeOK, Revisions, Called, [Next]_vars
                 PROVE  (TypeOK /\ Revisions /\ Called)'
      OBVIOUS
    <2>1. Revisions' /\ RevisionTypes'
      BY RevisionsNext DEF Revisions
    <2>3. OtherTypes'
      <3>1. CASE UNCHANGED vars
        BY <3>1 DEF vars, TypeOK, OtherTypes, election, loop, storage, haproxy, calls, revision
      <3> QED
        BY <3>1, ElectionTypes, ApiTypes, ReviseTypes DEF Next
    <2> QED
      BY <2>1, <2>3, CalledNext DEF TypeOK
  <1> QED
    BY <1>1, <1>2, PTL DEF Spec

(* A step that changes the election and the main loop of one replica.  *)
Only(r) ==
  \A q \in Replica \ {r} :
    /\ term'[q] = term[q] /\ state'[q] = state[q] /\ main'[q] = main[q]
    /\ announceLeadership'[q] = announceLeadership[q] /\ announcing'[q] = announcing[q]
    /\ wasLeaderBefore'[q] = wasLeaderBefore[q]

(* Such a step keeps the leaderships when the replica stays the leader it was,
   or is the leader of a term that is later than all.  *)
LEMMA OneReplica ==
  ASSUME TypeOK, Leaderships, NEW r \in Replica, Only(r),
         wasLeaderBefore'[r] => main'[r] \in {"select", "deposed", "down"},
         InCharge(r)' /\ announceLeadership'[r] = "empty" => announcing'[r] = "nothing" /\ IsLeader(r)',
         Elected(r)' => \/ Elected(r) /\ term'[r] = term[r]
                        \/ \A q \in Replica : term[q] # term'[r]
  PROVE  Leaderships'
  <1>1. ASSUME NEW q \in Replica \ {r}
        PROVE  (Elected(q)' <=> Elected(q)) /\ (InCharge(q)' <=> InCharge(q)) /\ (IsLeader(q)' <=> IsLeader(q))
    BY <1>1 DEF Only, Elected, InCharge, IsLeader
  <1>2. \A q \in Replica : wasLeaderBefore'[q] => main'[q] \in {"select", "deposed", "down"}
    BY DEF Only, Leaderships
  <1>3. \A q \in Replica :
          InCharge(q)' /\ announceLeadership'[q] = "empty" => announcing'[q] = "nothing" /\ IsLeader(q)'
    BY <1>1 DEF Only, Leaderships
  <1>4. ASSUME NEW p \in Replica, NEW q \in Replica, Elected(p)', Elected(q)', term'[p] = term'[q]
        PROVE  p = q
    <2>1. CASE p # r /\ q # r
      BY <1>1, <1>4, <2>1 DEF Only, Leaderships
    <2>2. CASE p = r /\ q # r
      BY <1>1, <1>4, <2>2 DEF Only, Leaderships
    <2>3. CASE p # r /\ q = r
      BY <1>1, <1>4, <2>3 DEF Only, Leaderships
    <2> QED
      BY <2>1, <2>2, <2>3
  <1> QED
    BY <1>2, <1>3, <1>4 DEF Leaderships

(* An announcement fills the channel, or waits while it is full; one that the
   replica follows ends its leadership.  *)
LEMMA AnnounceEffect ==
  ASSUME TypeOK, NEW r \in Replica, NEW x \in {"leader", "follower"}, Announce(r, x)
  PROVE  /\ announceLeadership'[r] # "empty"
         /\ \A q \in Replica \ {r} : announceLeadership'[q] = announceLeadership[q] /\ announcing'[q] = announcing[q]
         /\ announceLeadership[r] # "empty" => announcing'[r] = x
  BY DEF Announce, TypeOK, OtherTypes

LEMMA FollowerEffect ==
  ASSUME TypeOK, Leaderships, NEW r \in Replica, NEW q \in Replica, becomeFollower(r, term[q]),
         UNCHANGED <<main, wasLeaderBefore>>
  PROVE  Leaderships' /\ announceLeadership'[r] # "empty" /\ Only(r)
  <1>1. /\ announceLeadership'[r] # "empty"
        /\ \A p \in Replica \ {r} : announceLeadership'[p] = announceLeadership[p] /\ announcing'[p] = announcing[p]
        /\ announceLeadership[r] # "empty" => announcing'[r] = "follower"
    BY AnnounceEffect DEF becomeFollower
  <1>2. \A p \in Replica \ {r} : term'[p] = term[p] /\ state'[p] = state[p]
    BY DEF becomeFollower, TypeOK, OtherTypes
  <1>3. ~Elected(r)'
    <2>1. announceLeadership[r] = "empty" => state'[r] = "Follower"
      BY DEF becomeFollower, TypeOK, OtherTypes
    <2> QED
      BY <1>1, <2>1 DEF Elected, IsLeader
  <1>4. Only(r)
    BY <1>1, <1>2 DEF Only
  <1>5. wasLeaderBefore'[r] => main'[r] \in {"select", "deposed", "down"}
    BY DEF Leaderships
  <1> QED
    BY <1>1, <1>3, <1>4, <1>5, OneReplica

(* The election: a leader is that of a new term, or hears of a later one.  *)
LEMMA ElectionKeeps ==
  ASSUME TypeOK, Leaderships, NEW r \in Replica, Election(r) \/ Announced(r)
  PROVE  /\ Leaderships' /\ Only(r)
         /\ announceLeadership'[r] # "empty" \/ UNCHANGED <<term, state, announceLeadership, announcing>>
  <1>0. UNCHANGED <<main, wasLeaderBefore>>
    BY DEF Election, Announced, startLeader, HearOfTerm, AppendEntries, ConnectToPeer, loop
  <1>w. wasLeaderBefore'[r] => main'[r] \in {"select", "deposed", "down"}
    BY <1>0 DEF Leaderships
  <1>1. CASE startLeader(r)
    <2>1. /\ announceLeadership'[r] # "empty"
          /\ \A p \in Replica \ {r} : announceLeadership'[p] = announceLeadership[p] /\ announcing'[p] = announcing[p]
      BY <1>1, AnnounceEffect DEF startLeader
    <2>2. /\ \A p \in Replica \ {r} : term'[p] = term[p] /\ state'[p] = state[p]
          /\ term'[r] = Newest + 1
      BY <1>1 DEF startLeader, TypeOK, OtherTypes
    <2>3. \A q \in Replica : term[q] # term'[r]
      <3>1. \A q \in Replica : term[q] \in Nat /\ term[q] <= Newest /\ Newest \in Nat
        BY NewestTerm, ApiAssumption DEF TypeOK, OtherTypes
      <3> QED
        BY <2>2, <3>1
    <2>4. Only(r)
      BY <1>0, <2>1, <2>2 DEF Only
    <2> QED
      BY <1>w, <2>1, <2>3, <2>4, OneReplica
  <1>2. ASSUME NEW q \in Replica, HearOfTerm(r, q)
        PROVE  Leaderships' /\ Only(r) /\ announceLeadership'[r] # "empty"
    BY <1>0, <1>2, FollowerEffect DEF HearOfTerm
  <1>3. CASE UNCHANGED <<term, state, announceLeadership, announcing>>
    <2>1. Only(r)
      BY <1>0, <1>3 DEF Only
    <2>2. (Elected(r)' <=> Elected(r)) /\ (InCharge(r)' <=> InCharge(r)) /\ (IsLeader(r)' <=> IsLeader(r))
      BY <1>0, <1>3 DEF Elected, InCharge, IsLeader
    <2>3. InCharge(r)' /\ announceLeadership'[r] = "empty" => announcing'[r] = "nothing" /\ IsLeader(r)'
      BY <1>3, <2>2 DEF Leaderships
    <2>4. Leaderships'
      BY <1>w, <1>3, <2>1, <2>2, <2>3, OneReplica
    <2> QED
      BY <1>3, <2>1, <2>4
  <1>4. ASSUME NEW q \in Replica, AppendEntries(r, q)
        PROVE  \/ Leaderships' /\ Only(r) /\ announceLeadership'[r] # "empty"
               \/ UNCHANGED <<term, state, announceLeadership, announcing>>
    BY <1>0, <1>4, FollowerEffect DEF AppendEntries
  <1>5. ASSUME NEW q \in Replica, ConnectToPeer(r, q)
        PROVE  UNCHANGED <<term, state, announceLeadership, announcing>>
    BY <1>5 DEF ConnectToPeer
  <1>6. CASE Announced(r)
    <2>1. /\ announcing[r] \in {"leader", "follower"} /\ term' = term
          /\ announceLeadership' = [announceLeadership EXCEPT ![r] = announcing[r]]
          /\ announcing' = [announcing EXCEPT ![r] = "nothing"]
          /\ state' = IF announcing[r] = "follower" THEN [state EXCEPT ![r] = "Follower"] ELSE state
      BY <1>6 DEF Announced, TypeOK, OtherTypes
    <2>2. Only(r)
      BY <1>0, <2>1 DEF Only, TypeOK, OtherTypes
    <2>3. announceLeadership'[r] # "empty"
      BY <2>1 DEF TypeOK, OtherTypes
    <2>4. Elected(r)' => Elected(r)
      BY <2>1 DEF Elected, IsLeader, TypeOK, OtherTypes
    <2> QED
      BY <1>w, <2>1, <2>2, <2>3, <2>4, OneReplica
  <1> QED
    BY <1>1, <1>2, <1>3, <1>4, <1>5, <1>6 DEF Election

(* The main loop: it takes charge when it finds itself the leader, and is not
   in charge any more when it has taken a word from the channel.  *)
LEMMA MainKeeps ==
  ASSUME TypeOK, Leaderships, NEW r \in Replica, Main(r)
  PROVE  /\ Leaderships' /\ Only(r) /\ term' = term /\ announcing' = announcing
         /\ ReconstructionFails(r) \/ UNCHANGED state
         /\ InCharge(r)' => ReconstructState(r) \/ (InCharge(r) /\ announceLeadership'[r] = announceLeadership[r])
  <1>t. /\ main \in [Replica -> {"connect", "select", "elected", "deposed", "reconstruct", "revise",
                                 "monitor", "down"}]
        /\ wasLeaderBefore \in [Replica -> BOOLEAN] /\ state \in [Replica -> {"Leader", "Follower"}]
        /\ announceLeadership \in [Replica -> {"empty", "leader", "follower"}]
        /\ wasLeaderBefore[r] => main[r] \in {"select", "deposed", "down"}
        /\ InCharge(r) /\ announceLeadership[r] = "empty" => announcing[r] = "nothing" /\ IsLeader(r)
    BY DEF TypeOK, RevisionTypes, OtherTypes, Leaderships
  <1> DEFINE Kept == /\ Only(r) /\ term' = term /\ announcing' = announcing
                     /\ Elected(r)' => Elected(r)
                     /\ ReconstructionFails(r) \/ UNCHANGED state
                     /\ wasLeaderBefore'[r] => main'[r] \in {"select", "deposed", "down"}
                     /\ InCharge(r)' => \/ ReconstructState(r) /\ announcing'[r] = "nothing" /\ IsLeader(r)'
                                        \/ InCharge(r) /\ announceLeadership'[r] = announceLeadership[r] /\ UNCHANGED state
  <1> USE DEF Only, Elected, IsLeader, InCharge, election
  <1>1. ASSUME EstablishLeaderElectionMesh(r)
        PROVE  Kept
    BY <1>t, <1>1 DEF EstablishLeaderElectionMesh, Loop
  <1>2. ASSUME UpdateLeadership(r)
        PROVE  Kept
    <2>1. /\ main[r] = "select" /\ UNCHANGED <<term, state, announcing, wasLeaderBefore>>
          /\ announceLeadership' = [announceLeadership EXCEPT ![r] = "empty"]
          /\ \E to \in {"elected", "deposed", "select"} :
               main' = [main EXCEPT ![r] = to] /\ (wasLeaderBefore[r] => to = "deposed")
      BY <1>2 DEF UpdateLeadership, Loop
    <2> QED
      BY <1>t, <2>1
  <1>3. ASSUME destroyStateFromPreviousElectionTerm(r)
        PROVE  Kept
    <2>1. /\ UNCHANGED <<term, state, announcing, announceLeadership>>
          /\ \/ main[r] = "elected" /\ main' = [main EXCEPT ![r] = "reconstruct"] /\ UNCHANGED wasLeaderBefore
             \/ /\ main[r] = "deposed" /\ main' = [main EXCEPT ![r] = "select"]
                /\ wasLeaderBefore' = [wasLeaderBefore EXCEPT ![r] = FALSE]
      BY <1>3 DEF destroyStateFromPreviousElectionTerm, Loop
    <2> QED
      BY <1>t, <2>1
  <1>4. ASSUME ReconstructState(r)
        PROVE  Kept
    <2>1. /\ main[r] = "reconstruct" /\ main' = [main EXCEPT ![r] = "revise"]
          /\ UNCHANGED <<term, state, announcing, announceLeadership, wasLeaderBefore>>
          /\ announcing[r] = "nothing" /\ state[r] = "Leader"
      BY <1>4 DEF ReconstructState, Loop, MuFree
    <2> QED
      BY <1>t, <1>4, <2>1
  <1>5. ASSUME ReconstructionFails(r)
        PROVE  Kept
    <2>1. /\ main' = [main EXCEPT ![r] = "down"] /\ state' = [state EXCEPT ![r] = "Follower"]
          /\ UNCHANGED <<term, announcing, announceLeadership, wasLeaderBefore>>
      BY <1>5 DEF ReconstructionFails, Fatal
    <2> QED
      BY <1>t, <1>5, <2>1
  <1>6. ASSUME Reconstructed(r)
        PROVE  Kept
    BY <1>t, <1>6 DEF Reconstructed, Loop
  <1>7. ASSUME StartNodeMonitoringLoop(r)
        PROVE  Kept
    BY <1>t, <1>7 DEF StartNodeMonitoringLoop, Loop
  <1>8. Kept
    BY <1>1, <1>2, <1>3, <1>4, <1>5, <1>6, <1>7 DEF Main
  <1> HIDE DEF Only, Elected, InCharge
  <1>9. InCharge(r)' /\ announceLeadership'[r] = "empty" => announcing'[r] = "nothing" /\ IsLeader(r)'
    BY <1>t, <1>8
  <1>10. Leaderships'
    BY <1>8, <1>9, OneReplica
  <1> QED
    BY <1>8, <1>10

(* Terms only grow.  *)
LEMMA TermsGrow ==
  ASSUME TypeOK, NEW r \in Replica, Election(r) \/ Announced(r)
  PROVE  \A q \in Replica : term[q] <= term'[q]
  <1>t. \A q \in Replica : term[q] \in Nat
    BY ApiAssumption DEF TypeOK, OtherTypes
  <1>1. CASE UNCHANGED term
    BY <1>t, <1>1
  <1>2. CASE startLeader(r)
    <2>1. Newest \in Nat /\ term[r] <= Newest
      BY NewestTerm, ApiAssumption DEF TypeOK, OtherTypes
    <2>2. \A q \in Replica : term'[q] = IF q = r THEN Newest + 1 ELSE term[q]
      BY <1>2 DEF startLeader, TypeOK, OtherTypes
    <2> QED
      BY <1>t, <2>1, <2>2
  <1>3. ASSUME NEW q \in Replica, term[q] > term[r], becomeFollower(r, term[q])
        PROVE  \A p \in Replica : term[p] <= term'[p]
    BY <1>t, <1>3 DEF becomeFollower, TypeOK, OtherTypes
  <1> QED
    BY <1>1, <1>2, <1>3 DEF Election, Announced, HearOfTerm, AppendEntries, ConnectToPeer

(* The steps of calls, revisions and restarts are no steps of the election or
   of the main loops, but for a call that ends the process.  *)
LEMMA OthersKeep ==
  ASSUME NEW c, NEW r, NEW a,
         \/ Arrive(c) \/ (Handle(c) /\ ~GetLeaderFatal(c)) \/ RestartHAProxy(r) \/ Revise(a)
  PROVE  UNCHANGED <<election, loop>>
  <1>1. CASE Arrive(c)
    BY <1>1 DEF Arrive, registrationHandler, CallApi
  <1>2. CASE Handle(c) /\ ~GetLeaderFatal(c)
    BY <1>2 DEF Handle, CheckLeader, GetLeader, ServeOther, ServeDataplane, GetVersion, AddOrRemoveDataplane,
                GetHAProxyConfig, DisseminateHAProxyConfig
  <1>3. CASE RestartHAProxy(r)
    BY <1>3 DEF RestartHAProxy
  <1>4. CASE Revise(a)
    BY <1>4 DEF Revise, StartTransaction, CommitTransaction, ReviseRegistrationServers, ReviseServer
  <1> QED
    BY <1>1, <1>2, <1>3, <1>4

LEMMA LeadershipsNext ==
  ASSUME TypeOK, Revisions, Leaderships, [Next]_vars
  PROVE  Leaderships'
  <1>1. ASSUME UNCHANGED <<election, loop>>
        PROVE  Leaderships'
    BY <1>1 DEF Leaderships, Elected, InCharge, IsLeader, election, loop
  <1>2. ASSUME NEW r \in Replica, Election(r) \/ Announced(r) \/ Main(r)
        PROVE  Leaderships'
    BY <1>2, ElectionKeeps, MainKeeps
  <1>3. ASSUME NEW c \in Call, GetLeaderFatal(c)
        PROVE  Leaderships'
    <2>1. /\ UNCHANGED <<term, announceLeadership, announcing, wasLeaderBefore>>
          /\ main' = [main EXCEPT ![at[c]] = "down"] /\ state' = [state EXCEPT ![at[c]] = "Follower"]
      BY <1>3 DEF GetLeaderFatal, Fatal
    <2>2. PICK r \in Replica : r = at[c]
      BY <1>3 DEF GetLeaderFatal, Revisions, CallOccupied
    <2>3. main'[r] = "down" /\ state'[r] = "Follower"
      BY <2>1, <2>2 DEF TypeOK, RevisionTypes, OtherTypes
    <2>4. Only(r)
      BY <2>1, <2>2 DEF Only, TypeOK, RevisionTypes, OtherTypes
    <2>5. ~Elected(r)' /\ ~InCharge(r)'
      BY <2>3 DEF Elected, IsLeader, InCharge
    <2> QED
      BY <2>2, <2>3, <2>4, <2>5, OneReplica
  <1>4. CASE UNCHANGED vars
    BY <1>1, <1>4 DEF vars
  <1> QED
    BY <1>1, <1>2, <1>3, <1>4, OthersKeep DEF Next

(* The election: what is announced waits behind what was announced before.  *)
LEMMA ElectionHeard ==
  ASSUME TypeOK, NEW r \in Replica, Heard(r), Election(r) \/ Announced(r)
  PROVE  Heard(r)' /\ UNCHANGED <<main, monitors, wasLeaderBefore>>
  <1>t. /\ announceLeadership \in [Replica -> {"empty", "leader", "follower"}]
        /\ announcing \in [Replica -> {"nothing", "leader", "follower"}]
        /\ state \in [Replica -> {"Leader", "Follower"}]
    BY DEF TypeOK, OtherTypes
  <1>0. UNCHANGED <<main, monitors, wasLeaderBefore>>
    BY DEF Election, Announced, startLeader, HearOfTerm, AppendEntries, ConnectToPeer, loop
  <1> USE DEF Heard, Acts, InCharge, IsLeader
  <1>1. CASE startLeader(r)
    BY <1>t, <1>0, <1>1 DEF startLeader, MuFree, Announce
  <1>2. ASSUME NEW x, becomeFollower(r, x), announcing[r] = "nothing"
        PROVE  Heard(r)'
    BY <1>t, <1>0, <1>2 DEF becomeFollower, Announce
  <1>3. CASE UNCHANGED <<state, announceLeadership, announcing>>
    BY <1>0, <1>3
  <1>4. CASE Announced(r)
    BY <1>t, <1>0, <1>4 DEF Announced
  <1> HIDE DEF Heard
  <1> QED
    BY <1>0, <1>1, <1>2, <1>3, <1>4 DEF Election, HearOfTerm, AppendEntries, ConnectToPeer, MuFree

(* The main loop: it begins to act for a leader when it has heard of the
   leadership, and stops when it has heard of its end.  *)
LEMMA MainHeard ==
  ASSUME TypeOK, Leaderships, NEW r \in Replica, Heard(r), Main(r)
  PROVE  /\ main'[r] = "down" \/ Heard(r)'
         /\ \A q \in Replica \ {r} : monitors'[q] = monitors[q]
  <1>t. /\ announceLeadership \in [Replica -> {"empty", "leader", "follower"}]
        /\ announcing \in [Replica -> {"nothing", "leader", "follower"}]
        /\ main \in [Replica -> {"connect", "select", "elected", "deposed", "reconstruct", "revise",
                                 "monitor", "down"}]
        /\ wasLeaderBefore \in [Replica -> BOOLEAN] /\ monitors \in [Replica -> 0 .. 1]
        /\ wasLeaderBefore[r] => main[r] \in {"select", "deposed", "down"}
        /\ InCharge(r) /\ announceLeadership[r] = "empty" => announcing[r] = "nothing" /\ IsLeader(r)
    BY DEF TypeOK, RevisionTypes, OtherTypes, Leaderships
  <1> USE DEF Heard, Acts, InCharge, IsLeader, election, Loop
  <1>1. CASE EstablishLeaderElectionMesh(r)
    BY <1>t, <1>1 DEF EstablishLeaderElectionMesh
  <1>2. CASE UpdateLeadership(r)
    BY <1>t, <1>2 DEF UpdateLeadership
  <1>3. CASE destroyStateFromPreviousElectionTerm(r)
    BY <1>t, <1>3 DEF destroyStateFromPreviousElectionTerm
  <1>4. CASE ReconstructState(r)
    BY <1>t, <1>4 DEF ReconstructState
  <1>5. CASE ReconstructionFails(r)
    BY <1>t, <1>5 DEF ReconstructionFails, Fatal
  <1>6. CASE Reconstructed(r)
    BY <1>t, <1>6 DEF Reconstructed
  <1>7. CASE StartNodeMonitoringLoop(r)
    BY <1>t, <1>7 DEF StartNodeMonitoringLoop
  <1> HIDE DEF Heard
  <1> QED
    BY <1>1, <1>2, <1>3, <1>4, <1>5, <1>6, <1>7 DEF Main

LEMMA SuccessionNext ==
  ASSUME TypeOK, Revisions, Leaderships, Succession, [Next]_vars
  PROVE  Succession'
  <1>1. ASSUME UNCHANGED <<election, loop>>
        PROVE  Succession'
    BY <1>1 DEF Succession, Heard, Acts, InCharge, IsLeader, election, loop
  <1>2. ASSUME NEW r \in Replica, Only(r), \A q \in Replica \ {r} : monitors'[q] = monitors[q],
               main'[r] = "down" \/ Heard(r)'
        PROVE  Succession'
    BY <1>2 DEF Only, Succession, Heard, Acts, InCharge, IsLeader
  <1>3. ASSUME NEW r \in Replica, Election(r) \/ Announced(r)
        PROVE  Succession'
    <2>1. CASE main[r] = "down"
      BY <1>3, <2>1, <1>2, ElectionKeeps DEF Election, Announced, startLeader, HearOfTerm, AppendEntries,
                                             ConnectToPeer, MuFree, loop
    <2>2. CASE Heard(r)
      BY <1>3, <2>2, <1>2, ElectionKeeps, ElectionHeard
    <2> QED
      BY <2>1, <2>2 DEF Succession
  <1>4. ASSUME NEW r \in Replica, Main(r)
        PROVE  Succession'
    <2>1. main[r] # "down"
      BY <1>4 DEF Main, EstablishLeaderElectionMesh, UpdateLeadership, destroyStateFromPreviousElectionTerm,
                  ReconstructState, ReconstructionFails, Reconstructed, StartNodeMonitoringLoop, Loop
    <2> QED
      BY <1>2, <1>4, <2>1, MainKeeps, MainHeard DEF Succession
  <1>5. ASSUME NEW c \in Call, GetLeaderFatal(c)
        PROVE  Succession'
    <2>1. /\ UNCHANGED <<term, announceLeadership, announcing, wasLeaderBefore, monitors>>
          /\ main' = [main EXCEPT ![at[c]] = "down"] /\ state' = [state EXCEPT ![at[c]] = "Follower"]
      BY <1>5 DEF GetLeaderFatal, Fatal
    <2>2. PICK r \in Replica : r = at[c]
      BY <1>5 DEF GetLeaderFatal, Revisions, CallOccupied
    <2>3. main'[r] = "down" /\ Only(r)
      BY <2>1, <2>2 DEF Only, TypeOK, RevisionTypes, OtherTypes
    <2> QED
      BY <1>2, <2>1, <2>3
  <1>6. CASE UNCHANGED vars
    BY <1>1, <1>6 DEF vars
  <1> QED
    BY <1>1, <1>3, <1>4, <1>5, <1>6, OthersKeep DEF Next

(* In the quiet between announcements exactly the leader monitors the nodes,
   for any number of replicas and terms: whatever is won and lost while a main
   loop rebuilds its state, an announcement is neither lost nor overtaken
   (startLeader, becomeFollower, SetCurrentControlPlaneLeader).  *)
THEOREM ExactlyLeadersMonitor == Spec => []LeadersMonitor
  <1>1. Init => Leaderships /\ Succession
    BY DEF Init, Leaderships, Succession, Heard, Acts, InCharge, Elected, IsLeader
  <1>2. TypeOK /\ Revisions /\ Leaderships /\ Succession /\ [Next]_vars => (Leaderships /\ Succession)'
    BY LeadershipsNext, SuccessionNext
  <1>3. TypeOK /\ Succession => LeadersMonitor
    <2> SUFFICES ASSUME TypeOK, Succession, NEW r \in Replica,
                        main[r] = "select", announceLeadership[r] = "empty", announcing[r] = "nothing"
                 PROVE  monitors[r] = 1 <=> IsLeader(r)
      BY DEF LeadersMonitor
    <2>1. Heard(r) /\ (Acts(r) <=> wasLeaderBefore[r])
      BY DEF Succession, Acts, InCharge
    <2>2. IsLeader(r) <=> wasLeaderBefore[r]
      BY <2>1 DEF Heard
    <2>3. CASE wasLeaderBefore[r]
      BY <2>1, <2>2, <2>3 DEF Heard
    <2>4. CASE ~wasLeaderBefore[r]
      <3>1. monitors[r] = 0
        BY <2>1, <2>4 DEF Heard
      <3> QED
        BY <2>2, <2>4, <3>1
    <2> QED
      BY <2>3, <2>4
  <1> QED
    BY <1>1, <1>2, <1>3, TypeCorrect, PTL DEF Spec

-----------------------------------------------------------------------------
(* The parts of Agreement: the leader knows the database, and one actor at a
   time makes the load balancers agree with it.  *)
AllNamed == \A p \in Replica : \A d \in DataPlane : Named(p, d)
AllAgree == \A p \in Replica : \A d \in DataPlane : Agrees(p, d)

Current ==
  /\ \A r \in Replica : main[r] # "down" /\ (main[r] = "reconstruct" => connections[r] = {})
  /\ \A r \in Replica : UpToDate(r) => connections[r] = database

Balanced ==
  /\ \A a, b \in Busy : a = b
  /\ \A a \in Busy : Changing(a)
  /\ Busy = {} => AllNamed /\ AllAgree

LEMMA AgreementParts == Agreement <=> (~disturbed => Current /\ Balanced)
  BY DEF Agreement, Current, Balanced, AllNamed, AllAgree

LEMMA AgreementPartsNext == Agreement' <=> (~disturbed' => Current' /\ Balanced')
  BY DEF Agreement, Current, Balanced, AllNamed, AllAgree

(* A step that changes nothing of what the busy actor has to do.  *)
LEMMA BalancedFrame ==
  ASSUME Balanced,
         UNCHANGED <<database, addressToName, backend, step, place, valid, keep, todo, edits, target>>,
         \A c \in Call :
           pc[c] \in {"edit", "config", "disseminate"} \/ pc'[c] \in {"edit", "config", "disseminate"} =>
             pc'[c] = pc[c] /\ at'[c] = at[c] /\ op'[c] = op[c] /\ dataplane'[c] = dataplane[c],
         \A r \in Replica : step[r] # "none" /\ main[r] = "revise" => main'[r] = "revise"
  PROVE  Balanced'
  <1>1. Busy' = Busy
    BY DEF Busy
  <1>2. \A p, d : (Named(p, d)' <=> Named(p, d)) /\ (Agrees(p, d)' <=> Agrees(p, d))
    BY DEF Named, Agrees, Existing
  <1>3. ASSUME NEW a \in Busy
        PROVE  Changing(a)'
    <2>1. CASE a \in Call /\ pc[a] = "edit" /\ Editing(a)
      BY <1>2, <2>1 DEF Changing, Editing
    <2>2. CASE a \in Call /\ pc[a] = "config" /\ \A p \in Replica : \A d \in DataPlane : Named(p, d) /\ Agrees(at[a], d)
      BY <1>2, <2>2 DEF Changing
    <2>3. CASE Underway(a)
      <3>1. \A d : Revised(a, d)' <=> Revised(a, d)
        BY <1>2 DEF Revised
      <3>2. (IF a \in Call THEN pc[a] = "disseminate" ELSE main[a] = "revise")'
        BY <1>3, <2>3 DEF Underway, Busy, Actor
      <3>3. Waiting(a)' = Waiting(a)
        BY DEF Waiting
      <3>4. Underway(a)'
        BY <1>2, <2>3, <3>1, <3>2, <3>3 DEF Underway
      <3> QED
        BY <3>4 DEF Changing
    <2> QED
      BY <2>1, <2>2, <2>3 DEF Balanced, Changing
  <1> QED
    BY <1>1, <1>2, <1>3 DEF Balanced, AllNamed, AllAgree

(* A step of one actor, while no other is busy.  *)
LEMMA SoleActor ==
  ASSUME TypeOK, NEW a \in Actor, Busy \subseteq {a},
         \A b \in Actor \ {a} : step'[b] = step[b],
         \A c \in Call \ {a} : pc'[c] = pc[c],
         IF a \in Busy' THEN Changing(a)' ELSE AllNamed' /\ AllAgree'
  PROVE  Balanced'
  <1>1. Busy' \subseteq {a}
    BY DEF Busy, Actor
  <1> QED
    BY <1>1 DEF Balanced

(* The election: a leader that is up to date after a step has been before.  *)
LEMMA ElectionAgrees ==
  ASSUME TypeOK, Leaderships, Current, Balanced, NEW r \in Replica, Election(r) \/ Announced(r)
  PROVE  Current' /\ Balanced'
  <1>1. UNCHANGED <<loop, storage, haproxy, calls, revision>>
    BY DEF Election, Announced, startLeader, HearOfTerm, AppendEntries, ConnectToPeer
  <1>2. Balanced'
    BY <1>1, BalancedFrame DEF loop, storage, haproxy, calls, revision
  <1>3. ASSUME NEW q \in Replica, UpToDate(q)'
        PROVE  UpToDate(q)
    <2>1. CASE UNCHANGED <<term, announceLeadership>>
      BY <1>1, <1>3, <2>1 DEF UpToDate, InCharge, loop
    <2>2. CASE announceLeadership'[r] # "empty"
      <3>1. q # r /\ Only(r)
        BY <1>3, <2>2, ElectionKeeps DEF UpToDate
      <3>2. term'[q] = term[q] /\ announceLeadership'[q] = announceLeadership[q] /\ InCharge(q)
        BY <1>3, <3>1 DEF Only, UpToDate, InCharge
      <3>3. \A p \in Replica : term[p] <= term[q]
        <4>1. \A p \in Replica : term[p] <= term'[p] /\ term'[p] <= term'[q]
          BY <1>3, TermsGrow DEF UpToDate
        <4>2. \A p \in Replica : term[p] \in Nat
          BY ApiAssumption DEF TypeOK, OtherTypes
        <4>3. \A p \in Replica : term'[p] \in Nat
          BY ElectionTypes, ApiAssumption DEF OtherTypes
        <4> QED
          BY <3>2, <4>1, <4>2, <4>3
      <3> QED
        BY <1>3, <3>2, <3>3 DEF UpToDate
    <2> QED
      BY <2>1, <2>2, ElectionKeeps
  <1>4. Current'
    BY <1>1, <1>3 DEF Current, loop, storage
  <1> QED
    BY <1>2, <1>4

(* The main loop, but for the reconstruction: state that is destroyed is that
   of a replica that is not in charge.  *)
LEMMA MainAgrees ==
  ASSUME TypeOK, Revisions, Leaderships, Current, Balanced, NEW r \in Replica, Main(r),
         ~ReconstructState(r), ~ReconstructionFails(r)
  PROVE  Current' /\ Balanced'
  <1>1. UNCHANGED <<election, database, haproxy, calls, revision>> \/ UpdateLeadership(r)
    BY DEF Main, EstablishLeaderElectionMesh, destroyStateFromPreviousElectionTerm, Reconstructed,
           StartNodeMonitoringLoop, storage
  <1>2. UNCHANGED <<term, database, haproxy, calls, revision>>
    BY <1>1 DEF UpdateLeadership, election, storage
  <1>3. \E to \in {"select", "elected", "deposed", "reconstruct", "monitor"} : main' = [main EXCEPT ![r] = to]
    BY DEF Main, EstablishLeaderElectionMesh, UpdateLeadership, destroyStateFromPreviousElectionTerm, Reconstructed,
           StartNodeMonitoringLoop, Loop
  <1>4. main[r] = "revise" => step[r] = "none"
    BY DEF Main, EstablishLeaderElectionMesh, UpdateLeadership, destroyStateFromPreviousElectionTerm, Reconstructed,
           StartNodeMonitoringLoop, Loop
  <1>5. \A q \in Replica \ {r} : main'[q] = main[q]
    BY <1>3 DEF TypeOK, RevisionTypes
  <1>6. Balanced'
    BY <1>2, <1>4, <1>5, BalancedFrame DEF haproxy, calls, revision
  <1>7. ASSUME NEW q \in Replica, UpToDate(q)'
        PROVE  UpToDate(q)
    <2>1. InCharge(q) /\ announceLeadership'[q] = announceLeadership[q]
      <3>1. CASE q = r
        BY <1>7, <3>1, MainKeeps DEF UpToDate
      <3>2. CASE q # r
        <4>1. Only(r)
          BY MainKeeps
        <4> QED
          BY <1>7, <3>2, <4>1 DEF Only, UpToDate, InCharge
      <3> QED
        BY <3>1, <3>2
    <2> QED
      BY <1>2, <1>7, <2>1 DEF UpToDate
  <1>8. \/ UNCHANGED connections /\ main'[r] # "reconstruct"
        \/ connections' = [connections EXCEPT ![r] = {}] /\ ~InCharge(r)
    <2>1. CASE destroyStateFromPreviousElectionTerm(r)
      BY <2>1 DEF destroyStateFromPreviousElectionTerm, Loop, InCharge
    <2>2. CASE EstablishLeaderElectionMesh(r) \/ UpdateLeadership(r) \/ Reconstructed(r) \/ StartNodeMonitoringLoop(r)
      BY <2>2 DEF EstablishLeaderElectionMesh, UpdateLeadership, Reconstructed, StartNodeMonitoringLoop, Loop, storage,
                  TypeOK, RevisionTypes
    <2> QED
      BY <2>1, <2>2 DEF Main
  <1>9. main'[r] # "down"
    BY <1>3 DEF TypeOK, RevisionTypes
  <1>10. ASSUME NEW q \in Replica
         PROVE  /\ main'[q] # "down" /\ (main'[q] = "reconstruct" => connections'[q] = {})
                /\ UpToDate(q)' => connections'[q] = database'
    <2>1. CASE UNCHANGED connections /\ main'[r] # "reconstruct"
      BY <1>2, <1>5, <1>7, <1>9, <2>1 DEF Current
    <2>2. CASE connections' = [connections EXCEPT ![r] = {}] /\ ~InCharge(r)
      <3>1. connections'[r] = {} /\ (q # r => connections'[q] = connections[q])
        BY <2>2 DEF TypeOK, OtherTypes
      <3>2. UpToDate(q)' => q # r
        BY <1>7, <2>2 DEF UpToDate
      <3> QED
        BY <1>2, <1>5, <1>7, <1>9, <3>1, <3>2 DEF Current
    <2> QED
      BY <1>8, <2>1, <2>2
  <1> QED
    BY <1>6, <1>10 DEF Current

(* A new leader reads what the database has, and begins to give it to its own
   load balancer.  *)
LEMMA ReconstructAgrees ==
  ASSUME TypeOK, Revisions, Leaderships, Current, Balanced, NEW r \in Replica, ReconstructState(r), ~disturbed'
  PROVE  Current' /\ Balanced'
  <1>1. /\ Busy = {} /\ main[r] = "reconstruct" /\ connections[r] = {} /\ announcing[r] = "nothing"
        /\ UNCHANGED <<term, database, addressToName, backend, pc, announceLeadership, wasLeaderBefore>>
    BY DEF ReconstructState, Loop, MuFree, Current, election, haproxy, calls
  <1>2. /\ main' = [main EXCEPT ![r] = "revise"]
        /\ connections' = [connections EXCEPT ![r] = database]
        /\ keep' = [keep EXCEPT ![r] = connections'[r]]
        /\ place' = [place EXCEPT ![r] = r] /\ step' = [step EXCEPT ![r] = "version"]
    BY <1>1 DEF ReconstructState, Loop, TypeOK, OtherTypes
  <1>3. /\ r \in Actor /\ r \notin Call /\ AllNamed /\ AllAgree
    BY <1>1, ApiAssumption DEF Actor, Balanced
  <1>4. /\ connections'[r] = database /\ keep'[r] = database /\ place'[r] = r /\ step'[r] = "version"
        /\ main'[r] = "revise"
        /\ \A q \in Replica \ {r} : main'[q] = main[q] /\ connections'[q] = connections[q]
        /\ \A b \in Actor \ {r} : step'[b] = step[b]
    BY <1>2, <1>3 DEF TypeOK, RevisionTypes, OtherTypes
  <1>5. AllNamed' /\ AllAgree'
    BY <1>1, <1>3 DEF AllNamed, AllAgree, Named, Agrees, Existing
  <1>6. Changing(r)'
    <2>1. Underway(r)'
      BY <1>1, <1>3, <1>4, <1>5 DEF Underway, AllNamed, AllAgree
    <2> QED
      BY <2>1 DEF Changing
  <1>7. Balanced'
    <2>1. r \in Busy'
      BY <1>3, <1>4 DEF Busy
    <2> QED
      BY <1>1, <1>3, <1>4, <1>6, <2>1, SoleActor
  <1>8. ASSUME NEW q \in Replica, q # r
        PROVE  UpToDate(q)' => UpToDate(q)
    BY <1>1, <1>4, <1>8 DEF UpToDate, InCharge
  <1>9. Current'
    BY <1>1, <1>4, <1>8 DEF Current
  <1> QED
    BY <1>7, <1>9

(* A step that leaves the election, the main loops and the storage alone.  *)
LEMMA CurrentFrame ==
  ASSUME Current, UNCHANGED <<election, loop, storage>>
  PROVE  Current'
  BY DEF Current, UpToDate, InCharge, election, loop, storage

(* A call that goes from one place to another where it changes nothing.  *)
LEMMA PassingCall ==
  ASSUME TypeOK, Balanced, NEW c \in Call, UNCHANGED <<main, database, haproxy, revision>>,
         pc[c] \notin {"edit", "config", "disseminate"},
         \E s : pc' = [pc EXCEPT ![c] = s] /\ s \notin {"edit", "config", "disseminate"},
         \A b \in Call \ {c} : at'[b] = at[b] /\ op'[b] = op[b] /\ dataplane'[b] = dataplane[b]
  PROVE  Balanced'
  <1>1. /\ pc'[c] \notin {"edit", "config", "disseminate"}
        /\ \A b \in Call \ {c} : pc'[b] = pc[b]
    BY DEF TypeOK, RevisionTypes
  <1> QED
    BY <1>1, BalancedFrame DEF haproxy, revision

LEMMA PassingAgrees ==
  ASSUME TypeOK, Current, Balanced, NEW c \in Call,
         \/ Arrive(c) \/ CheckLeader(c) \/ GetLeader(c) \/ ServeOther(c)
         \/ ServeDataplane(c) /\ pc' = [pc EXCEPT ![c] = "success"]
  PROVE  Current' /\ Balanced'
  <1>1. CASE Arrive(c)
    <2>1. PICK r \in Replica : registrationHandler(c, r) \/ \E d \in DataPlane : CallApi(c, r, d)
      BY <1>1 DEF Arrive
    <2>2. UNCHANGED <<election, loop, storage, haproxy, revision>> /\ pc[c] = "idle"
      BY <2>1 DEF registrationHandler, CallApi, Arrives
    <2>3. \E s \in {"rejected", "IsLeader", "handlerGetLeader", "serve", "GetLeader"} : pc' = [pc EXCEPT ![c] = s]
      BY <2>1 DEF registrationHandler, CallApi
    <2>4. \A b \in Call \ {c} : at'[b] = at[b] /\ op'[b] = op[b]
      BY <2>1 DEF registrationHandler, CallApi, Arrives, TypeOK, RevisionTypes, OtherTypes
    <2>5. \A b \in Call \ {c} : dataplane'[b] = dataplane[b]
      BY <2>1 DEF registrationHandler, CallApi, TypeOK, RevisionTypes, OtherTypes
    <2>6. Current'
      BY <2>2, CurrentFrame
    <2>7. Balanced'
      BY <2>2, <2>3, <2>4, <2>5, PassingCall DEF loop, storage
    <2> QED
      BY <2>6, <2>7
  <1>2. CASE CheckLeader(c) \/ ServeOther(c)
    <2>1. /\ UNCHANGED <<election, loop, storage, haproxy, revision, at, op, dataplane>>
          /\ pc[c] \in {"IsLeader", "serve"}
          /\ \E s \in {"serve", "GetLeader", "success", "error"} : pc' = [pc EXCEPT ![c] = s]
      BY <1>2 DEF CheckLeader, ServeOther, Goes
    <2> QED
      <3>1. Current'
        BY <2>1, CurrentFrame
      <3>2. Balanced'
        BY <2>1, PassingCall DEF loop, storage
      <3> QED
        BY <3>1, <3>2
  <1>3. CASE GetLeader(c)
    <2>1. /\ UNCHANGED <<election, loop, storage, haproxy, revision, op, dataplane>>
          /\ pc[c] \in {"GetLeader", "handlerGetLeader"}
          /\ \E s \in {"failure", "aborted", "error", "IsLeader"} : pc' = [pc EXCEPT ![c] = s]
      BY <1>3 DEF GetLeader, Goes
    <2>2. \A b \in Call \ {c} : at'[b] = at[b]
      BY <1>3 DEF GetLeader, TypeOK, RevisionTypes
    <2> QED
      <3>1. Current'
        BY <2>1, CurrentFrame
      <3>2. Balanced'
        BY <2>1, <2>2, PassingCall DEF loop, storage
      <3> QED
        BY <3>1, <3>2
  <1>4. CASE ServeDataplane(c) /\ pc' = [pc EXCEPT ![c] = "success"]
    <2>1. pc[c] = "serve" /\ pc'[c] # "edit"
      BY <1>4 DEF ServeDataplane, TypeOK, RevisionTypes
    <2>2. ~(pc' = [pc EXCEPT ![c] = "edit"])
      BY <2>1 DEF TypeOK, RevisionTypes
    <2>3. UNCHANGED <<election, loop, storage, haproxy, revision, at, op, dataplane>>
      BY <1>4, <2>2 DEF ServeDataplane, Goes, revision
    <2> QED
      <3>1. Current'
        BY <2>3, CurrentFrame
      <3>2. Balanced'
        <4>1. \E s : pc' = [pc EXCEPT ![c] = s] /\ s \notin {"edit", "config", "disseminate"}
          <5> WITNESS "success"
          <5> QED
            BY <1>4
        <4> QED
          BY <2>1, <2>3, <4>1, PassingCall DEF loop, storage
      <3> QED
        BY <3>1, <3>2
  <1> QED
    BY <1>1, <1>2, <1>3, <1>4

(* A settled leader changes its data planes and the database together, and
   nobody else is up to date; the call has then to change the own load
   balancer.  *)
LEMMA ServeAgrees ==
  ASSUME TypeOK, Revisions, Called, Leaderships, Current, Balanced, NEW c \in Call, ServeDataplane(c), ~disturbed',
         pc' # [pc EXCEPT ![c] = "success"]
  PROVE  Current' /\ Balanced'
  <1>1. PICK r \in Replica : r = at[c]
    BY DEF ServeDataplane, Revisions, CallOccupied
  <1>2. PICK d \in DataPlane : d = dataplane[c]
    BY DEF ServeDataplane, Called
  <1>3. /\ UNCHANGED <<election, loop, haproxy, op, dataplane, at>> /\ pc[c] = "serve"
        /\ op[c] \in {"register", "deregister"} /\ (d \in connections[r] => op[c] = "deregister")
        /\ pc' = [pc EXCEPT ![c] = "edit"]
        /\ step' = [step EXCEPT ![c] = "version"] /\ Busy = {} /\ Settled(r)
    BY <1>1, <1>2 DEF ServeDataplane, Goes
  <1>4. /\ connections' = [connections EXCEPT ![r] = IF op[c] = "register" THEN @ \cup {d} ELSE @ \ {d}]
        /\ database' = IF op[c] = "register" THEN database \cup {d}
                       ELSE IF d \in connections[r] THEN database \ {d} ELSE database
    BY <1>1, <1>2 DEF ServeDataplane, Goes
  <1>5. UpToDate(r) /\ connections[r] = database
    BY <1>3 DEF Settled, UpToDate, InCharge, Current
  <1>6. /\ connections'[r] = database' /\ (\A q \in Replica \ {r} : connections'[q] = connections[q])
        /\ \A e \in DataPlane \ {d} : e \in database' <=> e \in database
        /\ d \in database' <=> op[c] = "register"
    BY <1>3, <1>4, <1>5 DEF TypeOK, OtherTypes
  <1>7. ASSUME NEW q \in Replica, UpToDate(q)'
        PROVE  q = r
    <2>1. UpToDate(q)
      BY <1>3, <1>7 DEF UpToDate, InCharge, election, loop
    <2>2. Elected(q) /\ Elected(r)
      BY <1>5, <2>1 DEF UpToDate, Leaderships, Elected
    <2>3. term[q] = term[r]
      <3>1. term[q] <= term[r] /\ term[r] <= term[q]
        BY <1>5, <2>1 DEF UpToDate
      <3>2. term[q] \in Nat /\ term[r] \in Nat
        BY ApiAssumption DEF TypeOK, OtherTypes
      <3> QED
        BY <3>1, <3>2
    <2> QED
      BY <2>2, <2>3 DEF Leaderships
  <1>8. Current'
    <2>1. main' = main /\ main[r] = "select"
      BY <1>3 DEF Settled, loop
    <2> QED
      BY <1>6, <1>7, <2>1 DEF Current
  <1>9. Changing(c)'
    <2>1. /\ pc'[c] = "edit" /\ step'[c] = "version" /\ at'[c] = r /\ op'[c] = op[c] /\ dataplane'[c] = d
      BY <1>1, <1>2, <1>3 DEF TypeOK, RevisionTypes, Actor
    <2>2. AllNamed /\ AllAgree /\ UNCHANGED <<addressToName, backend>>
      BY <1>3 DEF Balanced, haproxy
    <2>3. AllNamed'
      BY <2>2 DEF AllNamed, Named
    <2>4. \A e \in DataPlane \ {d} : Agrees(r, e)'
      BY <1>6, <2>2 DEF AllAgree, Agrees, Existing
    <2>5. Editing(c)'
      BY <1>6, <2>1, <2>3, <2>4 DEF Editing, AllNamed
    <2> QED
      BY <2>1, <2>5 DEF Changing
  <1>10. Balanced'
    <2>1. c \in Busy' /\ c \in Actor
      BY <1>3 DEF Busy, TypeOK, RevisionTypes, Actor
    <2>2. /\ \A b \in Actor \ {c} : step'[b] = step[b]
          /\ \A b \in Call \ {c} : pc'[b] = pc[b]
      BY <1>3 DEF TypeOK, RevisionTypes
    <2> QED
      BY <1>3, <1>9, <2>1, <2>2, SoleActor
  <1> QED
    BY <1>8, <1>10

-----------------------------------------------------------------------------
(* A busy actor is the only one.  *)
LEMMA BusyAlone ==
  ASSUME Balanced, NEW a \in Busy
  PROVE  Busy \subseteq {a} /\ Changing(a)
  BY DEF Balanced

LEMMA BalancersFrame ==
  ASSUME UNCHANGED <<addressToName, backend, database>>
  PROVE  \A p, d : (Named(p, d)' <=> Named(p, d)) /\ (Agrees(p, d)' <=> Agrees(p, d))
  BY DEF Named, Agrees, Existing

(* What the steps of a call leave alone.  *)
LEMMA CallAlone ==
  ASSUME TypeOK, NEW c \in Call, NEW s, NEW t, pc' = [pc EXCEPT ![c] = s], step' = [step EXCEPT ![c] = t]
  PROVE  /\ c \in Actor /\ pc'[c] = s /\ step'[c] = t
         /\ \A b \in Actor \ {c} : step'[b] = step[b]
         /\ \A b \in Call \ {c} : pc'[b] = pc[b]
  BY DEF TypeOK, RevisionTypes, Actor

(* The version of the file is read.  *)
LEMMA VersionAgrees ==
  ASSUME TypeOK, Balanced, NEW c \in Call, GetVersion(c)
  PROVE  Balanced'
  <1>1. /\ pc[c] = "edit" /\ step[c] = "version" /\ pc' = [pc EXCEPT ![c] = "edit"]
        /\ step' = [step EXCEPT ![c] = "edit"] /\ valid' = [valid EXCEPT ![c] = TRUE]
        /\ UNCHANGED <<database, addressToName, backend, op, dataplane, at>>
    BY DEF GetVersion, Goes, storage, haproxy
  <1>2. c \in Busy
    BY <1>1 DEF Busy, Actor
  <1>3. Busy \subseteq {c} /\ Editing(c)
    BY <1>1, <1>2, BusyAlone DEF Changing, Underway
  <1>4. /\ c \in Actor /\ pc'[c] = "edit" /\ step'[c] = "edit"
        /\ \A b \in Actor \ {c} : step'[b] = step[b]
        /\ \A b \in Call \ {c} : pc'[b] = pc[b]
    BY <1>1, CallAlone
  <1>5. valid'[c]
    BY <1>1, <1>4 DEF TypeOK, OtherTypes
  <1>6. Changing(c)'
    <2>1. Editing(c)'
      BY <1>1, <1>3, <1>5, BalancersFrame DEF Editing
    <2> QED
      BY <1>4, <2>1 DEF Changing
  <1>7. c \in Busy'
    BY <1>4 DEF Busy
  <1> QED
    BY <1>3, <1>4, <1>6, <1>7, SoleActor

(* The own load balancer of the leader is given what the call has changed.  *)
LEMMA OwnAgrees ==
  ASSUME TypeOK, Revisions, Balanced, NEW c \in Call, AddOrRemoveDataplane(c)
  PROVE  Balanced'
  <1>1. PICK r \in Replica : r = at[c]
    BY DEF AddOrRemoveDataplane, Goes, Revisions, CallOccupied
  <1>2. /\ pc[c] = "edit" /\ step[c] = "edit" /\ pc' = [pc EXCEPT ![c] = "config"]
        /\ step' = [step EXCEPT ![c] = "none"] /\ UNCHANGED <<database, op, dataplane, at>>
    BY DEF AddOrRemoveDataplane, Goes, storage
  <1>3. c \in Busy
    BY <1>2 DEF Busy, Actor
  <1>4. Busy \subseteq {c} /\ Editing(c) /\ valid[c]
    BY <1>2, <1>3, BusyAlone DEF Changing, Underway, Editing
  <1>5. PICK d \in DataPlane : d = dataplane[c]
    BY <1>4 DEF Editing
  <1> DEFINE names == addressToName[r]
             after == IF op[c] = "register" THEN addServer(names, d) ELSE removeServerByName(names, d)
             edit == Edit(names, after, d)
  <1>6. /\ addressToName' = [addressToName EXCEPT ![r] = after]
        /\ IF edit # "none" THEN backend' = [backend EXCEPT ![r][d] = Edited(backend[r], d, edit)]
           ELSE UNCHANGED backend
    BY <1>1, <1>4, <1>5 DEF AddOrRemoveDataplane
  <1>7. /\ names \in [DataPlane -> {"none", "server", "ghost"}] /\ backend[r] \in [DataPlane -> Nat]
        /\ addressToName \in [Replica -> [DataPlane -> {"none", "server", "ghost"}]]
        /\ backend \in [Replica -> [DataPlane -> Nat]]
    BY DEF TypeOK, RevisionTypes, OtherTypes
  <1>8. \/ names[d] = "none" /\ backend[r][d] = 0
        \/ names[d] = "server" /\ backend[r][d] = 1
    BY <1>4 DEF Editing, Named
  <1>9. /\ \A e \in DataPlane \ {d} : after[e] = names[e]
        /\ after[d] = IF op[c] = "register" THEN "server" ELSE "none"
    BY <1>7, <1>8 DEF addServer, removeServerByName
  <1> HIDE DEF after
  <1>10. edit = IF after[d] = names[d] THEN "none" ELSE IF after[d] = "server" THEN "add" ELSE "delete"
    BY <1>8, <1>9 DEF Edit
  <1>11. backend'[r][d] = IF after[d] = "server" THEN 1 ELSE 0
    <2>1. CASE after[d] = names[d]
      BY <1>6, <1>8, <1>9, <1>10, <2>1
    <2>2. CASE after[d] # names[d]
      <3>1. edit # "none" /\ Edited(backend[r], d, edit) = IF after[d] = "server" THEN 1 ELSE 0
        BY <1>8, <1>9, <1>10, <2>2 DEF Edited
      <3> HIDE DEF edit
      <3> QED
        BY <1>6, <1>7, <3>1
    <2> QED
      BY <2>1, <2>2
  <1>12. \A q \in Replica : \A e \in DataPlane : q # r \/ e # d => backend'[q][e] = backend[q][e]
    <2> HIDE DEF edit
    <2>1. CASE edit = "none"
      BY <1>6, <2>1
    <2>2. CASE edit # "none"
      <3>1. PICK v : backend' = [backend EXCEPT ![r][d] = v]
        BY <1>6, <2>2
      <3> QED
        BY <1>7, <3>1
    <2> QED
      BY <2>1, <2>2
  <1>13. /\ \A q \in Replica \ {r} : addressToName'[q] = addressToName[q]
         /\ addressToName'[r] = after
    BY <1>6, <1>7
  <1>14. AllNamed'
    <2>1. ASSUME NEW q \in Replica, NEW e \in DataPlane
          PROVE  Named(q, e)'
      <3>1. CASE q = r /\ e = d
        BY <1>9, <1>11, <1>13, <3>1 DEF Named
      <3>2. CASE q # r \/ e # d
        <4>1. Named(q, e)
          BY <1>4 DEF Editing
        <4> QED
          BY <1>9, <1>12, <1>13, <3>2, <4>1 DEF Named
      <3> QED
        BY <3>1, <3>2
    <2> QED
      BY <2>1 DEF AllNamed
  <1>15. \A e \in DataPlane : Agrees(r, e)'
    <2>1. ASSUME NEW e \in DataPlane
          PROVE  Agrees(r, e)'
      <3>1. CASE e = d
        BY <1>2, <1>4, <1>5, <1>9, <1>11, <3>1 DEF Agrees, Existing, Editing
      <3>2. CASE e # d
        <4>1. Agrees(r, e)
          BY <1>1, <1>4, <1>5, <3>2 DEF Editing
        <4> QED
          BY <1>2, <1>12, <3>2, <4>1 DEF Agrees, Existing
      <3> QED
        BY <3>1, <3>2
    <2> QED
      BY <2>1
  <1>16. /\ c \in Actor /\ pc'[c] = "config" /\ at'[c] = r
         /\ \A b \in Actor \ {c} : step'[b] = step[b]
         /\ \A b \in Call \ {c} : pc'[b] = pc[b]
    BY <1>1, <1>2, CallAlone
  <1>17. Changing(c)' /\ c \in Busy'
    BY <1>14, <1>15, <1>16 DEF Changing, Busy, AllNamed
  <1> QED
    BY <1>4, <1>16, <1>17, SoleActor

(* A settled leader has the data planes of the database to disseminate, and
   every other replica to disseminate them to.  *)
LEMMA ConfigAgrees ==
  ASSUME TypeOK, Revisions, Current, Balanced, NEW c \in Call, GetHAProxyConfig(c), ~disturbed'
  PROVE  Balanced'
  <1>1. PICK r \in Replica : r = at[c]
    BY DEF GetHAProxyConfig, Revisions, CallOccupied
  <1>2. /\ pc[c] = "config" /\ pc' = [pc EXCEPT ![c] = "disseminate"] /\ keep' = [keep EXCEPT ![c] = connections[r]]
        /\ target' = [target EXCEPT ![c] = peerClients[r]] /\ peerClients[r] \cup {r} = Replica /\ Settled(r)
        /\ UNCHANGED <<database, addressToName, backend, step, at>>
    BY <1>1 DEF GetHAProxyConfig, Goes, storage, haproxy
  <1>3. c \in Busy
    BY <1>2 DEF Busy
  <1>4. Busy \subseteq {c} /\ AllNamed /\ \A d \in DataPlane : Agrees(r, d)
    BY <1>1, <1>2, <1>3, BusyAlone DEF Changing, Underway, AllNamed
  <1>5. step[c] = "none" /\ c \in Actor
    BY <1>2 DEF Revisions, CallOccupied, Actor
  <1>6. connections[r] = database
    BY <1>2 DEF Current, Settled, UpToDate, InCharge
  <1>7. /\ pc'[c] = "disseminate" /\ keep'[c] = database' /\ target'[c] \cup {r} = Replica /\ step'[c] = "none"
        /\ \A b \in Call \ {c} : pc'[b] = pc[b]
    BY <1>2, <1>5, <1>6 DEF TypeOK, RevisionTypes, OtherTypes
  <1>8. Underway(c)'
    <2>1. ASSUME NEW p \in Replica, NEW d \in DataPlane
          PROVE  Named(p, d)' /\ (p \in Waiting(c)' \/ Agrees(p, d)')
      BY <1>2, <1>4, <1>7, BalancersFrame DEF AllNamed, Waiting
    <2> QED
      BY <1>7, <2>1 DEF Underway
  <1>9. Changing(c)' /\ c \in Busy'
    BY <1>7, <1>8 DEF Changing, Busy
  <1> QED
    BY <1>2, <1>4, <1>5, <1>7, <1>9, SoleActor

(* The next peer is asked, or all agree.  *)
LEMMA DisseminateAgrees ==
  ASSUME TypeOK, Revisions, Balanced, NEW c \in Call, DisseminateHAProxyConfig(c), ~disturbed'
  PROVE  Balanced'
  <1>1. /\ pc[c] = "disseminate" /\ step[c] = "none"
        /\ UNCHANGED <<database, addressToName, backend>>
    BY DEF DisseminateHAProxyConfig, Goes, storage, haproxy
  <1>2. c \in Busy /\ c \in Actor
    BY <1>1 DEF Busy, Actor
  <1>3. Busy \subseteq {c} /\ Underway(c)
    BY <1>1, <1>2, BusyAlone DEF Changing
  <1>4. CASE target[c] = {} /\ pc' = [pc EXCEPT ![c] = "success"] /\ UNCHANGED step
    <2>1. AllNamed /\ AllAgree
      BY <1>1, <1>3, <1>4 DEF Underway, Waiting, AllNamed, AllAgree
    <2>2. AllNamed' /\ AllAgree'
      BY <1>1, <2>1, BalancersFrame DEF AllNamed, AllAgree
    <2>3. pc'[c] = "success" /\ \A b \in Call \ {c} : pc'[b] = pc[b]
      BY <1>4 DEF TypeOK, RevisionTypes
    <2>4. c \notin Busy'
      BY <1>1, <1>4, <2>3 DEF Busy
    <2> QED
      BY <1>2, <1>3, <1>4, <2>2, <2>3, <2>4, SoleActor
  <1>5. ASSUME NEW p \in target[c], pc' = [pc EXCEPT ![c] = "disseminate"], target' = [target EXCEPT ![c] = @ \ {p}],
               place' = [place EXCEPT ![c] = p], step' = [step EXCEPT ![c] = "version"], UNCHANGED keep
        PROVE  Balanced'
    <2>1. /\ pc'[c] = "disseminate" /\ step'[c] = "version"
          /\ \A b \in Actor \ {c} : step'[b] = step[b]
          /\ \A b \in Call \ {c} : pc'[b] = pc[b]
      BY <1>2, <1>5 DEF TypeOK, RevisionTypes
    <2>2. target'[c] = target[c] \ {p} /\ place'[c] = p /\ p \in Replica
      BY <1>2, <1>5 DEF TypeOK, RevisionTypes
    <2>3. Underway(c)'
      <3>1. ASSUME NEW q \in Replica, NEW d \in DataPlane
            PROVE  Named(q, d)' /\ (q \in Waiting(c)' \/ q = p \/ Agrees(q, d)')
        BY <1>1, <1>3, <2>2, BalancersFrame DEF Underway, Waiting
      <3>2. keep'[c] = database'
        BY <1>1, <1>3, <1>5 DEF Underway
      <3> QED
        BY <2>1, <2>2, <3>1, <3>2 DEF Underway
    <2>4. Changing(c)' /\ c \in Busy'
      BY <2>1, <2>3 DEF Changing, Busy
    <2> QED
      BY <1>2, <1>3, <2>1, <2>4, SoleActor
  <1> QED
    BY <1>4, <1>5 DEF DisseminateHAProxyConfig, Goes

-----------------------------------------------------------------------------
(* The reviser of a load balancer is the one that is busy.  *)
LEMMA ReviserUnderway ==
  ASSUME TypeOK, Balanced, NEW a \in Actor, Revising(a), step[a] # "none"
  PROVE  /\ Busy \subseteq {a} /\ Underway(a) /\ place[a] \in Replica
         /\ a \in Call => pc[a] = "disseminate"
         /\ a \notin Call => main[a] = "revise"
  <1>1. a \in Busy
    BY DEF Busy
  <1>2. Busy \subseteq {a} /\ Changing(a)
    BY <1>1, BusyAlone
  <1>3. Underway(a)
    BY <1>2 DEF Changing, Revising
  <1> QED
    BY <1>2, <1>3 DEF Underway

(* It goes on to another step of the revision.  *)
LEMMA ReviserGoesOn ==
  ASSUME TypeOK, Balanced, NEW a \in Actor, Revising(a), step[a] # "none",
         UNCHANGED <<main, database, pc, place, keep, target>>,
         NEW t \in {"edit", "servers", "none"}, step' = [step EXCEPT ![a] = t],
         \A p \in Replica : \A d \in DataPlane :
           /\ (t = "edit" /\ p = place[a]) \/ Named(p, d)'
           /\ p \in Waiting(a) \/ (t = "edit" /\ p = place[a]) \/ Agrees(p, d)',
         t = "edit" => valid'[a] /\ \A d \in DataPlane : Revised(a, d)'
  PROVE  Balanced'
  <1>1. /\ Busy \subseteq {a} /\ Underway(a) /\ place[a] \in Replica
        /\ a \in Call => pc[a] = "disseminate"
        /\ a \notin Call => main[a] = "revise"
    BY ReviserUnderway
  <1>2. step'[a] = t /\ \A b \in Actor \ {a} : step'[b] = step[b]
    BY DEF TypeOK, RevisionTypes
  <1>3. Waiting(a)' = Waiting(a)
    BY DEF Waiting
  <1>4. Underway(a)'
    <2>1. (IF a \in Call THEN pc[a] = "disseminate" ELSE main[a] = "revise")'
      BY <1>1
    <2>2. keep'[a] = database' /\ place'[a] = place[a]
      BY <1>1 DEF Underway
    <2> QED
      BY <1>1, <1>2, <1>3, <2>1, <2>2 DEF Underway
  <1>5. CASE a \in Busy'
    <2>1. Changing(a)'
      BY <1>4 DEF Changing
    <2> QED
      BY <1>1, <1>2, <1>5, <2>1, SoleActor
  <1>6. CASE a \notin Busy'
    <2>1. t = "none" /\ a \notin Call
      BY <1>1, <1>2, <1>6 DEF Busy
    <2>2. AllNamed' /\ AllAgree'
      BY <2>1 DEF Waiting, AllNamed, AllAgree
    <2> QED
      BY <1>1, <1>2, <1>6, <2>2, SoleActor
  <1> QED
    BY <1>5, <1>6

(* A transaction is to do what the load balancer lacks or has too much.  *)
LEMMA StartAgrees ==
  ASSUME TypeOK, Balanced, NEW a \in Actor, StartTransaction(a)
  PROVE  Balanced'
  <1>1. /\ Revising(a) /\ step[a] = "version" /\ step' = [step EXCEPT ![a] = "edit"]
        /\ valid' = [valid EXCEPT ![a] = TRUE] /\ edits' = [edits EXCEPT ![a] = NoEdits]
        /\ todo' = [todo EXCEPT ![a] = (keep[a] \ Existing(place[a])) \cup (Existing(place[a]) \ keep[a])]
        /\ UNCHANGED <<main, database, addressToName, backend, pc, place, keep, target>>
    BY DEF StartTransaction, loop, storage, haproxy, calls
  <1>2. Underway(a) /\ place[a] \in Replica
    BY <1>1, ReviserUnderway
  <1>3. /\ valid'[a] /\ edits'[a] = NoEdits
        /\ todo'[a] = (database \ Existing(place[a])) \cup (Existing(place[a]) \ database)
    BY <1>1, <1>2 DEF TypeOK, RevisionTypes, OtherTypes, Underway
  <1>4. ASSUME NEW d \in DataPlane
        PROVE  Revised(a, d)'
    <2>1. edits'[a][d] = "none" /\ place'[a] = place[a]
      BY <1>1, <1>3 DEF NoEdits
    <2>2. Named(place[a], d)
      BY <1>1, <1>2 DEF Underway
    <2>3. Agrees(place[a], d) <=> d \notin todo'[a]
      BY <1>3 DEF Agrees
    <2>4. (Named(place[a], d) /\ (Agrees(place[a], d) <=> d \notin todo[a]))'
      BY <1>1, <2>2, <2>3, BalancersFrame DEF Named, Agrees, Existing
    <2> QED
      BY <2>1, <2>4 DEF Revised
  <1>5. ASSUME NEW p \in Replica, NEW d \in DataPlane
        PROVE  /\ p = place[a] \/ Named(p, d)'
               /\ p \in Waiting(a) \/ p = place[a] \/ Agrees(p, d)'
    BY <1>1, <1>2, BalancersFrame DEF Underway
  <1> QED
    BY <1>1, <1>3, <1>4, <1>5, ReviserGoesOn

(* A server is added or removed in the transaction.  *)
LEMMA ServerAgrees ==
  ASSUME TypeOK, Balanced, NEW a \in Actor, NEW d \in DataPlane, ReviseServer(a, d)
  PROVE  Balanced'
  <1> DEFINE names == addressToName[place[a]]
             after == IF d \in keep[a] THEN addServer(names, d) ELSE removeServerByName(names, d)
             edit == Edit(names, after, d)
  <1>1. /\ Revising(a) /\ step[a] = "edit" /\ d \in todo[a]
        /\ todo' = [todo EXCEPT ![a] = @ \ {d}]
        /\ addressToName' = [addressToName EXCEPT ![place[a]] = after]
        /\ edits' = [edits EXCEPT ![a][d] = edit]
        /\ UNCHANGED <<main, database, backend, pc, step, place, valid, keep, target>>
    BY DEF ReviseServer, loop, storage, calls
  <1>2. Underway(a) /\ valid[a] /\ keep[a] = database /\ (\A e \in DataPlane : Revised(a, e))
    BY <1>1, ReviserUnderway DEF Underway
  <1>3. PICK p \in Replica : p = place[a]
    BY <1>1, ReviserUnderway
  <1>4. /\ names \in [DataPlane -> {"none", "server", "ghost"}] /\ backend[p] \in [DataPlane -> Nat]
        /\ addressToName \in [Replica -> [DataPlane -> {"none", "server", "ghost"}]]
        /\ edits[a] \in [DataPlane -> {"none", "add", "delete"}]
        /\ edits \in [Actor -> [DataPlane -> {"none", "add", "delete"}]]
        /\ todo \in [Actor -> SUBSET DataPlane]
    BY <1>3 DEF TypeOK, RevisionTypes, OtherTypes
  <1>5. Named(p, d) /\ ~Agrees(p, d)
    BY <1>1, <1>2, <1>3, <1>4 DEF Revised
  <1>6. IF d \in database THEN names[d] = "none" /\ backend[p][d] = 0
        ELSE names[d] = "server" /\ backend[p][d] = 1
    BY <1>3, <1>5 DEF Named, Agrees, Existing
  <1>7. /\ \A e \in DataPlane \ {d} : after[e] = names[e]
        /\ after[d] = IF d \in database THEN "server" ELSE "none"
    BY <1>2, <1>4, <1>6 DEF addServer, removeServerByName
  <1>8. edit = IF d \in database THEN "add" ELSE "delete"
    BY <1>6, <1>7 DEF Edit
  <1> HIDE DEF after, edit
  <1>9. /\ addressToName'[p] = after /\ \A q \in Replica \ {p} : addressToName'[q] = addressToName[q]
    BY <1>1, <1>3, <1>4
  <1>10. /\ edits'[a][d] = edit /\ \A e \in DataPlane \ {d} : edits'[a][e] = edits[a][e]
    BY <1>1, <1>4
  <1>11. todo'[a] = todo[a] \ {d}
    BY <1>1, <1>4
  <1>12. place'[a] = p
    BY <1>1, <1>3
  <1>13. Revised(a, d)'
    <2>1. d \notin todo'[a] /\ addressToName'[p][d] = after[d] /\ backend'[p][d] = backend[p][d] /\ database' = database
      BY <1>1, <1>9, <1>11
    <2> QED
      BY <1>6, <1>7, <1>8, <1>10, <1>12, <2>1 DEF Revised
  <1>14. ASSUME NEW e \in DataPlane \ {d}
         PROVE  Revised(a, e)'
    <2>1. /\ addressToName'[p][e] = addressToName[p][e] /\ backend' = backend /\ database' = database
          /\ edits'[a][e] = edits[a][e] /\ (e \in todo'[a] <=> e \in todo[a])
      BY <1>1, <1>3, <1>7, <1>9, <1>10, <1>11
    <2>2. (Named(p, e)' <=> Named(p, e)) /\ (Agrees(p, e)' <=> Agrees(p, e))
      BY <2>1 DEF Named, Agrees, Existing
    <2>3. Revised(a, e) /\ edits[a][e] \in {"none", "add", "delete"}
      BY <1>2, <1>4
    <2>4. CASE edits[a][e] = "none"
      BY <1>3, <1>12, <2>1, <2>2, <2>3, <2>4 DEF Revised
    <2>5. CASE edits[a][e] = "add"
      BY <1>3, <1>12, <2>1, <2>3, <2>5 DEF Revised
    <2>6. CASE edits[a][e] = "delete"
      BY <1>3, <1>12, <2>1, <2>3, <2>6 DEF Revised
    <2> QED
      BY <2>3, <2>4, <2>5, <2>6
  <1>15. ASSUME NEW q \in Replica, NEW e \in DataPlane
         PROVE  /\ q = place[a] \/ Named(q, e)'
                /\ q \in Waiting(a) \/ q = place[a] \/ Agrees(q, e)'
    <2>1. CASE q = p
      BY <1>3, <2>1
    <2>2. CASE q # p
      <3>1. (Named(q, e)' <=> Named(q, e)) /\ (Agrees(q, e)' <=> Agrees(q, e))
        BY <1>1, <1>9, <2>2 DEF Named, Agrees, Existing
      <3> QED
        BY <1>2, <1>3, <2>2, <3>1 DEF Underway
    <2> QED
      BY <2>1, <2>2
  <1>16. step' = [step EXCEPT ![a] = "edit"] /\ valid'[a]
    BY <1>1, <1>2 DEF TypeOK, RevisionTypes
  <1>17. \A e \in DataPlane : Revised(a, e)'
    BY <1>13, <1>14
  <1> QED
    BY <1>1, <1>15, <1>16, <1>17, ReviserGoesOn

(* The edits of a transaction make its load balancer agree.  *)
LEMMA CommitAgrees ==
  ASSUME TypeOK, Balanced, NEW a \in Actor, CommitTransaction(a)
  PROVE  Balanced'
  <1>1. /\ Revising(a) /\ step[a] = "edit" /\ todo[a] = {}
        /\ UNCHANGED <<main, database, pc, place, keep, target>>
    BY DEF CommitTransaction, loop, storage, calls
  <1>2. Underway(a) /\ valid[a] /\ (\A e \in DataPlane : Revised(a, e))
    BY <1>1, ReviserUnderway DEF Underway
  <1>3. PICK p \in Replica : p = place[a]
    BY <1>1, ReviserUnderway
  <1>4. /\ backend' = [backend EXCEPT ![p] = [d \in DataPlane |-> Edited(backend[p], d, edits[a][d])]]
        /\ step' = [step EXCEPT ![a] = "servers"] /\ UNCHANGED addressToName
    BY <1>2, <1>3 DEF CommitTransaction
  <1>5. /\ \A d \in DataPlane : backend'[p][d] = Edited(backend[p], d, edits[a][d])
        /\ \A q \in Replica \ {p} : backend'[q] = backend[q]
    BY <1>4 DEF TypeOK, RevisionTypes
  <1>6. ASSUME NEW d \in DataPlane
        PROVE  Named(p, d)' /\ Agrees(p, d)'
    <2>1. edits[a][d] \in {"none", "add", "delete"} /\ Revised(a, d) /\ backend[p][d] \in Nat
      BY <1>2 DEF TypeOK, RevisionTypes
    <2>2. CASE edits[a][d] = "none"
      <3>1. Named(p, d) /\ Agrees(p, d) /\ backend'[p][d] = backend[p][d]
        BY <1>1, <1>3, <1>5, <2>1, <2>2 DEF Revised, Edited
      <3> QED
        BY <1>1, <1>4, <3>1 DEF Named, Agrees, Existing
    <2>3. CASE edits[a][d] = "add"
      <3>1. d \in database /\ addressToName[p][d] = "server" /\ backend'[p][d] = 1
        BY <1>3, <1>5, <2>1, <2>3 DEF Revised, Edited
      <3> QED
        BY <1>1, <1>4, <3>1 DEF Named, Agrees, Existing
    <2>4. CASE edits[a][d] = "delete"
      <3>1. d \notin database /\ addressToName[p][d] = "none" /\ backend'[p][d] = 0
        BY <1>3, <1>5, <2>1, <2>4 DEF Revised, Edited
      <3> QED
        BY <1>1, <1>4, <3>1 DEF Named, Agrees, Existing
    <2> QED
      BY <2>1, <2>2, <2>3, <2>4
  <1>7. ASSUME NEW q \in Replica, NEW d \in DataPlane
        PROVE  Named(q, d)' /\ (q \in Waiting(a) \/ Agrees(q, d)')
    <2>1. CASE q = p
      BY <1>6, <2>1
    <2>2. CASE q # p
      <3>1. (Named(q, d)' <=> Named(q, d)) /\ (Agrees(q, d)' <=> Agrees(q, d))
        BY <1>1, <1>4, <1>5, <2>2 DEF Named, Agrees, Existing
      <3> QED
        BY <1>2, <1>3, <2>2, <3>1 DEF Underway
    <2> QED
      BY <2>1, <2>2
  <1> QED
    BY <1>1, <1>4, <1>7, ReviserGoesOn

LEMMA ServersAgree ==
  ASSUME TypeOK, Balanced, NEW a \in Actor, ReviseRegistrationServers(a)
  PROVE  Balanced'
  <1>1. /\ Revising(a) /\ step[a] = "servers" /\ step' = [step EXCEPT ![a] = "none"]
        /\ UNCHANGED <<main, database, addressToName, backend, pc, place, keep, target>>
    BY DEF ReviseRegistrationServers, loop, storage, calls
  <1>2. Underway(a)
    BY <1>1, ReviserUnderway
  <1>3. \A p \in Replica : \A d \in DataPlane : Named(p, d)' /\ (p \in Waiting(a) \/ Agrees(p, d)')
    BY <1>1, <1>2, BalancersFrame DEF Underway
  <1> QED
    BY <1>1, <1>3, ReviserGoesOn

-----------------------------------------------------------------------------
(* Once disturbed, always disturbed: Agreement says nothing any more.  *)
LEMMA DisturbedStays ==
  ASSUME [Next]_vars, ~disturbed'
  PROVE  ~disturbed
  <1>1. ASSUME NEW r \in Replica, Election(r) \/ Announced(r) \/ Main(r) \/ RestartHAProxy(r)
        PROVE  ~disturbed
    BY <1>1 DEF Election, startLeader, HearOfTerm, AppendEntries, ConnectToPeer, Announced, RestartHAProxy, Main,
                EstablishLeaderElectionMesh, UpdateLeadership, destroyStateFromPreviousElectionTerm,
                ReconstructState, ReconstructionFails, Fatal, Reconstructed, StartNodeMonitoringLoop, revision
  <1>2. ASSUME NEW c \in Call, Arrive(c) \/ Handle(c)
        PROVE  ~disturbed
    BY <1>2 DEF Arrive, registrationHandler, CallApi, Handle, CheckLeader, GetLeader, GetLeaderFatal, Fatal, ServeOther,
                ServeDataplane, GetVersion, AddOrRemoveDataplane, GetHAProxyConfig, DisseminateHAProxyConfig, revision
  <1>3. ASSUME NEW a \in Actor, Revise(a)
        PROVE  ~disturbed
    BY <1>3 DEF Revise, StartTransaction, CommitTransaction, ReviseRegistrationServers, ReviseServer
  <1>4. CASE UNCHANGED vars
    BY <1>4 DEF vars, revision
  <1> QED
    BY <1>1, <1>2, <1>3, <1>4 DEF Next

LEMMA HandleAgrees ==
  ASSUME TypeOK, Revisions, Called, Leaderships, Current, Balanced, NEW c \in Call, Arrive(c) \/ Handle(c), ~disturbed'
  PROVE  Current' /\ Balanced'
  <1>1. CASE Arrive(c) \/ CheckLeader(c) \/ GetLeader(c) \/ ServeOther(c) \/ ServeDataplane(c)
    BY <1>1, PassingAgrees, ServeAgrees
  <1>2. CASE GetVersion(c) \/ AddOrRemoveDataplane(c) \/ GetHAProxyConfig(c) \/ DisseminateHAProxyConfig(c)
    <2>1. UNCHANGED <<election, loop, storage>>
      BY <1>2 DEF GetVersion, AddOrRemoveDataplane, GetHAProxyConfig, DisseminateHAProxyConfig
    <2>2. Balanced'
      BY <1>2, VersionAgrees, OwnAgrees, ConfigAgrees, DisseminateAgrees
    <2> QED
      BY <2>1, <2>2, CurrentFrame
  <1>3. ~GetLeaderFatal(c)
    BY DEF GetLeaderFatal, Fatal
  <1> QED
    BY <1>1, <1>2, <1>3 DEF Handle

LEMMA AgreementNext ==
  ASSUME TypeOK, Revisions, Called, Leaderships, Agreement, [Next]_vars
  PROVE  Agreement'
  <1> SUFFICES ASSUME ~disturbed'
               PROVE  Current' /\ Balanced'
    BY AgreementPartsNext
  <1>0. Current /\ Balanced
    BY DisturbedStays, AgreementParts
  <1>1. ASSUME NEW r \in Replica, Election(r) \/ Announced(r) \/ Main(r)
        PROVE  Current' /\ Balanced'
    <2>1. ~ReconstructionFails(r)
      BY DEF ReconstructionFails, Fatal
    <2> QED
      BY <1>0, <1>1, <2>1, ElectionAgrees, MainAgrees, ReconstructAgrees
  <1>2. ASSUME NEW r \in Replica, RestartHAProxy(r)
        PROVE  Current' /\ Balanced'
    <2>1. UNCHANGED <<election, loop, storage, addressToName, backend, calls, revision>>
      BY <1>2 DEF RestartHAProxy
    <2>2. Current'
      BY <1>0, <2>1, CurrentFrame
    <2>3. Balanced'
      BY <1>0, <2>1, BalancedFrame DEF loop, storage, calls, revision
    <2> QED
      BY <2>2, <2>3
  <1>3. ASSUME NEW c \in Call, Arrive(c) \/ Handle(c)
        PROVE  Current' /\ Balanced'
    BY <1>0, <1>3, HandleAgrees
  <1>4. ASSUME NEW a \in Actor, Revise(a)
        PROVE  Current' /\ Balanced'
    <2>1. UNCHANGED <<election, loop, storage>>
      BY <1>4 DEF Revise, StartTransaction, CommitTransaction, ReviseRegistrationServers, ReviseServer
    <2>2. Balanced'
      BY <1>0, <1>4, StartAgrees, ServerAgrees, CommitAgrees, ServersAgree DEF Revise
    <2> QED
      BY <1>0, <2>1, <2>2, CurrentFrame
  <1>5. CASE UNCHANGED vars
    <2>1. Current'
      BY <1>0, <1>5, CurrentFrame DEF vars
    <2>2. Balanced'
      BY <1>0, <1>5, BalancedFrame DEF vars, loop, storage, haproxy, calls, revision
    <2> QED
      BY <2>1, <2>2
  <1> QED
    BY <1>1, <1>2, <1>3, <1>4, <1>5 DEF Next

(* Calls that settled leaders have served one at a time leave every load
   balancer with the data planes of the leader, through changes of leader and
   whatever the other replicas do meanwhile (RegisterDataplane,
   DisseminateHAProxyConfig, ReconstructState).  *)
THEOREM BalancersAgree == Spec => []LoadBalancersAgree
  <1>1. Init => Leaderships /\ Agreement
    <2> SUFFICES ASSUME Init
                 PROVE  Leaderships /\ Agreement
      OBVIOUS
    <2>1. \A r \in Replica : main[r] = "connect" /\ ~wasLeaderBefore[r] /\ state[r] = "Follower"
      BY DEF Init
    <2>2. Leaderships
      BY <2>1 DEF Leaderships, InCharge, Elected, IsLeader
    <2>3. Current
      BY <2>1 DEF Current, UpToDate, InCharge
    <2>4. Busy = {}
      BY DEF Init, Busy
    <2>5. AllNamed /\ AllAgree
      BY DEF Init, AllNamed, AllAgree, Named, Agrees, Existing
    <2>6. Balanced
      BY <2>4, <2>5 DEF Balanced
    <2> QED
      BY <2>2, <2>3, <2>6, AgreementParts
  <1>2. TypeOK /\ Revisions /\ Called /\ Leaderships /\ Agreement /\ [Next]_vars => (Leaderships /\ Agreement)'
    BY LeadershipsNext, AgreementNext
  <1>3. TypeOK /\ Agreement => LoadBalancersAgree
    <2> SUFFICES ASSUME TypeOK, Agreement, ~disturbed, Busy = {}, NEW r \in Replica, NEW q \in Replica, Settled(r)
                 PROVE  Existing(q) = connections[r]
      BY DEF LoadBalancersAgree
    <2>1. Current /\ AllAgree
      BY AgreementParts DEF Balanced
    <2>2. connections[r] = database
      BY <2>1 DEF Current, Settled, UpToDate, InCharge
    <2>3. Existing(q) \subseteq DataPlane /\ database \subseteq DataPlane
      BY DEF Existing, TypeOK, OtherTypes
    <2> QED
      BY <2>1, <2>2, <2>3 DEF AllAgree, Agrees
  <1> QED
    BY <1>1, <1>2, <1>3, TypeCorrect, PTL DEF Spec
=============================================================================
