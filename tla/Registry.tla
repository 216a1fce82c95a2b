------------------------------ MODULE Registry ------------------------------
(***************************************************************************)
(* What the control plane promises to those who register with it, whatever *)
(* happens to its replicas: an answered registration is what every replica *)
(* would rebuild its state from, and so is an answered deregistration.     *)
(* view[r] is what replica r would read if it became the leader; answered  *)
(* is what the last call for a key has been told.  While a call is not     *)
(* answered, the replicas may disagree about its key and about no other.   *)
(***************************************************************************)
EXTENDS Naturals

CONSTANTS Key, Replica

VARIABLES view, answered

vars == <<view, answered>>

Answers == {"unknown", "registered", "deregistered"}

TypeOK ==
  /\ view \in [Replica -> SUBSET Key]
  /\ answered \in [Key -> Answers]

Init ==
  /\ view = [r \in Replica |-> {}]
  /\ answered = [k \in Key |-> "deregistered"]

(* A handler writes or deletes its key at the replica that serves it: from
   then on the client cannot know.  *)
Write(r, k) ==
  /\ \E v \in {view[r] \cup {k}, view[r] \ {k}} : view' = [view EXCEPT ![r] = v]
  /\ answered' = [answered EXCEPT ![k] = "unknown"]

(* Replicas catch up with each other.  *)
Sync(r) ==
  \E q \in Replica : view' = [view EXCEPT ![r] = view[q]]
  /\ UNCHANGED answered

(* A call is answered once every replica agrees with the answer.  *)
Answer(k) ==
  /\ \/ /\ \A r \in Replica : k \in view[r]
        /\ answered' = [answered EXCEPT ![k] = "registered"]
     \/ /\ \A r \in Replica : k \notin view[r]
        /\ answered' = [answered EXCEPT ![k] = "deregistered"]
  /\ UNCHANGED view

Next ==
  \/ \E r \in Replica : Sync(r) \/ \E k \in Key : Write(r, k)
  \/ \E k \in Key : Answer(k)

Spec == Init /\ [][Next]_vars

(* An answered registration is in every replica's copy of the database, an
   answered deregistration in none: no change of leader undoes either.  *)
AnsweredIsDurable ==
  \A k \in Key : \A r \in Replica :
    /\ answered[k] = "registered" => k \in view[r]
    /\ answered[k] = "deregistered" => k \notin view[r]
=============================================================================
