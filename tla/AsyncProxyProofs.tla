-------------------------- MODULE AsyncProxyProofs --------------------------
(***************************************************************************)
(* Theorems of AsyncProxy, for every set of requests, every number of      *)
(* retries and of crashes.                                                 *)
(***************************************************************************)
EXTENDS AsyncProxy, TLAPS

----------------------------------------------------------------------------
(* Type correctness *)

\* Every state the proxy reaches is of the declared types; in particular no
\* goroutine fires a request more often than AllowedRetries.
THEOREM TypeCorrect == Spec => []TypeOK
<1>1. Init => TypeOK
  BY AsyncProxyAssumption DEF Init, TypeOK
<1>2. TypeOK /\ [Next]_vars => TypeOK'
  <2> SUFFICES ASSUME TypeOK, [Next]_vars PROVE TypeOK'
    OBVIOUS
  <2> USE AsyncProxyAssumption DEF TypeOK, tasks, db
  <2>1. CASE Start
    BY <2>1 DEF Start
  <2>2. CASE ScanBufferedResponses
    BY <2>2 DEF ScanBufferedResponses
  <2>3. CASE ScanBufferedRequests
    BY <2>3 DEF ScanBufferedRequests
  <2>4. ASSUME NEW c \in Code, Resend(c) PROVE TypeOK'
    BY <2>4 DEF Resend, Origin
  <2>5. CASE Recovered
    BY <2>5 DEF Recovered
  <2>6. ASSUME NEW c \in Code, PersistBufferedRequest(c) PROVE TypeOK'
    BY <2>6 DEF PersistBufferedRequest
  <2>7. ASSUME NEW c \in Code, Accept(c) PROVE TypeOK'
    BY <2>7 DEF Accept, Origin
  <2>8. ASSUME NEW c \in Code, NEW o \in Origin, fireRequest(c, o) PROVE TypeOK'
    <3>1. /\ NumberTries[c][o] \in 0..AllowedRetries
          /\ NumberTries[c][o] < AllowedRetries
      BY <2>8 DEF fireRequest
    <3>2. NumberTries[c][o] + 1 \in 0..AllowedRetries
      BY <3>1
    <3>3. CASE task' = [task EXCEPT ![c][o] = "answered"] /\ UNCHANGED NumberTries
      BY <2>8, <3>3 DEF fireRequest
    <3>4. CASE NumberTries' = [NumberTries EXCEPT ![c][o] = @ + 1] /\ UNCHANGED task
      BY <2>8, <3>2, <3>4 DEF fireRequest
    <3> QED BY <2>8, <3>3, <3>4 DEF fireRequest
  <2>9. ASSUME NEW c \in Code, NEW o \in Origin, GiveUp(c, o) PROVE TypeOK'
    BY <2>9 DEF GiveUp, Task
  <2>10. ASSUME NEW c \in Code, NEW o \in Origin, StoreResponse(c, o) PROVE TypeOK'
    BY <2>10 DEF StoreResponse, Task
  <2>11. ASSUME NEW c \in Code, NEW o \in Origin, PersistBufferedResponse(c, o)
         PROVE TypeOK'
    BY <2>11 DEF PersistBufferedResponse, Task
  <2>12. ASSUME NEW c \in Code, NEW o \in Origin, DeleteBufferedRequest(c, o)
         PROVE TypeOK'
    BY <2>12 DEF DeleteBufferedRequest, Task
  <2>13. CASE startGarbageCollector
    BY <2>13 DEF startGarbageCollector
  <2>14. CASE Crash
    BY <2>14 DEF Crash
  <2>15. CASE UNCHANGED vars
    BY <2>15 DEF vars
  <2> QED BY <2>1, <2>2, <2>3, <2>4, <2>5, <2>6, <2>7, <2>8, <2>9, <2>10, <2>11,
             <2>12, <2>13, <2>14, <2>15 DEF Next, BootStep, TaskStep
<1> QED BY <1>1, <1>2, PTL DEF Spec

----------------------------------------------------------------------------
(* The recovery forgets no request *)

\* One step of the proxy, whatever it is, preserves RecoveryInv.
LEMMA RecoveryInvStep ==
    ASSUME ResponseMayBeLost = FALSE, TypeOK, RecoveryInv, [Next]_vars
    PROVE  RecoveryInv'
<1> USE DEF TypeOK, RecoveryInv, Handled, tasks, db, Origin
<1>1. CASE Start
  BY <1>1 DEF Start
<1>2. CASE ScanBufferedResponses
  BY <1>2 DEF ScanBufferedResponses
<1>3. CASE ScanBufferedRequests
  BY <1>3 DEF ScanBufferedRequests
<1>4. ASSUME NEW c \in Code, Resend(c) PROVE RecoveryInv'
  BY <1>4 DEF Resend
<1>5. CASE Recovered
  BY <1>5 DEF Recovered
<1>6. ASSUME NEW c \in Code, PersistBufferedRequest(c) PROVE RecoveryInv'
  BY <1>6 DEF PersistBufferedRequest
<1>7. ASSUME NEW c \in Code, Accept(c) PROVE RecoveryInv'
  BY <1>7 DEF Accept
<1>8. ASSUME NEW c \in Code, NEW o \in Origin, fireRequest(c, o) PROVE RecoveryInv'
  <2>1. UNCHANGED <<boot, client, Responses, toResend, dbRequests, dbResponses>>
    BY <1>8 DEF fireRequest
  <2>2. \A d \in Code, p \in Origin :
           /\ task[d][p] # "none" => task'[d][p] # "none"
           /\ task'[d][p] = "persisted" => task[d][p] = "persisted"
    <3>1. CASE task' = task
      BY <3>1
    <3>2. CASE task' = [task EXCEPT ![c][o] = "answered"]
      BY <3>2
    <3> QED BY <1>8, <3>1, <3>2 DEF fireRequest
  <2> QED BY <2>1, <2>2
<1>9. ASSUME NEW c \in Code, NEW o \in Origin, GiveUp(c, o) PROVE RecoveryInv'
  BY <1>9 DEF GiveUp, Task
<1>10. ASSUME NEW c \in Code, NEW o \in Origin, StoreResponse(c, o) PROVE RecoveryInv'
  BY <1>10 DEF StoreResponse, Task
<1>11. ASSUME NEW c \in Code, NEW o \in Origin, PersistBufferedResponse(c, o)
       PROVE RecoveryInv'
  BY <1>11 DEF PersistBufferedResponse, Task
<1>12. ASSUME NEW c \in Code, NEW o \in Origin, DeleteBufferedRequest(c, o)
       PROVE RecoveryInv'
  BY <1>12 DEF DeleteBufferedRequest, Task
<1>13. CASE startGarbageCollector
  BY <1>13 DEF startGarbageCollector
<1>14. CASE Crash
  BY <1>14 DEF Crash
<1>15. CASE UNCHANGED vars
  BY <1>15 DEF vars
<1> HIDE DEF TypeOK, RecoveryInv, Handled, tasks, db, Origin
<1> QED BY <1>1, <1>2, <1>3, <1>4, <1>5, <1>6, <1>7, <1>8, <1>9, <1>10, <1>11,
           <1>12, <1>13, <1>14, <1>15 DEF Next, BootStep, TaskStep

\* While the database stores every response it is given, a request whose
\* client has a code is in the database or has its response there, and after
\* every recovery it has a response to read or a goroutine that fires it:
\* however crashes, retries, invocations during the recovery
\* (createAsyncInvocationHandler) and the garbage collector interleave.
THEOREM RecoveryForgetsNothing ==
    ASSUME ResponseMayBeLost = FALSE
    PROVE  Spec => [](AcceptedIsDurable /\ AcceptedIsHandled)
<1>1. Init => RecoveryInv
  BY DEF Init, RecoveryInv
<1>2. TypeOK /\ RecoveryInv /\ [Next]_vars => RecoveryInv'
  BY RecoveryInvStep
<1>3. RecoveryInv => AcceptedIsDurable /\ AcceptedIsHandled
  BY DEF RecoveryInv, AcceptedIsDurable, AcceptedIsHandled, Handled
<1> QED BY <1>1, <1>2, <1>3, TypeCorrect, PTL DEF Spec

----------------------------------------------------------------------------
(* The recovery fires no request twice *)

\* One step of the proxy, whatever it is, preserves OneTaskInv.
LEMMA OneTaskInvStep ==
    ASSUME TypeOK, OneTaskInv, [Next]_vars
    PROVE  OneTaskInv'
<1> USE DEF TypeOK, OneTaskInv, tasks, db, Origin
<1>1. CASE Start
  BY <1>1 DEF Start
<1>2. CASE ScanBufferedResponses
  BY <1>2 DEF ScanBufferedResponses
<1>3. CASE ScanBufferedRequests
  BY <1>3 DEF ScanBufferedRequests
<1>4. ASSUME NEW c \in Code, Resend(c) PROVE OneTaskInv'
  BY <1>4 DEF Resend
<1>5. CASE Recovered
  BY <1>5 DEF Recovered
<1>6. ASSUME NEW c \in Code, PersistBufferedRequest(c) PROVE OneTaskInv'
  BY <1>6 DEF PersistBufferedRequest
<1>7. ASSUME NEW c \in Code, Accept(c) PROVE OneTaskInv'
  BY <1>7 DEF Accept
<1>8. ASSUME NEW c \in Code, NEW o \in Origin, fireRequest(c, o) PROVE OneTaskInv'
  <2>1. UNCHANGED <<boot, client, Responses, toResend, early, dbRequests, dbResponses>>
    BY <1>8 DEF fireRequest
  <2>2. CASE task' = task
    BY <2>1, <2>2
  <2>3. CASE task' = [task EXCEPT ![c][o] = "answered"]
    BY <1>8, <2>1, <2>3 DEF fireRequest
  <2> QED BY <1>8, <2>2, <2>3 DEF fireRequest
<1>9. ASSUME NEW c \in Code, NEW o \in Origin, GiveUp(c, o) PROVE OneTaskInv'
  BY <1>9 DEF GiveUp, Task
<1>10. ASSUME NEW c \in Code, NEW o \in Origin, StoreResponse(c, o) PROVE OneTaskInv'
  BY <1>10 DEF StoreResponse, Task
<1>11. ASSUME NEW c \in Code, NEW o \in Origin, PersistBufferedResponse(c, o)
       PROVE OneTaskInv'
  BY <1>11 DEF PersistBufferedResponse, Task
<1>12. ASSUME NEW c \in Code, NEW o \in Origin, DeleteBufferedRequest(c, o)
       PROVE OneTaskInv'
  BY <1>12 DEF DeleteBufferedRequest, Task
<1>13. CASE startGarbageCollector
  BY <1>13 DEF startGarbageCollector
<1>14. CASE Crash
  BY <1>14 DEF Crash
<1>15. CASE UNCHANGED vars
  BY <1>15 DEF vars
<1> HIDE DEF TypeOK, OneTaskInv, tasks, db, Origin
<1> QED BY <1>1, <1>2, <1>3, <1>4, <1>5, <1>6, <1>7, <1>8, <1>9, <1>10, <1>11,
           <1>12, <1>13, <1>14, <1>15 DEF Next, BootStep, TaskStep

\* At most one goroutine fires a request at any time, unless the request came
\* in between the start of the process and the end of ScanBufferedRequests:
\* for every crash, failed deletion and failed store of the database, and
\* with clients that invoke all the time.
THEOREM RecoveryFiresOnce == Spec => []OneTaskPerRequest
<1>1. Init => OneTaskInv
  BY DEF Init, OneTaskInv, Origin
<1>2. TypeOK /\ OneTaskInv /\ [Next]_vars => OneTaskInv'
  BY OneTaskInvStep
<1>3. OneTaskInv => OneTaskPerRequest
  BY DEF OneTaskInv, OneTaskPerRequest, SingleTask, Origin
<1> QED BY <1>1, <1>2, <1>3, TypeCorrect, PTL DEF Spec

\* Nor is a response to such a request, once a client can read it, ever
\* replaced by the failure of another attempt (GiveUp, after retries and a
\* recovery).
THEOREM ResponsesStay == Spec => ResponseStable
<1>1. Init => OneTaskInv
  BY DEF Init, OneTaskInv, Origin
<1>2. TypeOK /\ OneTaskInv /\ [Next]_vars => OneTaskInv'
  BY OneTaskInvStep
<1>3. TypeOK /\ OneTaskInv /\ [Next]_vars =>
        [\A c \in Code \ early : Responses[c] = "ok" => Responses'[c] # "failed"]_vars
  <2> SUFFICES ASSUME TypeOK, OneTaskInv, [Next]_vars, NEW c \in Code \ early,
                      Responses[c] = "ok"
               PROVE  Responses'[c] # "failed"
    OBVIOUS
  <2>1. ASSUME NEW d \in Code, NEW o \in Origin, GiveUp(d, o)
        PROVE  Responses'[c] # "failed"
    BY <2>1 DEF GiveUp, Task, TypeOK, OneTaskInv
  <2>2. ASSUME NEW d \in Code, NEW o \in Origin, StoreResponse(d, o)
        PROVE  Responses'[c] # "failed"
    BY <2>2 DEF StoreResponse, TypeOK
  <2>3. CASE ScanBufferedResponses \/ startGarbageCollector \/ Crash
    BY <2>3 DEF ScanBufferedResponses, startGarbageCollector, Crash
  <2>4. CASE UNCHANGED Responses
    BY <2>4
  <2> QED BY <2>1, <2>2, <2>3, <2>4 DEF Next, BootStep, TaskStep, Start,
             ScanBufferedRequests, Resend, Recovered, PersistBufferedRequest,
             Accept, fireRequest, PersistBufferedResponse,
             DeleteBufferedRequest, vars
<1> QED BY <1>1, <1>2, <1>3, TypeCorrect, PTL DEF Spec, ResponseStable
=============================================================================
