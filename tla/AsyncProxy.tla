----------------------------- MODULE AsyncProxy -----------------------------
(***************************************************************************)
(* The asynchronous proxy of a data plane (proxy/async_proxy_handler.go)   *)
(* with the database in which it keeps requests and responses              *)
(* (proxy/persistence/redis_persistence.go): a client gets a code for its  *)
(* request and asks for the response later; requests are fired by          *)
(* goroutines and retried; after a crash the proxy loads the responses and *)
(* fires the requests that have none.                                      *)
(*                                                                         *)
(* What a request and its response say is left out, and fireRequest is     *)
(* abstracted to its outcome (RequestPath models what it does). A task is  *)
(* a goroutine of asyncRequestHandler; a request can have one that comes   *)
(* from its client and one that comes from the recovery.                   *)
(***************************************************************************)
EXTENDS Integers, FiniteSets

CONSTANTS
    Code,               \* requests, by their unique code
    AllowedRetries,
    MaxCrashes,         \* bound: crashes of the data plane
    ResponseMayBeLost   \* may the database fail to store a response?

ASSUME AsyncProxyAssumption ==
    /\ IsFiniteSet(Code)
    /\ AllowedRetries \in Nat \ {0}
    /\ MaxCrashes \in Nat
    /\ ResponseMayBeLost \in BOOLEAN

Origin == {"client", "recovery"}

VARIABLES
    boot,        \* where StartProxyServer is
    crashes,     \* crashes so far
    client,      \* what the client of each request knows
    Responses,   \* ps.Responses
    task,        \* the goroutines that fire each request
    NumberTries, \* and their attempts so far
    toResend,    \* requests found by the recovery and not looked at yet
    early,       \* requests that came in before the recovery had read them all
    dbRequests,  \* the database
    dbResponses

tasks == <<task, NumberTries>>
db == <<dbRequests, dbResponses>>
vars == <<boot, crashes, client, Responses, tasks, toResend, early, db>>

Task(c, o, from, to) == task[c][o] = from /\ task' = [task EXCEPT ![c][o] = to]

\* ResponsesLock is held for reading while the recovery resends.
MayWriteResponses == boot # "resend"

Init ==
    /\ boot = "down"
    /\ crashes = 0
    /\ client = [c \in Code |-> "new"]
    /\ Responses = [c \in Code |-> "none"]
    /\ task = [c \in Code |-> [o \in Origin |-> "none"]]
    /\ NumberTries = [c \in Code |-> [o \in Origin |-> 0]]
    /\ toResend = {}
    /\ early = {}
    /\ dbRequests = {}
    /\ dbResponses = {}

----------------------------------------------------------------------------
(* StartProxyServer: the servers accept from the first step on. *)

Start ==
    /\ boot = "down"
    /\ boot' = "scanResponses"
    /\ UNCHANGED <<crashes, client, Responses, tasks, toResend, early, db>>

\* Persisted responses are loaded and asyncRequestHandler starts.
ScanBufferedResponses ==
    /\ boot = "scanResponses"
    /\ boot' = "scanRequests"
    /\ Responses' = [c \in Code |-> IF c \in dbResponses THEN "ok" ELSE Responses[c]]
    /\ UNCHANGED <<crashes, client, tasks, toResend, early, db>>

ScanBufferedRequests ==
    /\ boot = "scanRequests"
    /\ boot' = "resend"
    /\ toResend' = dbRequests
    /\ UNCHANGED <<crashes, client, Responses, tasks, early, db>>

\* Mutant: requests are resent whether or not they have a response.
ResendAll(c) ==
    /\ boot = "resend" /\ c \in toResend
    /\ toResend' = toResend \ {c}
    /\ task' = [task EXCEPT ![c]["recovery"] = "received"]
    /\ UNCHANGED <<boot, crashes, client, Responses, NumberTries, early, db>>

\* Mutant: requests are not resent.
ResendNone(c) ==
    /\ boot = "resend" /\ c \in toResend
    /\ toResend' = toResend \ {c}
    /\ UNCHANGED <<boot, crashes, client, Responses, tasks, early, db>>

\* A request without a response goes to asyncRequestHandler.
Resend(c) ==
    /\ boot = "resend" /\ c \in toResend
    /\ toResend' = toResend \ {c}
    /\ task' = IF Responses[c] = "none" THEN [task EXCEPT ![c]["recovery"] = "received"]
               ELSE task
    /\ UNCHANGED <<boot, crashes, client, Responses, NumberTries, early, db>>

\* Mutant: the scan of the requests is repeated periodically.
RecoveredAgain ==
    /\ toResend = {}
    /\ \/ boot = "resend" /\ boot' = "up"
       \/ boot = "up" /\ boot' = "scanRequests"
    /\ UNCHANGED <<crashes, client, Responses, tasks, toResend, early, db>>

Recovered ==
    /\ boot = "resend" /\ toResend = {}
    /\ boot' = "up"
    /\ UNCHANGED <<crashes, client, Responses, tasks, toResend, early, db>>

----------------------------------------------------------------------------
(* createAsyncInvocationHandler *)

\* The handler persists the request; if that fails the client gets a 500.
\* The server listens before the recovery has begun.
PersistBufferedRequest(c) ==
    /\ boot # "down"
    /\ client[c] = "new"
    /\ \/ /\ client' = [client EXCEPT ![c] = "persisted"]
          /\ dbRequests' = dbRequests \cup {c}
          /\ early' = IF boot \in {"scanResponses", "scanRequests"} THEN early \cup {c} ELSE early
       \/ /\ client' = [client EXCEPT ![c] = "refused"]
          /\ UNCHANGED <<dbRequests, early>>
    /\ UNCHANGED <<boot, crashes, Responses, tasks, toResend, dbResponses>>

\* asyncRequestHandler receives it, and the client is told the code.
Accept(c) ==
    /\ boot \in {"scanRequests", "resend", "up"}
    /\ client[c] = "persisted"
    /\ client' = [client EXCEPT ![c] = "accepted"]
    /\ task' = [task EXCEPT ![c]["client"] = "received"]
    /\ UNCHANGED <<boot, crashes, Responses, NumberTries, toResend, early, db>>

----------------------------------------------------------------------------
(* The goroutines of asyncRequestHandler *)

\* Mutant: attempts are not counted against the limit.
fireRequestForever(c, o) ==
    /\ task[c][o] = "received"
    /\ \/ /\ task' = [task EXCEPT ![c][o] = "answered"]
          /\ UNCHANGED NumberTries
       \/ /\ NumberTries' = [NumberTries EXCEPT ![c][o] = @ + 1]
          /\ UNCHANGED task
    /\ UNCHANGED <<boot, crashes, client, Responses, toResend, early, db>>

\* fireRequest answers 200 or 400, or fails and the request goes back into
\* the channel.
fireRequest(c, o) ==
    /\ task[c][o] = "received"
    /\ NumberTries[c][o] < AllowedRetries
    /\ \/ /\ task' = [task EXCEPT ![c][o] = "answered"]
          /\ UNCHANGED NumberTries
       \/ /\ NumberTries' = [NumberTries EXCEPT ![c][o] = @ + 1]
          /\ UNCHANGED task
    /\ UNCHANGED <<boot, crashes, client, Responses, toResend, early, db>>

\* A request that has failed too often gets a response, in memory only.
GiveUp(c, o) ==
    /\ NumberTries[c][o] >= AllowedRetries
    /\ MayWriteResponses
    /\ Task(c, o, "received", "done")
    /\ Responses' = [Responses EXCEPT ![c] = "failed"]
    /\ UNCHANGED <<boot, crashes, client, NumberTries, toResend, early, db>>

StoreResponse(c, o) ==
    /\ MayWriteResponses
    /\ Task(c, o, "answered", "stored")
    /\ Responses' = [Responses EXCEPT ![c] = "ok"]
    /\ UNCHANGED <<boot, crashes, client, NumberTries, toResend, early, db>>

\* A failure of the database is only logged.
PersistBufferedResponse(c, o) ==
    /\ Task(c, o, "stored", "persisted")
    /\ \/ dbResponses' = dbResponses \cup {c}
       \/ ResponseMayBeLost /\ UNCHANGED dbResponses
    /\ UNCHANGED <<boot, crashes, client, Responses, NumberTries, toResend, early,
                   dbRequests>>

\* Whatever came of the response, the request is deleted; a failure of that
\* is only logged too.
DeleteBufferedRequest(c, o) ==
    /\ Task(c, o, "persisted", "done")
    /\ dbRequests' \in {dbRequests, dbRequests \ {c}}
    /\ UNCHANGED <<boot, crashes, client, Responses, NumberTries, toResend, early,
                   dbResponses>>

----------------------------------------------------------------------------

\* startGarbageCollector compares an age in seconds with a minute in
\* nanoseconds: only the responses of GiveUp, which have no timestamp, are
\* old enough.
startGarbageCollector ==
    /\ boot \notin {"down", "resend"}
    /\ Responses' = [c \in Code |-> IF Responses[c] = "failed" THEN "none" ELSE Responses[c]]
    /\ UNCHANGED <<boot, crashes, client, tasks, toResend, early, db>>

\* The process ends: by a failure of the machine, or a panic in fireRequest.
\* A client that has no code yet has lost its connection.
Crash ==
    /\ boot # "down"
    /\ crashes < MaxCrashes
    /\ crashes' = crashes + 1
    /\ boot' = "down"
    /\ client' = [c \in Code |-> IF client[c] = "persisted" THEN "refused" ELSE client[c]]
    /\ Responses' = [c \in Code |-> "none"]
    /\ task' = [c \in Code |-> [o \in Origin |-> "none"]]
    /\ NumberTries' = [c \in Code |-> [o \in Origin |-> 0]]
    /\ toResend' = {}
    /\ early' = {}
    /\ UNCHANGED db

BootStep ==
    \/ Start
    \/ ScanBufferedResponses
    \/ ScanBufferedRequests
    \/ \E c \in Code : Resend(c)
    \/ Recovered

TaskStep(c, o) ==
    \/ GiveUp(c, o)
    \/ StoreResponse(c, o)
    \/ PersistBufferedResponse(c, o)
    \/ DeleteBufferedRequest(c, o)

Next ==
    \/ BootStep
    \/ \E c \in Code : PersistBufferedRequest(c) \/ Accept(c)
    \/ \E c \in Code, o \in Origin : fireRequest(c, o) \/ TaskStep(c, o)
    \/ startGarbageCollector
    \/ Crash

Spec == Init /\ [][Next]_vars

\* A data plane that is down is started again and gets through its recovery,
\* and goroutines run. Nothing is assumed of fireRequest, which waits for a
\* cold start and for the sandbox without a deadline.
Fairness ==
    /\ WF_vars(BootStep)
    /\ \A c \in Code, o \in Origin : WF_vars(TaskStep(c, o))

FairSpec == Spec /\ Fairness

----------------------------------------------------------------------------
(* Properties *)

\* The values of the proxy's variables; a task is never tried more often
\* than allowed.
TypeOK ==
    /\ boot \in {"down", "scanResponses", "scanRequests", "resend", "up"}
    /\ crashes \in 0..MaxCrashes
    /\ client \in [Code -> {"new", "persisted", "refused", "accepted"}]
    /\ Responses \in [Code -> {"none", "ok", "failed"}]
    /\ task \in [Code -> [Origin -> {"none", "received", "answered", "stored", "persisted", "done"}]]
    /\ NumberTries \in [Code -> [Origin -> 0..AllowedRetries]]
    /\ toResend \in SUBSET Code
    /\ early \in SUBSET Code
    /\ dbRequests \in SUBSET Code
    /\ dbResponses \in SUBSET Code

\* A request whose client was told a code survives a crash at any moment:
\* the database has the request or its response.
AcceptedIsDurable ==
    \A c \in Code : client[c] = "accepted" => c \in dbRequests \cup dbResponses

\* A response a client can read never turns into the failure of another
\* attempt at the same request (fireRequest's retries, the recovery), unless
\* the request came in before the recovery had read the requests.
ResponseStable ==
    [][\A c \in Code \ early : Responses[c] = "ok" => Responses'[c] # "failed"]_vars

SingleTask(c) == \E o \in Origin : task[c][o] \in {"none", "done"}

\* The recovery fires a request again only when nobody else is firing it,
\* however often the process has crashed. The exception are requests that
\* their handlers persist after the server has begun to listen and before
\* ScanBufferedRequests has returned: any later one is fired once ...
OneTaskPerRequest == \A c \in Code \ early : SingleTask(c)

\* "Load responses and requests and resend requests without response": no
\* request is fired by two goroutines. (Not so for the early ones.)
FiredOnce == \A c \in Code : SingleTask(c)

\* ... and when it is over every request whose client has a code has a
\* response to read, or a goroutine that fires it (or has given it up).
AcceptedIsHandled ==
    boot = "up" => \A c \in Code : client[c] = "accepted" =>
        Responses[c] # "none" \/ \E o \in Origin : task[c][o] # "none"

Handled(c) == Responses[c] # "none" \/ \E o \in Origin : task[c][o] # "none"

\* Why AcceptedIsDurable and AcceptedIsHandled hold, as an inductive
\* invariant: a goroutine about to delete a request has persisted its
\* response; what a scan did not hand to the recovery is handled; and only a
\* goroutine that is still known gives a request up.
RecoveryInv ==
    /\ \A c \in Code : client[c] \in {"persisted", "accepted"} => c \in dbRequests \cup dbResponses
    /\ \A c \in Code, o \in Origin : task[c][o] = "persisted" => c \in dbResponses
    /\ \A c \in Code : Responses[c] = "failed" => \E o \in Origin : task[c][o] # "none"
    /\ boot \in {"scanRequests", "resend", "up"} => \A c \in dbResponses : Handled(c)
    /\ boot = "resend" => \A c \in Code : client[c] = "accepted" => Handled(c) \/ c \in toResend
    /\ boot = "up" => \A c \in Code : client[c] = "accepted" => Handled(c)

\* Why OneTaskPerRequest and ResponseStable hold, as an inductive invariant:
\* what the recovery fires is early or comes from an earlier incarnation of
\* the process, and a request with a response is not being fired.
OneTaskInv ==
    /\ boot = "down" => early = {}
    /\ \A c \in Code : client[c] = "new" => c \notin dbRequests \cup early
    /\ \A c \in Code \ early : client[c] = "persisted" => boot \in {"resend", "up"}
    /\ \A c \in Code \ early : client[c] \in {"new", "persisted"} =>
          /\ c \notin dbResponses \cup toResend
          /\ Responses[c] = "none"
          /\ \A o \in Origin : task[c][o] = "none"
    /\ boot \in {"down", "scanResponses", "scanRequests"} =>
          \A c \in Code \ early, o \in Origin : task[c][o] = "none"
    /\ \A c \in Code \ early :
          /\ task[c]["client"] # "none" => c \notin toResend /\ task[c]["recovery"] = "none"
          /\ Responses[c] = "ok" =>
                \A o \in Origin : task[c][o] \notin {"received", "answered"}

\* A client that was told a code can, at some time, read a response, whatever
\* crashes come in between, if each fireRequest of its request returns: it
\* does not take that those of other requests return. (A response that says
\* the request was given up is collected later: it need not stay.)
AcceptedIsAnswered ==
    \A c \in Code :
        (\A o \in Origin : WF_vars(fireRequest(c, o))) =>
            ((client[c] = "accepted" /\ \A o \in Origin : task[c][o] # "done")
                ~> (Responses[c] # "none"))
=============================================================================
