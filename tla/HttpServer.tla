----------------------------- MODULE HttpServer -----------------------------
(***************************************************************************)
(* The HTTP server in front of the task queue.  httplib accepts            *)
(* connections into a FIFO of jobs that a fixed pool of threads serves; a  *)
(* handler of server.cpp runs to its end on one of them.  Handlers that    *)
(* submit a task go through TaskQueue, which this module extends; a client *)
(* of /events keeps its thread until it hangs up, and may come back.  Each *)
(* connection carries one request.                                         *)
(***************************************************************************)
EXTENDS TaskQueue, FiniteSets

CONSTANTS Streams,   \* clients of /events
          PoolSize   \* CPPHTTPLIB_THREAD_POOL_COUNT

ASSUME PoolAssumption == PoolSize \in Nat \ {0}
ASSUME ClientAssumption == Tasks \cap Streams = {}

\* A task stands for the client that posted it.
Clients == Tasks \cup Streams

VARIABLES
  jobs,      \* accepted connections no thread has taken, oldest first
  active,    \* connections that have a thread
  answered   \* callers that have their answer

poolVars == <<jobs, active, answered>>
serverVars == <<vars, poolVars>>

Waiting(c) == \E j \in 1..Len(jobs) : jobs[j] = c

\* A connection is in one place, and nobody submits without a thread.
PoolTypeOK ==
  /\ jobs \in Seq(Clients)
  /\ active \subseteq Clients /\ Cardinality(active) <= PoolSize
  /\ answered \subseteq Tasks
  /\ \A c \in active : ~Waiting(c) /\ c \notin answered
  /\ \A t \in Tasks : pc[t] # "idle" => t \in active \cup answered

ServerTypeOK == TypeOK /\ PoolTypeOK

ServerInit ==
  /\ Init
  /\ jobs = <<>>
  /\ active = {}
  /\ answered = {}

Connect(c) ==
  /\ ~Waiting(c)
  /\ c \notin active \cup answered
  /\ jobs' = Append(jobs, c)
  /\ UNCHANGED <<vars, active, answered>>

Dispatch ==
  /\ jobs # <<>>
  /\ Cardinality(active) < PoolSize
  /\ active' = active \cup {Head(jobs)}
  /\ jobs' = Tail(jobs)
  /\ UNCHANGED <<vars, answered>>

\* A handler runs once its connection has a thread.
Handle(t) ==
  /\ t \in active
  /\ Submit(t)
  /\ UNCHANGED poolVars

\* Mutant: a handler whose task was not taken leaves without an answer, and
\* its thread never comes back to the pool.
RespondIfAccepted(t) ==
  /\ t \in active \cap Tasks
  /\ pc[t] = "accepted"
  /\ active' = active \ {t}
  /\ answered' = answered \cup {t}
  /\ UNCHANGED <<vars, jobs>>

\* A route answers when its handler returns: the task is submitted, or was
\* refused, and addAccount's wait for the registration has ended or run out.
Respond(t) ==
  /\ t \in active \cap Tasks
  /\ Submitted(t)
  /\ active' = active \ {t}
  /\ answered' = answered \cup {t}
  /\ UNCHANGED <<vars, jobs>>

\* The content provider of /events always returns true; only a client that is
\* gone ends it.
HangUp(s) ==
  /\ s \in active \cap Streams
  /\ active' = active \ {s}
  /\ UNCHANGED <<vars, jobs, answered>>

\* The worker and the thread in shutdown() are none of the pool's.
Background ==
  /\ WorkerProgress \/ SpuriousWakeup \/ ClearRunning \/ StopperProgress
  /\ UNCHANGED poolVars

ServerFinished ==
  /\ spc = "done"
  /\ answered = Tasks
  /\ UNCHANGED serverVars

ServerNext ==
  \/ \E c \in Clients : Connect(c)
  \/ Dispatch
  \/ \E t \in Tasks : Handle(t) \/ Respond(t)
  \/ \E s \in Streams : HangUp(s)
  \/ Background
  \/ ServerFinished

\* The pool's threads are scheduled like all others; nobody has to connect or
\* to hang up.
PoolFairness ==
  /\ WF_serverVars(Dispatch)
  /\ \A t \in Tasks :
       WF_serverVars(Handle(t) /\ CheckRunning(t)) /\ WF_serverVars(Respond(t))

ServerSpec == ServerInit /\ [][ServerNext]_serverVars /\ Fairness /\ PoolFairness

-----------------------------------------------------------------------------
(* Properties.                                                             *)

ThreadForCallers == Cardinality(active \cap Streams) < PoolSize

\* Every connection that was accepted gets its answer, however busy the task
\* queue is and also while the manager shuts down, if time and again the
\* clients of /events leave a thread: they keep the threads they have
\* (server.cpp, GET /events), and can keep them all.
CallersAreAnswered ==
  []<>ThreadForCallers => \A t \in Tasks : Waiting(t) ~> t \in answered

\* Whatever goes on in the pool, a shutdown returns once it has begun: the
\* join does not wait for a worker that sleeps for ever; enqueueTask keeps no
\* handler thread for ever; and what was queued is run, unless a shutdown
\* begins or there is no worker (Manager::shutdown, TaskQueue::enqueue,
\* Manager::workerThreadMain).
NobodyIsStuck ==
  /\ ShutdownReturns
  /\ SubmissionReturns
  /\ QueuedTaskRuns
=============================================================================
