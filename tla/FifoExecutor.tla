---------------------------- MODULE FifoExecutor ----------------------------
(***************************************************************************)
(* What Manager's task queue and worker thread promise to the rest of the  *)
(* SIP layer: submitted tasks run one at a time, in the order they were    *)
(* accepted, and once shutdown has begun the worker starts at most the one *)
(* task it was already committed to take.  Queue operations are atomic     *)
(* here: the mutex, the condition variable and the steps of a submission   *)
(* are those of TaskQueue, which implements this module.                   *)
(***************************************************************************)
EXTENDS Naturals, Sequences

CONSTANTS Tasks,   \* what can be submitted
          NoTask   \* the worker holds no task

VARIABLES
  backlog,   \* accepted tasks the worker has not taken, oldest first
  current,   \* the task being run, or NoTask
  phase,     \* "open", "closing": m_running is false, "closed": stopped too
  worker     \* where the worker thread stands in its loop

execVars == <<backlog, current, phase, worker>>

Phases == {"open", "closing", "closed"}

\* "ready": the worker found m_running true and will take the next task.
WorkerStates == {"starting", "between", "ready", "busy", "retired", "failed"}

ExecTypeOK ==
  /\ backlog \in Seq(Tasks)
  /\ current \in Tasks \cup {NoTask}
  /\ phase \in Phases
  /\ worker \in WorkerStates
  /\ current # NoTask <=> worker = "busy"

ExecInit ==
  /\ backlog = <<>>
  /\ current = NoTask
  /\ phase = "open"
  /\ worker = "starting"

-----------------------------------------------------------------------------
\* A queue that is not yet stopped takes the task.
Accept(t) ==
  /\ phase # "closed"
  /\ backlog' = Append(backlog, t)
  /\ UNCHANGED <<current, phase, worker>>

\* pj_thread_register: on failure the thread returns, and nobody replaces it.
Register ==
  /\ worker = "starting"
  /\ worker' \in {"between", "failed"}
  /\ UNCHANGED <<backlog, current, phase>>

\* while (m_running)
Check ==
  /\ worker = "between"
  /\ worker' = IF phase = "open" THEN "ready" ELSE "retired"
  /\ UNCHANGED <<backlog, current, phase>>

\* The oldest task is taken, even from a stopped queue.
Start ==
  /\ worker = "ready"
  /\ backlog # <<>>
  /\ current' = Head(backlog)
  /\ backlog' = Tail(backlog)
  /\ worker' = "busy"
  /\ UNCHANGED phase

\* A stopped and empty queue hands out no task.
Decline ==
  /\ worker = "ready"
  /\ phase = "closed"
  /\ backlog = <<>>
  /\ worker' = "between"
  /\ UNCHANGED <<backlog, current, phase>>

\* The task returned or threw a std::exception.
Finish ==
  /\ worker = "busy"
  /\ current' = NoTask
  /\ worker' = "between"
  /\ UNCHANGED <<backlog, phase>>

BeginClose ==
  /\ phase = "open"
  /\ phase' = "closing"
  /\ UNCHANGED <<backlog, current, worker>>

Close ==
  /\ phase = "closing"
  /\ phase' = "closed"
  /\ UNCHANGED <<backlog, current, worker>>

WorkerStep == Register \/ Check \/ Start \/ Decline \/ Finish

ExecNext ==
  \/ \E t \in Tasks : Accept(t)
  \/ WorkerStep
  \/ BeginClose
  \/ Close

\* The worker thread is scheduled, its tasks return, a shutdown goes on.
ExecFairness == WF_execVars(WorkerStep) /\ WF_execVars(Close)

ExecSpec == ExecInit /\ [][ExecNext]_execVars /\ ExecFairness
=============================================================================
