------------------------------ MODULE TaskQueue ------------------------------
(***************************************************************************)
(* Manager::TaskQueue with the three kinds of thread that use it: the HTTP *)
(* handler threads that submit a task each (enqueueTask), the worker       *)
(* thread, and the thread that runs Manager::shutdown.  Every lock, unlock, *)
(* wait and notification is a step of its own, because what can go wrong   *)
(* here is an interleaving: a notification that finds nobody asleep, a     *)
(* shutdown that slips between a test and the action it guards.            *)
(***************************************************************************)
EXTENDS Naturals, Sequences

CONSTANTS Tasks,             \* the tasks, each submitted by a thread of its own
          NoTask,            \* a std::function that holds nothing
          Worker, Stopper,   \* the worker thread; the one in shutdown()
          Nobody             \* the mutex is free

ASSUME NoTaskAssumption == NoTask \notin Tasks
ASSUME ThreadAssumption ==
  /\ {Worker, Stopper, Nobody} \cap Tasks = {}
  /\ Worker # Stopper /\ Worker # Nobody /\ Stopper # Nobody

VARIABLES
  running,   \* m_running
  stopped,   \* m_taskQueue.stopped
  tasks,     \* m_taskQueue.tasks
  mutex,     \* who holds m_taskQueue.mutex
  pc,        \* where the submission of each task stands
  wpc,       \* where the worker stands; "sleep" is inside condition.wait
  wtask,     \* the worker's local task
  spc        \* where the thread in shutdown() stands

vars == <<running, stopped, tasks, mutex, pc, wpc, wtask, spc>>

\* A submission ends "accepted", "dropped" (queue stopped) or "rejected"
\* (enqueueTask threw).
ProducerStates ==
  {"idle", "lock", "locked", "notify", "accepted", "dropped", "rejected"}

WorkerStates ==
  {"register", "loop", "lock", "test", "block", "sleep", "run", "exit",
   "gone", "failed"}

StopperStates == {"idle", "lock", "locked", "notify", "join", "done"}

TypeOK ==
  /\ running \in BOOLEAN
  /\ stopped \in BOOLEAN
  /\ tasks \in Seq(Tasks)
  /\ mutex \in Tasks \cup {Worker, Stopper, Nobody}
  /\ pc \in [Tasks -> ProducerStates]
  /\ wpc \in WorkerStates
  /\ wtask \in Tasks \cup {NoTask}
  /\ wtask # NoTask <=> wpc = "run"
  /\ spc \in StopperStates

Init ==
  /\ running = TRUE
  /\ stopped = FALSE
  /\ tasks = <<>>
  /\ mutex = Nobody
  /\ pc = [t \in Tasks |-> "idle"]
  /\ wpc = "register"
  /\ wtask = NoTask
  /\ spc = "idle"

-----------------------------------------------------------------------------
(* Threads that submit a task.                                             *)

\* enqueueTask: the flag is read without any lock.
CheckRunning(t) ==
  /\ pc[t] = "idle"
  /\ pc' = [pc EXCEPT ![t] = IF running THEN "lock" ELSE "rejected"]
  /\ UNCHANGED <<running, stopped, tasks, mutex, wpc, wtask, spc>>

LockToPush(t) ==
  /\ pc[t] = "lock"
  /\ mutex = Nobody
  /\ mutex' = t
  /\ pc' = [pc EXCEPT ![t] = "locked"]
  /\ UNCHANGED <<running, stopped, tasks, wpc, wtask, spc>>

\* Mutant: the return is missing, the task of a failed submission is queued.
PushWhenStopped(t) ==
  /\ pc[t] = "locked"
  /\ tasks' = Append(tasks, t)
  /\ pc' = [pc EXCEPT ![t] = IF stopped THEN "dropped" ELSE "notify"]
  /\ mutex' = Nobody
  /\ UNCHANGED <<running, stopped, wpc, wtask, spc>>

\* A stopped queue drops the task and tells nobody.
Push(t) ==
  /\ pc[t] = "locked"
  /\ \/ /\ stopped
        /\ pc' = [pc EXCEPT ![t] = "dropped"]
        /\ UNCHANGED tasks
     \/ /\ ~stopped
        /\ tasks' = Append(tasks, t)
        /\ pc' = [pc EXCEPT ![t] = "notify"]
  /\ mutex' = Nobody
  /\ UNCHANGED <<running, stopped, wpc, wtask, spc>>

\* The worker is the only thread that ever waits, so notify_one and
\* notify_all do the same: a sleeper goes on to lock the mutex again.
WakeWorker == wpc' = IF wpc = "sleep" THEN "lock" ELSE wpc

NotifyOne(t) ==
  /\ pc[t] = "notify"
  /\ WakeWorker
  /\ pc' = [pc EXCEPT ![t] = "accepted"]
  /\ UNCHANGED <<running, stopped, tasks, mutex, wtask, spc>>

Submit(t) == CheckRunning(t) \/ LockToPush(t) \/ Push(t) \/ NotifyOne(t)

-----------------------------------------------------------------------------
(* The worker thread.                                                      *)

RegisterThread ==
  /\ wpc = "register"
  /\ wpc' \in {"loop", "failed"}
  /\ UNCHANGED <<running, stopped, tasks, mutex, pc, wtask, spc>>

TestRunning ==
  /\ wpc = "loop"
  /\ wpc' = IF running THEN "lock" ELSE "exit"
  /\ UNCHANGED <<running, stopped, tasks, mutex, pc, wtask, spc>>

\* At the start of dequeue, and again inside wait after a wake-up.
LockToPop ==
  /\ wpc = "lock"
  /\ mutex = Nobody
  /\ mutex' = Worker
  /\ wpc' = "test"
  /\ UNCHANGED <<running, stopped, tasks, pc, wtask, spc>>

\* Mutant: the predicate does not mention stopped.
MustWaitForTask == tasks = <<>>

\* The predicate of condition.wait is false.
MustWait == tasks = <<>> /\ ~stopped

DecideToWait ==
  /\ wpc = "test"
  /\ MustWait
  /\ wpc' = "block"
  /\ UNCHANGED <<running, stopped, tasks, mutex, pc, wtask, spc>>

\* wait releases the mutex and goes to sleep in one step.
Block ==
  /\ wpc = "block"
  /\ mutex' = Nobody
  /\ wpc' = "sleep"
  /\ UNCHANGED <<running, stopped, tasks, pc, wtask, spc>>

\* A wake-up nobody asked for, which the standard allows.
SpuriousWakeup ==
  /\ wpc = "sleep"
  /\ wpc' = "lock"
  /\ UNCHANGED <<running, stopped, tasks, mutex, pc, wtask, spc>>

\* Mutant: the newest task is taken, as from a stack.
PopNewest ==
  /\ wpc = "test"
  /\ ~MustWait
  /\ \/ /\ tasks = <<>>
        /\ wpc' = "loop"
        /\ UNCHANGED <<tasks, wtask>>
     \/ /\ tasks # <<>>
        /\ wtask' = tasks[Len(tasks)]
        /\ tasks' = SubSeq(tasks, 1, Len(tasks) - 1)
        /\ wpc' = "run"
  /\ mutex' = Nobody
  /\ UNCHANGED <<running, stopped, pc, spc>>

\* A stopped, empty queue yields an empty task, which the loop skips; a
\* stopped queue that is not empty still yields its oldest task.
Pop ==
  /\ wpc = "test"
  /\ ~MustWait
  /\ \/ /\ tasks = <<>>
        /\ wpc' = "loop"
        /\ UNCHANGED <<tasks, wtask>>
     \/ /\ tasks # <<>>
        /\ wtask' = Head(tasks)
        /\ tasks' = Tail(tasks)
        /\ wpc' = "run"
  /\ mutex' = Nobody
  /\ UNCHANGED <<running, stopped, pc, spc>>

\* Mutant: the task that was run is kept.
RunAndKeep ==
  /\ wpc = "run"
  /\ wpc' = "loop"
  /\ UNCHANGED <<running, stopped, tasks, mutex, pc, wtask, spc>>

\* The task is run without the mutex; what it throws is caught in the loop.
Run ==
  /\ wpc = "run"
  /\ wtask' = NoTask
  /\ wpc' = "loop"
  /\ UNCHANGED <<running, stopped, tasks, mutex, pc, spc>>

LeaveLoop ==
  /\ wpc = "exit"
  /\ wpc' = "gone"
  /\ UNCHANGED <<running, stopped, tasks, mutex, pc, wtask, spc>>

WorkerProgress ==
  \/ RegisterThread \/ TestRunning \/ LockToPop \/ DecideToWait \/ Block
  \/ Pop \/ Run \/ LeaveLoop

-----------------------------------------------------------------------------
(* Manager::shutdown.                                                      *)

ClearRunning ==
  /\ spc = "idle"
  /\ running' = FALSE
  /\ spc' = "lock"
  /\ UNCHANGED <<stopped, tasks, mutex, pc, wpc, wtask>>

\* Mutant: stopped is atomic, so stop() sets it without taking the mutex.
StopWithoutLock ==
  /\ spc = "lock"
  /\ stopped' = TRUE
  /\ spc' = "notify"
  /\ UNCHANGED <<running, tasks, mutex, pc, wpc, wtask>>

LockToStop ==
  /\ spc = "lock"
  /\ mutex = Nobody
  /\ mutex' = Stopper
  /\ spc' = "locked"
  /\ UNCHANGED <<running, stopped, tasks, pc, wpc, wtask>>

SetStopped ==
  /\ spc = "locked"
  /\ stopped' = TRUE
  /\ mutex' = Nobody
  /\ spc' = "notify"
  /\ UNCHANGED <<running, tasks, pc, wpc, wtask>>

NotifyAll ==
  /\ spc = "notify"
  /\ WakeWorker
  /\ spc' = "join"
  /\ UNCHANGED <<running, stopped, tasks, mutex, pc, wtask>>

Join ==
  /\ spc = "join"
  /\ wpc \in {"gone", "failed"}
  /\ spc' = "done"
  /\ UNCHANGED <<running, stopped, tasks, mutex, pc, wpc, wtask>>

StopperProgress == LockToStop \/ SetStopped \/ NotifyAll \/ Join

-----------------------------------------------------------------------------
\* Nothing is left to do: a state that no other step leaves must be this one.
Submitted(t) == pc[t] \in {"accepted", "dropped", "rejected"}

Finished ==
  /\ spc = "done"
  /\ \A t \in Tasks : Submitted(t)
  /\ UNCHANGED vars

Next ==
  \/ \E t \in Tasks : Submit(t)
  \/ WorkerProgress
  \/ SpuriousWakeup
  \/ ClearRunning
  \/ StopperProgress
  \/ Finished

\* Threads are scheduled. A thread that finds the mutex free again and again
\* gets it in the end, even from a worker that wakes up spuriously for ever:
\* hence strong fairness of the two lock steps that compete with the worker's.
\* Nothing obliges anybody to submit a task or to shut the manager down.
Fairness ==
  /\ \A t \in Tasks :
       SF_vars(LockToPush(t)) /\ WF_vars(Push(t)) /\ WF_vars(NotifyOne(t))
  /\ WF_vars(WorkerProgress)
  /\ SF_vars(LockToStop) /\ WF_vars(SetStopped \/ NotifyAll \/ Join)

Spec == Init /\ [][Next]_vars /\ Fairness

-----------------------------------------------------------------------------
(* Properties.                                                             *)

\* The worker never sleeps on work or on a stop that nobody is about to tell
\* it of: a notification sent outside the lock (TaskQueue::enqueue and ::stop
\* both release the mutex first) is never lost between the test of the
\* predicate and the sleep.
NoLostWakeup ==
  wpc = "sleep" /\ ~MustWait =>
    spc = "notify" \/ \E t \in Tasks : pc[t] = "notify"

Queued(t) == \E i \in 1..Len(tasks) : tasks[i] = t

\* A task whose submitter was told of a failure, or whose submission was
\* dropped by a stopped queue, is never queued and never run.
OnlyAcceptedRuns ==
  \A t \in Tasks :
    t = wtask \/ Queued(t) => pc[t] \in {"notify", "accepted"}

\* shutdown() returns: the join does not wait for a worker that sleeps for
\* ever, whatever was queued when it began.
ShutdownReturns == spc = "lock" ~> spc = "done"

\* enqueueTask never keeps an HTTP handler thread for ever.
SubmissionReturns == \A t \in Tasks : pc[t] = "lock" ~> Submitted(t)

\* A queued task is run, unless a shutdown begins or the worker thread could
\* not be registered (then nothing is ever run, and nobody is told).
QueuedTaskRuns ==
  \A t \in Tasks :
    Queued(t) ~> wtask = t \/ ~running \/ wpc = "failed"

\* How the state of the threads reads as a state of FifoExecutor.
ExecPhase == IF running THEN "open" ELSE IF stopped THEN "closed" ELSE "closing"

ExecWorker ==
  CASE wpc = "register" -> "starting"
    [] wpc = "loop" -> "between"
    [] wpc \in {"lock", "test", "block", "sleep"} -> "ready"
    [] wpc = "run" -> "busy"
    [] wpc \in {"exit", "gone"} -> "retired"
    [] wpc = "failed" -> "failed"

Executor ==
  INSTANCE FifoExecutor WITH
    backlog <- tasks, current <- wtask, phase <- ExecPhase, worker <- ExecWorker

\* The queue implements FifoExecutor: tasks run in the order of the pushes,
\* one at a time, and at most one of them starts after m_running is cleared.
ImplementsExecutor == Executor!ExecSpec
=============================================================================
