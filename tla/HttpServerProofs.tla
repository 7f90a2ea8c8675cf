-------------------------- MODULE HttpServerProofs --------------------------
(***************************************************************************)
(* Proofs about TaskQueue, for any number of submitting threads: its types,*)
(* that no wake-up is lost, that only accepted tasks run, and that it      *)
(* implements FifoExecutor. Then about HttpServer, for any number of       *)
(* clients and any size of the pool: to the task queue the server is one   *)
(* of the environments TaskQueue allows for, so that what is proved about  *)
(* the queue, none of it from what HttpServer adds, holds in the server;   *)
(* and a connection is in one place.                                       *)
(***************************************************************************)
EXTENDS HttpServer, FiniteSetTheorems, TLAPS

-----------------------------------------------------------------------------
(* The task queue.                                                         *)

\* The mutex is held by the thread that stands in a critical section.
MutexInv ==
  /\ \A t \in Tasks : mutex = t <=> pc[t] = "locked"
  /\ mutex = Worker <=> wpc \in {"test", "block"}
  /\ mutex = Stopper <=> spc = "locked"

\* Between the test and the sleep the predicate of the wait stays false: this
\* is what makes NoLostWakeup inductive.
BlockInv == wpc = "block" => MustWait

\* Both flags are written by the thread in shutdown() only.
FlagInv ==
  /\ running <=> spc = "idle"
  /\ stopped <=> spc \in {"notify", "join", "done"}

IInv ==
  /\ TypeOK
  /\ MutexInv
  /\ BlockInv
  /\ FlagInv
  /\ NoLostWakeup
  /\ OnlyAcceptedRuns

-----------------------------------------------------------------------------
\* Appending a task queues that task and no other.
LEMMA QueuedAfterAppend ==
  ASSUME NEW q \in Seq(Tasks), NEW u \in Tasks, NEW t \in Tasks,
         \E i \in 1..Len(Append(q, u)) : Append(q, u)[i] = t
  PROVE  t = u \/ \E i \in 1..Len(q) : q[i] = t
OBVIOUS

\* What is left of the queue was in it, and so was its head.
LEMMA QueuedAfterTail ==
  ASSUME NEW q \in Seq(Tasks), q # <<>>, NEW t \in Tasks,
         t = Head(q) \/ \E i \in 1..Len(Tail(q)) : Tail(q)[i] = t
  PROVE  \E i \in 1..Len(q) : q[i] = t
<1>1. CASE t = Head(q)
  <2>1. 1 \in 1..Len(q) /\ q[1] = t
    BY <1>1
  <2> QED BY <2>1
<1>2. CASE \E i \in 1..Len(Tail(q)) : Tail(q)[i] = t
  <2>1. PICK i \in 1..Len(Tail(q)) : Tail(q)[i] = t
    BY <1>2
  <2>2. i + 1 \in 1..Len(q) /\ q[i + 1] = t
    BY <2>1
  <2> QED BY <2>2
<1> QED BY <1>1, <1>2

\* The initial state satisfies the inductive invariant.
LEMMA InitIInv == Init => IInv
<1> SUFFICES ASSUME Init PROVE IInv
  OBVIOUS
<1> USE NoTaskAssumption, ThreadAssumption DEF Init
<1>1. TypeOK
  <2>1. pc \in [Tasks -> ProducerStates]
    BY DEF ProducerStates
  <2>2. tasks \in Seq(Tasks)
    OBVIOUS
  <2> QED BY <2>1, <2>2 DEF TypeOK, WorkerStates, StopperStates
<1>2. MutexInv
  BY DEF MutexInv
<1>3. BlockInv /\ FlagInv /\ NoLostWakeup
  BY DEF BlockInv, FlagInv, NoLostWakeup
<1>4. ASSUME NEW t \in Tasks
      PROVE  t # wtask /\ ~Queued(t)
  <2>1. Len(tasks) = 0
    OBVIOUS
  <2> QED BY <2>1 DEF Queued
<1> QED
  BY <1>1, <1>2, <1>3, <1>4 DEF IInv, OnlyAcceptedRuns

\* Every step keeps the types.
LEMMA TypeStep == TypeOK /\ [Next]_vars => TypeOK'
<1> SUFFICES ASSUME TypeOK, [Next]_vars
             PROVE  TypeOK'
  OBVIOUS
<1> USE NoTaskAssumption, ThreadAssumption DEF TypeOK, ProducerStates, WorkerStates, StopperStates
<1>1. ASSUME NEW t \in Tasks, CheckRunning(t)
      PROVE  TypeOK'
  BY <1>1 DEF CheckRunning
<1>2. ASSUME NEW t \in Tasks, LockToPush(t)
      PROVE  TypeOK'
  BY <1>2 DEF LockToPush
<1>3. ASSUME NEW t \in Tasks, Push(t)
      PROVE  TypeOK'
  BY <1>3 DEF Push
<1>4. ASSUME NEW t \in Tasks, NotifyOne(t)
      PROVE  TypeOK'
  BY <1>4 DEF NotifyOne, WakeWorker
<1>5. CASE RegisterThread
  BY <1>5 DEF RegisterThread
<1>6. CASE TestRunning
  BY <1>6 DEF TestRunning
<1>7. CASE LockToPop
  BY <1>7 DEF LockToPop
<1>8. CASE DecideToWait
  BY <1>8 DEF DecideToWait
<1>9. CASE Block
  BY <1>9 DEF Block
<1>10. CASE Pop
  BY <1>10 DEF Pop
<1>11. CASE Run
  BY <1>11 DEF Run
<1>12. CASE LeaveLoop
  BY <1>12 DEF LeaveLoop
<1>13. CASE SpuriousWakeup
  BY <1>13 DEF SpuriousWakeup
<1>14. CASE ClearRunning
  BY <1>14 DEF ClearRunning
<1>15. CASE LockToStop
  BY <1>15 DEF LockToStop
<1>16. CASE SetStopped
  BY <1>16 DEF SetStopped
<1>17. CASE NotifyAll
  BY <1>17 DEF NotifyAll, WakeWorker
<1>18. CASE Join
  BY <1>18 DEF Join
<1>19. CASE UNCHANGED vars
  BY <1>19 DEF vars
<1> QED
  BY <1>1, <1>2, <1>3, <1>4, <1>5, <1>6, <1>7, <1>8, <1>9, <1>10, <1>11, <1>12, <1>13, <1>14, <1>15, <1>16, <1>17, <1>18, <1>19
     DEF Next, Submit, WorkerProgress, StopperProgress, Finished

\* Every step keeps the mutex with the thread in a critical section.
LEMMA MutexStep == TypeOK /\ MutexInv /\ [Next]_vars => MutexInv'
<1> SUFFICES ASSUME TypeOK /\ MutexInv, [Next]_vars
             PROVE  MutexInv'
  OBVIOUS
<1> USE NoTaskAssumption, ThreadAssumption DEF TypeOK, MutexInv, ProducerStates
<1>1. ASSUME NEW t \in Tasks, CheckRunning(t)
      PROVE  MutexInv'
  BY <1>1 DEF CheckRunning
<1>2. ASSUME NEW t \in Tasks, LockToPush(t)
      PROVE  MutexInv'
  BY <1>2 DEF LockToPush
<1>3. ASSUME NEW t \in Tasks, Push(t)
      PROVE  MutexInv'
  BY <1>3 DEF Push
<1>4. ASSUME NEW t \in Tasks, NotifyOne(t)
      PROVE  MutexInv'
  BY <1>4 DEF NotifyOne, WakeWorker
<1>5. CASE RegisterThread
  BY <1>5 DEF RegisterThread
<1>6. CASE TestRunning
  BY <1>6 DEF TestRunning
<1>7. CASE LockToPop
  BY <1>7 DEF LockToPop
<1>8. CASE DecideToWait
  BY <1>8 DEF DecideToWait
<1>9. CASE Block
  BY <1>9 DEF Block
<1>10. CASE Pop
  BY <1>10 DEF Pop
<1>11. CASE Run
  BY <1>11 DEF Run
<1>12. CASE LeaveLoop
  BY <1>12 DEF LeaveLoop
<1>13. CASE SpuriousWakeup
  BY <1>13 DEF SpuriousWakeup
<1>14. CASE ClearRunning
  BY <1>14 DEF ClearRunning
<1>15. CASE LockToStop
  BY <1>15 DEF LockToStop
<1>16. CASE SetStopped
  BY <1>16 DEF SetStopped
<1>17. CASE NotifyAll
  BY <1>17 DEF NotifyAll, WakeWorker
<1>18. CASE Join
  BY <1>18 DEF Join
<1>19. CASE UNCHANGED vars
  BY <1>19 DEF vars
<1> QED
  BY <1>1, <1>2, <1>3, <1>4, <1>5, <1>6, <1>7, <1>8, <1>9, <1>10, <1>11, <1>12, <1>13, <1>14, <1>15, <1>16, <1>17, <1>18, <1>19
     DEF Next, Submit, WorkerProgress, StopperProgress, Finished

\* While the worker holds the mutex nobody changes the queue or the flag.
LEMMA BlockStep == TypeOK /\ MutexInv /\ BlockInv /\ [Next]_vars => BlockInv'
<1> SUFFICES ASSUME TypeOK /\ MutexInv /\ BlockInv, [Next]_vars
             PROVE  BlockInv'
  OBVIOUS
<1> USE NoTaskAssumption, ThreadAssumption DEF TypeOK, MutexInv, BlockInv, MustWait
<1>1. ASSUME NEW t \in Tasks, CheckRunning(t)
      PROVE  BlockInv'
  BY <1>1 DEF CheckRunning
<1>2. ASSUME NEW t \in Tasks, LockToPush(t)
      PROVE  BlockInv'
  BY <1>2 DEF LockToPush
<1>3. ASSUME NEW t \in Tasks, Push(t)
      PROVE  BlockInv'
  BY <1>3 DEF Push
<1>4. ASSUME NEW t \in Tasks, NotifyOne(t)
      PROVE  BlockInv'
  BY <1>4 DEF NotifyOne, WakeWorker
<1>5. CASE RegisterThread
  BY <1>5 DEF RegisterThread
<1>6. CASE TestRunning
  BY <1>6 DEF TestRunning
<1>7. CASE LockToPop
  BY <1>7 DEF LockToPop
<1>8. CASE DecideToWait
  BY <1>8 DEF DecideToWait
<1>9. CASE Block
  BY <1>9 DEF Block
<1>10. CASE Pop
  BY <1>10 DEF Pop
<1>11. CASE Run
  BY <1>11 DEF Run
<1>12. CASE LeaveLoop
  BY <1>12 DEF LeaveLoop
<1>13. CASE SpuriousWakeup
  BY <1>13 DEF SpuriousWakeup
<1>14. CASE ClearRunning
  BY <1>14 DEF ClearRunning
<1>15. CASE LockToStop
  BY <1>15 DEF LockToStop
<1>16. CASE SetStopped
  BY <1>16 DEF SetStopped
<1>17. CASE NotifyAll
  BY <1>17 DEF NotifyAll, WakeWorker
<1>18. CASE Join
  BY <1>18 DEF Join
<1>19. CASE UNCHANGED vars
  BY <1>19 DEF vars
<1> QED
  BY <1>1, <1>2, <1>3, <1>4, <1>5, <1>6, <1>7, <1>8, <1>9, <1>10, <1>11, <1>12, <1>13, <1>14, <1>15, <1>16, <1>17, <1>18, <1>19
     DEF Next, Submit, WorkerProgress, StopperProgress, Finished

\* The flags follow the thread in shutdown().
LEMMA FlagStep == TypeOK /\ FlagInv /\ [Next]_vars => FlagInv'
<1> SUFFICES ASSUME TypeOK /\ FlagInv, [Next]_vars
             PROVE  FlagInv'
  OBVIOUS
<1> USE NoTaskAssumption, ThreadAssumption DEF TypeOK, FlagInv
<1>1. ASSUME NEW t \in Tasks, CheckRunning(t)
      PROVE  FlagInv'
  BY <1>1 DEF CheckRunning
<1>2. ASSUME NEW t \in Tasks, LockToPush(t)
      PROVE  FlagInv'
  BY <1>2 DEF LockToPush
<1>3. ASSUME NEW t \in Tasks, Push(t)
      PROVE  FlagInv'
  BY <1>3 DEF Push
<1>4. ASSUME NEW t \in Tasks, NotifyOne(t)
      PROVE  FlagInv'
  BY <1>4 DEF NotifyOne, WakeWorker
<1>5. CASE RegisterThread
  BY <1>5 DEF RegisterThread
<1>6. CASE TestRunning
  BY <1>6 DEF TestRunning
<1>7. CASE LockToPop
  BY <1>7 DEF LockToPop
<1>8. CASE DecideToWait
  BY <1>8 DEF DecideToWait
<1>9. CASE Block
  BY <1>9 DEF Block
<1>10. CASE Pop
  BY <1>10 DEF Pop
<1>11. CASE Run
  BY <1>11 DEF Run
<1>12. CASE LeaveLoop
  BY <1>12 DEF LeaveLoop
<1>13. CASE SpuriousWakeup
  BY <1>13 DEF SpuriousWakeup
<1>14. CASE ClearRunning
  BY <1>14 DEF ClearRunning
<1>15. CASE LockToStop
  BY <1>15 DEF LockToStop
<1>16. CASE SetStopped
  BY <1>16 DEF SetStopped
<1>17. CASE NotifyAll
  BY <1>17 DEF NotifyAll, WakeWorker
<1>18. CASE Join
  BY <1>18 DEF Join
<1>19. CASE UNCHANGED vars
  BY <1>19 DEF vars
<1> QED
  BY <1>1, <1>2, <1>3, <1>4, <1>5, <1>6, <1>7, <1>8, <1>9, <1>10, <1>11, <1>12, <1>13, <1>14, <1>15, <1>16, <1>17, <1>18, <1>19
     DEF Next, Submit, WorkerProgress, StopperProgress, Finished

\* A queue or flag that changes under a sleeping worker is about to be announced.
LEMMA WakeupStep == TypeOK /\ MutexInv /\ BlockInv /\ FlagInv /\ NoLostWakeup /\ [Next]_vars => NoLostWakeup'
<1> SUFFICES ASSUME TypeOK /\ MutexInv /\ BlockInv /\ FlagInv /\ NoLostWakeup, [Next]_vars
             PROVE  NoLostWakeup'
  OBVIOUS
<1> USE NoTaskAssumption, ThreadAssumption DEF TypeOK, MutexInv, BlockInv, FlagInv, NoLostWakeup, MustWait
<1>1. ASSUME NEW t \in Tasks, CheckRunning(t)
      PROVE  NoLostWakeup'
  BY <1>1 DEF CheckRunning
<1>2. ASSUME NEW t \in Tasks, LockToPush(t)
      PROVE  NoLostWakeup'
  BY <1>2 DEF LockToPush
<1>3. ASSUME NEW t \in Tasks, Push(t)
      PROVE  NoLostWakeup'
  BY <1>3 DEF Push
<1>4. ASSUME NEW t \in Tasks, NotifyOne(t)
      PROVE  NoLostWakeup'
  BY <1>4 DEF NotifyOne, WakeWorker
<1>5. CASE RegisterThread
  BY <1>5 DEF RegisterThread
<1>6. CASE TestRunning
  BY <1>6 DEF TestRunning
<1>7. CASE LockToPop
  BY <1>7 DEF LockToPop
<1>8. CASE DecideToWait
  BY <1>8 DEF DecideToWait
<1>9. CASE Block
  BY <1>9 DEF Block
<1>10. CASE Pop
  BY <1>10 DEF Pop
<1>11. CASE Run
  BY <1>11 DEF Run
<1>12. CASE LeaveLoop
  BY <1>12 DEF LeaveLoop
<1>13. CASE SpuriousWakeup
  BY <1>13 DEF SpuriousWakeup
<1>14. CASE ClearRunning
  BY <1>14 DEF ClearRunning
<1>15. CASE LockToStop
  BY <1>15 DEF LockToStop
<1>16. CASE SetStopped
  BY <1>16 DEF SetStopped
<1>17. CASE NotifyAll
  BY <1>17 DEF NotifyAll, WakeWorker
<1>18. CASE Join
  BY <1>18 DEF Join
<1>19. CASE UNCHANGED vars
  BY <1>19 DEF vars
<1> QED
  BY <1>1, <1>2, <1>3, <1>4, <1>5, <1>6, <1>7, <1>8, <1>9, <1>10, <1>11, <1>12, <1>13, <1>14, <1>15, <1>16, <1>17, <1>18, <1>19
     DEF Next, Submit, WorkerProgress, StopperProgress, Finished

\* A task enters the queue by an accepted submission only.
LEMMA AcceptedStep == TypeOK /\ MutexInv /\ OnlyAcceptedRuns /\ [Next]_vars => OnlyAcceptedRuns'
<1> SUFFICES ASSUME TypeOK /\ MutexInv /\ OnlyAcceptedRuns, [Next]_vars
             PROVE  OnlyAcceptedRuns'
  OBVIOUS
<1> USE NoTaskAssumption, ThreadAssumption DEF TypeOK, MutexInv, OnlyAcceptedRuns, Queued
<1>1. ASSUME NEW u \in Tasks, CheckRunning(u)
      PROVE  OnlyAcceptedRuns'
  BY <1>1 DEF CheckRunning
<1>2. ASSUME NEW u \in Tasks, LockToPush(u)
      PROVE  OnlyAcceptedRuns'
  BY <1>2 DEF LockToPush
<1>3. ASSUME NEW u \in Tasks, Push(u)
      PROVE  OnlyAcceptedRuns'
  <2>1. CASE stopped
    BY <1>3, <2>1 DEF Push
  <2>2. CASE ~stopped
    <3>1. tasks' = Append(tasks, u) /\ pc' = [pc EXCEPT ![u] = "notify"] /\ wtask' = wtask
      BY <1>3, <2>2 DEF Push
    <3>2. ASSUME NEW t \in Tasks, t = wtask' \/ Queued(t)'
          PROVE  pc'[t] \in {"notify", "accepted"}
      <4>1. t = wtask \/ t = u \/ Queued(t)
        BY <3>1, <3>2, QueuedAfterAppend
      <4> QED BY <3>1, <4>1
    <3> QED BY <3>2
  <2> QED BY <2>1, <2>2
<1>4. ASSUME NEW u \in Tasks, NotifyOne(u)
      PROVE  OnlyAcceptedRuns'
  BY <1>4 DEF NotifyOne, WakeWorker
<1>5. CASE RegisterThread
  BY <1>5 DEF RegisterThread
<1>6. CASE TestRunning
  BY <1>6 DEF TestRunning
<1>7. CASE LockToPop
  BY <1>7 DEF LockToPop
<1>8. CASE DecideToWait
  BY <1>8 DEF DecideToWait
<1>9. CASE Block
  BY <1>9 DEF Block
<1>10. CASE Pop
  <2>1. CASE tasks = <<>>
    BY <1>10, <2>1 DEF Pop
  <2>2. CASE tasks # <<>>
    <3>1. tasks' = Tail(tasks) /\ wtask' = Head(tasks) /\ pc' = pc
      BY <1>10, <2>2 DEF Pop
    <3>2. ASSUME NEW t \in Tasks, t = wtask' \/ Queued(t)'
          PROVE  pc'[t] \in {"notify", "accepted"}
      <4>1. Queued(t)
        BY <2>2, <3>1, <3>2, QueuedAfterTail
      <4> QED BY <3>1, <4>1
    <3> QED BY <3>2
  <2> QED BY <2>1, <2>2
<1>11. CASE Run
  BY <1>11 DEF Run
<1>12. CASE LeaveLoop
  BY <1>12 DEF LeaveLoop
<1>13. CASE SpuriousWakeup
  BY <1>13 DEF SpuriousWakeup
<1>14. CASE ClearRunning
  BY <1>14 DEF ClearRunning
<1>15. CASE LockToStop
  BY <1>15 DEF LockToStop
<1>16. CASE SetStopped
  BY <1>16 DEF SetStopped
<1>17. CASE NotifyAll
  BY <1>17 DEF NotifyAll, WakeWorker
<1>18. CASE Join
  BY <1>18 DEF Join
<1>19. CASE UNCHANGED vars
  BY <1>19 DEF vars
<1> QED
  BY <1>1, <1>2, <1>3, <1>4, <1>5, <1>6, <1>7, <1>8, <1>9, <1>10, <1>11, <1>12, <1>13, <1>14, <1>15, <1>16, <1>17, <1>18, <1>19
     DEF Next, Submit, WorkerProgress, StopperProgress, Finished

\* The inductive invariant is inductive.
LEMMA NextIInv == IInv /\ [Next]_vars => IInv'
BY TypeStep, MutexStep, BlockStep, FlagStep, WakeupStep, AcceptedStep DEF IInv

-----------------------------------------------------------------------------
\* The inductive invariant holds in every reachable state of the task queue.
THEOREM InductiveInvariant == Spec => []IInv
BY InitIInv, NextIInv, PTL DEF Spec

\* Every variable keeps its type (TaskQueue of manager.h, manager.cpp 184-275).
THEOREM TypeCorrect == Spec => []TypeOK
<1>1. IInv => TypeOK
  BY DEF IInv
<1> QED BY <1>1, InductiveInvariant, PTL

\* However many threads submit and whenever shutdown() comes, the worker never
\* sleeps on a task or a stop that nobody is about to announce.
THEOREM WakeupsAreNotLost == Spec => []NoLostWakeup
<1>1. IInv => NoLostWakeup
  BY DEF IInv
<1> QED BY <1>1, InductiveInvariant, PTL

\* A submission that was rejected or dropped leaves nothing to run.
THEOREM RejectedNeverRun == Spec => []OnlyAcceptedRuns
<1>1. IInv => OnlyAcceptedRuns
  BY DEF IInv
<1> QED BY <1>1, InductiveInvariant, PTL

-----------------------------------------------------------------------------
(* TaskQueue implements FifoExecutor.                                      *)

\* The task queue starts as the executor does.
LEMMA InitImplements == Init => Executor!ExecInit
BY DEF Init, Executor!ExecInit, ExecPhase, ExecWorker

\* Every step of the threads is a step of the executor or leaves it unchanged.
LEMMA StepImplements ==
  IInv /\ [Next]_vars => [Executor!ExecNext]_(Executor!execVars)
<1> SUFFICES ASSUME IInv, [Next]_vars
             PROVE  Executor!ExecNext \/ UNCHANGED Executor!execVars
  OBVIOUS
<1> USE NoTaskAssumption
<1> USE DEF IInv, TypeOK, FlagInv, ExecPhase, ExecWorker, Executor!execVars,
            WorkerStates
<1>1. ASSUME NEW t \in Tasks, CheckRunning(t)
      PROVE  UNCHANGED Executor!execVars
  BY <1>1 DEF CheckRunning
<1>2. ASSUME NEW t \in Tasks, LockToPush(t)
      PROVE  UNCHANGED Executor!execVars
  BY <1>2 DEF LockToPush
<1>3. ASSUME NEW t \in Tasks, Push(t)
      PROVE  Executor!Accept(t) \/ UNCHANGED Executor!execVars
  BY <1>3 DEF Push, Executor!Accept
<1>4. ASSUME NEW t \in Tasks, NotifyOne(t)
      PROVE  UNCHANGED Executor!execVars
  BY <1>4 DEF NotifyOne, WakeWorker
<1>5. ASSUME RegisterThread
      PROVE  Executor!Register
  BY <1>5 DEF RegisterThread, Executor!Register
<1>6. ASSUME TestRunning
      PROVE  Executor!Check
  BY <1>6 DEF TestRunning, Executor!Check
<1>7. ASSUME LockToPop
      PROVE  UNCHANGED Executor!execVars
  BY <1>7 DEF LockToPop
<1>8. ASSUME DecideToWait
      PROVE  UNCHANGED Executor!execVars
  BY <1>8 DEF DecideToWait
<1>9. ASSUME Block
      PROVE  UNCHANGED Executor!execVars
  BY <1>9 DEF Block
<1>10. ASSUME SpuriousWakeup
      PROVE  UNCHANGED Executor!execVars
  BY <1>10 DEF SpuriousWakeup
<1>11. ASSUME Run
      PROVE  Executor!Finish
  BY <1>11 DEF Run, Executor!Finish
<1>12. ASSUME LeaveLoop
      PROVE  UNCHANGED Executor!execVars
  BY <1>12 DEF LeaveLoop
<1>13. ASSUME LockToStop
      PROVE  UNCHANGED Executor!execVars
  BY <1>13 DEF LockToStop
<1>14. ASSUME NotifyAll
      PROVE  UNCHANGED Executor!execVars
  BY <1>14 DEF NotifyAll, WakeWorker
<1>15. ASSUME Join
      PROVE  UNCHANGED Executor!execVars
  BY <1>15 DEF Join
<1>16. ASSUME Pop
      PROVE  Executor!Start \/ Executor!Decline
  BY <1>16 DEF Pop, MustWait, Executor!Start, Executor!Decline
<1>17. ASSUME ClearRunning
      PROVE  Executor!BeginClose
  BY <1>17 DEF ClearRunning, Executor!BeginClose
<1>18. ASSUME SetStopped
      PROVE  Executor!Close
  BY <1>18 DEF SetStopped, Executor!Close
<1>19. ASSUME UNCHANGED vars
      PROVE  UNCHANGED Executor!execVars
  BY <1>19 DEF vars
<1> QED
  BY <1>1, <1>2, <1>3, <1>4, <1>5, <1>6, <1>7, <1>8, <1>9,
     <1>10, <1>11, <1>12, <1>13, <1>14, <1>15, <1>16, <1>17, <1>18, <1>19
     DEF Next, Submit, WorkerProgress, StopperProgress, Finished,
         Executor!ExecNext, Executor!WorkerStep

\* The task queue, threads and all, implements the safety part of FifoExecutor
\* (its fairness is checked by TLC: ImplementsExecutor).
THEOREM Implements ==
  Spec => Executor!ExecInit /\ [][Executor!ExecNext]_(Executor!execVars)
BY InitImplements, StepImplements, InductiveInvariant, PTL DEF Spec

-----------------------------------------------------------------------------
(* The server.                                                             *)

\* A connection is accepted once, and not again after its answer: this is what
\* makes PoolTypeOK inductive.
JobsInv ==
  /\ \A j, k \in 1..Len(jobs) : jobs[j] = jobs[k] => j = k
  /\ \A j \in 1..Len(jobs) : jobs[j] \notin answered
  /\ IsFiniteSet(active)

ServerInv == ServerTypeOK /\ JobsInv

-----------------------------------------------------------------------------
\* Every step of the server is one of the queue, or none.
LEMMA ServerStep == [ServerNext]_serverVars => [Next]_vars
<1> SUFFICES ASSUME [ServerNext]_serverVars
             PROVE  [Next]_vars
  OBVIOUS
<1> USE DEF vars, poolVars, serverVars
<1>1. ASSUME NEW c \in Clients, Connect(c)
      PROVE  UNCHANGED vars
  BY <1>1 DEF Connect
<1>2. CASE Dispatch
  BY <1>2 DEF Dispatch
<1>3. ASSUME NEW t \in Tasks, Handle(t)
      PROVE  Next
  BY <1>3 DEF Handle, Next
<1>4. ASSUME NEW t \in Tasks, Respond(t)
      PROVE  UNCHANGED vars
  BY <1>4 DEF Respond
<1>5. ASSUME NEW s \in Streams, HangUp(s)
      PROVE  UNCHANGED vars
  BY <1>5 DEF HangUp
<1>6. CASE Background
  BY <1>6 DEF Background, Next
<1>7. CASE ServerFinished \/ UNCHANGED serverVars
  BY <1>7 DEF ServerFinished
<1> QED
  BY <1>1, <1>2, <1>3, <1>4, <1>5, <1>6, <1>7 DEF ServerNext

\* To the task queue (Manager::TaskQueue) the handlers of the server's pool are
\* threads that submit a task each: the server implements TaskQueue, and all
\* that is proved of TaskQueue holds in it.
THEOREM ServerIsQueue == ServerSpec => Spec
<1>1. ServerInit => Init
  BY DEF ServerInit
<1> QED
  BY <1>1, ServerStep, PTL DEF ServerSpec, Spec

\* In the server, too, no wake-up is lost, no rejected task runs and the queue
\* is a FIFO executor, however the pool schedules the handlers that submit and
\* however many threads clients of /events hold.
THEOREM ServerKeepsQueue ==
  ServerSpec => /\ []NoLostWakeup
                /\ []OnlyAcceptedRuns
                /\ Executor!ExecInit /\ [][Executor!ExecNext]_(Executor!execVars)
BY ServerIsQueue, WakeupsAreNotLost, RejectedNeverRun, Implements, PTL

-----------------------------------------------------------------------------
\* The initial state: no connection.
LEMMA InitServerInv == ServerInit => ServerInv
<1> SUFFICES ASSUME ServerInit
             PROVE  ServerInv
  OBVIOUS
<1>1. TypeOK
  BY InitIInv DEF ServerInit, IInv
<1>2. IsFiniteSet({}) /\ Cardinality({}) = 0
  BY FS_EmptySet
<1>3. JobsInv
  BY <1>2 DEF ServerInit, JobsInv
<1>4. PoolTypeOK
  <2>1. jobs = <<>> /\ active = {} /\ answered = {} /\ pc = [t \in Tasks |-> "idle"]
    BY DEF ServerInit, Init
  <2>2. Cardinality(active) <= PoolSize
    BY <1>2, <2>1, PoolAssumption
  <2> QED BY <2>1, <2>2 DEF PoolTypeOK
<1> QED
  BY <1>1, <1>3, <1>4 DEF ServerInv, ServerTypeOK

\* A step that changes neither a connection nor what is submitted without a
\* thread keeps the pool's part of the invariant.
LEMMA PoolUnchanged ==
  ASSUME PoolTypeOK, JobsInv, UNCHANGED poolVars,
         \A t \in Tasks : pc'[t] # "idle" => pc[t] # "idle" \/ t \in active
  PROVE  PoolTypeOK' /\ JobsInv'
BY DEF PoolTypeOK, JobsInv, poolVars, Waiting

\* A submission goes on: the pc of one thread changes, and no other's.
LEMMA SubmitMovesOne ==
  ASSUME TypeOK, NEW t \in Tasks, Submit(t), NEW u \in Tasks, u # t
  PROVE  pc'[u] = pc[u]
BY DEF Submit, CheckRunning, LockToPush, Push, NotifyOne, TypeOK

\* No other step of the queue begins a submission.
LEMMA OthersSubmitNothing ==
  ASSUME WorkerProgress \/ SpuriousWakeup \/ ClearRunning \/ StopperProgress
  PROVE  pc' = pc
BY DEF WorkerProgress, RegisterThread, TestRunning, LockToPop, DecideToWait, Block, Pop, Run,
       LeaveLoop, SpuriousWakeup, ClearRunning, StopperProgress, LockToStop, SetStopped,
       NotifyAll, Join

\* Every step keeps the pool's part of the invariant.
LEMMA PoolStep == ServerInv /\ [ServerNext]_serverVars => PoolTypeOK' /\ JobsInv'
<1> SUFFICES ASSUME ServerInv, [ServerNext]_serverVars
             PROVE  PoolTypeOK' /\ JobsInv'
  OBVIOUS
<1> USE DEF ServerInv, ServerTypeOK
<1>1. ASSUME NEW c \in Clients, Connect(c)
      PROVE  PoolTypeOK' /\ JobsInv'
  <2>1. /\ jobs' = Append(jobs, c) /\ jobs \in Seq(Clients)
        /\ active' = active /\ answered' = answered /\ pc' = pc
    BY <1>1 DEF Connect, PoolTypeOK, vars
  <2>2. /\ Len(jobs') = Len(jobs) + 1 /\ Len(jobs) \in Nat
        /\ jobs'[Len(jobs) + 1] = c
        /\ \A j \in 1..Len(jobs) : jobs'[j] = jobs[j]
    BY <2>1
  <2>3. c \notin active /\ c \notin answered /\ \A j \in 1..Len(jobs) : jobs[j] # c
    BY <1>1 DEF Connect, Waiting
  <2>4. JobsInv'
    BY <2>1, <2>2, <2>3 DEF JobsInv
  <2>5. \A d \in active' : ~Waiting(d)'
    BY <2>1, <2>2, <2>3 DEF PoolTypeOK, Waiting
  <2>6. jobs' \in Seq(Clients)
    BY <2>1
  <2>7. PoolTypeOK'
    BY <2>1, <2>5, <2>6 DEF PoolTypeOK
  <2> QED BY <2>4, <2>7
<1>2. CASE Dispatch
  <2> DEFINE c == Head(jobs)
  <2>1. /\ jobs \in Seq(Clients) /\ jobs # <<>> /\ jobs' = Tail(jobs)
        /\ active' = active \cup {c} /\ answered' = answered /\ pc' = pc
    BY <1>2 DEF Dispatch, PoolTypeOK, vars
  <2>2. /\ Len(jobs) \in Nat \ {0} /\ Len(jobs') = Len(jobs) - 1 /\ c = jobs[1]
        /\ c \in Clients
        /\ \A j \in 1..Len(jobs') : jobs'[j] = jobs[j + 1] /\ j + 1 \in 1..Len(jobs)
    BY <2>1
  <2>3. c \notin active /\ c \notin answered
    BY <2>2 DEF PoolTypeOK, JobsInv, Waiting
  <2>4. \A j \in 1..Len(jobs') : jobs'[j] # c
    BY <2>2 DEF JobsInv
  <2>5. IsFiniteSet(active') /\ Cardinality(active') = Cardinality(active) + 1
    BY <2>1, <2>3, FS_AddElement DEF JobsInv
  <2>6. Cardinality(active) \in Nat
    BY FS_CardinalityType DEF JobsInv
  <2>7. Cardinality(active') <= PoolSize
    BY <1>2, <2>5, <2>6, PoolAssumption DEF Dispatch
  <2>8. JobsInv'
    BY <2>1, <2>2, <2>5 DEF JobsInv
  <2>9. \A d \in active' : ~Waiting(d)' /\ d \notin answered'
    BY <2>1, <2>2, <2>3, <2>4 DEF PoolTypeOK, Waiting
  <2>10. jobs' \in Seq(Clients)
    BY <2>1
  <2>11. PoolTypeOK'
    BY <2>1, <2>2, <2>7, <2>9, <2>10 DEF PoolTypeOK
  <2> QED BY <2>8, <2>11
<1>3. ASSUME NEW t \in Tasks, Handle(t)
      PROVE  PoolTypeOK' /\ JobsInv'
  <2>1. t \in active /\ UNCHANGED poolVars /\ \A u \in Tasks : u # t => pc'[u] = pc[u]
    BY <1>3, SubmitMovesOne DEF Handle
  <2> QED BY <2>1, PoolUnchanged
<1>4. ASSUME NEW c, c \in active, active' = active \ {c}, jobs' = jobs, pc' = pc,
             \/ answered' = answered /\ c \notin Tasks
             \/ answered' = answered \cup {c} /\ c \in Tasks
      PROVE  PoolTypeOK' /\ JobsInv'
  <2>1. /\ IsFiniteSet(active') /\ Cardinality(active') <= Cardinality(active)
        /\ Cardinality(active) \in Nat /\ Cardinality(active') \in Nat
    BY <1>4, FS_Subset, FS_CardinalityType DEF JobsInv
  <2>2. Cardinality(active') <= PoolSize
    BY <2>1, PoolAssumption DEF PoolTypeOK
  <2>3. \A j \in 1..Len(jobs) : jobs[j] # c
    BY <1>4 DEF PoolTypeOK, Waiting
  <2>4. JobsInv'
    BY <1>4, <2>1, <2>3 DEF JobsInv
  <2>5. PoolTypeOK'
    BY <1>4, <2>2 DEF PoolTypeOK, Waiting
  <2> QED BY <2>4, <2>5
<1>5. ASSUME NEW t \in Tasks, Respond(t)
      PROVE  PoolTypeOK' /\ JobsInv'
  BY <1>4, <1>5 DEF Respond, vars
<1>6. ASSUME NEW s \in Streams, HangUp(s)
      PROVE  PoolTypeOK' /\ JobsInv'
  BY <1>4, <1>6, ClientAssumption DEF HangUp, vars
<1>7. CASE Background
  BY <1>7, OthersSubmitNothing, PoolUnchanged DEF Background
<1>8. CASE ServerFinished \/ UNCHANGED serverVars
  BY <1>8, PoolUnchanged DEF ServerFinished, serverVars, vars
<1> QED
  BY <1>1, <1>2, <1>3, <1>5, <1>6, <1>7, <1>8 DEF ServerNext

\* However many clients connect, hang up and come back, and whatever the queue
\* does, a connection is in one place (waiting, on a thread, or answered), the
\* threads are not more than the pool has, and nobody submits without one:
\* CPPHTTPLIB_THREAD_POOL_COUNT, Server::setupRoutes.
THEOREM ServerTypeCorrect == ServerSpec => []ServerTypeOK
<1>1. ServerInv /\ [ServerNext]_serverVars => ServerInv'
  BY ServerStep, TypeStep, PoolStep DEF ServerInv, ServerTypeOK
<1>2. ServerInv => ServerTypeOK
  BY DEF ServerInv
<1> QED
  BY InitServerInv, <1>1, <1>2, PTL DEF ServerSpec
=============================================================================
