-------------------------- MODULE SipManagerProofs --------------------------
(***************************************************************************)
(* Proofs about SipManager, for any numbers of requests, account ids and   *)
(* call ids, whatever is asked and whichever library calls throw: types,   *)
(* accounts are never orphaned nor doubled, the promise is set once, calls *)
(* have their agent and are tracked, and a shutdown releases everything    *)
(* for good.                                                               *)
(***************************************************************************)
EXTENDS SipManager, TLAPS

\* A handler submits what its request asks for, in the order of its code.
HandlerInv ==
  \A r \in Requests :
    /\ pc[r] = "idle" <=> input[r] = NoInput
    /\ pc[r] \in {"submit", "push"} =>
         \/ op[r] = "add" /\ input[r].kind \in {"post", "put"}
         \/ op[r] = "remove" /\ input[r].kind \in {"put", "badput", "delete"}
         \/ op[r] \in {"make", "hangup"} /\ input[r].kind = op[r]
    /\ pc[r] = "wait" => input[r].kind \in {"post", "put"}

\* A task that was submitted belongs to a request that asked for it, and a
\* request submits addAccount's task last.
Sound(t) ==
  /\ input[t.req] # NoInput
  /\ t.op = "hangup" <=> input[t.req].kind = "hangup"
  /\ t.op = "add" => pc[t.req] \in {"wait", "done"}

Queued(t) == \E i \in 1..Len(backlog) : backlog[i] = t

TaskInv ==
  /\ \A t \in Tasks : Queued(t) => Sound(t)
  /\ current # NoTask => Sound(current)

\* The account object of a request does not exist yet.
Fresh(r) == sip[r] = "none" /\ ~armed[r] /\ promise[r] = "unset"

AddTask(r) == [op |-> "add", req |-> r]

\* addAccount's task of a request is submitted once and runs once.
FreshInv ==
  \A r \in Requests :
    /\ pc[r] \in {"idle", "submit", "push"} => Fresh(r)
    /\ Queued(AddTask(r)) => Fresh(r) /\ current # AddTask(r)
    /\ \A i, j \in 1..Len(backlog) :
         backlog[i] = AddTask(r) /\ backlog[j] = AddTask(r) => i = j
    /\ current = AddTask(r) /\ step = "begin" => Fresh(r)

\* The steps inside a task belong to the kind of the task.
StepInv ==
  /\ step \in {"created", "bound"} => current.op = "add"
  /\ step = "dialed" => current.op = "make" /\ dialing \in CallIds
  /\ step # "dialed" => dialing = NoCall

\* m_accounts holds objects that exist, under their own ids, and has no entry
\* for the account the worker is adding.
AccountInv ==
  /\ \A i \in AccountIds :
       accounts[i] # NoReq =>
         /\ sip[accounts[i]] # "none"
         /\ input[accounts[i]] # NoInput
         /\ input[accounts[i]].key = i
  /\ \A r \in Requests :
       BeingAdded(r) => sip[r] # "none" /\ accounts[input[r].key] = NoReq
  /\ \A r \in Requests :
       sip[r] # "none" => input[r] # NoInput /\ input[r].kind # "hangup"

\* An object has an agent only if its request named one, and is bound to it
\* before it is inserted.
AgentInv ==
  /\ \A r \in Requests : bound[r] => input[r] # NoInput /\ input[r].agent
  /\ step = "bound" => bound[Req] = input[Req].agent
  /\ AgentBeforeCalls

\* A callback that is still in place has a promise to set.
PromiseInv ==
  /\ PromiseSetOnce
  /\ \A r \in Requests : armed[r] => promise[r] = "unset"

\* A call dialled in this very task has its id, unless it has ended.
DialInv ==
  step = "dialed" =>
    lines[dialing] = NoCall \/ lines[dialing].by \in {NoReq, Req}

\* The library is destroyed by a worker that has left its loop.
ReleaseInv ==
  /\ released => worker = "retired"
  /\ ReleasedForGood

IInv ==
  /\ TypeOK /\ HandlerInv /\ TaskInv /\ FreshInv /\ StepInv
  /\ AccountInv /\ NoOrphanAccount
  /\ PromiseInv
  /\ AgentInv
  /\ DialInv /\ OutgoingCallsTracked
  /\ ReleaseInv

-----------------------------------------------------------------------------
\* Appending keeps a sequence over a set, taking its head away too.
LEMMA AppendType ==
  ASSUME NEW S, NEW q \in Seq(S), NEW e \in S
  PROVE  Append(q, e) \in Seq(S)
OBVIOUS

LEMMA HeadTailType ==
  ASSUME NEW S, NEW q \in Seq(S), q # <<>>
  PROVE  Head(q) \in S /\ Tail(q) \in Seq(S)
OBVIOUS

\* Appending a task queues that task and no other; what a tail queues was queued.
LEMMA QueuedAfterAppend ==
  ASSUME NEW q \in Seq(Tasks), NEW u \in Tasks, NEW t \in Tasks,
         \E i \in 1..Len(Append(q, u)) : Append(q, u)[i] = t
  PROVE  t = u \/ \E i \in 1..Len(q) : q[i] = t
OBVIOUS

LEMMA QueuedAfterTail ==
  ASSUME NEW q \in Seq(Tasks), q # <<>>, NEW t \in Tasks,
         t = Head(q) \/ \E i \in 1..Len(Tail(q)) : Tail(q)[i] = t
  PROVE  \E i \in 1..Len(q) : q[i] = t
<1>1. CASE t = Head(q)
  <2>1. 1 \in 1..Len(q) /\ q[1] = t
    BY <1>1
  <2> QED BY <2>1
<1>2. CASE \E i \in 1..Len(Tail(q)) : Tail(q)[i] = t
  <2>1. PICK i \in 1..Len(Tail(q)) : Tail(q)[i] = t
    BY <1>2
  <2>2. i + 1 \in 1..Len(q) /\ q[i + 1] = t
    BY <2>1
  <2> QED BY <2>2
<1> QED BY <1>1, <1>2

\* The initial state satisfies the inductive invariant.
LEMMA InitIInv == Init => IInv
<1> SUFFICES ASSUME Init PROVE IInv
  OBVIOUS
<1> USE InputAssumption, NullAssumption, NoTaskAssumption, NoCallAssumption
<1> USE DEF Init, Queue!ExecInit
<1>1. TypeOK
  <2>1. Queue!ExecTypeOK
    <3>1. backlog \in Seq(Tasks)
      OBVIOUS
    <3> QED BY <3>1 DEF Queue!ExecTypeOK, Queue!Phases, Queue!WorkerStates
  <2>2. /\ pc \in [Requests -> HandlerStates]
        /\ op \in [Requests -> Ops]
        /\ answer \in [Requests -> Answers]
        /\ promise \in [Requests -> Promises]
        /\ sip \in [Requests -> SipStates]
    BY DEF HandlerStates, Ops, Answers, Promises, SipStates
  <2> QED BY <2>1, <2>2 DEF TypeOK, Steps
<1>2. Len(backlog) = 0 /\ \A t \in Tasks : ~Queued(t)
  BY DEF Queued
<1>3. HandlerInv
  BY DEF HandlerInv
<1>4. TaskInv
  BY <1>2 DEF TaskInv
<1>5. FreshInv
  <2>1. ASSUME NEW r \in Requests
        PROVE  AddTask(r) \in Tasks /\ Fresh(r)
    BY DEF AddTask, Tasks, Ops, Fresh
  <2>2. 1..Len(backlog) = {}
    BY <1>2
  <2>3. step # "begin"
    OBVIOUS
  <2> HIDE DEF Init, Fresh, AddTask, Queued
  <2> QED BY <1>2, <2>1, <2>2, <2>3 DEF FreshInv
<1>6. StepInv /\ DialInv
  BY DEF StepInv, DialInv
<1>7. AccountInv /\ NoOrphanAccount
  BY DEF AccountInv, NoOrphanAccount, BeingAdded, Live
<1>8. PromiseInv /\ OutgoingCallsTracked /\ ReleaseInv
  BY DEF PromiseInv, PromiseSetOnce, OutgoingCallsTracked, ReleaseInv, ReleasedForGood
<1>9. AgentInv
  BY DEF AgentInv, AgentBeforeCalls
<1> QED
  BY <1>1, <1>3, <1>4, <1>5, <1>6, <1>7, <1>8, <1>9 DEF IInv

\* Handlers go through their code in order.
LEMMA HandlerStepInv ==
  TypeOK /\ HandlerInv /\ [Next]_vars => HandlerInv'
<1> SUFFICES ASSUME TypeOK /\ HandlerInv, [Next]_vars
             PROVE  HandlerInv'
  OBVIOUS
<1> USE InputAssumption, NullAssumption, NoTaskAssumption, NoCallAssumption
<1> USE DEF TypeOK, HandlerInv, AllInputs, Kinds, queueVars, handlerVars, objectVars, pjsipVars, taskVars
<1>1. ASSUME NEW r \in Requests, Arrive(r)
      PROVE  HandlerInv'
  BY <1>1 DEF Arrive, FirstOp
<1>2. ASSUME NEW r \in Requests, CheckRunning(r)
      PROVE  HandlerInv'
  BY <1>2 DEF CheckRunning
<1>3. ASSUME NEW r \in Requests, Push(r)
      PROVE  HandlerInv'
  BY <1>3 DEF Push, AfterPush, Queue!Accept
<1>4. ASSUME NEW r \in Requests, Reply(r)
      PROVE  HandlerInv'
  BY <1>4 DEF Reply
<1>5. ASSUME NEW r \in Requests, Timeout(r)
      PROVE  HandlerInv'
  BY <1>5 DEF Timeout
<1>6. CASE WorkerLoop
  BY <1>6 DEF WorkerLoop, Queue!Register, Queue!Check, Queue!Decline
<1>7. CASE TakeTask
  BY <1>7 DEF TakeTask, Queue!Start
<1>8. CASE AddFails
  BY <1>8 DEF AddFails, In, Req, Key, EndTask, Queue!Finish
<1>9. CASE CreateAccount
  BY <1>9 DEF CreateAccount, In, Req, Key, FreeIds
<1>10. CASE BindAgent
  BY <1>10 DEF BindAgent, In, Req, Key
<1>11. CASE InsertAccount
  BY <1>11 DEF InsertAccount, In, Req, Key, EndTask, Queue!Finish, Destroy
<1>12. CASE RemoveNothing
  BY <1>12 DEF RemoveNothing, In, Req, Key, EndTask, Queue!Finish
<1>13. CASE RemoveAccount
  BY <1>13 DEF RemoveAccount, In, Req, Key, EndTask, Queue!Finish, Destroy
<1>14. CASE NoAccountToCall
  BY <1>14 DEF NoAccountToCall, In, Req, Key, EndTask, Queue!Finish
<1>15. CASE CallWithoutAgent
  BY <1>15 DEF CallWithoutAgent, In, Req, Key
<1>16. CASE CallFails
  BY <1>16 DEF CallFails, In, Req, Key, EndTask, Queue!Finish, Destroy, Live
<1>17. CASE Dial
  BY <1>17 DEF Dial, In, Req, Key, Live
<1>18. CASE TrackCall
  BY <1>18 DEF TrackCall, In, Req, Key, EndTask, Queue!Finish, Destroy
<1>19. CASE HangupNothing
  BY <1>19 DEF HangupNothing, In, Req, Key, EndTask, Queue!Finish
<1>20. CASE Hangup
  BY <1>20 DEF Hangup, In, Req, Key, EndTask, Queue!Finish, Destroy
<1>21. CASE HangupAll
  BY <1>21 DEF HangupAll, Destroy
<1>22. CASE DestroyPjsip
  BY <1>22 DEF DestroyPjsip, Destroy
<1>23. CASE Shutdown
  BY <1>23 DEF Shutdown, Queue!BeginClose, Queue!Close
<1>24. ASSUME NEW a \in Requests, OnRegState(a)
      PROVE  HandlerInv'
  BY <1>24 DEF OnRegState
<1>25. ASSUME NEW a \in Requests, OnIncomingCall(a)
      PROVE  HandlerInv'
  BY <1>25 DEF OnIncomingCall
<1>26. ASSUME NEW c \in CallIds, RemoteHangup(c)
      PROVE  HandlerInv'
  BY <1>26 DEF RemoteHangup
<1>27. ASSUME NEW a \in Requests, CallbackThrows(a)
      PROVE  HandlerInv'
  BY <1>27 DEF CallbackThrows
<1>28. CASE UNCHANGED vars
  BY <1>28 DEF vars
<1> QED
  BY <1>1, <1>2, <1>3, <1>4, <1>5, <1>6, <1>7, <1>8, <1>9,
     <1>10, <1>11, <1>12, <1>13, <1>14, <1>15, <1>16, <1>17, <1>18,
     <1>19, <1>20, <1>21, <1>22, <1>23, <1>24, <1>25, <1>26, <1>27, <1>28
     DEF Next, HandlerStep, WorkerStep, TaskStep, PjsipStep, Halted

\* Every step keeps the types.
LEMMA TypeStep ==
  TypeOK /\ HandlerInv /\ TaskInv /\ [Next]_vars => TypeOK'
<1> SUFFICES ASSUME TypeOK /\ HandlerInv /\ TaskInv, [Next]_vars
             PROVE  TypeOK'
  OBVIOUS
<1> USE InputAssumption, NullAssumption, NoTaskAssumption, NoCallAssumption
<1> USE DEF TypeOK, Queue!ExecTypeOK, Queue!Phases, Queue!WorkerStates, HandlerStates, Answers, Promises, Steps, SipStates, Ops, Tasks, HandlerInv, TaskInv, Sound, AllInputs, Kinds, Calls, queueVars, handlerVars, objectVars, pjsipVars, taskVars
<1>1. ASSUME NEW r \in Requests, Arrive(r)
      PROVE  TypeOK'
  BY <1>1 DEF Arrive, FirstOp
<1>2. ASSUME NEW r \in Requests, CheckRunning(r)
      PROVE  TypeOK'
  <2> HIDE NoCallAssumption, NullAssumption DEF HandlerInv, TaskInv, Tasks, AllInputs
  <2>1. CASE phase = "open"
    BY <1>2, <2>1 DEF CheckRunning
  <2>2. CASE phase # "open"
    BY <1>2, <2>2 DEF CheckRunning
  <2> QED BY <2>1, <2>2
<1>3. ASSUME NEW r \in Requests, Push(r)
      PROVE  TypeOK'
  <2>1. [op |-> op[r], req |-> r] \in Tasks
    OBVIOUS
  <2>2. backlog' \in Seq(Tasks) /\ UNCHANGED <<current, phase, worker>>
    <3>1. CASE Queue!Accept([op |-> op[r], req |-> r])
      BY <2>1, <3>1, AppendType DEF Queue!Accept
    <3>2. CASE UNCHANGED queueVars
      BY <3>2
    <3> QED BY <1>3, <3>1, <3>2 DEF Push
  <2>3. Queue!ExecTypeOK'
    BY <2>2
  <2>4. pc' \in [Requests -> HandlerStates]
    BY <1>3 DEF Push, AfterPush
  <2>5. op' \in [Requests -> Ops]
    BY <1>3 DEF Push, AfterPush
  <2>6. answer' \in [Requests -> Answers]
    <3>1. CASE op[r] = "add" \/ input[r].kind = "put"
      BY <1>3, <3>1 DEF Push, AfterPush
    <3>2. CASE op[r] # "add" /\ input[r].kind # "put"
      <4>1. input[r].kind \in {"badput", "delete", "make", "hangup"}
        BY <1>3, <3>2 DEF Push
      <4>2. PICK v \in Answers : answer' = [answer EXCEPT ![r] = v]
        BY <1>3, <3>2, <4>1 DEF Push, AfterPush
      <4> QED BY <4>2
    <3> QED BY <3>1, <3>2
  <2> HIDE NoCallAssumption, NullAssumption DEF HandlerInv, TaskInv, AllInputs,
           Queue!ExecTypeOK
  <2> QED BY <1>3, <2>2, <2>3, <2>4, <2>5, <2>6 DEF Push
<1>4. ASSUME NEW r \in Requests, Reply(r)
      PROVE  TypeOK'
  BY <1>4 DEF Reply
<1>5. ASSUME NEW r \in Requests, Timeout(r)
      PROVE  TypeOK'
  BY <1>5 DEF Timeout
<1>6. CASE WorkerLoop
  BY <1>6 DEF WorkerLoop, Queue!Register, Queue!Check, Queue!Decline
<1>7. CASE TakeTask
  <2>1. Head(backlog) \in Tasks /\ Tail(backlog) \in Seq(Tasks)
    BY <1>7, HeadTailType DEF TakeTask, Queue!Start
  <2>2. Head(backlog) # NoTask
    BY <2>1
  <2> QED BY <1>7, <2>1, <2>2 DEF TakeTask, Queue!Start
<1>8. CASE AddFails
  BY <1>8 DEF AddFails, In, Req, Key, EndTask, Queue!Finish
<1>9. CASE CreateAccount
  BY <1>9 DEF CreateAccount, In, Req, Key, FreeIds
<1>10. CASE BindAgent
  BY <1>10 DEF BindAgent, In, Req, Key
<1>11. CASE InsertAccount
  BY <1>11 DEF InsertAccount, In, Req, Key, EndTask, Queue!Finish, Destroy
<1>12. CASE RemoveNothing
  BY <1>12 DEF RemoveNothing, In, Req, Key, EndTask, Queue!Finish
<1>13. CASE RemoveAccount
  BY <1>13 DEF RemoveAccount, In, Req, Key, EndTask, Queue!Finish, Destroy
<1>14. CASE NoAccountToCall
  BY <1>14 DEF NoAccountToCall, In, Req, Key, EndTask, Queue!Finish
<1>15. CASE CallWithoutAgent
  BY <1>15 DEF CallWithoutAgent, In, Req, Key
<1>16. CASE CallFails
  BY <1>16 DEF CallFails, In, Req, Key, EndTask, Queue!Finish, Destroy, Live
<1>17. CASE Dial
  BY <1>17 DEF Dial, In, Req, Key, Live
<1>18. CASE TrackCall
  BY <1>18 DEF TrackCall, In, Req, Key, EndTask, Queue!Finish, Destroy
<1>19. CASE HangupNothing
  BY <1>19 DEF HangupNothing, In, Req, Key, EndTask, Queue!Finish
<1>20. CASE Hangup
  BY <1>20 DEF Hangup, In, Req, Key, EndTask, Queue!Finish, Destroy
<1>21. CASE HangupAll
  BY <1>21 DEF HangupAll, Destroy
<1>22. CASE DestroyPjsip
  BY <1>22 DEF DestroyPjsip, Destroy
<1>23. CASE Shutdown
  BY <1>23 DEF Shutdown, Queue!BeginClose, Queue!Close
<1>24. ASSUME NEW a \in Requests, OnRegState(a)
      PROVE  TypeOK'
  BY <1>24 DEF OnRegState
<1>25. ASSUME NEW a \in Requests, OnIncomingCall(a)
      PROVE  TypeOK'
  BY <1>25 DEF OnIncomingCall
<1>26. ASSUME NEW c \in CallIds, RemoteHangup(c)
      PROVE  TypeOK'
  BY <1>26 DEF RemoteHangup
<1>27. ASSUME NEW a \in Requests, CallbackThrows(a)
      PROVE  TypeOK'
  BY <1>27 DEF CallbackThrows
<1>28. CASE UNCHANGED vars
  BY <1>28 DEF vars
<1> QED
  BY <1>1, <1>2, <1>3, <1>4, <1>5, <1>6, <1>7, <1>8, <1>9,
     <1>10, <1>11, <1>12, <1>13, <1>14, <1>15, <1>16, <1>17, <1>18,
     <1>19, <1>20, <1>21, <1>22, <1>23, <1>24, <1>25, <1>26, <1>27, <1>28
     DEF Next, HandlerStep, WorkerStep, TaskStep, PjsipStep, Halted

\* The worker goes through its tasks in order.
LEMMA StepStep ==
  TypeOK /\ StepInv /\ [Next]_vars => StepInv'
<1> SUFFICES ASSUME TypeOK /\ StepInv, [Next]_vars
             PROVE  StepInv'
  OBVIOUS
<1> USE InputAssumption, NullAssumption, NoTaskAssumption, NoCallAssumption
<1> USE DEF TypeOK, Queue!ExecTypeOK, Tasks, StepInv, queueVars, handlerVars, objectVars, pjsipVars, taskVars
<1>1. ASSUME NEW r \in Requests, Arrive(r)
      PROVE  StepInv'
  BY <1>1 DEF Arrive, FirstOp
<1>2. ASSUME NEW r \in Requests, CheckRunning(r)
      PROVE  StepInv'
  BY <1>2 DEF CheckRunning
<1>3. ASSUME NEW r \in Requests, Push(r)
      PROVE  StepInv'
  BY <1>3 DEF Push, AfterPush, Queue!Accept
<1>4. ASSUME NEW r \in Requests, Reply(r)
      PROVE  StepInv'
  BY <1>4 DEF Reply
<1>5. ASSUME NEW r \in Requests, Timeout(r)
      PROVE  StepInv'
  BY <1>5 DEF Timeout
<1>6. CASE WorkerLoop
  BY <1>6 DEF WorkerLoop, Queue!Register, Queue!Check, Queue!Decline
<1>7. CASE TakeTask
  BY <1>7 DEF TakeTask, Queue!Start
<1>8. CASE AddFails
  BY <1>8 DEF AddFails, In, Req, Key, EndTask, Queue!Finish
<1>9. CASE CreateAccount
  BY <1>9 DEF CreateAccount, In, Req, Key, FreeIds
<1>10. CASE BindAgent
  BY <1>10 DEF BindAgent, In, Req, Key
<1>11. CASE InsertAccount
  BY <1>11 DEF InsertAccount, In, Req, Key, EndTask, Queue!Finish, Destroy
<1>12. CASE RemoveNothing
  BY <1>12 DEF RemoveNothing, In, Req, Key, EndTask, Queue!Finish
<1>13. CASE RemoveAccount
  BY <1>13 DEF RemoveAccount, In, Req, Key, EndTask, Queue!Finish, Destroy
<1>14. CASE NoAccountToCall
  BY <1>14 DEF NoAccountToCall, In, Req, Key, EndTask, Queue!Finish
<1>15. CASE CallWithoutAgent
  BY <1>15 DEF CallWithoutAgent, In, Req, Key
<1>16. CASE CallFails
  BY <1>16 DEF CallFails, In, Req, Key, EndTask, Queue!Finish, Destroy, Live
<1>17. CASE Dial
  BY <1>17 DEF Dial, In, Req, Key, Live
<1>18. CASE TrackCall
  BY <1>18 DEF TrackCall, In, Req, Key, EndTask, Queue!Finish, Destroy
<1>19. CASE HangupNothing
  BY <1>19 DEF HangupNothing, In, Req, Key, EndTask, Queue!Finish
<1>20. CASE Hangup
  BY <1>20 DEF Hangup, In, Req, Key, EndTask, Queue!Finish, Destroy
<1>21. CASE HangupAll
  BY <1>21 DEF HangupAll, Destroy
<1>22. CASE DestroyPjsip
  BY <1>22 DEF DestroyPjsip, Destroy
<1>23. CASE Shutdown
  BY <1>23 DEF Shutdown, Queue!BeginClose, Queue!Close
<1>24. ASSUME NEW a \in Requests, OnRegState(a)
      PROVE  StepInv'
  BY <1>24 DEF OnRegState
<1>25. ASSUME NEW a \in Requests, OnIncomingCall(a)
      PROVE  StepInv'
  BY <1>25 DEF OnIncomingCall
<1>26. ASSUME NEW c \in CallIds, RemoteHangup(c)
      PROVE  StepInv'
  BY <1>26 DEF RemoteHangup
<1>27. ASSUME NEW a \in Requests, CallbackThrows(a)
      PROVE  StepInv'
  BY <1>27 DEF CallbackThrows
<1>28. CASE UNCHANGED vars
  BY <1>28 DEF vars
<1> QED
  BY <1>1, <1>2, <1>3, <1>4, <1>5, <1>6, <1>7, <1>8, <1>9,
     <1>10, <1>11, <1>12, <1>13, <1>14, <1>15, <1>16, <1>17, <1>18,
     <1>19, <1>20, <1>21, <1>22, <1>23, <1>24, <1>25, <1>26, <1>27, <1>28
     DEF Next, HandlerStep, WorkerStep, TaskStep, PjsipStep, Halted

\* A promise is set while its callback is taken away, or before it is in place.
LEMMA PromiseStep ==
  TypeOK /\ FreshInv /\ PromiseInv /\ [Next]_vars => PromiseInv'
<1> SUFFICES ASSUME TypeOK /\ FreshInv /\ PromiseInv, [Next]_vars
             PROVE  PromiseInv'
  OBVIOUS
<1> USE InputAssumption, NullAssumption, NoTaskAssumption, NoCallAssumption
<1> USE DEF TypeOK, Queue!ExecTypeOK, Tasks, FreshInv, Fresh, AddTask, PromiseInv, PromiseSetOnce, queueVars, handlerVars, objectVars, pjsipVars, taskVars
<1>1. ASSUME NEW r \in Requests, Arrive(r)
      PROVE  PromiseInv'
  BY <1>1 DEF Arrive, FirstOp
<1>2. ASSUME NEW r \in Requests, CheckRunning(r)
      PROVE  PromiseInv'
  BY <1>2 DEF CheckRunning
<1>3. ASSUME NEW r \in Requests, Push(r)
      PROVE  PromiseInv'
  BY <1>3 DEF Push, AfterPush, Queue!Accept
<1>4. ASSUME NEW r \in Requests, Reply(r)
      PROVE  PromiseInv'
  BY <1>4 DEF Reply
<1>5. ASSUME NEW r \in Requests, Timeout(r)
      PROVE  PromiseInv'
  BY <1>5 DEF Timeout
<1>6. CASE WorkerLoop
  BY <1>6 DEF WorkerLoop, Queue!Register, Queue!Check, Queue!Decline
<1>7. CASE TakeTask
  BY <1>7 DEF TakeTask, Queue!Start
<1>8. CASE AddFails
  BY <1>8 DEF AddFails, In, Req, Key, EndTask, Queue!Finish
<1>9. CASE CreateAccount
  BY <1>9 DEF CreateAccount, In, Req, Key, FreeIds
<1>10. CASE BindAgent
  BY <1>10 DEF BindAgent, In, Req, Key
<1>11. CASE InsertAccount
  BY <1>11 DEF InsertAccount, In, Req, Key, EndTask, Queue!Finish, Destroy
<1>12. CASE RemoveNothing
  BY <1>12 DEF RemoveNothing, In, Req, Key, EndTask, Queue!Finish
<1>13. CASE RemoveAccount
  BY <1>13 DEF RemoveAccount, In, Req, Key, EndTask, Queue!Finish, Destroy
<1>14. CASE NoAccountToCall
  BY <1>14 DEF NoAccountToCall, In, Req, Key, EndTask, Queue!Finish
<1>15. CASE CallWithoutAgent
  BY <1>15 DEF CallWithoutAgent, In, Req, Key
<1>16. CASE CallFails
  BY <1>16 DEF CallFails, In, Req, Key, EndTask, Queue!Finish, Destroy, Live
<1>17. CASE Dial
  BY <1>17 DEF Dial, In, Req, Key, Live
<1>18. CASE TrackCall
  BY <1>18 DEF TrackCall, In, Req, Key, EndTask, Queue!Finish, Destroy
<1>19. CASE HangupNothing
  BY <1>19 DEF HangupNothing, In, Req, Key, EndTask, Queue!Finish
<1>20. CASE Hangup
  BY <1>20 DEF Hangup, In, Req, Key, EndTask, Queue!Finish, Destroy
<1>21. CASE HangupAll
  BY <1>21 DEF HangupAll, Destroy
<1>22. CASE DestroyPjsip
  BY <1>22 DEF DestroyPjsip, Destroy
<1>23. CASE Shutdown
  BY <1>23 DEF Shutdown, Queue!BeginClose, Queue!Close
<1>24. ASSUME NEW a \in Requests, OnRegState(a)
      PROVE  PromiseInv'
  BY <1>24 DEF OnRegState
<1>25. ASSUME NEW a \in Requests, OnIncomingCall(a)
      PROVE  PromiseInv'
  BY <1>25 DEF OnIncomingCall
<1>26. ASSUME NEW c \in CallIds, RemoteHangup(c)
      PROVE  PromiseInv'
  BY <1>26 DEF RemoteHangup
<1>27. ASSUME NEW a \in Requests, CallbackThrows(a)
      PROVE  PromiseInv'
  BY <1>27 DEF CallbackThrows
<1>28. CASE UNCHANGED vars
  BY <1>28 DEF vars
<1> QED
  BY <1>1, <1>2, <1>3, <1>4, <1>5, <1>6, <1>7, <1>8, <1>9,
     <1>10, <1>11, <1>12, <1>13, <1>14, <1>15, <1>16, <1>17, <1>18,
     <1>19, <1>20, <1>21, <1>22, <1>23, <1>24, <1>25, <1>26, <1>27, <1>28
     DEF Next, HandlerStep, WorkerStep, TaskStep, PjsipStep, Halted

\* Destroying objects brings no PJSIP account into being and forgets none.
LEMMA DestroyKeeps ==
  ASSUME TypeOK, NEW objects, Destroy(objects)
  PROVE  \A r \in Requests : sip'[r] = "none" <=> sip[r] = "none"
BY DEF TypeOK, Destroy

\* Accounts are added by the worker alone, after it found no entry, and their ids stay.
LEMMA AccountStep ==
  TypeOK /\ HandlerInv /\ TaskInv /\ FreshInv /\ StepInv /\ AccountInv /\ [Next]_vars => AccountInv'
<1> SUFFICES ASSUME TypeOK /\ HandlerInv /\ TaskInv /\ FreshInv /\ StepInv /\ AccountInv, [Next]_vars
             PROVE  AccountInv'
  OBVIOUS
<1> USE InputAssumption, NullAssumption, NoTaskAssumption, NoCallAssumption
<1> USE DEF TypeOK, Queue!ExecTypeOK, Tasks, HandlerInv, TaskInv, Sound, FreshInv, Fresh, AddTask, StepInv, AccountInv, BeingAdded, queueVars, handlerVars, objectVars, pjsipVars, taskVars
<1>0. ASSUME UNCHANGED <<accounts, input>>, current' = NoTask \/ UNCHANGED <<current, step>>,
             \A r \in Requests : sip'[r] = "none" <=> sip[r] = "none"
      PROVE  AccountInv'
  <2>1. \A r \in Requests : [op |-> "add", req |-> r] # NoTask
    BY DEF Ops
  <2>2. ASSUME NEW r \in Requests, BeingAdded(r)'
        PROVE  BeingAdded(r)
    <3>1. current' # NoTask
      BY <2>1, <2>2
    <3> QED BY <1>0, <2>2, <3>1
  <2>3. \A r \in Requests : BeingAdded(r)' => BeingAdded(r)
    BY <2>2
  <2> HIDE DEF BeingAdded
  <2> QED BY <1>0, <2>3
<1>1. ASSUME NEW r \in Requests, Arrive(r)
      PROVE  AccountInv'
  BY <1>1 DEF Arrive, FirstOp
<1>2. ASSUME NEW r \in Requests, CheckRunning(r)
      PROVE  AccountInv'
  BY <1>2 DEF CheckRunning
<1>3. ASSUME NEW r \in Requests, Push(r)
      PROVE  AccountInv'
  BY <1>3 DEF Push, AfterPush, Queue!Accept
<1>4. ASSUME NEW r \in Requests, Reply(r)
      PROVE  AccountInv'
  BY <1>4 DEF Reply
<1>5. ASSUME NEW r \in Requests, Timeout(r)
      PROVE  AccountInv'
  BY <1>5 DEF Timeout
<1>6. CASE WorkerLoop
  BY <1>6 DEF WorkerLoop, Queue!Register, Queue!Check, Queue!Decline
<1>7. CASE TakeTask
  BY <1>7 DEF TakeTask, Queue!Start
<1>8. CASE AddFails
  BY <1>8 DEF AddFails, In, Req, Key, EndTask, Queue!Finish
<1>9. CASE CreateAccount
  BY <1>9 DEF CreateAccount, In, Req, Key, FreeIds
<1>10. CASE BindAgent
  BY <1>10 DEF BindAgent, In, Req, Key
<1>11. CASE InsertAccount
  BY <1>11 DEF InsertAccount, In, Req, Key, EndTask, Queue!Finish, Destroy
<1>12. CASE RemoveNothing
  BY <1>12 DEF RemoveNothing, In, Req, Key, EndTask, Queue!Finish
<1>13. CASE RemoveAccount
  BY <1>13 DEF RemoveAccount, In, Req, Key, EndTask, Queue!Finish, Destroy
<1>14. CASE NoAccountToCall
  BY <1>14 DEF NoAccountToCall, In, Req, Key, EndTask, Queue!Finish
<1>15. CASE CallWithoutAgent
  BY <1>15 DEF CallWithoutAgent, In, Req, Key
<1>16. CASE CallFails
  <2>1. UNCHANGED <<accounts, input>> /\ (current' = NoTask \/ UNCHANGED <<current, step>>)
    BY <1>16 DEF CallFails, EndTask, Queue!Finish
  <2>2. \A r \in Requests : sip'[r] = "none" <=> sip[r] = "none"
    BY <1>16, DestroyKeeps DEF CallFails
  <2> QED BY <1>0, <2>1, <2>2
<1>17. CASE Dial
  BY <1>17 DEF Dial, In, Req, Key, Live
<1>18. CASE TrackCall
  <2>1. UNCHANGED <<accounts, input>> /\ (current' = NoTask \/ UNCHANGED <<current, step>>)
    BY <1>18 DEF TrackCall, EndTask, Queue!Finish
  <2>2. \A r \in Requests : sip'[r] = "none" <=> sip[r] = "none"
    BY <1>18, DestroyKeeps DEF TrackCall
  <2> QED BY <1>0, <2>1, <2>2
<1>19. CASE HangupNothing
  BY <1>19 DEF HangupNothing, In, Req, Key, EndTask, Queue!Finish
<1>20. CASE Hangup
  <2>1. UNCHANGED <<accounts, input>> /\ (current' = NoTask \/ UNCHANGED <<current, step>>)
    BY <1>20 DEF Hangup, EndTask, Queue!Finish
  <2>2. \A r \in Requests : sip'[r] = "none" <=> sip[r] = "none"
    BY <1>20, DestroyKeeps DEF Hangup
  <2> QED BY <1>0, <2>1, <2>2
<1>21. CASE HangupAll
  BY <1>21 DEF HangupAll, Destroy
<1>22. CASE DestroyPjsip
  BY <1>22 DEF DestroyPjsip, Destroy
<1>23. CASE Shutdown
  BY <1>23 DEF Shutdown, Queue!BeginClose, Queue!Close
<1>24. ASSUME NEW a \in Requests, OnRegState(a)
      PROVE  AccountInv'
  BY <1>24 DEF OnRegState
<1>25. ASSUME NEW a \in Requests, OnIncomingCall(a)
      PROVE  AccountInv'
  BY <1>25 DEF OnIncomingCall
<1>26. ASSUME NEW c \in CallIds, RemoteHangup(c)
      PROVE  AccountInv'
  BY <1>26 DEF RemoteHangup
<1>27. ASSUME NEW a \in Requests, CallbackThrows(a)
      PROVE  AccountInv'
  BY <1>27 DEF CallbackThrows
<1>28. CASE UNCHANGED vars
  BY <1>28 DEF vars
<1> QED
  BY <1>1, <1>2, <1>3, <1>4, <1>5, <1>6, <1>7, <1>8, <1>9,
     <1>10, <1>11, <1>12, <1>13, <1>14, <1>15, <1>16, <1>17, <1>18,
     <1>19, <1>20, <1>21, <1>22, <1>23, <1>24, <1>25, <1>26, <1>27, <1>28
     DEF Next, HandlerStep, WorkerStep, TaskStep, PjsipStep, Halted

\* A PJSIP account is added to m_accounts before the task ends, and leaves both together.
LEMMA OrphanStep ==
  TypeOK /\ HandlerInv /\ TaskInv /\ FreshInv /\ StepInv
    /\ AccountInv /\ NoOrphanAccount /\ [Next]_vars => NoOrphanAccount'
<1> SUFFICES ASSUME TypeOK /\ HandlerInv /\ TaskInv /\ FreshInv /\ StepInv
    /\ AccountInv /\ NoOrphanAccount, [Next]_vars
             PROVE  NoOrphanAccount'
  OBVIOUS
<1> USE InputAssumption, NullAssumption, NoTaskAssumption, NoCallAssumption
<1> USE DEF TypeOK, Queue!ExecTypeOK, Tasks, HandlerInv, TaskInv, Sound, FreshInv, Fresh, StepInv, AccountInv, NoOrphanAccount, BeingAdded, Live, queueVars, handlerVars, objectVars, pjsipVars, taskVars
<1>1. ASSUME NEW r \in Requests, Arrive(r)
      PROVE  NoOrphanAccount'
  BY <1>1 DEF Arrive, FirstOp
<1>2. ASSUME NEW r \in Requests, CheckRunning(r)
      PROVE  NoOrphanAccount'
  BY <1>2 DEF CheckRunning
<1>3. ASSUME NEW r \in Requests, Push(r)
      PROVE  NoOrphanAccount'
  BY <1>3 DEF Push, AfterPush, Queue!Accept
<1>4. ASSUME NEW r \in Requests, Reply(r)
      PROVE  NoOrphanAccount'
  BY <1>4 DEF Reply
<1>5. ASSUME NEW r \in Requests, Timeout(r)
      PROVE  NoOrphanAccount'
  BY <1>5 DEF Timeout
<1>6. CASE WorkerLoop
  BY <1>6 DEF WorkerLoop, Queue!Register, Queue!Check, Queue!Decline
<1>7. CASE TakeTask
  BY <1>7 DEF TakeTask, Queue!Start
<1>8. CASE AddFails
  BY <1>8 DEF AddFails, In, Req, Key, EndTask, Queue!Finish
<1>9. CASE CreateAccount
  BY <1>9 DEF CreateAccount, In, Req, Key, FreeIds
<1>10. CASE BindAgent
  BY <1>10 DEF BindAgent, In, Req, Key
<1>11. CASE InsertAccount
  BY <1>11 DEF InsertAccount, In, Req, Key, EndTask, Queue!Finish, Destroy
<1>12. CASE RemoveNothing
  BY <1>12 DEF RemoveNothing, In, Req, Key, EndTask, Queue!Finish
<1>13. CASE RemoveAccount
  BY <1>13 DEF RemoveAccount, In, Req, Key, EndTask, Queue!Finish, Destroy
<1>14. CASE NoAccountToCall
  BY <1>14 DEF NoAccountToCall, In, Req, Key, EndTask, Queue!Finish
<1>15. CASE CallWithoutAgent
  BY <1>15 DEF CallWithoutAgent, In, Req, Key
<1>16. CASE CallFails
  BY <1>16 DEF CallFails, In, Req, Key, EndTask, Queue!Finish, Destroy, Live
<1>17. CASE Dial
  BY <1>17 DEF Dial, In, Req, Key, Live
<1>18. CASE TrackCall
  BY <1>18 DEF TrackCall, In, Req, Key, EndTask, Queue!Finish, Destroy
<1>19. CASE HangupNothing
  BY <1>19 DEF HangupNothing, In, Req, Key, EndTask, Queue!Finish
<1>20. CASE Hangup
  BY <1>20 DEF Hangup, In, Req, Key, EndTask, Queue!Finish, Destroy
<1>21. CASE HangupAll
  <2>1. UNCHANGED <<accounts, input, current, step>>
    BY <1>21 DEF HangupAll
  <2>2. Live' \subseteq Live
    BY <1>21 DEF HangupAll, Destroy
  <2> QED BY <2>1, <2>2
<1>22. CASE DestroyPjsip
  BY <1>22 DEF DestroyPjsip, Destroy
<1>23. CASE Shutdown
  BY <1>23 DEF Shutdown, Queue!BeginClose, Queue!Close
<1>24. ASSUME NEW a \in Requests, OnRegState(a)
      PROVE  NoOrphanAccount'
  BY <1>24 DEF OnRegState
<1>25. ASSUME NEW a \in Requests, OnIncomingCall(a)
      PROVE  NoOrphanAccount'
  BY <1>25 DEF OnIncomingCall
<1>26. ASSUME NEW c \in CallIds, RemoteHangup(c)
      PROVE  NoOrphanAccount'
  BY <1>26 DEF RemoteHangup
<1>27. ASSUME NEW a \in Requests, CallbackThrows(a)
      PROVE  NoOrphanAccount'
  BY <1>27 DEF CallbackThrows
<1>28. CASE UNCHANGED vars
  BY <1>28 DEF vars
<1> QED
  BY <1>1, <1>2, <1>3, <1>4, <1>5, <1>6, <1>7, <1>8, <1>9,
     <1>10, <1>11, <1>12, <1>13, <1>14, <1>15, <1>16, <1>17, <1>18,
     <1>19, <1>20, <1>21, <1>22, <1>23, <1>24, <1>25, <1>26, <1>27, <1>28
     DEF Next, HandlerStep, WorkerStep, TaskStep, PjsipStep, Halted

\* Only the worker dials.
LEMMA DialStep ==
  TypeOK /\ StepInv /\ DialInv /\ [Next]_vars => DialInv'
<1> SUFFICES ASSUME TypeOK /\ StepInv /\ DialInv, [Next]_vars
             PROVE  DialInv'
  OBVIOUS
<1> USE InputAssumption, NullAssumption, NoTaskAssumption, NoCallAssumption
<1> USE DEF TypeOK, Queue!ExecTypeOK, Tasks, Calls, StepInv, DialInv, Req, queueVars, handlerVars, objectVars, pjsipVars, taskVars
<1>1. ASSUME NEW r \in Requests, Arrive(r)
      PROVE  DialInv'
  BY <1>1 DEF Arrive, FirstOp
<1>2. ASSUME NEW r \in Requests, CheckRunning(r)
      PROVE  DialInv'
  BY <1>2 DEF CheckRunning
<1>3. ASSUME NEW r \in Requests, Push(r)
      PROVE  DialInv'
  BY <1>3 DEF Push, AfterPush, Queue!Accept
<1>4. ASSUME NEW r \in Requests, Reply(r)
      PROVE  DialInv'
  BY <1>4 DEF Reply
<1>5. ASSUME NEW r \in Requests, Timeout(r)
      PROVE  DialInv'
  BY <1>5 DEF Timeout
<1>6. CASE WorkerLoop
  BY <1>6 DEF WorkerLoop, Queue!Register, Queue!Check, Queue!Decline
<1>7. CASE TakeTask
  BY <1>7 DEF TakeTask, Queue!Start
<1>8. CASE AddFails
  BY <1>8 DEF AddFails, In, Req, Key, EndTask, Queue!Finish
<1>9. CASE CreateAccount
  BY <1>9 DEF CreateAccount, In, Req, Key, FreeIds
<1>10. CASE BindAgent
  BY <1>10 DEF BindAgent, In, Req, Key
<1>11. CASE InsertAccount
  BY <1>11 DEF InsertAccount, In, Req, Key, EndTask, Queue!Finish, Destroy
<1>12. CASE RemoveNothing
  BY <1>12 DEF RemoveNothing, In, Req, Key, EndTask, Queue!Finish
<1>13. CASE RemoveAccount
  BY <1>13 DEF RemoveAccount, In, Req, Key, EndTask, Queue!Finish, Destroy
<1>14. CASE NoAccountToCall
  BY <1>14 DEF NoAccountToCall, In, Req, Key, EndTask, Queue!Finish
<1>15. CASE CallWithoutAgent
  BY <1>15 DEF CallWithoutAgent, In, Req, Key
<1>16. CASE CallFails
  BY <1>16 DEF CallFails, In, Req, Key, EndTask, Queue!Finish, Destroy, Live
<1>17. CASE Dial
  BY <1>17 DEF Dial, In, Req, Key, Live
<1>18. CASE TrackCall
  BY <1>18 DEF TrackCall, In, Req, Key, EndTask, Queue!Finish, Destroy
<1>19. CASE HangupNothing
  BY <1>19 DEF HangupNothing, In, Req, Key, EndTask, Queue!Finish
<1>20. CASE Hangup
  BY <1>20 DEF Hangup, In, Req, Key, EndTask, Queue!Finish, Destroy
<1>21. CASE HangupAll
  BY <1>21 DEF HangupAll, Destroy
<1>22. CASE DestroyPjsip
  BY <1>22 DEF DestroyPjsip, Destroy
<1>23. CASE Shutdown
  BY <1>23 DEF Shutdown, Queue!BeginClose, Queue!Close
<1>24. ASSUME NEW a \in Requests, OnRegState(a)
      PROVE  DialInv'
  BY <1>24 DEF OnRegState
<1>25. ASSUME NEW a \in Requests, OnIncomingCall(a)
      PROVE  DialInv'
  BY <1>25 DEF OnIncomingCall
<1>26. ASSUME NEW c \in CallIds, RemoteHangup(c)
      PROVE  DialInv'
  BY <1>26 DEF RemoteHangup
<1>27. ASSUME NEW a \in Requests, CallbackThrows(a)
      PROVE  DialInv'
  BY <1>27 DEF CallbackThrows
<1>28. CASE UNCHANGED vars
  BY <1>28 DEF vars
<1> QED
  BY <1>1, <1>2, <1>3, <1>4, <1>5, <1>6, <1>7, <1>8, <1>9,
     <1>10, <1>11, <1>12, <1>13, <1>14, <1>15, <1>16, <1>17, <1>18,
     <1>19, <1>20, <1>21, <1>22, <1>23, <1>24, <1>25, <1>26, <1>27, <1>28
     DEF Next, HandlerStep, WorkerStep, TaskStep, PjsipStep, Halted

\* The worker binds an account before it inserts it, and calls go to bound ones.
LEMMA AgentStep ==
  TypeOK /\ HandlerInv /\ TaskInv /\ StepInv /\ AccountInv /\ AgentInv /\ [Next]_vars => AgentInv'
<1> SUFFICES ASSUME TypeOK /\ HandlerInv /\ TaskInv /\ StepInv /\ AccountInv /\ AgentInv, [Next]_vars
             PROVE  AgentInv'
  OBVIOUS
<1> USE InputAssumption, NullAssumption, NoTaskAssumption, NoCallAssumption
<1> USE DEF TypeOK, Queue!ExecTypeOK, Tasks, Calls, HandlerInv, TaskInv, Sound, StepInv, AccountInv, BeingAdded, AgentInv, AgentBeforeCalls, AllInputs, Req, queueVars, handlerVars, objectVars, pjsipVars, taskVars
<1>1. ASSUME NEW r \in Requests, Arrive(r)
      PROVE  AgentInv'
  BY <1>1 DEF Arrive, FirstOp
<1>2. ASSUME NEW r \in Requests, CheckRunning(r)
      PROVE  AgentInv'
  BY <1>2 DEF CheckRunning
<1>3. ASSUME NEW r \in Requests, Push(r)
      PROVE  AgentInv'
  BY <1>3 DEF Push, AfterPush, Queue!Accept
<1>4. ASSUME NEW r \in Requests, Reply(r)
      PROVE  AgentInv'
  BY <1>4 DEF Reply
<1>5. ASSUME NEW r \in Requests, Timeout(r)
      PROVE  AgentInv'
  BY <1>5 DEF Timeout
<1>6. CASE WorkerLoop
  BY <1>6 DEF WorkerLoop, Queue!Register, Queue!Check, Queue!Decline
<1>7. CASE TakeTask
  BY <1>7 DEF TakeTask, Queue!Start
<1>8. CASE AddFails
  BY <1>8 DEF AddFails, In, Req, Key, EndTask, Queue!Finish
<1>9. CASE CreateAccount
  BY <1>9 DEF CreateAccount, In, Req, Key, FreeIds
<1>10. CASE BindAgent
  BY <1>10 DEF BindAgent, In, Req, Key
<1>11. CASE InsertAccount
  BY <1>11 DEF InsertAccount, In, Req, Key, EndTask, Queue!Finish, Destroy
<1>12. CASE RemoveNothing
  BY <1>12 DEF RemoveNothing, In, Req, Key, EndTask, Queue!Finish
<1>13. CASE RemoveAccount
  BY <1>13 DEF RemoveAccount, In, Req, Key, EndTask, Queue!Finish, Destroy
<1>14. CASE NoAccountToCall
  BY <1>14 DEF NoAccountToCall, In, Req, Key, EndTask, Queue!Finish
<1>15. CASE CallWithoutAgent
  BY <1>15 DEF CallWithoutAgent, In, Req, Key
<1>16. CASE CallFails
  BY <1>16 DEF CallFails, In, Req, Key, EndTask, Queue!Finish, Destroy, Live
<1>17. CASE Dial
  BY <1>17 DEF Dial, In, Req, Key, Live
<1>18. CASE TrackCall
  BY <1>18 DEF TrackCall, In, Req, Key, EndTask, Queue!Finish, Destroy
<1>19. CASE HangupNothing
  BY <1>19 DEF HangupNothing, In, Req, Key, EndTask, Queue!Finish
<1>20. CASE Hangup
  BY <1>20 DEF Hangup, In, Req, Key, EndTask, Queue!Finish, Destroy
<1>21. CASE HangupAll
  BY <1>21 DEF HangupAll, Destroy
<1>22. CASE DestroyPjsip
  BY <1>22 DEF DestroyPjsip, Destroy
<1>23. CASE Shutdown
  BY <1>23 DEF Shutdown, Queue!BeginClose, Queue!Close
<1>24. ASSUME NEW a \in Requests, OnRegState(a)
      PROVE  AgentInv'
  BY <1>24 DEF OnRegState
<1>25. ASSUME NEW a \in Requests, OnIncomingCall(a)
      PROVE  AgentInv'
  BY <1>25 DEF OnIncomingCall
<1>26. ASSUME NEW c \in CallIds, RemoteHangup(c)
      PROVE  AgentInv'
  BY <1>26 DEF RemoteHangup
<1>27. ASSUME NEW a \in Requests, CallbackThrows(a)
      PROVE  AgentInv'
  BY <1>27 DEF CallbackThrows
<1>28. CASE UNCHANGED vars
  BY <1>28 DEF vars
<1> QED
  BY <1>1, <1>2, <1>3, <1>4, <1>5, <1>6, <1>7, <1>8, <1>9,
     <1>10, <1>11, <1>12, <1>13, <1>14, <1>15, <1>16, <1>17, <1>18,
     <1>19, <1>20, <1>21, <1>22, <1>23, <1>24, <1>25, <1>26, <1>27, <1>28
     DEF Next, HandlerStep, WorkerStep, TaskStep, PjsipStep, Halted

\* A dialled call enters m_activeCalls in its task, and leaves when it ends.
LEMMA TrackedStep ==
  TypeOK /\ StepInv /\ DialInv /\ OutgoingCallsTracked /\ [Next]_vars => OutgoingCallsTracked'
<1> SUFFICES ASSUME TypeOK /\ StepInv /\ DialInv /\ OutgoingCallsTracked, [Next]_vars
             PROVE  OutgoingCallsTracked'
  OBVIOUS
<1> USE InputAssumption, NullAssumption, NoTaskAssumption, NoCallAssumption
<1> USE DEF TypeOK, Queue!ExecTypeOK, Tasks, Calls, StepInv, DialInv, OutgoingCallsTracked, Req, queueVars, handlerVars, objectVars, pjsipVars, taskVars
<1>1. ASSUME NEW r \in Requests, Arrive(r)
      PROVE  OutgoingCallsTracked'
  BY <1>1 DEF Arrive, FirstOp
<1>2. ASSUME NEW r \in Requests, CheckRunning(r)
      PROVE  OutgoingCallsTracked'
  BY <1>2 DEF CheckRunning
<1>3. ASSUME NEW r \in Requests, Push(r)
      PROVE  OutgoingCallsTracked'
  BY <1>3 DEF Push, AfterPush, Queue!Accept
<1>4. ASSUME NEW r \in Requests, Reply(r)
      PROVE  OutgoingCallsTracked'
  BY <1>4 DEF Reply
<1>5. ASSUME NEW r \in Requests, Timeout(r)
      PROVE  OutgoingCallsTracked'
  BY <1>5 DEF Timeout
<1>6. CASE WorkerLoop
  BY <1>6 DEF WorkerLoop, Queue!Register, Queue!Check, Queue!Decline
<1>7. CASE TakeTask
  BY <1>7 DEF TakeTask, Queue!Start
<1>8. CASE AddFails
  BY <1>8 DEF AddFails, In, Req, Key, EndTask, Queue!Finish
<1>9. CASE CreateAccount
  BY <1>9 DEF CreateAccount, In, Req, Key, FreeIds
<1>10. CASE BindAgent
  BY <1>10 DEF BindAgent, In, Req, Key
<1>11. CASE InsertAccount
  BY <1>11 DEF InsertAccount, In, Req, Key, EndTask, Queue!Finish, Destroy
<1>12. CASE RemoveNothing
  BY <1>12 DEF RemoveNothing, In, Req, Key, EndTask, Queue!Finish
<1>13. CASE RemoveAccount
  BY <1>13 DEF RemoveAccount, In, Req, Key, EndTask, Queue!Finish, Destroy
<1>14. CASE NoAccountToCall
  BY <1>14 DEF NoAccountToCall, In, Req, Key, EndTask, Queue!Finish
<1>15. CASE CallWithoutAgent
  BY <1>15 DEF CallWithoutAgent, In, Req, Key
<1>16. CASE CallFails
  BY <1>16 DEF CallFails, In, Req, Key, EndTask, Queue!Finish, Destroy, Live
<1>17. CASE Dial
  BY <1>17 DEF Dial, In, Req, Key, Live
<1>18. CASE TrackCall
  BY <1>18 DEF TrackCall, In, Req, Key, EndTask, Queue!Finish, Destroy
<1>19. CASE HangupNothing
  BY <1>19 DEF HangupNothing, In, Req, Key, EndTask, Queue!Finish
<1>20. CASE Hangup
  BY <1>20 DEF Hangup, In, Req, Key, EndTask, Queue!Finish, Destroy
<1>21. CASE HangupAll
  BY <1>21 DEF HangupAll, Destroy
<1>22. CASE DestroyPjsip
  BY <1>22 DEF DestroyPjsip, Destroy
<1>23. CASE Shutdown
  BY <1>23 DEF Shutdown, Queue!BeginClose, Queue!Close
<1>24. ASSUME NEW a \in Requests, OnRegState(a)
      PROVE  OutgoingCallsTracked'
  BY <1>24 DEF OnRegState
<1>25. ASSUME NEW a \in Requests, OnIncomingCall(a)
      PROVE  OutgoingCallsTracked'
  BY <1>25 DEF OnIncomingCall
<1>26. ASSUME NEW c \in CallIds, RemoteHangup(c)
      PROVE  OutgoingCallsTracked'
  BY <1>26 DEF RemoteHangup
<1>27. ASSUME NEW a \in Requests, CallbackThrows(a)
      PROVE  OutgoingCallsTracked'
  BY <1>27 DEF CallbackThrows
<1>28. CASE UNCHANGED vars
  BY <1>28 DEF vars
<1> QED
  BY <1>1, <1>2, <1>3, <1>4, <1>5, <1>6, <1>7, <1>8, <1>9,
     <1>10, <1>11, <1>12, <1>13, <1>14, <1>15, <1>16, <1>17, <1>18,
     <1>19, <1>20, <1>21, <1>22, <1>23, <1>24, <1>25, <1>26, <1>27, <1>28
     DEF Next, HandlerStep, WorkerStep, TaskStep, PjsipStep, Halted

\* Nothing acts on a destroyed library.
LEMMA ReleaseStep ==
  TypeOK /\ NoOrphanAccount /\ AccountInv /\ ReleaseInv /\ [Next]_vars => ReleaseInv'
<1> SUFFICES ASSUME TypeOK /\ NoOrphanAccount /\ AccountInv /\ ReleaseInv, [Next]_vars
             PROVE  ReleaseInv'
  OBVIOUS
<1> USE InputAssumption, NullAssumption, NoTaskAssumption, NoCallAssumption
<1> USE DEF TypeOK, Queue!ExecTypeOK, Tasks, Calls, AccountInv, NoOrphanAccount, BeingAdded, Live, ReleaseInv, ReleasedForGood, AllInputs, queueVars, handlerVars, objectVars, pjsipVars, taskVars
<1>1. ASSUME NEW r \in Requests, Arrive(r)
      PROVE  ReleaseInv'
  BY <1>1 DEF Arrive, FirstOp
<1>2. ASSUME NEW r \in Requests, CheckRunning(r)
      PROVE  ReleaseInv'
  BY <1>2 DEF CheckRunning
<1>3. ASSUME NEW r \in Requests, Push(r)
      PROVE  ReleaseInv'
  BY <1>3 DEF Push, AfterPush, Queue!Accept
<1>4. ASSUME NEW r \in Requests, Reply(r)
      PROVE  ReleaseInv'
  BY <1>4 DEF Reply
<1>5. ASSUME NEW r \in Requests, Timeout(r)
      PROVE  ReleaseInv'
  BY <1>5 DEF Timeout
<1>6. CASE WorkerLoop
  BY <1>6 DEF WorkerLoop, Queue!Register, Queue!Check, Queue!Decline
<1>7. CASE TakeTask
  BY <1>7 DEF TakeTask, Queue!Start
<1>8. CASE AddFails
  BY <1>8 DEF AddFails, In, Req, Key, EndTask, Queue!Finish
<1>9. CASE CreateAccount
  BY <1>9 DEF CreateAccount, In, Req, Key, FreeIds
<1>10. CASE BindAgent
  BY <1>10 DEF BindAgent, In, Req, Key
<1>11. CASE InsertAccount
  BY <1>11 DEF InsertAccount, In, Req, Key, EndTask, Queue!Finish, Destroy
<1>12. CASE RemoveNothing
  BY <1>12 DEF RemoveNothing, In, Req, Key, EndTask, Queue!Finish
<1>13. CASE RemoveAccount
  BY <1>13 DEF RemoveAccount, In, Req, Key, EndTask, Queue!Finish, Destroy
<1>14. CASE NoAccountToCall
  BY <1>14 DEF NoAccountToCall, In, Req, Key, EndTask, Queue!Finish
<1>15. CASE CallWithoutAgent
  BY <1>15 DEF CallWithoutAgent, In, Req, Key
<1>16. CASE CallFails
  BY <1>16 DEF CallFails, In, Req, Key, EndTask, Queue!Finish, Destroy, Live
<1>17. CASE Dial
  BY <1>17 DEF Dial, In, Req, Key, Live
<1>18. CASE TrackCall
  BY <1>18 DEF TrackCall, In, Req, Key, EndTask, Queue!Finish, Destroy
<1>19. CASE HangupNothing
  BY <1>19 DEF HangupNothing, In, Req, Key, EndTask, Queue!Finish
<1>20. CASE Hangup
  BY <1>20 DEF Hangup, In, Req, Key, EndTask, Queue!Finish, Destroy
<1>21. CASE HangupAll
  BY <1>21 DEF HangupAll, Destroy
<1>22. CASE DestroyPjsip
  <2>1. ASSUME NEW r \in Requests, sip[r] = "live"
        PROVE  \E i \in AccountIds : accounts[i] = r
    <3>1. ~BeingAdded(r)
      BY <1>22 DEF DestroyPjsip
    <3>2. input[r].key \in AccountIds
      BY <2>1
    <3> QED BY <2>1, <3>1, <3>2
  <2>2. Live' = {}
    BY <1>22, <2>1 DEF DestroyPjsip, Destroy
  <2> QED BY <1>22, <2>2 DEF DestroyPjsip
<1>23. CASE Shutdown
  BY <1>23 DEF Shutdown, Queue!BeginClose, Queue!Close
<1>24. ASSUME NEW a \in Requests, OnRegState(a)
      PROVE  ReleaseInv'
  BY <1>24 DEF OnRegState
<1>25. ASSUME NEW a \in Requests, OnIncomingCall(a)
      PROVE  ReleaseInv'
  BY <1>25 DEF OnIncomingCall
<1>26. ASSUME NEW c \in CallIds, RemoteHangup(c)
      PROVE  ReleaseInv'
  BY <1>26 DEF RemoteHangup
<1>27. ASSUME NEW a \in Requests, CallbackThrows(a)
      PROVE  ReleaseInv'
  BY <1>27 DEF CallbackThrows
<1>28. CASE UNCHANGED vars
  BY <1>28 DEF vars
<1> QED
  BY <1>1, <1>2, <1>3, <1>4, <1>5, <1>6, <1>7, <1>8, <1>9,
     <1>10, <1>11, <1>12, <1>13, <1>14, <1>15, <1>16, <1>17, <1>18,
     <1>19, <1>20, <1>21, <1>22, <1>23, <1>24, <1>25, <1>26, <1>27, <1>28
     DEF Next, HandlerStep, WorkerStep, TaskStep, PjsipStep, Halted

\* A task comes from a request that asked for it.
LEMMA TaskStepInv ==
  TypeOK /\ HandlerInv /\ TaskInv /\ [Next]_vars => TaskInv'
<1> SUFFICES ASSUME TypeOK /\ HandlerInv /\ TaskInv, [Next]_vars
             PROVE  TaskInv'
  OBVIOUS
<1> USE InputAssumption, NullAssumption, NoTaskAssumption, NoCallAssumption
<1> USE DEF TypeOK, Queue!ExecTypeOK, HandlerInv, TaskInv, Sound, Queued, Tasks, queueVars, handlerVars, objectVars, pjsipVars, taskVars
<1>1. ASSUME NEW r \in Requests, Arrive(r)
      PROVE  TaskInv'
  BY <1>1 DEF Arrive, FirstOp
<1>2. ASSUME NEW r \in Requests, CheckRunning(r)
      PROVE  TaskInv'
  BY <1>2 DEF CheckRunning
<1>3. ASSUME NEW r \in Requests, Push(r)
      PROVE  TaskInv'
  <2>1. CASE Queue!Accept([op |-> op[r], req |-> r])
    <3>1. [op |-> op[r], req |-> r] \in Tasks
      OBVIOUS
    <3>2. backlog' = Append(backlog, [op |-> op[r], req |-> r]) /\ current' = current
      BY <2>1 DEF Queue!Accept
    <3>3. input' = input /\ (op[r] = "add" => pc'[r] = "wait")
      BY <1>3 DEF Push, AfterPush
    <3>4. ASSUME NEW s \in Requests, pc[s] \in {"wait", "done"}
          PROVE  pc'[s] = pc[s]
      BY <1>3, <3>4 DEF Push, AfterPush
    <3>5. ASSUME NEW t \in Tasks, t = [op |-> op[r], req |-> r]
          PROVE  Sound(t)'
      BY <1>3, <3>3, <3>5 DEF Push, Sound
    <3>6. ASSUME NEW t \in Tasks, Sound(t)
          PROVE  Sound(t)'
      BY <3>3, <3>4, <3>6 DEF Sound
    <3>7. ASSUME NEW t \in Tasks, Queued(t)'
          PROVE  Sound(t)'
      <4>1. t = [op |-> op[r], req |-> r] \/ Queued(t)
        BY <3>1, <3>2, <3>7, QueuedAfterAppend DEF Queued
      <4> QED BY <4>1, <3>5, <3>6 DEF TaskInv
    <3>8. current' # NoTask => Sound(current)'
      BY <3>2, <3>6 DEF TaskInv
    <3> HIDE DEF Sound, Queued
    <3> QED BY <3>7, <3>8 DEF TaskInv
  <2>2. CASE UNCHANGED queueVars
    BY <1>3, <2>2 DEF Push, AfterPush, Sound, TaskInv, Queued
  <2> QED BY <1>3, <2>1, <2>2 DEF Push
<1>4. ASSUME NEW r \in Requests, Reply(r)
      PROVE  TaskInv'
  BY <1>4 DEF Reply
<1>5. ASSUME NEW r \in Requests, Timeout(r)
      PROVE  TaskInv'
  BY <1>5 DEF Timeout
<1>6. CASE WorkerLoop
  BY <1>6 DEF WorkerLoop, Queue!Register, Queue!Check, Queue!Decline
<1>7. CASE TakeTask
  <2>1. current' = Head(backlog) /\ backlog' = Tail(backlog) /\ backlog # <<>>
    BY <1>7 DEF TakeTask, Queue!Start
  <2>2. ASSUME NEW t \in Tasks
        PROVE  Sound(t)' <=> Sound(t)
    BY <1>7 DEF TakeTask, Sound
  <2>3. ASSUME NEW t \in Tasks, t = Head(backlog) \/ Queued(t)'
        PROVE  Queued(t)
    BY <2>1, <2>3, QueuedAfterTail DEF Queued
  <2>4. Head(backlog) \in Tasks
    BY <2>1, HeadTailType
  <2>5. Sound(Head(backlog))
    BY <2>3, <2>4 DEF TaskInv
  <2>6. Sound(current)'
    BY <1>7, <2>1, <2>5 DEF Sound, TakeTask
  <2>7. ASSUME NEW t \in Tasks, Queued(t)'
        PROVE  Sound(t)'
    BY <2>2, <2>3, <2>7 DEF TaskInv
  <2> HIDE DEF Sound, Queued
  <2> QED BY <2>6, <2>7 DEF TaskInv
<1>8. CASE AddFails
  BY <1>8 DEF AddFails, In, Req, Key, EndTask, Queue!Finish
<1>9. CASE CreateAccount
  BY <1>9 DEF CreateAccount, In, Req, Key, FreeIds
<1>10. CASE BindAgent
  BY <1>10 DEF BindAgent, In, Req, Key
<1>11. CASE InsertAccount
  BY <1>11 DEF InsertAccount, In, Req, Key, EndTask, Queue!Finish, Destroy
<1>12. CASE RemoveNothing
  BY <1>12 DEF RemoveNothing, In, Req, Key, EndTask, Queue!Finish
<1>13. CASE RemoveAccount
  BY <1>13 DEF RemoveAccount, In, Req, Key, EndTask, Queue!Finish, Destroy
<1>14. CASE NoAccountToCall
  BY <1>14 DEF NoAccountToCall, In, Req, Key, EndTask, Queue!Finish
<1>15. CASE CallWithoutAgent
  BY <1>15 DEF CallWithoutAgent, In, Req, Key
<1>16. CASE CallFails
  BY <1>16 DEF CallFails, In, Req, Key, EndTask, Queue!Finish, Destroy, Live
<1>17. CASE Dial
  BY <1>17 DEF Dial, In, Req, Key, Live
<1>18. CASE TrackCall
  BY <1>18 DEF TrackCall, In, Req, Key, EndTask, Queue!Finish, Destroy
<1>19. CASE HangupNothing
  BY <1>19 DEF HangupNothing, In, Req, Key, EndTask, Queue!Finish
<1>20. CASE Hangup
  BY <1>20 DEF Hangup, In, Req, Key, EndTask, Queue!Finish, Destroy
<1>21. CASE HangupAll
  BY <1>21 DEF HangupAll, Destroy
<1>22. CASE DestroyPjsip
  BY <1>22 DEF DestroyPjsip, Destroy
<1>23. CASE Shutdown
  BY <1>23 DEF Shutdown, Queue!BeginClose, Queue!Close
<1>24. ASSUME NEW a \in Requests, OnRegState(a)
      PROVE  TaskInv'
  BY <1>24 DEF OnRegState
<1>25. ASSUME NEW a \in Requests, OnIncomingCall(a)
      PROVE  TaskInv'
  BY <1>25 DEF OnIncomingCall
<1>26. ASSUME NEW c \in CallIds, RemoteHangup(c)
      PROVE  TaskInv'
  BY <1>26 DEF RemoteHangup
<1>27. ASSUME NEW a \in Requests, CallbackThrows(a)
      PROVE  TaskInv'
  BY <1>27 DEF CallbackThrows
<1>28. CASE UNCHANGED vars
  BY <1>28 DEF vars
<1> QED
  BY <1>1, <1>2, <1>3, <1>4, <1>5, <1>6, <1>7, <1>8, <1>9,
     <1>10, <1>11, <1>12, <1>13, <1>14, <1>15, <1>16, <1>17, <1>18,
     <1>19, <1>20, <1>21, <1>22, <1>23, <1>24, <1>25, <1>26, <1>27, <1>28
     DEF Next, HandlerStep, WorkerStep, TaskStep, PjsipStep, Halted

\* addAccount's task is submitted and taken once.
LEMMA FreshStep ==
  TypeOK /\ HandlerInv /\ TaskInv /\ FreshInv /\ StepInv /\ AccountInv
    /\ NoOrphanAccount /\ [Next]_vars => FreshInv'
<1> SUFFICES ASSUME TypeOK /\ HandlerInv /\ TaskInv /\ FreshInv /\ StepInv /\ AccountInv
    /\ NoOrphanAccount, [Next]_vars
             PROVE  FreshInv'
  OBVIOUS
<1> USE InputAssumption, NullAssumption, NoTaskAssumption, NoCallAssumption
<1> USE DEF TypeOK, Queue!ExecTypeOK, HandlerInv, TaskInv, Sound, FreshInv, Fresh, AddTask, Queued, StepInv, AccountInv, Tasks, queueVars, handlerVars, objectVars, pjsipVars, taskVars
<1>1. ASSUME NEW r \in Requests, Arrive(r)
      PROVE  FreshInv'
  BY <1>1 DEF Arrive, FirstOp
<1>2. ASSUME NEW r \in Requests, CheckRunning(r)
      PROVE  FreshInv'
  BY <1>2 DEF CheckRunning
<1>3. ASSUME NEW r \in Requests, Push(r)
      PROVE  FreshInv'
  <2> DEFINE new == [op |-> op[r], req |-> r]
  <2>1. CASE Queue!Accept(new)
    <3>1. backlog' = Append(backlog, new)
      BY <2>1 DEF Queue!Accept
    <3>2. new \in Tasks
      OBVIOUS
    <3>3. ASSUME NEW s \in Requests
          PROVE  Fresh(s)' <=> Fresh(s)
      BY <1>3 DEF Push, Fresh
    <3>4. ASSUME NEW s \in Requests, pc'[s] \in {"idle", "submit", "push"}
          PROVE  Fresh(s)'
      <4>1. pc[s] \in {"idle", "submit", "push"}
        BY <1>3, <3>4 DEF Push, AfterPush
      <4> QED BY <3>3, <4>1
    <3>5. ASSUME NEW s \in Requests, Queued(AddTask(s))'
          PROVE  Fresh(s)' /\ current' # AddTask(s)
      <4>1. AddTask(s) = new \/ Queued(AddTask(s))
        BY <3>1, <3>2, <3>5, QueuedAfterAppend DEF Queued, AddTask
      <4>2. CASE Queued(AddTask(s))
        BY <2>1, <3>3, <4>2 DEF Queue!Accept
      <4>3. CASE AddTask(s) = new
        <5>1. s = r /\ op[r] = "add"
          BY <4>3 DEF AddTask
        <5>2. current # AddTask(r)
          <6>1. ~Sound(AddTask(r))
            BY <1>3 DEF Push
          <6>2. AddTask(r) # NoTask
            BY DEF Ops
          <6> HIDE DEF Sound, AddTask
          <6> QED BY <6>1, <6>2 DEF TaskInv
        <5> QED BY <1>3, <2>1, <3>3, <5>1, <5>2 DEF Push, Queue!Accept
      <4> QED BY <4>1, <4>2, <4>3
    <3>6. ASSUME NEW s \in Requests, NEW i \in 1..Len(backlog'), NEW j \in 1..Len(backlog'),
                 backlog'[i] = AddTask(s), backlog'[j] = AddTask(s)
          PROVE  i = j
      <4>1. Len(backlog) \in Nat /\ Len(backlog') = Len(backlog) + 1
        BY <3>1, <3>2
      <4>2. \A k \in 1..Len(backlog) : backlog'[k] = backlog[k]
        BY <3>1, <3>2
      <4>3. backlog'[Len(backlog) + 1] = new
        BY <3>1, <3>2
      <4>4. CASE AddTask(s) = new
        <5>1. s = r /\ op[r] = "add"
          BY <4>4 DEF AddTask
        <5>2. ~Queued(AddTask(s))
          BY <1>3, <5>1 DEF Push, TaskInv, Sound, AddTask
        <5> HIDE DEF AddTask, TypeOK, TaskInv, FreshInv, Sound, Fresh, new
        <5> QED BY <3>6, <4>1, <4>2, <5>2 DEF Queued
      <4>5. CASE AddTask(s) # new
        <5>1. \A k, l \in 1..Len(backlog) :
                backlog[k] = AddTask(s) /\ backlog[l] = AddTask(s) => k = l
          OBVIOUS
        <5> HIDE DEF AddTask, TypeOK, TaskInv, FreshInv, Sound, Fresh, new
        <5> QED BY <3>6, <4>1, <4>2, <4>3, <4>5, <5>1
      <4> QED BY <4>4, <4>5
    <3>7. UNCHANGED <<current, step>>
      BY <1>3, <2>1 DEF Push, Queue!Accept
    <3> QED BY <3>3, <3>4, <3>5, <3>6, <3>7
  <2>2. CASE UNCHANGED queueVars
    BY <1>3, <2>2 DEF Push, AfterPush, Fresh, Queued
  <2> QED BY <1>3, <2>1, <2>2 DEF Push
<1>4. ASSUME NEW r \in Requests, Reply(r)
      PROVE  FreshInv'
  BY <1>4 DEF Reply
<1>5. ASSUME NEW r \in Requests, Timeout(r)
      PROVE  FreshInv'
  BY <1>5 DEF Timeout
<1>6. CASE WorkerLoop
  BY <1>6 DEF WorkerLoop, Queue!Register, Queue!Check, Queue!Decline
<1>7. CASE TakeTask
  <2>1. /\ current' = Head(backlog)
        /\ backlog' = Tail(backlog)
        /\ backlog # <<>>
        /\ UNCHANGED <<pc, sip, armed, promise>>
    BY <1>7 DEF TakeTask, Queue!Start
  <2>2. ASSUME NEW s \in Requests
        PROVE  Fresh(s)' <=> Fresh(s)
    BY <2>1 DEF Fresh
  <2>3. ASSUME NEW s \in Requests, Head(backlog) = AddTask(s)
        PROVE  Fresh(s) /\ ~Queued(AddTask(s))'
    <3>1. 1 \in 1..Len(backlog) /\ backlog[1] = AddTask(s)
      BY <2>1, <2>3
    <3>2. ASSUME NEW i \in 1..Len(Tail(backlog)), Tail(backlog)[i] = AddTask(s)
          PROVE  FALSE
      <4>1. i + 1 \in 1..Len(backlog) /\ backlog[i + 1] = AddTask(s) /\ i + 1 # 1
        BY <2>1, <3>2
      <4> QED BY <3>1, <4>1
    <3> QED BY <2>1, <3>1, <3>2 DEF Queued
  <2>4. ASSUME NEW s \in Requests, Queued(AddTask(s))'
        PROVE  Queued(AddTask(s))
    BY <2>1, <2>4, QueuedAfterTail DEF Queued, AddTask
  <2>5. ASSUME NEW s \in Requests, NEW i \in 1..Len(backlog'), NEW j \in 1..Len(backlog'),
               backlog'[i] = AddTask(s), backlog'[j] = AddTask(s)
        PROVE  i = j
    <3>1. /\ i + 1 \in 1..Len(backlog) /\ backlog[i + 1] = AddTask(s)
          /\ j + 1 \in 1..Len(backlog) /\ backlog[j + 1] = AddTask(s)
      BY <2>1, <2>5
    <3> QED BY <3>1
  <2> QED BY <2>1, <2>2, <2>3, <2>4, <2>5
<1>8. CASE AddFails
  BY <1>8 DEF AddFails, In, Req, Key, EndTask, Queue!Finish
<1>9. CASE CreateAccount
  BY <1>9 DEF CreateAccount, In, Req, Key, FreeIds
<1>10. CASE BindAgent
  BY <1>10 DEF BindAgent, In, Req, Key
<1>11. CASE InsertAccount
  BY <1>11 DEF InsertAccount, In, Req, Key, EndTask, Queue!Finish, Destroy
<1>12. CASE RemoveNothing
  BY <1>12 DEF RemoveNothing, In, Req, Key, EndTask, Queue!Finish
<1>13. CASE RemoveAccount
  BY <1>13 DEF RemoveAccount, In, Req, Key, EndTask, Queue!Finish, Destroy
<1>14. CASE NoAccountToCall
  BY <1>14 DEF NoAccountToCall, In, Req, Key, EndTask, Queue!Finish
<1>15. CASE CallWithoutAgent
  BY <1>15 DEF CallWithoutAgent, In, Req, Key
<1>16. CASE CallFails
  BY <1>16 DEF CallFails, In, Req, Key, EndTask, Queue!Finish, Destroy, Live
<1>17. CASE Dial
  BY <1>17 DEF Dial, In, Req, Key, Live
<1>18. CASE TrackCall
  BY <1>18 DEF TrackCall, In, Req, Key, EndTask, Queue!Finish, Destroy
<1>19. CASE HangupNothing
  BY <1>19 DEF HangupNothing, In, Req, Key, EndTask, Queue!Finish
<1>20. CASE Hangup
  BY <1>20 DEF Hangup, In, Req, Key, EndTask, Queue!Finish, Destroy
<1>21. CASE HangupAll
  BY <1>21 DEF HangupAll, Destroy
<1>22. CASE DestroyPjsip
  BY <1>22 DEF DestroyPjsip, Destroy
<1>23. CASE Shutdown
  BY <1>23 DEF Shutdown, Queue!BeginClose, Queue!Close
<1>24. ASSUME NEW a \in Requests, OnRegState(a)
      PROVE  FreshInv'
  BY <1>24 DEF OnRegState
<1>25. ASSUME NEW a \in Requests, OnIncomingCall(a)
      PROVE  FreshInv'
  BY <1>25 DEF OnIncomingCall
<1>26. ASSUME NEW c \in CallIds, RemoteHangup(c)
      PROVE  FreshInv'
  BY <1>26 DEF RemoteHangup
<1>27. ASSUME NEW a \in Requests, CallbackThrows(a)
      PROVE  FreshInv'
  BY <1>27 DEF CallbackThrows
<1>28. CASE UNCHANGED vars
  BY <1>28 DEF vars
<1> QED
  BY <1>1, <1>2, <1>3, <1>4, <1>5, <1>6, <1>7, <1>8, <1>9,
     <1>10, <1>11, <1>12, <1>13, <1>14, <1>15, <1>16, <1>17, <1>18,
     <1>19, <1>20, <1>21, <1>22, <1>23, <1>24, <1>25, <1>26, <1>27, <1>28
     DEF Next, HandlerStep, WorkerStep, TaskStep, PjsipStep, Halted

\* The inductive invariant is inductive.
LEMMA NextIInv == IInv /\ [Next]_vars => IInv'
BY TypeStep, HandlerStepInv, TaskStepInv, FreshStep, StepStep, AccountStep,
   OrphanStep, PromiseStep, AgentStep, DialStep, TrackedStep, ReleaseStep
   DEF IInv

\* Two accounts of one id: one of them would be neither in the map nor under way.
LEMMA NoOrphanNoDouble ==
  AccountInv /\ NoOrphanAccount /\ TypeOK => OneRegistrationPerId
<1> SUFFICES ASSUME AccountInv, NoOrphanAccount, TypeOK,
                    NEW r \in Live, NEW s \in Live, input[r].key = input[s].key
             PROVE  r = s
  BY DEF OneRegistrationPerId
<1> USE NullAssumption DEF Live
<1>1. CASE accounts[input[r].key] = r /\ accounts[input[s].key] = s
  BY <1>1
<1>2. CASE BeingAdded(r) /\ BeingAdded(s)
  BY <1>2 DEF BeingAdded
<1>3. CASE BeingAdded(r) /\ accounts[input[s].key] = s
  BY <1>3 DEF AccountInv
<1>4. CASE accounts[input[r].key] = r /\ BeingAdded(s)
  BY <1>4 DEF AccountInv
<1> QED
  BY <1>1, <1>2, <1>3, <1>4 DEF NoOrphanAccount

-----------------------------------------------------------------------------
\* The inductive invariant holds in every reachable state of the service.
THEOREM InductiveInvariant == Spec => []IInv
BY InitIInv, NextIInv, PTL DEF Spec

\* Every variable of handlers, worker, objects and PJSIP keeps its type.
THEOREM TypeCorrect == Spec => []TypeOK
<1>1. IInv => TypeOK
  BY DEF IInv
<1> QED BY <1>1, InductiveInvariant, PTL

\* Manager::addAccount, removeAccount and shutdownPjsip never lose an account
\* that PJSIP still has, however the requests and callbacks interleave.
THEOREM AccountsAreNeverOrphaned == Spec => []NoOrphanAccount
<1>1. IInv => NoOrphanAccount
  BY DEF IInv
<1> QED BY <1>1, InductiveInvariant, PTL

\* PJSIP never holds two accounts of one id at a time.
THEOREM AccountsAreNeverDoubled == Spec => []OneRegistrationPerId
<1>1. IInv => OneRegistrationPerId
  BY NoOrphanNoDouble DEF IInv
<1> QED BY <1>1, InductiveInvariant, PTL

\* No registration report and no error path sets the promise of addAccount a
\* second time.
THEOREM PromiseIsSetOnce == Spec => []PromiseSetOnce
<1>1. IInv => PromiseSetOnce
  BY DEF IInv, PromiseInv
<1> QED BY <1>1, InductiveInvariant, PTL

\* Whatever calls come in and requests interleave, an account that can be
\* found has the agent its request named, and every standing call has one.
THEOREM CallsMeetTheirAgent == Spec => []AgentBeforeCalls
<1>1. IInv => AgentBeforeCalls
  BY DEF IInv, AgentInv
<1> QED BY <1>1, InductiveInvariant, PTL

\* Every dialled call that stands is in m_activeCalls under its id, or about
\* to be, until the shutdown, also when its id has been used before: then it
\* is hung up with the object it replaces, and does not stand (makeCall).
THEOREM DialledCallsAreTracked == Spec => []OutgoingCallsTracked
<1>1. IInv => OutgoingCallsTracked
  BY DEF IInv
<1> QED BY <1>1, InductiveInvariant, PTL

\* Nothing is registered, called or kept after shutdownPjsip.
THEOREM ShutdownIsFinal == Spec => []ReleasedForGood
<1>1. IInv => ReleasedForGood
  BY DEF IInv, ReleaseInv
<1> QED BY <1>1, InductiveInvariant, PTL

-----------------------------------------------------------------------------
(* The queue is used as FifoExecutor promises it to be.                    *)

\* A step of a handler, the worker, PJSIP or a shutdown is one of the executor's
\* or leaves the queue alone.
LEMMA ExecutorStep ==
  ASSUME TypeOK, [Next]_vars
  PROVE  [Queue!ExecNext]_queueVars
<1>1. ASSUME NEW r \in Requests, Arrive(r)
      PROVE  UNCHANGED queueVars
  BY <1>1 DEF Arrive, queueVars
<1>2. ASSUME NEW r \in Requests, HandlerStep(r)
      PROVE  (\E t \in Tasks : Queue!Accept(t)) \/ UNCHANGED queueVars
  <2>1. CASE Push(r)
    <3>1. [op |-> op[r], req |-> r] \in Tasks
      BY DEF TypeOK, Tasks
    <3> QED BY <2>1, <3>1 DEF Push
  <2>2. CASE CheckRunning(r) \/ Reply(r) \/ Timeout(r)
    BY <2>2 DEF CheckRunning, Reply, Timeout, queueVars
  <2> QED BY <1>2, <2>1, <2>2 DEF HandlerStep
<1>3. ASSUME WorkerLoop \/ TakeTask
      PROVE  Queue!WorkerStep
  BY <1>3 DEF WorkerLoop, TakeTask, Queue!WorkerStep
<1>4. ASSUME TaskStep
      PROVE  Queue!Finish \/ UNCHANGED queueVars
  BY <1>4 DEF TaskStep, AddFails, CreateAccount, BindAgent, InsertAccount, RemoveNothing,
              RemoveAccount, NoAccountToCall, CallWithoutAgent, CallFails, Dial, TrackCall,
              HangupNothing, Hangup, EndTask, queueVars
<1>5. ASSUME HangupAll \/ DestroyPjsip \/ PjsipStep \/ Halted \/ UNCHANGED vars
      PROVE  UNCHANGED queueVars
  BY <1>5 DEF HangupAll, DestroyPjsip, PjsipStep, OnRegState, OnIncomingCall, CallbackThrows, RemoteHangup,
              Halted, vars, queueVars
<1>6. ASSUME Shutdown
      PROVE  Queue!BeginClose \/ Queue!Close
  BY <1>6 DEF Shutdown
<1> QED BY <1>1, <1>2, <1>3, <1>4, <1>5, <1>6
        DEF Next, WorkerStep, Queue!ExecNext, Queue!WorkerStep

\* The account service does to its queue and its worker only what FifoExecutor
\* allows, which is what TaskQueue implements: what is proved here holds of the
\* service above the real queue (enqueueTask, workerThreadMain, shutdown).
THEOREM ExecutorIsRespected ==
  Spec => Queue!ExecInit /\ [][Queue!ExecNext]_queueVars
<1>1. Init => Queue!ExecInit
  BY DEF Init
<1> QED BY <1>1, ExecutorStep, TypeCorrect, PTL DEF Spec
=============================================================================
