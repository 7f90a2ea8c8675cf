----------------------------- MODULE SipManager -----------------------------
(***************************************************************************)
(* The account and call service: the HTTP handlers of /accounts and /calls *)
(* (server.cpp), Manager (manager.cpp), Account and Call, and PJSIP.       *)
(*                                                                         *)
(* A handler submits one or two tasks and answers; the worker runs the     *)
(* tasks through the queue (FifoExecutor, which TaskQueue implements); the *)
(* threads of PJSIP call back between any two steps.  Only the worker ever *)
(* locks m_accountsMutex and m_callsMutex, so neither is ever waited for   *)
(* and they are not modelled.                                              *)
(*                                                                         *)
(* An Account object is named by the request that creates it, an outgoing  *)
(* Call object by the request that makes it.                               *)
(***************************************************************************)
EXTENDS Naturals, Sequences

CONSTANTS Requests,     \* the HTTP requests, one handler thread each
          AccountIds,   \* keys of m_accounts
          CallIds,      \* PJSIP's call ids, which it reuses
          SipIds,       \* PJSIP's account ids, which it reuses too
          Inputs,       \* what a request may ask for
          PjErrors,     \* the library calls that may throw pj::Error
          NoReq,        \* no request: an empty pointer, an absent key
          NoTask, NoInput, NoCall, NoSipId

\* A "badput" is a PUT whose body lacks one of the fields that addAccount needs.
Kinds == {"post", "put", "badput", "delete", "make", "hangup"}

\* key is an account id, or a call id for a hangup; agent tells whether the
\* request names an agent the AgentManager knows.
AllInputs == [kind : Kinds, key : AccountIds \cup CallIds, agent : BOOLEAN]

ASSUME InputAssumption ==
  /\ Inputs \subseteq AllInputs
  /\ \A i \in Inputs :
       i.key \in IF i.kind = "hangup" THEN CallIds ELSE AccountIds
ASSUME ErrorAssumption == PjErrors \subseteq {"create", "shutdown", "call", "hangup", "callback"}
ASSUME NullAssumption ==
  /\ NoReq \notin Requests
  /\ NoInput \notin AllInputs
  /\ NoSipId \notin SipIds

Ops == {"add", "remove", "make", "hangup"}
Tasks == [op : Ops, req : Requests]

ASSUME NoTaskAssumption == NoTask \notin Tasks

\* A call: the account object it belongs to, the request that dialled it
\* (NoReq: it came in).
Calls == [acc : Requests, by : Requests \cup {NoReq}]

ASSUME NoCallAssumption == NoCall \notin Calls \cup CallIds

VARIABLES
  backlog, current, phase, worker,  \* the queue and its worker thread
  pc,           \* where each handler stands
  input,        \* what each request asks for
  op,           \* the task a handler is submitting
  answer,       \* the HTTP answer of each request
  promise,      \* the registration promise of addAccount, per request
  step,         \* how far the worker is inside the current task
  dialing,      \* the call id of the call the worker has just made
  accounts,     \* m_accounts
  activeCalls,  \* m_activeCalls
  bound,        \* account objects whose m_agent is set
  armed,        \* account objects that hold a registration callback
  through,      \* the account object a Call object copied
  sip,          \* external: the PJSIP account of each account object
  slot,         \* external: the id under which it was created
  lines,        \* external: the call PJSIP has under each call id
  released,     \* libDestroy has returned
  fault         \* what ended the process, or "none"

queueVars == <<backlog, current, phase, worker>>
handlerVars == <<pc, input, op, answer>>
objectVars == <<accounts, activeCalls, bound, armed, through>>
pjsipVars == <<sip, slot, lines, released, fault>>
taskVars == <<step, dialing>>
vars == <<queueVars, handlerVars, promise, taskVars, objectVars, pjsipVars>>

Queue == INSTANCE FifoExecutor

HandlerStates == {"idle", "submit", "push", "wait", "done"}
Answers == {"none", "200", "201", "202", "204", "sip", "408", "500"}
Promises == {"unset", "ok", "failed", "error"}
Steps == {"none", "begin", "created", "bound", "dialed"}
SipStates == {"none", "live", "gone"}

TypeOK ==
  /\ Queue!ExecTypeOK
  /\ pc \in [Requests -> HandlerStates]
  /\ input \in [Requests -> Inputs \cup {NoInput}]
  /\ op \in [Requests -> Ops]
  /\ answer \in [Requests -> Answers]
  /\ promise \in [Requests -> Promises]
  /\ step \in Steps
  /\ step = "none" <=> current = NoTask
  /\ dialing \in CallIds \cup {NoCall}
  /\ accounts \in [AccountIds -> Requests \cup {NoReq}]
  /\ activeCalls \in [CallIds -> Requests \cup {NoReq}]
  /\ bound \in [Requests -> BOOLEAN]
  /\ armed \in [Requests -> BOOLEAN]
  /\ through \in [Requests -> Requests \cup {NoReq}]
  /\ sip \in [Requests -> SipStates]
  /\ slot \in [Requests -> SipIds \cup {NoSipId}]
  /\ lines \in [CallIds -> Calls \cup {NoCall}]
  /\ released \in BOOLEAN
  /\ fault \in {"none", "null_agent", "promise_twice", "callback_throws"}

Init ==
  /\ Queue!ExecInit
  /\ pc = [r \in Requests |-> "idle"]
  /\ input = [r \in Requests |-> NoInput]
  /\ op = [r \in Requests |-> "add"]
  /\ answer = [r \in Requests |-> "none"]
  /\ promise = [r \in Requests |-> "unset"]
  /\ step = "none"
  /\ dialing = NoCall
  /\ accounts = [i \in AccountIds |-> NoReq]
  /\ activeCalls = [c \in CallIds |-> NoReq]
  /\ bound = [r \in Requests |-> FALSE]
  /\ armed = [r \in Requests |-> FALSE]
  /\ through = [r \in Requests |-> NoReq]
  /\ sip = [r \in Requests |-> "none"]
  /\ slot = [r \in Requests |-> NoSipId]
  /\ lines = [c \in CallIds |-> NoCall]
  /\ released = FALSE
  /\ fault = "none"

\* The process is alive. A null dereference or an exception that leaves a
\* callback ends it (main.cpp's signal and terminate handlers).
Up == fault = "none"

-----------------------------------------------------------------------------
(* HTTP handlers.                                                          *)

FirstOp(kind) ==
  CASE kind = "post" -> "add"
    [] kind \in {"put", "badput", "delete"} -> "remove"
    [] kind = "make" -> "make"
    [] kind = "hangup" -> "hangup"

\* Requests that are malformed in any other way are answered 400 or 500 by the
\* handler itself, and change nothing.
Arrive(r) ==
  /\ Up
  /\ pc[r] = "idle"
  /\ \E i \in Inputs :
       /\ input' = [input EXCEPT ![r] = i]
       /\ op' = [op EXCEPT ![r] = FirstOp(i.kind)]
  /\ pc' = [pc EXCEPT ![r] = "submit"]
  /\ UNCHANGED <<answer, queueVars, promise, taskVars, objectVars, pjsipVars>>

\* enqueueTask throws when m_running is false, and the handler answers 500.
CheckRunning(r) ==
  /\ Up
  /\ pc[r] = "submit"
  /\ IF phase = "open"
       THEN pc' = [pc EXCEPT ![r] = "push"] /\ UNCHANGED answer
       ELSE pc' = [pc EXCEPT ![r] = "done"] /\ answer' = [answer EXCEPT ![r] = "500"]
  /\ UNCHANGED <<input, op, queueVars, promise, taskVars, objectVars, pjsipVars>>

\* What follows a submission: a PUT submits its second task, or throws on the
\* field it lacks; an addAccount waits for the promise; every other handler
\* answers at once.
AfterPush(r) ==
  LET kind == input[r].kind
  IN  IF op[r] = "add"
        THEN pc' = [pc EXCEPT ![r] = "wait"] /\ UNCHANGED <<op, answer>>
        ELSE IF kind = "put"
          THEN /\ op' = [op EXCEPT ![r] = "add"]
               /\ pc' = [pc EXCEPT ![r] = "submit"]
               /\ UNCHANGED answer
          ELSE /\ answer' = [answer EXCEPT ![r] =
                    CASE kind = "delete" -> "204"
                      [] kind = "make" -> "202"
                      [] kind = "hangup" -> "200"
                      [] kind = "badput" -> "500"]
               /\ pc' = [pc EXCEPT ![r] = "done"]
               /\ UNCHANGED op

\* A queue stopped since CheckRunning drops the task without a word.
Push(r) ==
  /\ Up
  /\ pc[r] = "push"
  /\ \/ Queue!Accept([op |-> op[r], req |-> r])
     \/ phase = "closed" /\ UNCHANGED queueVars
  /\ AfterPush(r)
  /\ UNCHANGED <<input, promise, taskVars, objectVars, pjsipVars>>

\* The PUT handler ignores what addAccount returns.
Reply(r) ==
  /\ Up
  /\ pc[r] = "wait"
  /\ promise[r] # "unset"
  /\ answer' = [answer EXCEPT ![r] =
       CASE input[r].kind = "put" -> "200"
         [] input[r].kind = "post" /\ promise[r] = "ok" -> "201"
         [] input[r].kind = "post" /\ promise[r] = "failed" -> "sip"
         [] input[r].kind = "post" /\ promise[r] = "error" -> "500"]
  /\ pc' = [pc EXCEPT ![r] = "done"]
  /\ UNCHANGED <<input, op, queueVars, promise, taskVars, objectVars, pjsipVars>>

\* Mutant: get() without wait_for.
NeverTimeout(r) == FALSE /\ UNCHANGED vars

\* wait_for gives up after 20 s; the task stays where it is.
Timeout(r) ==
  /\ Up
  /\ pc[r] = "wait"
  /\ promise[r] = "unset"
  /\ answer' = [answer EXCEPT ![r] = IF input[r].kind = "put" THEN "200" ELSE "408"]
  /\ pc' = [pc EXCEPT ![r] = "done"]
  /\ UNCHANGED <<input, op, queueVars, promise, taskVars, objectVars, pjsipVars>>

-----------------------------------------------------------------------------
(* The worker thread, outside its tasks.                                   *)

TakeTask ==
  /\ Up
  /\ Queue!Start
  /\ step' = "begin"
  /\ UNCHANGED <<dialing, handlerVars, promise, objectVars, pjsipVars>>

WorkerLoop ==
  /\ Up
  /\ Queue!Register \/ Queue!Check \/ Queue!Decline
  /\ UNCHANGED <<handlerVars, promise, taskVars, objectVars, pjsipVars>>

\* Mutant: the worker goes on with the task it has finished.
EndTaskInPlace ==
  /\ Queue!Finish
  /\ dialing' = NoCall
  /\ UNCHANGED step

\* The task is over, normally or by an exception that the loop catches.
EndTask ==
  /\ Queue!Finish
  /\ step' = "none"
  /\ dialing' = NoCall

\* The worker is at the given point of a task of the given kind.
In(o, s) == Up /\ current # NoTask /\ current.op = o /\ step = s
Req == current.req
Key == input[Req].key

Live == {a \in Requests : sip[a] = "live"}

\* External: destroying an Account object removes the PJSIP account that has
\* its id, and so does destroying a copy of it: every Call object holds one by
\* value. When the id has been reused that is the account of another object.
Destroy(objects) ==
  sip' = [a \in Requests |->
            IF sip[a] = "live" /\ \E o \in objects : slot[o] = slot[a] THEN "gone" ELSE sip[a]]

-----------------------------------------------------------------------------
(* addAccount's task.                                                      *)

\* External: the ids no account has.
FreeIds == {s \in SipIds : \A a \in Live : slot[a] # s}

\* An existing id throws std::invalid_argument; create() may throw pj::Error,
\* and does when the library can hold no more accounts.
AddFails ==
  /\ In("add", "begin")
  /\ accounts[Key] # NoReq \/ "create" \in PjErrors \/ FreeIds = {}
  /\ promise' = [promise EXCEPT ![Req] = "error"]
  /\ EndTask
  /\ UNCHANGED <<handlerVars, objectVars, pjsipVars>>

\* Mutant: the test for an existing account is missing.
CreateAnyAccount ==
  /\ In("add", "begin")
  /\ armed' = [armed EXCEPT ![Req] = TRUE]
  /\ sip' = [sip EXCEPT ![Req] = "live"]
  /\ \E s \in FreeIds : slot' = [slot EXCEPT ![Req] = s]
  /\ step' = "created"
  /\ UNCHANGED <<queueVars, handlerVars, promise, dialing, accounts, activeCalls,
                 bound, through, lines, released, fault>>

\* The object is given its callback, then create() adds the PJSIP account and
\* sends REGISTER: from here on PJSIP may call the object back.
CreateAccount ==
  /\ In("add", "begin")
  /\ accounts[Key] = NoReq
  /\ armed' = [armed EXCEPT ![Req] = TRUE]
  /\ sip' = [sip EXCEPT ![Req] = "live"]
  /\ \E s \in FreeIds : slot' = [slot EXCEPT ![Req] = s]
  /\ step' = "created"
  /\ UNCHANGED <<queueVars, handlerVars, promise, dialing, accounts, activeCalls,
                 bound, through, lines, released, fault>>

\* setAgent, when an agent is named; an unknown one leaves the pointer empty.
BindAgent ==
  /\ In("add", "created")
  /\ bound' = [bound EXCEPT ![Req] = input[Req].agent]
  /\ step' = "bound"
  /\ UNCHANGED <<queueVars, handlerVars, promise, dialing, accounts, activeCalls,
                 armed, through, pjsipVars>>

\* Mutant: the account is inserted before its agent is bound.
InsertUnbound ==
  /\ In("add", "created")
  /\ accounts' = [accounts EXCEPT ![Key] = Req]
  /\ EndTask
  /\ UNCHANGED <<handlerVars, promise, activeCalls, bound, armed, through,
                 sip, slot, lines, released, fault>>

\* An object that is replaced is destroyed, and its PJSIP account with it.
InsertAccount ==
  /\ In("add", "bound")
  /\ accounts' = [accounts EXCEPT ![Key] = Req]
  /\ Destroy({accounts[Key]} \ {NoReq})
  /\ EndTask
  /\ UNCHANGED <<handlerVars, promise, activeCalls, bound, armed, through,
                 slot, lines, released, fault>>

-----------------------------------------------------------------------------
(* removeAccount's task.                                                   *)

\* Unknown ids are ignored, and so is an error of shutdown(), after which the
\* entry is still there.
RemoveNothing ==
  /\ In("remove", "begin")
  /\ accounts[Key] = NoReq \/ "shutdown" \in PjErrors
  /\ EndTask
  /\ UNCHANGED <<handlerVars, promise, objectVars, pjsipVars>>

\* Mutant: the entry is erased while the PJSIP account stays.
ForgetAccount ==
  /\ In("remove", "begin")
  /\ accounts[Key] # NoReq
  /\ accounts' = [accounts EXCEPT ![Key] = NoReq]
  /\ EndTask
  /\ UNCHANGED <<handlerVars, promise, activeCalls, bound, armed, through,
                 sip, slot, lines, released, fault>>

\* The callback goes with the object: its promise is never set any more.
RemoveAccount ==
  /\ In("remove", "begin")
  /\ accounts[Key] # NoReq
  /\ Destroy({accounts[Key]})
  /\ armed' = [armed EXCEPT ![accounts[Key]] = FALSE]
  /\ accounts' = [accounts EXCEPT ![Key] = NoReq]
  /\ EndTask
  /\ UNCHANGED <<handlerVars, promise, activeCalls, bound, through, slot, lines,
                 released, fault>>

-----------------------------------------------------------------------------
(* makeCall's task.                                                        *)

\* "Account not found" is logged by the loop; the handler has said 202.
NoAccountToCall ==
  /\ In("make", "begin")
  /\ accounts[Key] = NoReq
  /\ EndTask
  /\ UNCHANGED <<handlerVars, promise, objectVars, pjsipVars>>

\* The constructor of Call dereferences getAgent() unchecked.
CallWithoutAgent ==
  /\ In("make", "begin")
  /\ accounts[Key] # NoReq /\ ~bound[accounts[Key]]
  /\ fault' = "null_agent"
  /\ UNCHANGED <<queueVars, handlerVars, promise, taskVars, objectVars, sip, slot,
                 lines, released>>

\* The ids the library has an account for.
Registered == {slot[a] : a \in Live}

\* The library refuses, or the constructor fails at the media port: the Call
\* object is destroyed with its Account copy.
CallFails ==
  /\ In("make", "begin")
  /\ accounts[Key] # NoReq /\ bound[accounts[Key]]
  /\ \/ "call" \in PjErrors
     \/ slot[accounts[Key]] \notin Registered
     \/ \A c \in CallIds : lines[c] # NoCall
  /\ Destroy({accounts[Key]})
  /\ EndTask
  /\ UNCHANGED <<handlerVars, promise, objectVars, slot, lines, released, fault>>

Dial ==
  /\ In("make", "begin")
  /\ accounts[Key] # NoReq /\ bound[accounts[Key]]
  /\ slot[accounts[Key]] \in Registered
  /\ \E c \in CallIds :
       /\ lines[c] = NoCall
       /\ lines' = [lines EXCEPT ![c] = [acc |-> accounts[Key], by |-> Req]]
       /\ dialing' = c
  /\ through' = [through EXCEPT ![Req] = accounts[Key]]
  /\ step' = "dialed"
  /\ UNCHANGED <<queueVars, handlerVars, promise, accounts, activeCalls, bound,
                 armed, sip, slot, released, fault>>

\* Mutant: the object is stored before it dials, under the id it has by then.
TrackUndialed ==
  /\ In("make", "dialed")
  /\ EndTask
  /\ UNCHANGED <<handlerVars, promise, objectVars, pjsipVars>>

\* A Call object left under a reused id is replaced, hence destroyed: with its
\* Account copy, and it hangs up whatever call has its id, the one just dialled.
TrackCall ==
  /\ In("make", "dialed")
  /\ activeCalls' = [activeCalls EXCEPT ![dialing] = Req]
  /\ lines' = [lines EXCEPT ![dialing] = IF activeCalls[dialing] = NoReq THEN @ ELSE NoCall]
  /\ Destroy({through[r] : r \in {activeCalls[dialing]} \ {NoReq}})
  /\ EndTask
  /\ UNCHANGED <<handlerVars, promise, accounts, bound, armed, through, slot,
                 released, fault>>

-----------------------------------------------------------------------------
(* hangupCall's task.                                                      *)

\* Unknown call ids are ignored; hangup() of a call that is gone (or one the
\* library refuses) throws before the entry is erased.
HangupNothing ==
  /\ In("hangup", "begin")
  /\ \/ activeCalls[Key] = NoReq
     \/ lines[Key] = NoCall
     \/ "hangup" \in PjErrors
  /\ EndTask
  /\ UNCHANGED <<handlerVars, promise, objectVars, pjsipVars>>

\* hangup() goes by the call id, then the Call object is destroyed.
Hangup ==
  /\ In("hangup", "begin")
  /\ activeCalls[Key] # NoReq
  /\ lines[Key] # NoCall
  /\ lines' = [lines EXCEPT ![Key] = NoCall]
  /\ Destroy({through[activeCalls[Key]]})
  /\ activeCalls' = [activeCalls EXCEPT ![Key] = NoReq]
  /\ EndTask
  /\ UNCHANGED <<handlerVars, promise, accounts, bound, armed, through, slot,
                 released, fault>>

-----------------------------------------------------------------------------
(* shutdown() and shutdownPjsip().                                         *)

Shutdown ==
  /\ Up
  /\ Queue!BeginClose \/ Queue!Close
  /\ UNCHANGED <<handlerVars, promise, taskVars, objectVars, pjsipVars>>

\* Every tracked call is hung up, whatever hangup() throws, and destroyed.
HangupAll ==
  /\ Up
  /\ worker = "retired"
  /\ ~released
  /\ \E stuck \in SUBSET (IF "hangup" \in PjErrors THEN CallIds ELSE {}) :
       lines' = [c \in CallIds |->
                   IF activeCalls[c] # NoReq /\ c \notin stuck THEN NoCall ELSE lines[c]]
  /\ Destroy({through[activeCalls[c]] :
                      c \in {d \in CallIds : activeCalls[d] # NoReq}})
  /\ activeCalls' = [c \in CallIds |-> NoReq]
  /\ UNCHANGED <<queueVars, handlerVars, promise, taskVars, accounts, bound,
                 armed, through, slot, released, fault>>

\* Mutant: libDestroy is not called.
DestroyAccounts ==
  /\ Up
  /\ worker = "retired"
  /\ ~released
  /\ activeCalls = [c \in CallIds |-> NoReq]
  /\ Destroy({accounts[i] : i \in AccountIds} \ {NoReq})
  /\ armed' = [a \in Requests |-> armed[a] /\ \A i \in AccountIds : accounts[i] # a]
  /\ accounts' = [i \in AccountIds |-> NoReq]
  /\ released' = TRUE
  /\ UNCHANGED <<queueVars, handlerVars, promise, taskVars, activeCalls, bound,
                 through, slot, lines, fault>>

\* The accounts are destroyed, then the library with every call it still has.
DestroyPjsip ==
  /\ Up
  /\ worker = "retired"
  /\ ~released
  /\ activeCalls = [c \in CallIds |-> NoReq]
  /\ Destroy({accounts[i] : i \in AccountIds} \ {NoReq})
  /\ armed' = [a \in Requests |-> armed[a] /\ \A i \in AccountIds : accounts[i] # a]
  /\ accounts' = [i \in AccountIds |-> NoReq]
  /\ lines' = [c \in CallIds |-> NoCall]
  /\ released' = TRUE
  /\ UNCHANGED <<queueVars, handlerVars, promise, taskVars, activeCalls, bound,
                 through, slot, fault>>

-----------------------------------------------------------------------------
(* Threads of PJSIP (external), and the callbacks they run.                *)

\* Mutant: the callback stays in place after its first call.
OnRegStateAgain(a) ==
  /\ Up
  /\ sip[a] = "live"
  /\ armed[a]
  /\ IF promise[a] = "unset"
       THEN /\ \E result \in {"ok", "failed"} : promise' = [promise EXCEPT ![a] = result]
            /\ UNCHANGED fault
       ELSE /\ fault' = "promise_twice"
            /\ UNCHANGED promise
  /\ UNCHANGED <<queueVars, handlerVars, taskVars, objectVars, sip, slot, lines, released>>

\* Each registration and re-registration (every 20 s) reports its outcome; the
\* first report takes the callback away and sets the promise.
OnRegState(a) ==
  /\ Up
  /\ sip[a] = "live"
  /\ armed[a]
  /\ armed' = [armed EXCEPT ![a] = FALSE]
  /\ IF promise[a] = "unset"
       THEN /\ \E result \in {"ok", "failed"} : promise' = [promise EXCEPT ![a] = result]
            /\ UNCHANGED fault
       ELSE /\ fault' = "promise_twice"
            /\ UNCHANGED promise
  /\ UNCHANGED <<queueVars, handlerVars, taskVars, accounts, activeCalls, bound,
                 through, sip, slot, lines, released>>

\* The Call object of an incoming call is created and answered, and no map
\* ever holds it. Its constructor needs the agent too.
OnIncomingCall(a) ==
  /\ Up
  /\ sip[a] = "live"
  /\ \E c \in CallIds :
       /\ lines[c] = NoCall
       /\ IF bound[a]
            THEN lines' = [lines EXCEPT ![c] = [acc |-> a, by |-> NoReq]] /\ UNCHANGED fault
            ELSE fault' = "null_agent" /\ UNCHANGED lines
  /\ UNCHANGED <<queueVars, handlerVars, promise, taskVars, objectVars, sip, slot, released>>

\* A callback asks the library for more (getInfo, answer, createPort), and
\* nothing catches the pj::Error it may throw.
CallbackThrows(a) ==
  /\ Up
  /\ "callback" \in PjErrors
  /\ sip[a] = "live"
  /\ fault' = "callback_throws"
  /\ UNCHANGED <<queueVars, handlerVars, promise, taskVars, objectVars, sip, slot,
                 lines, released>>

\* The other side ends a call: onCallState only logs it, the Call object stays.
RemoteHangup(c) ==
  /\ Up
  /\ lines[c] # NoCall
  /\ lines' = [lines EXCEPT ![c] = NoCall]
  /\ UNCHANGED <<queueVars, handlerVars, promise, taskVars, objectVars, sip, slot,
                 released, fault>>

-----------------------------------------------------------------------------
HandlerStep(r) == CheckRunning(r) \/ Push(r) \/ Reply(r) \/ Timeout(r)

TaskStep ==
  \/ AddFails \/ CreateAccount \/ BindAgent \/ InsertAccount
  \/ RemoveNothing \/ RemoveAccount
  \/ NoAccountToCall \/ CallWithoutAgent \/ CallFails \/ Dial \/ TrackCall
  \/ HangupNothing \/ Hangup

WorkerStep == WorkerLoop \/ TakeTask \/ TaskStep \/ HangupAll \/ DestroyPjsip

PjsipStep ==
  \/ \E a \in Requests : OnRegState(a) \/ OnIncomingCall(a) \/ CallbackThrows(a)
  \/ \E c \in CallIds : RemoteHangup(c)

\* The process is dead, or nothing is left to do.
Halted ==
  /\ \/ ~Up
     \/ phase = "closed" /\ \A r \in Requests : pc[r] = "done"
  /\ UNCHANGED vars

Next ==
  \/ \E r \in Requests : Arrive(r) \/ HandlerStep(r)
  \/ WorkerStep
  \/ Shutdown
  \/ PjsipStep
  \/ Halted

\* The worker and the handlers are scheduled, wait_for gives up in the end, and
\* a shutdown that began goes on. Nothing is assumed of clients, PJSIP or the
\* other side of a call: they may never act.
Fairness ==
  /\ \A r \in Requests : WF_vars(HandlerStep(r))
  /\ WF_vars(WorkerStep)
  /\ WF_vars(phase = "closing" /\ Shutdown)

Spec == Init /\ [][Next]_vars /\ Fairness

-----------------------------------------------------------------------------
(* Properties.                                                             *)

\* The worker is adding the account of request r and has not inserted it yet.
BeingAdded(r) == current = [op |-> "add", req |-> r] /\ step \in {"created", "bound"}

\* A registered account can always be found again: it is in m_accounts under
\* its id, or the worker is about to put it there. So a client that was told
\* 201 (the promise is set before the insertion) or 408 (the account may be
\* added later) can still use or delete it, unless Manager was shut down.
NoOrphanAccount ==
  \A r \in Live : accounts[input[r].key] = r \/ BeingAdded(r)

\* However POSTs, PUTs and DELETEs of one id interleave, PJSIP never holds two
\* accounts for it: create() of the second comes after the end of the first.
OneRegistrationPerId ==
  \A r, s \in Live : input[r].key = input[s].key => r = s

\* Every call that was dialled and still stands is under its id in
\* m_activeCalls, or about to be, until shutdownPjsip clears the map: a hangup
\* and a shutdown can reach it, and no call stands whose object is destroyed.
\* (One that got the id of a stale entry does not stand for long: the entry's
\* object hangs it up when it is replaced.)
OutgoingCallsTracked ==
  worker # "retired" => \A c \in CallIds :
    lines[c] # NoCall /\ lines[c].by # NoReq =>
      activeCalls[c] = lines[c].by \/ (dialing = c /\ Req = lines[c].by)

\* The promise of addAccount is set at most once, though PJSIP reports every
\* re-registration and addAccount's own error paths set it too: a second
\* set_value would throw out of a PJSIP callback.
PromiseSetOnce == fault # "promise_twice"

\* An account whose request named a known agent has it by the time it can be
\* found: only a call that comes in while the account is being added, or one
\* of an account without agent, ever meets an empty agent pointer.
AgentBeforeCalls ==
  /\ \A i \in AccountIds :
       accounts[i] # NoReq => bound[accounts[i]] = input[accounts[i]].agent
  /\ \A c \in CallIds : lines[c] # NoCall => bound[lines[c].acc]

\* After shutdownPjsip nothing is left registered, called or kept, and nothing
\* comes back, whatever handlers and tasks were under way.
ReleasedForGood ==
  released =>
    /\ Live = {}
    /\ \A c \in CallIds : lines[c] = NoCall /\ activeCalls[c] = NoReq
    /\ \A i \in AccountIds : accounts[i] = NoReq

\* A handler that called into Manager gives an answer, even if its task is
\* dropped by a shutdown, if the worker thread never registered, or if another
\* request deletes its account before the registrar replies.
EveryRequestAnswered ==
  \A r \in Requests : pc[r] = "submit" ~> pc[r] = "done" \/ ~Up

\* A shutdown releases PJSIP, whatever the worker is doing when it comes.
ShutdownReleases ==
  phase = "closing" ~> released \/ worker = "failed" \/ ~Up

\* Nobody waits for ever: not a client for its answer, not the process for the
\* end of Manager::shutdown.
EveryWaitEnds ==
  /\ EveryRequestAnswered
  /\ ShutdownReleases

-----------------------------------------------------------------------------
(* What the repository says and the code does not do.                      *)

\* A call of an account reaches an agent: the process never follows an empty
\* agent pointer (test_server.py makes a call from an account without agent;
\* README.md connects every call with an agent).
CallsHaveAgent == fault # "null_agent"
=============================================================================
